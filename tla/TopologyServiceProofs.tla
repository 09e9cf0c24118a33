------------------------- MODULE TopologyServiceProofs -------------------------
(***************************************************************************)
(* Safety of the scans, their cache and their history for any number of    *)
(* slots, sections, scans and versions.  The strengthening says that a     *)
(* scan is known by the moment it started: no other scan, no entry and no  *)
(* cached snapshot has the moment of one that still reads (TimesAreOwn);   *)
(* that what a scan under way has recorded stays recorded as long as the   *)
(* profile does (SavingIsRecorded); and that the versions on the server    *)
(* only grow, so what a scan has read so far is as new as the last         *)
(* operation before it (ScansAreRecent).                                   *)
(***************************************************************************)
EXTENDS TopologyService, SequenceTheorems, TLAPS

Active(k) == scan[k].phase # "idle"

TimesAreOwn ==
    /\ \A k \in Scan : Active(k) =>
        /\ scan[k].snap.at <= clock
        /\ \A l \in Scan \ {k} : Active(l) => scan[l].snap.at # scan[k].snap.at
    /\ \A k \in Scan : scan[k].phase = "reading" =>
        /\ \A i \in DOMAIN history : history[i].at # scan[k].snap.at
        /\ cache # None => cache.snap.at # scan[k].snap.at
    /\ \A i \in DOMAIN history : history[i].at <= clock
    /\ cache # None => cache.snap.at <= clock

SavingIsRecorded ==
    profile # "removed" =>
        \A k \in Scan : scan[k].phase = "saving" =>
            \E i \in DOMAIN history : history[i].at = scan[k].snap.at

\* A snapshot that started after the last operation saw what it left, or nothing.
Recent(snap) ==
    snap.at > operation.at =>
        \A s \in Section : snap.seen[s] # Unread => snap.seen[s] >= operation.seen[s]

ScansAreRecent ==
    /\ \A s \in Section : operation.seen[s] <= world[s]
    /\ \A k \in Scan : Active(k) => Recent(scan[k].snap)
    /\ \A i \in DOMAIN history : Recent(history[i])
    /\ cache # None => Recent(cache.snap)

IndInv ==
    /\ TypeOK
    /\ TimesAreOwn
    /\ SavingIsRecorded
    /\ ScansAreRecent
    /\ HistoryHoldsCached
    /\ ScansRecordChanges

-----------------------------------------------------------------------------
(***************************************************************************)
(* What a push does to the history.                                        *)
(***************************************************************************)
\* The snapshot is there already, or becomes the last entry.
IsPushed(p, h, snap, by) ==
    \/ p = h /\ \E i \in DOMAIN h : h[i].at = snap.at
    \/ /\ Len(p) = Len(h) + 1
       /\ \A i \in 1..Len(h) : p[i] = h[i]
       /\ p[Len(p)].at = snap.at /\ p[Len(p)].seen = snap.seen /\ p[Len(p)].by = by

LEMMA PushedFacts ==
    ASSUME NEW h \in Seq(Entry), NEW snap \in Snapshot, NEW by \in {"scan", "tag"}
    PROVE  /\ Pushed(h, snap, by) \in Seq(Entry)
           /\ IsPushed(Pushed(h, snap, by), h, snap, by)
<1>1. CASE \E k \in DOMAIN h : h[k].at = snap.at
  BY <1>1 DEF Pushed, IsPushed
<1>2. CASE ~ \E k \in DOMAIN h : h[k].at = snap.at
  <2> DEFINE e == [at |-> snap.at, seen |-> snap.seen, by |-> by]
  <2>1. e \in Entry /\ e.at = snap.at /\ e.seen = snap.seen /\ e.by = by
    BY DEF Entry, Snapshot
  <2>2. Pushed(h, snap, by) = Append(h, e)
    BY <1>2 DEF Pushed
  <2> HIDE DEF e
  <2>3. /\ Append(h, e) \in Seq(Entry) /\ Len(Append(h, e)) = Len(h) + 1
        /\ \A i \in 1..Len(h) : Append(h, e)[i] = h[i]
        /\ Append(h, e)[Len(Append(h, e))] = e
    BY <2>1
  <2> QED
    BY <2>1, <2>2, <2>3 DEF IsPushed
<1> QED
  BY <1>1, <1>2

\* Every entry of the longer history is an old one or the snapshot, every old one is
\* still there, and the snapshot is in it.
LEMMA PushKeeps ==
    ASSUME NEW h \in Seq(Entry), NEW p \in Seq(Entry), NEW snap \in Snapshot, NEW by,
           IsPushed(p, h, snap, by)
    PROVE  /\ p # <<>>
           /\ \E i \in DOMAIN p : p[i].at = snap.at
           /\ \A i \in DOMAIN h : i \in DOMAIN p /\ p[i] = h[i]
           /\ \A i \in DOMAIN p : \/ i \in DOMAIN h /\ p[i] = h[i]
                                  \/ p[i].at = snap.at /\ p[i].seen = snap.seen
<1>1. Len(h) \in Nat /\ DOMAIN h = 1..Len(h) /\ Len(p) \in Nat /\ DOMAIN p = 1..Len(p)
  OBVIOUS
<1>2. CASE p = h /\ \E i \in DOMAIN h : h[i].at = snap.at
  BY <1>1, <1>2
<1>3. CASE /\ Len(p) = Len(h) + 1
           /\ \A i \in 1..Len(h) : p[i] = h[i]
           /\ p[Len(p)].at = snap.at /\ p[Len(p)].seen = snap.seen /\ p[Len(p)].by = by
  BY <1>1, <1>3
<1> QED
  BY <1>2, <1>3 DEF IsPushed

-----------------------------------------------------------------------------
(***************************************************************************)
(* Steps that start, read, record.                                         *)
(***************************************************************************)
\* A push of a recent snapshot that no reading scan will push.
LEMMA PushStep ==
    ASSUME IndInv, NEW snap \in Snapshot, NEW by \in {"scan", "tag"},
           history' = Pushed(history, snap, by),
           UNCHANGED <<clock, profile, operation, world>>,
           snap.at <= clock, Recent(snap)
    PROVE  /\ history' \in Seq(Entry) /\ history' # <<>>
           /\ \E i \in DOMAIN history' : history'[i].at = snap.at
           /\ \A i \in DOMAIN history' : history'[i].at <= clock
           /\ \A i \in DOMAIN history' : Recent(history[i])'
           /\ \A i \in DOMAIN history : i \in DOMAIN history' /\ history'[i] = history[i]
           /\ \A i \in DOMAIN history' : \/ i \in DOMAIN history /\ history'[i] = history[i]
                                         \/ history'[i].at = snap.at
           /\ (by = "scan" => Changed(history, snap)) => ScansRecordChanges'
           /\ \/ \A i \in DOMAIN history : history[i].at # snap.at
              \/ history # <<>> /\ Last(history).seen = snap.seen
              => Last(history').seen = snap.seen
<1>1. history \in Seq(Entry)
  BY DEF IndInv, TypeOK
<1>2. history' \in Seq(Entry) /\ IsPushed(history', history, snap, by)
  BY <1>1, PushedFacts
<1>3. /\ history' # <<>>
      /\ \E i \in DOMAIN history' : history'[i].at = snap.at
      /\ \A i \in DOMAIN history : i \in DOMAIN history' /\ history'[i] = history[i]
      /\ \A i \in DOMAIN history' : \/ i \in DOMAIN history /\ history'[i] = history[i]
                                    \/ history'[i].at = snap.at /\ history'[i].seen = snap.seen
  BY <1>1, <1>2, PushKeeps
<1>4. \A i \in DOMAIN history' : history'[i].at <= clock
  BY <1>3 DEF IndInv, TimesAreOwn
<1>5. \A i \in DOMAIN history' : Recent(history[i])'
  BY <1>3 DEF IndInv, ScansAreRecent, Recent
<1>6. ASSUME by = "scan" => Changed(history, snap) PROVE ScansRecordChanges'
  <2>1. CASE history' = history
    BY <2>1 DEF IndInv, ScansRecordChanges
  <2>2. CASE /\ Len(history') = Len(history) + 1
             /\ \A i \in 1..Len(history) : history'[i] = history[i]
             /\ history'[Len(history')].seen = snap.seen
             /\ history'[Len(history')].by = by
    <3>1. Len(history) \in Nat /\ history = <<>> <=> Len(history) = 0
      BY <1>1
    <3> SUFFICES ASSUME NEW k \in 2..Len(history'), history'[k].by = "scan"
                 PROVE  history'[k].seen # history'[k - 1].seen
      BY DEF ScansRecordChanges
    <3>2. CASE k \in 2..Len(history)
      <4>1. k - 1 \in 1..Len(history) /\ k \in 1..Len(history)
        BY <3>1, <3>2
      <4> QED
        BY <2>2, <3>2, <4>1 DEF IndInv, ScansRecordChanges
    <3>3. CASE k = Len(history')
      <4>1. k - 1 = Len(history) /\ k - 1 \in 1..Len(history) /\ history # <<>>
        BY <2>2, <3>1, <3>3
      <4>2. by = "scan" /\ history'[k].seen = snap.seen /\ history'[k - 1] = history[Len(history)]
        BY <2>2, <3>3, <4>1
      <4> QED
        BY <1>6, <4>1, <4>2 DEF Changed, Last
    <3> QED
      BY <2>2, <3>1, <3>2, <3>3
  <2> QED
    BY <1>2, <2>1, <2>2 DEF IsPushed
<1>7. ASSUME \/ \A i \in DOMAIN history : history[i].at # snap.at
             \/ history # <<>> /\ Last(history).seen = snap.seen
      PROVE  Last(history').seen = snap.seen
  BY <1>2, <1>7 DEF IsPushed, Last
<1> QED
  BY <1>2, <1>3, <1>4, <1>5, <1>6, <1>7

\* What the moments of a snapshot and of a section are.
LEMMA Snapshots ==
    ASSUME TypeOK
    PROVE  /\ \A k \in Scan : scan[k].snap \in Snapshot /\ scan[k].snap.at \in Nat
           /\ cache # None => cache.snap \in Snapshot /\ cache.snap.at \in Nat
           /\ \A i \in DOMAIN history : history[i].at \in Nat /\ history[i].seen \in Seen
           /\ operation.at \in Nat /\ clock \in Nat
<1>1. \A i \in DOMAIN history : history[i] \in Entry
  BY DEF TypeOK
<1>2. cache # None => cache \in [snap : Snapshot, fresh : BOOLEAN]
  BY DEF TypeOK
<1> QED
  BY <1>1, <1>2 DEF TypeOK, ScanRecord, Snapshot, Entry

LEMMA IdleFacts == Idle \in ScanRecord /\ Idle.phase = "idle"
<1>1. Started("show", 0) \in ScanRecord
  BY BoundAssumption DEF Started, ScanRecord, Snapshot, Seen, Purpose, Unread
<1> QED
  BY <1>1 DEF Idle, ScanRecord

LEMMA StartScanKeeps ==
    ASSUME IndInv, NEW k \in Scan, NEW purpose \in Purpose, StartScan(k, purpose)
    PROVE  IndInv'
<1> USE DEF StartScan, IndInv
<1> DEFINE new == Started(purpose, clock')
<1>1. /\ scan' = [scan EXCEPT ![k] = new] /\ clock \in Nat /\ clock' = clock + 1
      /\ scan \in [Scan -> ScanRecord]
  BY DEF TypeOK
<1>2. /\ new.phase = "reading" /\ new.snap.at = clock' /\ new \in ScanRecord
      /\ \A s \in Section : new.snap.seen[s] = Unread
  BY <1>1, BoundAssumption DEF Started, ScanRecord, Snapshot, Seen, Unread
<1> HIDE DEF new
<1>3. \A l \in Scan : scan'[l] = IF l = k THEN new ELSE scan[l]
  BY <1>1
<1>4. TypeOK'
  BY <1>1, <1>2 DEF TypeOK
<1>5. TimesAreOwn'
  <2>1. \A l \in Scan : Active(l) => scan[l].snap.at < clock'
    BY <1>1, Snapshots DEF TimesAreOwn
  <2>2. \A i \in DOMAIN history : history[i].at < clock'
    BY <1>1, Snapshots DEF TimesAreOwn
  <2>3. cache # None => cache.snap.at < clock'
    BY <1>1, Snapshots DEF TimesAreOwn
  <2> QED
    BY <1>1, <1>2, <1>3, <2>1, <2>2, <2>3, Snapshots DEF TimesAreOwn, Active
<1>6. SavingIsRecorded'
  BY <1>2, <1>3 DEF SavingIsRecorded
<1>7. ScansAreRecent'
  <2>1. Recent(scan[k].snap)'
    BY <1>2, <1>3 DEF Recent
  <2> QED
    BY <1>3, <2>1 DEF ScansAreRecent, Recent, Active
<1>8. HistoryHoldsCached' /\ ScansRecordChanges'
  BY DEF HistoryHoldsCached, ScansRecordChanges
<1> QED
  BY <1>4, <1>5, <1>6, <1>7, <1>8

\* Learning a section changes nothing but what was seen of it.
LEMMA LearnsFacts ==
    ASSUME NEW r \in ScanRecord, r.next \in Section, NEW v \in 0..MaxVersion
    PROVE  /\ Learns(r, v) \in ScanRecord
           /\ Learns(r, v).phase = r.phase
           /\ Learns(r, v).snap.at = r.snap.at
           /\ Learns(r, v).snap.seen = [r.snap.seen EXCEPT ![r.next] = v]
<1> DEFINE seen == [r.snap.seen EXCEPT ![r.next] = v]
           snap == [at |-> r.snap.at, seen |-> seen]
           next == r.next + 1
<1>1. r.snap.at \in Nat /\ seen \in Seen /\ next \in Nat
  BY DEF ScanRecord, Snapshot, Seen
<1> HIDE DEF seen, next
<1>2. snap \in Snapshot /\ snap.at = r.snap.at /\ snap.seen = seen
  BY <1>1 DEF Snapshot
<1>3. Learns(r, v) = [r EXCEPT !.next = next, !.snap = snap]
  BY DEF Learns, seen, next
<1> HIDE DEF snap
<1>4. /\ Learns(r, v) \in ScanRecord /\ Learns(r, v).phase = r.phase
      /\ Learns(r, v).snap = snap
  BY <1>1, <1>2, <1>3 DEF ScanRecord
<1> QED
  BY <1>2, <1>4 DEF seen

LEMMA ReadSectionKeeps ==
    ASSUME IndInv, NEW k \in Scan, ReadSection(k)
    PROVE  IndInv'
<1> USE DEF IndInv
<1> DEFINE r == scan[k]
           s == r.next
<1>1. PICK v \in {Unread} \cup (IF link = "up" THEN {world[s]} ELSE {}) :
          scan' = [scan EXCEPT ![k] = Learns(r, v)]
  BY DEF ReadSection
<1>2. /\ r.phase = "reading" /\ s \in Section /\ r \in ScanRecord
      /\ UNCHANGED <<world, link, profile, clock, cache, history, operation>>
  BY DEF ReadSection, TypeOK
<1>3. v \in 0..MaxVersion /\ (v # Unread => v = world[s])
  BY <1>1, <1>2, BoundAssumption DEF TypeOK, Unread
<1>4. /\ scan'[k].phase = "reading" /\ scan'[k].snap.at = r.snap.at
      /\ scan'[k].snap.seen = [r.snap.seen EXCEPT ![s] = v]
      /\ scan'[k] \in ScanRecord
  <2>1. scan'[k] = Learns(r, v)
    BY <1>1 DEF TypeOK
  <2> QED
    BY <1>2, <1>3, <2>1, LearnsFacts
<1>5. \A l \in Scan : l # k => scan'[l] = scan[l]
  BY <1>1 DEF TypeOK
<1>6. scan' \in [Scan -> ScanRecord]
  BY <1>1, <1>2, <1>4, <1>5 DEF TypeOK
<1> HIDE DEF r, s
<1>7. TypeOK'
  BY <1>2, <1>6 DEF TypeOK
<1>8. TimesAreOwn'
  BY <1>2, <1>4, <1>5 DEF TimesAreOwn, Active, r
<1>9. SavingIsRecorded'
  BY <1>2, <1>4, <1>5 DEF SavingIsRecorded
<1>10. ScansAreRecent'
  <2>1. Recent(scan[k].snap)'
    <3> SUFFICES ASSUME scan'[k].snap.at > operation.at, NEW t \in Section,
                        scan'[k].snap.seen[t] # Unread
                 PROVE  scan'[k].snap.seen[t] >= operation.seen[t]
      BY <1>2 DEF Recent
    <3>1. Recent(r.snap) /\ r.snap.seen \in Seen
      BY <1>2 DEF ScansAreRecent, Active, r, ScanRecord, Snapshot
    <3>2. CASE t = s
      <4>1. scan'[k].snap.seen[t] = v
        BY <1>4, <3>1, <3>2 DEF Seen
      <4>2. v = world[t] /\ operation.seen[t] <= world[t]
        BY <1>3, <3>2, <4>1 DEF ScansAreRecent
      <4>3. world[t] \in Nat /\ operation.seen[t] \in Nat
        BY DEF TypeOK, Snapshot, Seen
      <4> QED
        BY <4>1, <4>2, <4>3
    <3>3. CASE t # s
      BY <1>4, <3>1, <3>3 DEF Recent, Seen
    <3> QED
      BY <3>2, <3>3
  <2> QED
    BY <1>2, <1>5, <2>1 DEF ScansAreRecent, Recent, Active
<1>11. HistoryHoldsCached' /\ ScansRecordChanges'
  BY <1>2 DEF HistoryHoldsCached, ScansRecordChanges
<1> QED
  BY <1>7, <1>8, <1>9, <1>10, <1>11

\* A slot that is not reading becomes free or keeps its snapshot; nothing else moves.
LEMMA FinishScanKeeps ==
    ASSUME IndInv, NEW k \in Scan, FinishScan(k)
    PROVE  IndInv'
<1> USE DEF IndInv
<1> DEFINE snap == scan[k].snap
<1>1. /\ scan[k].phase = "reading" /\ snap \in Snapshot /\ snap.at <= clock /\ Recent(snap)
      /\ \A i \in DOMAIN history : history[i].at # snap.at
  BY Snapshots DEF FinishScan, TimesAreOwn, ScansAreRecent, Active
<1>2. /\ cache' = [snap |-> snap, fresh |-> TRUE]
      /\ UNCHANGED <<world, link, profile, clock, operation>>
  BY DEF FinishScan, CacheSnapshot
<1>3. /\ cache' \in [snap : Snapshot, fresh : BOOLEAN] /\ cache' # None
      /\ cache'.snap = snap
  <2> HIDE DEF snap, IndInv
  <2>1. cache' \in [snap : Snapshot, fresh : BOOLEAN]
    BY <1>1, <1>2
  <2> QED
    BY <1>2, <2>1, NoneAssumption
<1>4. /\ history' \in Seq(Entry) /\ history' # <<>> /\ Last(history').seen = snap.seen
      /\ \A i \in DOMAIN history' : history'[i].at <= clock
      /\ \A i \in DOMAIN history' : Recent(history[i])'
      /\ \A i \in DOMAIN history : i \in DOMAIN history' /\ history'[i] = history[i]
      /\ \A i \in DOMAIN history' : \/ i \in DOMAIN history /\ history'[i] = history[i]
                                    \/ history'[i].at = snap.at
      /\ ScansRecordChanges'
      /\ \/ /\ scan' = [scan EXCEPT ![k].phase = "saving"]
            /\ \E i \in DOMAIN history' : history'[i].at = snap.at
         \/ scan' = [scan EXCEPT ![k] = Idle]
  <2>1. CASE Changed(history, snap)
    <3>1. /\ history' = Pushed(history, snap, "scan")
          /\ scan' = [scan EXCEPT ![k].phase = "saving"]
      BY <2>1 DEF FinishScan, Recorded
    <3> HIDE DEF snap, IndInv
    <3> QED
      BY <1>1, <1>2, <2>1, <3>1, PushStep
  <2>2. CASE ~Changed(history, snap) /\ scan[k].purpose = "tag"
    <3>1. /\ history' = Pushed(history, snap, "tag")
          /\ scan' = [scan EXCEPT ![k] = Idle]
      BY <2>2 DEF FinishScan, Recorded
    <3> HIDE DEF snap, IndInv
    <3> QED
      BY <1>1, <1>2, <2>2, <3>1, PushStep
  <2>3. CASE ~Changed(history, snap) /\ scan[k].purpose # "tag"
    <3>1. history' = history /\ scan' = [scan EXCEPT ![k] = Idle]
      BY <2>3 DEF FinishScan, Recorded
    <3>2. history # <<>> /\ Last(history).seen = snap.seen
      BY <2>3 DEF Changed
    <3> QED
      BY <1>2, <3>1, <3>2 DEF TypeOK, TimesAreOwn, ScansAreRecent, Recent, ScansRecordChanges
  <2> QED
    BY <2>1, <2>2, <2>3
<1>5. /\ scan' \in [Scan -> ScanRecord]
      /\ \A l \in Scan : l # k => scan'[l] = scan[l]
      /\ \/ scan'[k].phase = "idle"
         \/ /\ scan'[k].phase = "saving" /\ scan'[k].snap = snap
            /\ \E i \in DOMAIN history' : history'[i].at = snap.at
  <2>1. CASE /\ scan' = [scan EXCEPT ![k].phase = "saving"]
             /\ \E i \in DOMAIN history' : history'[i].at = snap.at
    BY <2>1 DEF TypeOK, ScanRecord
  <2>2. CASE scan' = [scan EXCEPT ![k] = Idle]
    BY <2>2, IdleFacts DEF TypeOK
  <2> QED
    BY <1>4, <2>1, <2>2
<1> HIDE DEF snap
<1>6. TypeOK'
  BY <1>2, <1>3, <1>4, <1>5 DEF TypeOK
<1>7. TimesAreOwn'
  <2>1. \A l \in Scan : scan'[l].phase # "idle" =>
            scan[l].phase # "idle" /\ scan'[l].snap = scan[l].snap
    BY <1>1, <1>5 DEF snap
  <2>2. \A l \in Scan : scan'[l].phase = "reading" =>
            /\ scan[l].phase = "reading" /\ scan'[l].snap = scan[l].snap
            /\ scan[l].snap.at # snap.at
    BY <1>1, <1>5 DEF TimesAreOwn, Active, snap
  <2> QED
    BY <1>1, <1>2, <1>3, <1>4, <2>1, <2>2 DEF TimesAreOwn, Active
<1>8. SavingIsRecorded'
  BY <1>2, <1>4, <1>5 DEF SavingIsRecorded
<1>9. ScansAreRecent'
  BY <1>1, <1>2, <1>3, <1>4, <1>5 DEF ScansAreRecent, Recent, Active
<1>10. HistoryHoldsCached'
  BY <1>3, <1>4 DEF HistoryHoldsCached
<1> QED
  BY <1>4, <1>6, <1>7, <1>8, <1>9, <1>10

\* A slot is given back, the history changes by a push of its snapshot or not at all.
LEMMA SavedScanKeeps ==
    ASSUME IndInv, NEW k \in Scan, SavedScan(k) \/ UnsavedScan(k)
    PROVE  IndInv'
<1> USE DEF IndInv
<1> DEFINE snap == scan[k].snap
<1>1. /\ scan[k].phase = "saving" /\ scan' = [scan EXCEPT ![k] = Idle]
      /\ UNCHANGED <<world, link, profile, clock, cache, operation>>
      /\ snap \in Snapshot /\ snap.at <= clock /\ Recent(snap)
  BY Snapshots DEF SavedScan, UnsavedScan, TimesAreOwn, ScansAreRecent, Active
<1>2. /\ scan' \in [Scan -> ScanRecord] /\ scan'[k].phase = "idle"
      /\ \A l \in Scan : l # k => scan'[l] = scan[l]
  BY <1>1, IdleFacts DEF TypeOK
<1>3. CASE history' = history
  <2>1. TypeOK' /\ HistoryHoldsCached' /\ ScansRecordChanges'
    BY <1>1, <1>2, <1>3 DEF TypeOK, HistoryHoldsCached, ScansRecordChanges
  <2>2. TimesAreOwn' /\ SavingIsRecorded'
    BY <1>1, <1>2, <1>3 DEF TimesAreOwn, SavingIsRecorded, Active
  <2>3. ScansAreRecent'
    BY <1>1, <1>2, <1>3 DEF ScansAreRecent, Recent, Active
  <2> QED
    BY <2>1, <2>2, <2>3
<1>4. CASE history' = Pushed(history, snap, "tag") /\ history' # history
  <2>1. profile = "removed"
    BY <1>1, <1>4 DEF SavingIsRecorded, Pushed
  <2>2. /\ history' \in Seq(Entry)
        /\ \A i \in DOMAIN history' : history'[i].at <= clock
        /\ \A i \in DOMAIN history' : Recent(history[i])'
        /\ \A i \in DOMAIN history' : \/ i \in DOMAIN history /\ history'[i] = history[i]
                                      \/ history'[i].at = snap.at
        /\ ScansRecordChanges'
    <3> HIDE DEF snap, IndInv
    <3> QED
      BY <1>1, <1>4, PushStep
  <2>3. TypeOK'
    BY <1>1, <1>2, <2>2 DEF TypeOK
  <2>4. TimesAreOwn'
    <3>1. \A l \in Scan : scan'[l].phase = "reading" =>
            /\ scan[l].phase = "reading" /\ scan'[l].snap = scan[l].snap
            /\ scan[l].snap.at # snap.at
      BY <1>1, <1>2 DEF TimesAreOwn, Active
    <3> HIDE DEF snap
    <3> QED
      BY <1>1, <1>2, <2>2, <3>1 DEF TimesAreOwn, Active
  <2>5. ScansAreRecent'
    BY <1>1, <1>2, <2>2 DEF ScansAreRecent, Recent, Active
  <2>6. SavingIsRecorded' /\ HistoryHoldsCached'
    BY <1>1, <2>1 DEF SavingIsRecorded, HistoryHoldsCached
  <2> QED
    BY <2>2, <2>3, <2>4, <2>5, <2>6
<1> QED
  BY <1>3, <1>4 DEF SavedScan, UnsavedScan

LEMMA TagCachedKeeps ==
    ASSUME IndInv, TagCached
    PROVE  IndInv'
<1> USE DEF IndInv
<1> DEFINE snap == cache.snap
<1>1. /\ cache # None /\ history' = Pushed(history, snap, "tag")
      /\ UNCHANGED <<world, link, profile, clock, scan, cache, operation>>
      /\ snap \in Snapshot /\ snap.at <= clock /\ Recent(snap)
  BY Snapshots DEF TagCached, CacheHit, TimesAreOwn, ScansAreRecent
<1> HIDE DEF snap
<1>2. /\ history' \in Seq(Entry) /\ history' # <<>>
      /\ \A i \in DOMAIN history' : history'[i].at <= clock
      /\ \A i \in DOMAIN history' : Recent(history[i])'
      /\ \A i \in DOMAIN history : i \in DOMAIN history' /\ history'[i] = history[i]
      /\ \A i \in DOMAIN history' : \/ i \in DOMAIN history /\ history'[i] = history[i]
                                    \/ history'[i].at = snap.at
      /\ ScansRecordChanges'
      /\ history # <<>> /\ Last(history).seen = snap.seen => Last(history').seen = snap.seen
  <2> HIDE DEF IndInv
  <2> QED
    BY <1>1, PushStep
<1>3. TypeOK'
  BY <1>1, <1>2 DEF TypeOK
<1>4. TimesAreOwn'
  BY <1>1, <1>2 DEF TimesAreOwn, Active, snap
<1>5. SavingIsRecorded'
  BY <1>1, <1>2 DEF SavingIsRecorded
<1>6. ScansAreRecent'
  BY <1>1, <1>2 DEF ScansAreRecent, Recent, Active
<1>7. HistoryHoldsCached'
  BY <1>1, <1>2 DEF HistoryHoldsCached, snap
<1> QED
  BY <1>2, <1>3, <1>4, <1>5, <1>6, <1>7

-----------------------------------------------------------------------------
(***************************************************************************)
(* Steps of the cache, of the server, of the connection and of the profile. *)
(***************************************************************************)
\* The entry is dropped or gets old, the link or the profile changes.
LEMMA AroundKeeps ==
    ASSUME IndInv,
           UNCHANGED <<world, clock, scan, history, operation>>,
           cache' = cache \/ cache' = None \/ (cache # None /\ cache' = [cache EXCEPT !.fresh = FALSE]),
           profile' = profile \/ (profile = "kept" /\ profile' = "removing")
                              \/ (profile = "removing" /\ profile' = "unpurged"),
           link' \in {"gone", "up", "down", "closing"}
    PROVE  IndInv'
<1> USE DEF IndInv
<1>1. /\ cache' \in {None} \cup [snap : Snapshot, fresh : BOOLEAN]
      /\ cache' # None => cache # None /\ cache'.snap = cache.snap
  BY NoneAssumption DEF TypeOK
<1>2. TypeOK'
  BY <1>1 DEF TypeOK
<1>3. TimesAreOwn' /\ SavingIsRecorded'
  BY <1>1 DEF TimesAreOwn, SavingIsRecorded, Active
<1>4. ScansAreRecent'
  BY <1>1 DEF ScansAreRecent, Recent, Active
<1>5. HistoryHoldsCached' /\ ScansRecordChanges'
  BY <1>1 DEF HistoryHoldsCached, ScansRecordChanges
<1> QED
  BY <1>2, <1>3, <1>4, <1>5

LEMMA WorldChangesKeeps ==
    ASSUME IndInv, NEW s \in Section, WorldChanges(s)
    PROVE  IndInv'
<1> USE DEF IndInv
<1>1. UNCHANGED <<link, profile, clock, scan, cache, history, operation>>
  BY DEF WorldChanges
<1>2. /\ world' \in [Section -> 1..MaxVersion]
      /\ \A t \in Section : world[t] <= world'[t]
  BY BoundAssumption DEF WorldChanges, TypeOK
<1>3. TypeOK' /\ TimesAreOwn' /\ SavingIsRecorded'
  BY <1>1, <1>2 DEF TypeOK, TimesAreOwn, SavingIsRecorded, Active
<1>4. \A t \in Section : operation.seen[t] <= world'[t]
  <2>1. \A t \in Section : operation.seen[t] \in Nat /\ world[t] \in Nat /\ world'[t] \in Nat
    BY <1>2 DEF TypeOK, Snapshot, Seen
  <2> QED
    BY <1>2, <2>1 DEF ScansAreRecent
<1>5. ScansAreRecent'
  BY <1>1, <1>4 DEF ScansAreRecent, Recent, Active
<1>6. HistoryHoldsCached' /\ ScansRecordChanges'
  BY <1>1 DEF HistoryHoldsCached, ScansRecordChanges
<1> QED
  BY <1>3, <1>5, <1>6

\* Everything started before the operation: nothing has to have seen it.
LEMMA InvalidateKeeps ==
    ASSUME IndInv, Invalidate
    PROVE  IndInv'
<1> USE DEF IndInv
<1>1. /\ UNCHANGED <<world, link, profile, clock, scan, history>> /\ cache' = None
      /\ operation' = [at |-> clock, seen |-> world]
  BY DEF Invalidate
<1>2. /\ operation' \in Snapshot /\ operation'.at = clock /\ operation'.seen = world
      /\ clock \in Nat
  BY <1>1, BoundAssumption DEF TypeOK, Snapshot, Seen
<1>3. TypeOK'
  BY <1>1, <1>2 DEF TypeOK
<1>4. TimesAreOwn' /\ SavingIsRecorded'
  BY <1>1 DEF TimesAreOwn, SavingIsRecorded, Active
<1>5. ScansAreRecent'
  <2>1. \A s \in Section : operation'.seen[s] <= world'[s]
    BY <1>1, <1>2 DEF TypeOK
  <2>2. \A k \in Scan : Active(k) => ~(scan[k].snap.at > clock)
    BY <1>2, Snapshots DEF TimesAreOwn
  <2>3. \A i \in DOMAIN history : ~(history[i].at > clock)
    BY <1>2, Snapshots DEF TimesAreOwn
  <2> QED
    BY <1>1, <1>2, <2>1, <2>2, <2>3 DEF ScansAreRecent, Recent, Active
<1>6. HistoryHoldsCached' /\ ScansRecordChanges'
  BY <1>1 DEF HistoryHoldsCached, ScansRecordChanges
<1> QED
  BY <1>3, <1>4, <1>5, <1>6

LEMMA PurgeHistoryKeeps ==
    ASSUME IndInv, PurgeHistory
    PROVE  IndInv'
<1> USE DEF IndInv
<1>1. /\ profile' = "removed" /\ history' = <<>>
      /\ UNCHANGED <<world, link, clock, scan, cache, operation>>
  BY DEF PurgeHistory
<1>2. history' \in Seq(Entry) /\ DOMAIN history' = {} /\ Len(history') = 0
  BY <1>1
<1>3. TypeOK'
  BY <1>1, <1>2 DEF TypeOK
<1>4. TimesAreOwn'
  BY <1>1, <1>2 DEF TimesAreOwn, Active
<1>5. SavingIsRecorded' /\ HistoryHoldsCached' /\ ScansRecordChanges'
  BY <1>1, <1>2 DEF SavingIsRecorded, HistoryHoldsCached, ScansRecordChanges
<1>6. ScansAreRecent'
  BY <1>1, <1>2 DEF ScansAreRecent, Recent, Active
<1> QED
  BY <1>3, <1>4, <1>5, <1>6

-----------------------------------------------------------------------------
(***************************************************************************)
(* The theorems.                                                           *)
(***************************************************************************)
LEMMA InitIndInv == Init => IndInv
<1> SUFFICES ASSUME Init PROVE IndInv
  OBVIOUS
<1>1. /\ world = [s \in Section |-> 1] /\ link = "up" /\ profile = "kept" /\ clock = 0
      /\ scan = [k \in Scan |-> Idle] /\ cache = None /\ history = <<>>
      /\ operation = [at |-> 0, seen |-> [s \in Section |-> Unread]]
  BY DEF Init
<1>2. /\ world \in [Section -> 1..MaxVersion] /\ scan \in [Scan -> ScanRecord]
      /\ \A k \in Scan : scan[k].phase = "idle"
      /\ history \in Seq(Entry) /\ DOMAIN history = {} /\ Len(history) = 0
  BY <1>1, IdleFacts, BoundAssumption
<1>3. operation \in Snapshot /\ \A s \in Section : operation.seen[s] = 0
  BY <1>1, BoundAssumption DEF Snapshot, Seen, Unread
<1>4. TypeOK
  BY <1>1, <1>2, <1>3 DEF TypeOK
<1>5. TimesAreOwn /\ SavingIsRecorded
  BY <1>1, <1>2 DEF TimesAreOwn, SavingIsRecorded, Active
<1>6. ScansAreRecent
  BY <1>1, <1>2, <1>3 DEF ScansAreRecent, Active
<1>7. HistoryHoldsCached /\ ScansRecordChanges
  BY <1>1, <1>2 DEF HistoryHoldsCached, ScansRecordChanges
<1> QED
  BY <1>4, <1>5, <1>6, <1>7 DEF IndInv

LEMMA NextIndInv == IndInv /\ [Next]_vars => IndInv'
<1> SUFFICES ASSUME IndInv, [Next]_vars PROVE IndInv'
  OBVIOUS
<1>0. link \in {"gone", "up", "down", "closing"}
  BY DEF IndInv, TypeOK
<1>1. ASSUME NEW k \in Scan, ScanForUser(k) \/ ScanForTag(k)
      PROVE  IndInv'
  BY <1>1, StartScanKeeps DEF ScanForUser, ScanForTag, Purpose
<1>2. ASSUME NEW k \in Scan, ReadSection(k)
      PROVE  IndInv'
  BY <1>2, ReadSectionKeeps
<1>3. ASSUME NEW k \in Scan, FinishScan(k)
      PROVE  IndInv'
  BY <1>3, FinishScanKeeps
<1>4. ASSUME NEW k \in Scan, SavedScan(k) \/ UnsavedScan(k)
      PROVE  IndInv'
  BY <1>4, SavedScanKeeps
<1>5. ASSUME NEW s \in Section, WorldChanges(s)
      PROVE  IndInv'
  BY <1>5, WorldChangesKeeps
<1>6. CASE TagCached
  BY <1>6, TagCachedKeeps
<1>7. CASE Invalidate
  BY <1>7, InvalidateKeeps
<1>8. CASE PurgeHistory
  BY <1>8, PurgeHistoryKeeps
<1>9. CASE CacheExpires
  BY <1>0, <1>9, AroundKeeps DEF CacheExpires, CacheHit
<1>10. CASE Connect
  BY <1>10, AroundKeeps DEF Connect
<1>11. CASE Lose
  BY <1>11, AroundKeeps DEF Lose
<1>12. CASE BeginDisconnect
  BY <1>12, AroundKeeps DEF BeginDisconnect
<1>13. CASE EndDisconnect
  BY <1>13, AroundKeeps DEF EndDisconnect
<1>14. CASE RemoveProfile \/ RemoveProfileFails
  BY <1>0, <1>14, AroundKeeps DEF RemoveProfile, RemoveProfileFails
<1>15. CASE UNCHANGED vars
  BY <1>0, <1>15, AroundKeeps DEF vars
<1> QED
  BY <1>1, <1>2, <1>3, <1>4, <1>5, <1>6, <1>7, <1>8, <1>9, <1>10, <1>11, <1>12, <1>13,
     <1>14, <1>15 DEF Next

THEOREM Inductive == Spec => []IndInv
  BY InitIndInv, NextIndInv, PTL DEF Spec

\* Types of the slots, of the cache, of the history and of what surrounds them.
THEOREM TypeCorrect == Spec => []TypeOK
<1>1. IndInv => TypeOK
  BY DEF IndInv
<1> QED
  BY <1>1, Inductive, PTL

\* While the profile is kept, the last entry of the history says what the cache shows,
\* however many scans and tag calls overlap (getSnapshot, scan, recordHistory).
THEOREM CachedIsRecorded == Spec => []HistoryHoldsCached
<1>1. IndInv => HistoryHoldsCached
  BY DEF IndInv
<1> QED
  BY <1>1, Inductive, PTL

\* A scan records only what differs from the entry before it, also when another scan has
\* pushed that entry since this one started.
THEOREM OnlyChangesAreRecorded == Spec => []ScansRecordChanges
<1>1. IndInv => ScansRecordChanges
  BY DEF IndInv
<1> QED
  BY <1>1, Inductive, PTL

\* What is cached or recorded by a scan that started after an operation of the app shows
\* that operation, whatever scans were under way when it was carried out (invalidate).
THEOREM OperationsAreSeen == Spec => []ScansSeeOperations
<1>1. ASSUME IndInv PROVE ScansSeeOperations
  <2> SUFFICES ASSUME NEW e \in ToSet(history) \cup (IF cache = None THEN {} ELSE {cache.snap})
               PROVE  Recent(e)
    BY DEF ScansSeeOperations, Recent
  <2>1. CASE e \in ToSet(history)
    BY <1>1, <2>1 DEF ToSet, IndInv, ScansAreRecent
  <2>2. CASE cache # None /\ e = cache.snap
    BY <1>1, <2>2 DEF IndInv, ScansAreRecent
  <2> QED
    BY <2>1, <2>2
<1> QED
  BY <1>1, Inductive, PTL
================================================================================
