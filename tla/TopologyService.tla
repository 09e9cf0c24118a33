---------------------------- MODULE TopologyService ----------------------------
(***************************************************************************)
(* Topology scans of one server, the cache they fill and the history they  *)
(* are recorded in (src/app/src/main/services/deployments/TopologyService.ts, *)
(* collector.ts), with what reaches them from the connection, from the     *)
(* operations that invalidate the cache and from the removal of a profile. *)
(*                                                                         *)
(* A scan reads the sections of the topology one command after another;    *)
(* any number of scans run at once.  A section that cannot be read is      *)
(* collected as empty.  The diff of two snapshots compares their sections  *)
(* (a restarted process alone is no difference), so a snapshot is its id,  *)
(* the time its scan started, and what it saw of each section.  Two scans  *)
(* are taken to start in different milliseconds.                           *)
(*                                                                         *)
(* The cap of the history and its file are those of TopologyHistoryStore.  *)
(***************************************************************************)
EXTENDS Naturals, Sequences, SequencesExt

CONSTANTS
    Scan,        \* slots for calls that scan
    Sections,    \* number of sections the collector reads, in order
    None,        \* no cache entry
    MaxScans,    \* bound: scans started
    MaxVersion   \* bound: versions of a section on the server

ASSUME BoundAssumption ==
    /\ Sections \in Nat \ {0} /\ MaxScans \in Nat /\ MaxVersion \in Nat \ {0}

VARIABLES
    world,       \* version of each section on the server
    link,        \* "gone" from the manager's map, "up", "down", or "closing" for good
    profile,     \* "kept", "removing" (profiles.json first), "removed", or "unpurged"
    clock,       \* counts the moments at which scans started
    scan,        \* what each slot is doing
    cache,       \* cache entry: a snapshot and whether its TTL still runs
    history,     \* topologyHistoryStore: snapshots, oldest first
    operation    \* (history variable) when the cache was last invalidated, and
                 \* the versions on the server then

vars == <<world, link, profile, clock, scan, cache, history, operation>>

Section == 1..Sections
Unread == 0
Seen == [Section -> 0..MaxVersion]
Snapshot == [at : Nat, seen : Seen]
Entry == [at : Nat, seen : Seen, by : {"scan", "tag"}]
Purpose == {"show", "tag"}

ASSUME NoneAssumption == None \notin [snap : Snapshot, fresh : BOOLEAN]

\* next: the section read next; "saving": recordHistory awaits its write.
ScanRecord == [phase : {"idle", "reading", "saving"}, purpose : Purpose,
               next : Nat, snap : Snapshot]

Started(purpose, moment) ==
    [phase |-> "reading", purpose |-> purpose, next |-> 1,
     snap |-> [at |-> moment, seen |-> [s \in Section |-> Unread]]]
Idle == [Started("show", 0) EXCEPT !.phase = "idle"]

\* The collector takes the next section for seen as v.
Learns(r, v) ==
    [r EXCEPT !.next = @ + 1,
              !.snap = [at |-> r.snap.at, seen |-> [r.snap.seen EXCEPT ![r.next] = v]]]

(***************************************************************************)
(* record and recordHistory.                                               *)
(***************************************************************************)
\* (mutant) The snapshot is compared with the cached one.
ChangedSinceCached(h, snap) == cache = None \/ cache.snap.seen # snap.seen

\* (mutant) The baseline is the oldest entry.
ChangedSinceFirst(h, snap) == h = <<>> \/ Head(h).seen # snap.seen

Changed(h, snap) == h = <<>> \/ Last(h).seen # snap.seen

Pushed(h, snap, by) ==
    IF \E k \in DOMAIN h : h[k].at = snap.at
    THEN h
    ELSE Append(h, [at |-> snap.at, seen |-> snap.seen, by |-> by])

Recorded(h, snap) == IF Changed(h, snap) THEN Pushed(h, snap, "scan") ELSE h

(***************************************************************************)
(* scan and getSnapshot.                                                   *)
(***************************************************************************)
CacheHit == cache # None /\ cache.fresh

StartScan(k, purpose) ==
    /\ scan[k].phase = "idle" /\ clock < MaxScans
    /\ link # "gone"
    /\ clock' = clock + 1
    /\ scan' = [scan EXCEPT ![k] = Started(purpose, clock')]
    /\ UNCHANGED <<world, link, profile, cache, history, operation>>

\* deployments:scan, and getSnapshot when nothing fresh is cached.
ScanForUser(k) == StartScan(k, "show")
ScanForTag(k) == ~CacheHit /\ StartScan(k, "tag")

\* (mutant) A section is taken from the cached snapshot when there is one.
ReadCached(k) ==
    /\ scan[k].phase = "reading" /\ scan[k].next \in Section
    /\ \E v \in {Unread, IF cache = None THEN world[scan[k].next]
                                         ELSE cache.snap.seen[scan[k].next]} :
        scan' = [scan EXCEPT ![k] = Learns(scan[k], v)]
    /\ UNCHANGED <<world, link, profile, clock, cache, history, operation>>

\* One phase of the collector: what its commands print, or nothing and a warning.
ReadSection(k) ==
    /\ scan[k].phase = "reading" /\ scan[k].next \in Section
    /\ \E v \in {Unread} \cup (IF link = "up" THEN {world[scan[k].next]} ELSE {}) :
        scan' = [scan EXCEPT ![k] = Learns(scan[k], v)]
    /\ UNCHANGED <<world, link, profile, clock, cache, history, operation>>

\* (mutant) The entry is cached without its time.
CacheWithoutTime(snap) == cache' = snap

CacheSnapshot(snap) == cache' = [snap |-> snap, fresh |-> TRUE]

\* The snapshot is cached, compared and pushed in one go.  When nothing is pushed
\* there is no write to wait for, and tagCurrent goes on at once.
FinishScan(k) ==
    LET snap == scan[k].snap
        h == Recorded(history, snap)
    IN  /\ scan[k].phase = "reading" /\ scan[k].next > Sections
        /\ CacheSnapshot(snap)
        /\ IF Changed(history, snap)
           THEN /\ history' = h
                /\ scan' = [scan EXCEPT ![k].phase = "saving"]
           ELSE /\ history' = IF scan[k].purpose = "tag" THEN Pushed(h, snap, "tag") ELSE h
                /\ scan' = [scan EXCEPT ![k] = Idle]
        /\ UNCHANGED <<world, link, profile, clock, operation>>

\* The write is done: tagCurrent records its snapshot (again).
SavedScan(k) ==
    /\ scan[k].phase = "saving"
    /\ history' = IF scan[k].purpose = "tag"
                  THEN Pushed(history, scan[k].snap, "tag")
                  ELSE history
    /\ scan' = [scan EXCEPT ![k] = Idle]
    /\ UNCHANGED <<world, link, profile, clock, cache, operation>>

\* The write failed: the call is rejected, what memory holds stays.
UnsavedScan(k) ==
    /\ scan[k].phase = "saving"
    /\ scan' = [scan EXCEPT ![k] = Idle]
    /\ UNCHANGED <<world, link, profile, clock, cache, history, operation>>

\* tagCurrent of a cached snapshot.
TagCached ==
    /\ CacheHit
    /\ history' = Pushed(history, cache.snap, "tag")
    /\ UNCHANGED <<world, link, profile, clock, scan, cache, operation>>

CacheExpires ==
    /\ CacheHit
    /\ cache' = [cache EXCEPT !.fresh = FALSE]
    /\ UNCHANGED <<world, link, profile, clock, scan, history, operation>>

(***************************************************************************)
(* Around it: operations on the server, the connection, the profile.       *)
(***************************************************************************)
WorldChanges(s) ==
    /\ world[s] < MaxVersion
    /\ world' = [world EXCEPT ![s] = @ + 1]
    /\ UNCHANGED <<link, profile, clock, scan, cache, history, operation>>

\* invalidate(): a container, unit or nginx operation has been carried out.
Invalidate ==
    /\ link = "up"
    /\ cache' = None
    /\ operation' = [at |-> clock, seen |-> world]
    /\ UNCHANGED <<world, link, profile, clock, scan, history>>

Connect ==
    /\ link = "down" \/ (link = "gone" /\ profile = "kept")
    /\ link' = "up"
    /\ UNCHANGED <<world, profile, clock, scan, cache, history, operation>>

\* connectionLost runs the teardown hooks; the object stays in the map.
Lose ==
    /\ link \in {"up", "down"}
    /\ link' = "down"
    /\ cache' = None
    /\ UNCHANGED <<world, profile, clock, scan, history, operation>>

\* ConnectionManager.disconnect: teardown hooks first, then the clients close.
BeginDisconnect ==
    /\ link \in {"up", "down"}
    /\ link' = "closing"
    /\ cache' = None
    /\ UNCHANGED <<world, profile, clock, scan, history, operation>>

EndDisconnect ==
    /\ link = "closing"
    /\ link' = "gone"
    /\ UNCHANGED <<world, profile, clock, scan, cache, history, operation>>

\* profiles:remove: the profile goes first, then its history.
RemoveProfile ==
    /\ profile = "kept"
    /\ profile' = "removing"
    /\ UNCHANGED <<world, link, clock, scan, cache, history, operation>>

PurgeHistory ==
    /\ profile = "removing"
    /\ profile' = "removed"
    /\ history' = <<>>
    /\ UNCHANGED <<world, link, clock, scan, cache, operation>>

\* Writing profiles.json or the secrets failed: the handler stops there.
RemoveProfileFails ==
    /\ profile = "removing"
    /\ profile' = "unpurged"
    /\ UNCHANGED <<world, link, clock, scan, cache, history, operation>>

-----------------------------------------------------------------------------
Init ==
    /\ world = [s \in Section |-> 1]
    /\ link = "up" /\ profile = "kept"
    /\ clock = 0
    /\ scan = [k \in Scan |-> Idle]
    /\ cache = None /\ history = <<>>
    /\ operation = [at |-> 0, seen |-> [s \in Section |-> Unread]]

Next ==
    \/ \E k \in Scan :
        \/ ScanForUser(k) \/ ScanForTag(k) \/ ReadSection(k) \/ FinishScan(k)
        \/ SavedScan(k) \/ UnsavedScan(k)
    \/ TagCached \/ CacheExpires
    \/ \E s \in Section : WorldChanges(s)
    \/ Invalidate
    \/ Connect \/ Lose \/ BeginDisconnect \/ EndDisconnect
    \/ RemoveProfile \/ PurgeHistory \/ RemoveProfileFails

Spec == Init /\ [][Next]_vars

-----------------------------------------------------------------------------
(***************************************************************************)
(* Properties.                                                             *)
(***************************************************************************)
TypeOK ==
    /\ world \in [Section -> 1..MaxVersion]
    /\ link \in {"gone", "up", "down", "closing"}
    /\ profile \in {"kept", "removing", "removed", "unpurged"}
    /\ clock \in Nat
    /\ scan \in [Scan -> ScanRecord]
    /\ cache \in {None} \cup [snap : Snapshot, fresh : BOOLEAN]
    /\ history \in Seq(Entry)
    /\ operation \in Snapshot

\* "Structural changes always trigger one": what the cache shows is what the last
\* entry of the history says, however scans and tag calls overlap.
HistoryHoldsCached ==
    profile = "kept" /\ cache # None =>
        /\ history # <<>>
        /\ Last(history).seen = cache.snap.seen

\* "Only when the scan produced a meaningful change": a scan never records what the
\* entry before it already says, although its baseline may be another scan's.
ScansRecordChanges ==
    \A k \in 2..Len(history) :
        history[k].by = "scan" => history[k].seen # history[k - 1].seen

\* An operation of the app is seen by every scan that started after it, whatever
\* scans were under way when it was carried out.  (Versions only grow.)
ScansSeeOperations ==
    \A e \in ToSet(history) \cup (IF cache = None THEN {} ELSE {cache.snap}) :
        e.at > operation.at =>
            \A s \in Section : e.seen[s] # Unread => e.seen[s] >= operation.seen[s]
===============================================================================
