---------------------- MODULE TopologyHistoryStoreProofs ----------------------
(***************************************************************************)
(* Safety of the snapshot history for any limit, any ids and tags and any  *)
(* number of queued writes.  The strengthening says of every stored array, *)
(* in memory, in the file and in each queued payload, that it is sound     *)
(* (StoresAreSound), that the last payload of the queue is what memory     *)
(* holds (LastWriteIsMemory), and that a dead process writes nothing and a *)
(* starting one only what it has just loaded (QuietStart).                          *)
(***************************************************************************)
EXTENDS TopologyHistoryStore, FiniteSetTheorems, SequenceTheorems, TLAPS

Unique(h) == \A e, f \in h : e.id = f.id => e = f

Sound(h) == Unique(h) /\ IsFiniteSet(h) /\ Cardinality(h) <= Limit

StoresAreSound ==
    /\ Sound(history) /\ Sound(disk)
    /\ \A k \in DOMAIN queue : Sound(queue[k].payload)

LastWriteIsMemory ==
    up # "down" =>
        IF queue = <<>> THEN ~failed => disk = history
                        ELSE queue[Len(queue)].payload = history

QuietStart ==
    /\ up = "down" => queue = <<>>
    /\ up = "loading" => Len(queue) = 1 /\ history = disk

IndInv ==
    /\ TypeOK
    /\ StoresAreSound
    /\ LastWriteIsMemory
    /\ QuietStart
    /\ SavedTagsSurvive

Write == [payload : History, call : Call]

-----------------------------------------------------------------------------
(***************************************************************************)
(* The queue.                                                              *)
(***************************************************************************)
\* What Append adds is last, and everything else stays where it was.
LEMMA AppendFacts ==
    ASSUME NEW q \in Seq(Write), NEW w \in Write
    PROVE  /\ Append(q, w) \in Seq(Write)
           /\ Append(q, w) # <<>>
           /\ Append(q, w)[Len(Append(q, w))] = w
           /\ \A k \in DOMAIN Append(q, w) :
                \/ Append(q, w)[k] = w
                \/ k \in DOMAIN q /\ Append(q, w)[k] = q[k]
OBVIOUS

\* Tail keeps every entry but the first, and the last one last.
LEMMA TailFacts ==
    ASSUME NEW q \in Seq(Write), q # <<>>
    PROVE  /\ Head(q) \in Write /\ Head(q) = q[1] /\ 1 \in DOMAIN q
           /\ Tail(q) \in Seq(Write)
           /\ \A k \in DOMAIN Tail(q) : k + 1 \in DOMAIN q /\ Tail(q)[k] = q[k + 1]
           /\ Tail(q) = <<>> => q[Len(q)] = Head(q)
           /\ Tail(q) # <<>> => Tail(q)[Len(Tail(q))] = q[Len(q)]
<1>1. Len(q) \in Nat \ {0} /\ Len(Tail(q)) = Len(q) - 1
  OBVIOUS
<1>2. Tail(q) \in Seq(Write) /\ DOMAIN Tail(q) = 1 .. Len(Tail(q))
  OBVIOUS
<1>3. \A k \in DOMAIN Tail(q) : k + 1 \in DOMAIN q /\ Tail(q)[k] = q[k + 1]
  OBVIOUS
<1>4. Head(q) \in Write /\ Head(q) = q[1] /\ 1 \in DOMAIN q
  OBVIOUS
<1>5. Tail(q) = <<>> => q[Len(q)] = Head(q)
  BY <1>1, <1>4
<1>6. Tail(q) # <<>> => Tail(q)[Len(Tail(q))] = q[Len(q)]
  BY <1>1, <1>2, <1>3
<1> QED
  BY <1>2, <1>3, <1>4, <1>5, <1>6

\* Adding at most one write.
LEMMA ConcatFacts ==
    ASSUME NEW q \in Seq(Write), NEW w \in Write
    PROVE  q \o <<>> = q /\ q \o <<w>> = Append(q, w)
OBVIOUS

-----------------------------------------------------------------------------
(***************************************************************************)
(* The operations on one array.                                            *)
(***************************************************************************)
\* A non-empty set of untagged entries has one that no other precedes.
LEMMA OldestUntagged ==
    ASSUME NEW h \in History, IsFiniteSet(h), Untagged(h) # {}
    PROVE  \E e \in Untagged(h) : Older(h, e) = {}
<1> DEFINE T == {Older(h, e) : e \in Untagged(h)}
           R == StrictSubsetOrdering(h)
<1>1. \A e \in Untagged(h) : Older(h, e) \subseteq h
  BY DEF Older, Untagged
<1>2. T \subseteq FiniteSubsetsOf(h) /\ T # {}
  BY <1>1, FS_FiniteSubsetsOfFinite
<1>3. PICK X \in T : \A Y \in T : ~(<<Y, X>> \in R)
  <2> HIDE DEF T, R
  <2>1. IsWellFoundedOn(R, FiniteSubsetsOf(h))
    BY FS_StrictSubsetOrderingWellFounded DEF R
  <2> QED
    BY <1>2, <2>1, WFMin
<1>4. PICK e \in Untagged(h) : X = Older(h, e)
  OBVIOUS
<1>5. SUFFICES ASSUME NEW f \in Older(h, e)
               PROVE  FALSE
  BY <1>4
<1>6. \A g \in Untagged(h) : g.at \in Nat
  BY DEF Untagged, Entry, History
<1>7. f \in Untagged(h) /\ f.at < e.at
  BY DEF Older
<1>8. Older(h, f) \subseteq Older(h, e) /\ f \notin Older(h, f)
  BY <1>6, <1>7 DEF Older
<1>9. Older(h, f) \in T
  BY <1>7
<1>10. <<Older(h, f), Older(h, e)>> \in R
  BY <1>1, <1>7, <1>8 DEF StrictSubsetOrdering
<1> QED
  BY <1>3, <1>4, <1>9, <1>10

\* Pruning an array one above the limit, with something untagged in it, brings it
\* back to the limit, and takes no tagged entry.
LEMMA PrunedFacts ==
    ASSUME NEW h \in History, Unique(h), IsFiniteSet(h),
           Cardinality(h) <= Limit + 1, Untagged(h) # {}
    PROVE  /\ Pruned(h) \in History
           /\ Sound(Pruned(h))
           /\ Tagged(h) \subseteq Pruned(h)
<1>1. Pruned(h) \subseteq h /\ Tagged(h) \subseteq Pruned(h)
  BY DEF Pruned, Tagged, Untagged
<1>2. Cardinality(h) \in Nat /\ Limit \in Nat
  BY FS_CardinalityType, LimitAssumption
<1>3. IsFiniteSet(Pruned(h)) /\ Cardinality(Pruned(h)) <= Cardinality(h)
  BY <1>1, FS_Subset
<1>4. CASE Cardinality(h) <= Limit
  <2>1. Cardinality(Pruned(h)) \in Nat
    BY <1>3, FS_CardinalityType
  <2> QED
    BY <1>1, <1>2, <1>3, <1>4, <2>1 DEF Sound, Unique, History
<1>5. CASE Cardinality(h) = Limit + 1
  <2>1. PICK e \in Untagged(h) : Older(h, e) = {}
    BY OldestUntagged
  <2>2. e \in h /\ e \notin Tagged(h)
    BY DEF Untagged
  <2>3. Cardinality(Older(h, e)) = 0
    BY <2>1, FS_EmptySet
  <2>4. e \notin Pruned(h)
    BY <1>2, <1>5, <2>2, <2>3 DEF Pruned
  <2>5. Pruned(h) \subseteq h \ {e}
    BY <1>1, <2>4
  <2>6. IsFiniteSet(h \ {e}) /\ Cardinality(h \ {e}) = Limit
    <3>1. /\ IsFiniteSet(h \ {e})
          /\ Cardinality(h \ {e}) = IF e \in h THEN Cardinality(h) - 1 ELSE Cardinality(h)
      BY FS_RemoveElement, Zenon
    <3> QED
      BY <1>2, <1>5, <2>2, <3>1
  <2>7. Cardinality(Pruned(h)) <= Limit
    BY <2>5, <2>6, FS_Subset
  <2> QED
    BY <1>1, <1>3, <2>7 DEF Sound, Unique, History
<1> QED
  BY <1>2, <1>4, <1>5

\* record keeps the array sound and every tagged entry in it.
LEMMA RecordedFacts ==
    ASSUME NEW h \in History, Sound(h), NEW i \in Id, TypeOK
    PROVE  /\ Recorded(h, i) \in History
           /\ Sound(Recorded(h, i))
           /\ Tagged(h) \subseteq Recorded(h, i)
<1>1. CASE i \in Ids(h)
  BY <1>1 DEF Recorded, Tagged
<1>2. CASE i \notin Ids(h)
  <2> DEFINE g == h \cup {NewEntry(i)}
  <2>1. NewEntry(i) \in Entry /\ NewEntry(i).id = i /\ NewEntry(i).tags = {}
    BY DEF NewEntry, Entry, TypeOK
  <2>2. g \in History /\ Unique(g)
    BY <1>2, <2>1 DEF Unique, Sound, Ids, History
  <2>3. IsFiniteSet(g) /\ Cardinality(g) <= Limit + 1
    <3>1. IsFiniteSet(h) /\ Cardinality(h) \in Nat /\ Cardinality(h) <= Limit
      BY FS_CardinalityType DEF Sound
    <3>2. /\ IsFiniteSet(g)
          /\ Cardinality(g) = IF NewEntry(i) \in h THEN Cardinality(h)
                                                   ELSE Cardinality(h) + 1
      BY <3>1, FS_AddElement, Zenon
    <3> QED
      BY <3>1, <3>2, LimitAssumption
  <2>4. NewEntry(i) \in Untagged(g)
    BY <2>1 DEF Untagged, Tagged
  <2>5. Pruned(g) \in History /\ Sound(Pruned(g)) /\ Tagged(g) \subseteq Pruned(g)
    BY <2>2, <2>3, <2>4, PrunedFacts
  <2>6. Tagged(h) \subseteq Tagged(g)
    BY DEF Tagged
  <2> QED
    BY <1>2, <2>5, <2>6 DEF Recorded
<1> QED
  BY <1>1, <1>2

\* An array whose entries only change their tags stays sound.
LEMMA RetaggedIsSound ==
    ASSUME NEW h \in History, Sound(h), NEW f \in [h -> Entry],
           \A e \in h : f[e].id = e.id
    PROVE  {f[e] : e \in h} \in History /\ Sound({f[e] : e \in h})
<1> DEFINE g == {f[e] : e \in h}
<1>1. g \in History
  BY DEF History
<1>2. Unique(g)
  BY DEF Unique, Sound
<1>3. f \in Surjection(h, g)
  BY DEF Surjection
<1>4. IsFiniteSet(g) /\ Cardinality(g) <= Cardinality(h)
  BY <1>3, FS_Surjection DEF Sound
<1>5. Cardinality(g) \in Nat /\ Cardinality(h) \in Nat
  BY <1>4, FS_CardinalityType DEF Sound
<1> QED
  BY <1>1, <1>2, <1>4, <1>5, LimitAssumption DEF Sound

\* Adding a tag keeps ids, the other tags and soundness.
LEMMA WithTagFacts ==
    ASSUME NEW h \in History, Sound(h), NEW i \in Id, NEW t \in Tag
    PROVE  /\ WithTag(h, i, t) \in History
           /\ Sound(WithTag(h, i, t))
           /\ TagsOf(h) \subseteq TagsOf(WithTag(h, i, t))
           /\ Ids(WithTag(h, i, t)) = Ids(h)
<1> DEFINE f == [e \in h |-> IF e.id = i THEN [e EXCEPT !.tags = @ \cup {t}] ELSE e]
<1>1. f \in [h -> Entry] /\ \A e \in h : f[e].id = e.id /\ e.tags \subseteq f[e].tags
  BY DEF History, Entry
<1>2. WithTag(h, i, t) = {f[e] : e \in h}
  BY DEF WithTag
<1>3. TagsOf(h) \subseteq TagsOf({f[e] : e \in h}) /\ Ids({f[e] : e \in h}) = Ids(h)
  <2> HIDE DEF f
  <2> QED
    BY <1>1 DEF TagsOf, Ids
<1>4. {f[e] : e \in h} \in History /\ Sound({f[e] : e \in h})
  <2> HIDE DEF f
  <2> QED
    BY <1>1, RetaggedIsSound
<1> QED
  BY <1>2, <1>3, <1>4

\* Taking a tag away takes nothing else.
LEMMA WithoutTagFacts ==
    ASSUME NEW h \in History, Sound(h), NEW i \in Id, NEW t \in Tag
    PROVE  /\ WithoutTag(h, i, t) \in History
           /\ Sound(WithoutTag(h, i, t))
           /\ TagsOf(h) \ {<<i, t>>} \subseteq TagsOf(WithoutTag(h, i, t))
           /\ Ids(WithoutTag(h, i, t)) = Ids(h)
<1> DEFINE f == [e \in h |-> IF e.id = i THEN [e EXCEPT !.tags = @ \ {t}] ELSE e]
<1>1. /\ f \in [h -> Entry]
      /\ \A e \in h : /\ f[e].id = e.id
                      /\ \A s \in e.tags : s \in f[e].tags \/ <<e.id, s>> = <<i, t>>
  BY DEF History, Entry
<1>2. WithoutTag(h, i, t) = {f[e] : e \in h}
  BY DEF WithoutTag
<1>3. /\ TagsOf(h) \ {<<i, t>>} \subseteq TagsOf({f[e] : e \in h})
      /\ Ids({f[e] : e \in h}) = Ids(h)
  <2> HIDE DEF f
  <2>1. SUFFICES ASSUME NEW p \in TagsOf(h), p # <<i, t>>
                 PROVE  p \in TagsOf({f[e] : e \in h})
    BY <1>1 DEF Ids
  <2>2. PICK e \in h : e.id = p[1] /\ p[2] \in e.tags
    BY <2>1 DEF TagsOf
  <2>3. p = <<p[1], p[2]>> /\ p \in Id \X Tag
    BY <2>1 DEF TagsOf
  <2>4. p[2] \in f[e].tags /\ f[e].id = p[1]
    BY <1>1, <2>1, <2>2, <2>3
  <2> QED
    BY <2>3, <2>4 DEF TagsOf
<1>4. {f[e] : e \in h} \in History /\ Sound({f[e] : e \in h})
  <2> HIDE DEF f
  <2> QED
    BY <1>1, RetaggedIsSound
<1> QED
  BY <1>2, <1>3, <1>4

\* Keeping the tagged entries keeps every tag.
LEMMA TaggedCarryTags ==
    ASSUME NEW h, NEW g, Tagged(h) \subseteq g
    PROVE  TagsOf(h) \subseteq TagsOf(g)
BY DEF TagsOf, Tagged

\* The empty array is sound.
LEMMA EmptyIsSound == {} \in History /\ Sound({})
BY FS_EmptySet, LimitAssumption DEF Sound, Unique, History

-----------------------------------------------------------------------------
(***************************************************************************)
(* Every step keeps the invariant.                                         *)
(***************************************************************************)
\* Promised: no saved tag is missing from h.
Promised(ans, h) == \A a \in ans : a.how = "saved" => <<a.id, a.tag>> \in TagsOf(h)

\* What save() of a sound array that keeps the saved tags leaves behind.
LEMMA SaveFacts ==
    ASSUME IndInv, up = "running",
           NEW h \in History, Sound(h), NEW call \in Call,
           history' = h,
           queue' = Append(queue, [payload |-> h, call |-> call]),
           answered' \subseteq Answer,
           \A a \in answered' : a \in answered \/ a.how # "saved",
           Promised(answered', h),
           UNCHANGED <<disk, temporary, failed, up>>,
           pushed' \in Nat
    PROVE  IndInv'
<1> DEFINE w == [payload |-> h, call |-> call]
<1>1. w \in Write /\ w.payload = h
  BY DEF Write
<1>2. queue \in Seq(Write)
  BY DEF IndInv, TypeOK, Write
<1>3. /\ queue' \in Seq(Write) /\ queue' # <<>>
      /\ queue'[Len(queue')] = w
      /\ \A k \in DOMAIN queue' : queue'[k] = w \/ (k \in DOMAIN queue /\ queue'[k] = queue[k])
  <2> HIDE DEF w
  <2> QED
    BY <1>1, <1>2, AppendFacts DEF w
<1> HIDE DEF w
<1>4. TypeOK'
  BY <1>3 DEF IndInv, TypeOK, Write
<1>5. StoresAreSound'
  BY <1>1, <1>3 DEF IndInv, StoresAreSound
<1>6. LastWriteIsMemory'
  BY <1>1, <1>3 DEF LastWriteIsMemory
<1>7. SavedTagsSurvive'
  <2>1. \A a \in answered' : a.how = "saved" => a \in answered
    OBVIOUS
  <2>2. \A k \in DOMAIN queue' : queue'[k].payload = h \/
            (k \in DOMAIN queue /\ queue'[k].payload = queue[k].payload)
    BY <1>1, <1>3
  <2> QED
    BY <2>1, <2>2 DEF IndInv, SavedTagsSurvive, Promised
<1> QED
  BY <1>4, <1>5, <1>6, <1>7 DEF IndInv, QuietStart

\* Memory carries the saved tags while the process runs.
LEMMA MemoryKeepsPromises ==
    ASSUME IndInv, up # "down"
    PROVE  Promised(answered, history)
BY DEF IndInv, SavedTagsSurvive, Promised

\* addDeploymentTag: memory stays sound, keeps ids and tags, and promises nothing.
LEMMA AddTagFacts ==
    ASSUME IndInv, NEW i \in Id, NEW t \in Tag, AddTag(i, t)
    PROVE  /\ history' \in History /\ Sound(history')
           /\ TagsOf(history) \subseteq TagsOf(history')
           /\ Ids(history') = Ids(history)
           /\ answered \subseteq answered' /\ answered' \subseteq Answer
           /\ \A a \in answered' : a \in answered \/ a.how # "saved"
<1>1. /\ history \in History /\ Sound(history) /\ answered \subseteq Answer
  BY DEF IndInv, TypeOK, StoresAreSound
<1>2. CASE history' = WithTag(history, i, t) /\ answered' = answered
  BY <1>1, <1>2, WithTagFacts
<1>3. CASE /\ history' = history
           /\ answered' \in {answered, answered \cup {AnswerTo(i, t, "skipped")},
                             answered \cup {AnswerTo(i, t, "already")}}
  <2>1. /\ AnswerTo(i, t, "skipped") \in Answer /\ AnswerTo(i, t, "skipped").how # "saved"
        /\ AnswerTo(i, t, "already") \in Answer /\ AnswerTo(i, t, "already").how # "saved"
    BY DEF AnswerTo, Answer
  <2> QED
    BY <1>1, <1>3, <2>1
<1> QED
  BY <1>2, <1>3 DEF AddTag

LEMMA RecordForInv ==
    ASSUME IndInv, NEW i \in Id, NEW call \in Call, RecordFor(i, call)
    PROVE  IndInv'
<1>1. history \in History /\ Sound(history)
  BY DEF IndInv, TypeOK, StoresAreSound
<1>2. /\ Recorded(history, i) \in History /\ Sound(Recorded(history, i))
      /\ Tagged(history) \subseteq Recorded(history, i)
  BY <1>1, RecordedFacts DEF IndInv
<1>3. Promised(answered, Recorded(history, i))
  BY <1>2, TaggedCarryTags, MemoryKeepsPromises DEF RecordFor, CanSave, Promised
<1>4. pushed' \in Nat
  BY DEF RecordFor, IndInv, TypeOK
<1> QED
  BY <1>2, <1>3, <1>4, SaveFacts DEF RecordFor, CanSave, Save, IndInv, TypeOK

LEMMA AddDeploymentTagInv ==
    ASSUME IndInv, NEW i \in Id, NEW t \in Tag, AddDeploymentTag(i, t)
    PROVE  IndInv'
<1>1. AddTag(i, t) /\ up = "running" /\ UNCHANGED <<pushed, disk, temporary, failed, up>>
  BY DEF AddDeploymentTag, CanSave
<1>2. /\ history' \in History /\ Sound(history')
      /\ TagsOf(history) \subseteq TagsOf(history')
      /\ answered' \subseteq Answer
      /\ \A a \in answered' : a \in answered \/ a.how # "saved"
  BY <1>1, AddTagFacts
<1>3. queue \in Seq(Write)
  BY DEF IndInv, TypeOK, Write
<1>4. Promised(answered', history')
  BY <1>1, <1>2, MemoryKeepsPromises DEF Promised
<1>5. CASE history' = history
  <2>1. queue' = queue
    BY <1>3, <1>5 DEF AddDeploymentTag, TagWrite
  <2>2. SavedTagsSurvive'
    BY <1>1, <1>2, <1>5, <2>1 DEF IndInv, SavedTagsSurvive
  <2>3. TypeOK'
    BY <1>1, <1>2, <2>1 DEF IndInv, TypeOK
  <2>4. StoresAreSound' /\ LastWriteIsMemory'
    BY <1>1, <1>5, <2>1 DEF IndInv, StoresAreSound, LastWriteIsMemory
  <2> QED
    BY <1>1, <2>2, <2>3, <2>4 DEF IndInv, QuietStart
<1>6. CASE history' # history
  <2>1. [payload |-> history', call |-> AddCall(i, t)] \in Write /\ AddCall(i, t) \in Call
    BY <1>2 DEF Write, Call
  <2>2. queue' = Append(queue, [payload |-> history', call |-> AddCall(i, t)])
    BY <1>3, <1>6, <2>1, ConcatFacts DEF AddDeploymentTag, TagWrite
  <2>3. pushed' \in Nat
    BY <1>1 DEF IndInv, TypeOK
  <2> QED
    BY <1>1, <1>2, <1>4, <2>1, <2>2, <2>3, SaveFacts
<1> QED
  BY <1>5, <1>6

LEMMA RemoveDeploymentTagInv ==
    ASSUME IndInv, NEW i \in Id, NEW t \in Tag, RemoveDeploymentTag(i, t)
    PROVE  IndInv'
<1> DEFINE h == WithoutTag(history, i, t)
<1>1. history \in History /\ Sound(history) /\ answered \subseteq Answer /\ pushed \in Nat
  BY DEF IndInv, TypeOK, StoresAreSound
<1>2. h \in History /\ Sound(h) /\ TagsOf(history) \ {<<i, t>>} \subseteq TagsOf(h)
  BY <1>1, WithoutTagFacts
<1>3. answered' \subseteq answered
  BY DEF RemoveDeploymentTag, Forget
<1>4. Promised(answered', h)
  <2>1. SUFFICES ASSUME NEW a \in answered', a.how = "saved"
                 PROVE  <<a.id, a.tag>> \in TagsOf(h)
    BY DEF Promised
  <2>2. a \in answered /\ ~(a.id = i /\ a.tag = t)
    BY DEF RemoveDeploymentTag, Forget
  <2>3. <<a.id, a.tag>> \in TagsOf(history)
    BY <2>1, <2>2, MemoryKeepsPromises DEF Promised, RemoveDeploymentTag, CanSave
  <2>4. <<a.id, a.tag>> # <<i, t>>
    BY <2>2
  <2> HIDE DEF h
  <2> QED
    BY <1>2, <2>3, <2>4
<1>5. NoCall \in Call
  BY DEF Call
<1> HIDE DEF h
<1> QED
  BY <1>1, <1>2, <1>3, <1>4, <1>5, SaveFacts DEF RemoveDeploymentTag, CanSave, Save, h

LEMMA RemoveServerInv ==
    ASSUME IndInv, RemoveServer
    PROVE  IndInv'
<1>1. answered \subseteq Answer /\ pushed \in Nat
  BY DEF IndInv, TypeOK
<1>2. answered' = {}
  BY <1>1 DEF RemoveServer, Forget, Answer
<1>3. Promised(answered', {})
  BY <1>2 DEF Promised
<1>4. NoCall \in Call
  BY DEF Call
<1> QED
  BY <1>1, <1>2, <1>3, <1>4, EmptyIsSound, SaveFacts DEF RemoveServer, CanSave, Save

\* A finished write: the file holds its payload, the rest of the queue is unchanged.
LEMMA FinishedWrite ==
    ASSUME IndInv, Rename
    PROVE  /\ up # "down" /\ queue \in Seq(Write) /\ queue # <<>>
           /\ Tail(queue) \in Seq(Write)
           /\ disk' \in History /\ Sound(disk') /\ disk' = Head(queue).payload
           /\ 1 \in DOMAIN queue /\ queue[1] = Head(queue)
           /\ \A k \in DOMAIN Tail(queue) :
                k + 1 \in DOMAIN queue /\ Tail(queue)[k] = queue[k + 1]
           /\ Promised(answered, disk') /\ Promised(answered, history)
           /\ Tail(queue) = <<>> => disk' = history
           /\ Tail(queue) # <<>> => Tail(queue)[Len(Tail(queue))].payload = history
<1>1. queue \in Seq(Write) /\ queue # <<>> /\ up # "down"
  BY DEF IndInv, TypeOK, Write, Rename, QuietStart
<1>2. /\ Head(queue) \in Write /\ Head(queue) = queue[1] /\ 1 \in DOMAIN queue
      /\ Tail(queue) \in Seq(Write)
      /\ \A k \in DOMAIN Tail(queue) :
            k + 1 \in DOMAIN queue /\ Tail(queue)[k] = queue[k + 1]
      /\ Tail(queue) = <<>> => queue[Len(queue)] = Head(queue)
      /\ Tail(queue) # <<>> => Tail(queue)[Len(Tail(queue))] = queue[Len(queue)]
  BY <1>1, TailFacts
<1>3. disk' = Head(queue).payload
  BY DEF Rename
<1>4. disk' \in History /\ Sound(disk')
  BY <1>2, <1>3 DEF Write, IndInv, StoresAreSound
<1>5. Promised(answered, disk')
  BY <1>2, <1>3 DEF IndInv, SavedTagsSurvive, Promised
<1>6. queue[Len(queue)].payload = history
  BY <1>1 DEF IndInv, LastWriteIsMemory
<1>7. Promised(answered, history)
  BY <1>1, MemoryKeepsPromises
<1> QED
  BY <1>1, <1>2, <1>3, <1>4, <1>5, <1>6, <1>7

\* A write that answers nobody, or the call that asked for it.
LEMMA AnsweredWriteInv ==
    ASSUME IndInv, Rename, history' = history, queue' = Tail(queue),
           \/ answered' = answered
           \/ \E i \in Id, t \in Tag :
                Stands(i, t) /\ answered' = answered \cup {AnswerTo(i, t, "saved")}
    PROVE  IndInv'
<1>1. /\ queue' \in Seq(Write) /\ disk' \in History /\ Sound(disk')
      /\ disk' = Head(queue).payload
      /\ 1 \in DOMAIN queue /\ queue[1] = Head(queue)
      /\ \A k \in DOMAIN queue' : k + 1 \in DOMAIN queue /\ queue'[k] = queue[k + 1]
      /\ Promised(answered, disk') /\ Promised(answered, history)
      /\ queue' = <<>> => disk' = history
      /\ queue' # <<>> => queue'[Len(queue')].payload = history
  BY FinishedWrite
<1>2. temporary' = FALSE /\ failed' = FALSE /\ up' = "running" /\ pushed' = pushed
  BY DEF Rename
<1>3. answered' \subseteq Answer
  BY DEF IndInv, TypeOK, AnswerTo, Answer
<1>4. TypeOK'
  BY <1>1, <1>2, <1>3 DEF IndInv, TypeOK, Write
<1>5. StoresAreSound'
  BY <1>1 DEF IndInv, StoresAreSound
<1>6. LastWriteIsMemory' /\ QuietStart'
  BY <1>1, <1>2 DEF LastWriteIsMemory, QuietStart
<1>7. SavedTagsSurvive'
  <2>1. SUFFICES ASSUME NEW a \in answered', a.how = "saved"
                 PROVE  /\ <<a.id, a.tag>> \in TagsOf(disk')
                        /\ <<a.id, a.tag>> \in TagsOf(history)
                        /\ \A k \in DOMAIN queue :
                              <<a.id, a.tag>> \in TagsOf(queue[k].payload)
    BY <1>1 DEF SavedTagsSurvive
  <2>2. CASE a \in answered
    BY <1>1, <2>1, <2>2 DEF IndInv, SavedTagsSurvive, Promised
  <2>3. CASE a \notin answered
    <3>1. PICK i \in Id, t \in Tag : Stands(i, t) /\ a = AnswerTo(i, t, "saved")
      BY <2>3
    <3>2. a.id = i /\ a.tag = t
      BY <3>1 DEF AnswerTo
    <3> QED
      BY <1>1, <3>1, <3>2 DEF Stands
  <2> QED
    BY <2>2, <2>3
<1> QED
  BY <1>4, <1>5, <1>6, <1>7 DEF IndInv

\* A write that lets a tagCurrent continue with addDeploymentTag.
LEMMA ContinuedWriteInv ==
    ASSUME IndInv, Rename, NEW i \in Id, NEW t \in Tag, AddTag(i, t),
           queue' = Tail(queue) \o TagWrite(i, t)
    PROVE  IndInv'
<1> DEFINE q == Tail(queue)
           w == [payload |-> history', call |-> AddCall(i, t)]
<1>1. /\ q \in Seq(Write) /\ disk' \in History /\ Sound(disk')
      /\ \A k \in DOMAIN q : k + 1 \in DOMAIN queue /\ q[k] = queue[k + 1]
      /\ Promised(answered, disk') /\ Promised(answered, history)
      /\ q = <<>> => disk' = history
      /\ q # <<>> => q[Len(q)].payload = history
  BY FinishedWrite
<1>2. /\ history' \in History /\ Sound(history')
      /\ TagsOf(history) \subseteq TagsOf(history')
      /\ answered' \subseteq Answer
      /\ \A a \in answered' : a \in answered \/ a.how # "saved"
  BY AddTagFacts
<1>3. temporary' = FALSE /\ failed' = FALSE /\ up' = "running" /\ pushed' = pushed
  BY DEF Rename
<1>4. w \in Write /\ w.payload = history'
  BY <1>2 DEF Write, Call
<1>5. /\ queue' \in Seq(Write)
      /\ \A k \in DOMAIN queue' : queue'[k] = w \/ (k \in DOMAIN q /\ queue'[k] = q[k])
      /\ IF queue' = <<>> THEN disk' = history'
                          ELSE queue'[Len(queue')].payload = history'
  <2> HIDE DEF q
  <2>1. CASE history' = history
    <3>1. TagWrite(i, t) = <<>>
      BY <2>1 DEF TagWrite
    <3>2. queue' = q
      BY <1>1, <1>4, <3>1, ConcatFacts DEF q
    <3> QED
      BY <1>1, <2>1, <3>2
  <2>2. CASE history' # history
    <3>1. TagWrite(i, t) = <<w>>
      BY <2>2 DEF TagWrite
    <3> HIDE DEF w
    <3>2. queue' = Append(q, w)
      BY <1>1, <1>4, <3>1, ConcatFacts DEF q
    <3>3. /\ Append(q, w) \in Seq(Write) /\ Append(q, w) # <<>>
          /\ Append(q, w)[Len(Append(q, w))] = w
          /\ \A k \in DOMAIN Append(q, w) :
                Append(q, w)[k] = w \/ (k \in DOMAIN q /\ Append(q, w)[k] = q[k])
      BY <1>1, <1>4, AppendFacts
    <3> QED
      BY <1>4, <3>2, <3>3
  <2> QED
    BY <2>1, <2>2
<1>6. \A k \in DOMAIN queue' :
        \/ queue'[k].payload = history'
        \/ k + 1 \in DOMAIN queue /\ queue'[k].payload = queue[k + 1].payload
  BY <1>1, <1>4, <1>5
<1> HIDE DEF q, w
<1>7. TypeOK'
  BY <1>1, <1>2, <1>3, <1>5 DEF IndInv, TypeOK, Write
<1>8. StoresAreSound'
  BY <1>1, <1>2, <1>6 DEF IndInv, StoresAreSound
<1>9. LastWriteIsMemory' /\ QuietStart'
  BY <1>3, <1>5 DEF LastWriteIsMemory, QuietStart
<1>10. SavedTagsSurvive'
  BY <1>1, <1>2, <1>6 DEF IndInv, SavedTagsSurvive, Promised
<1> QED
  BY <1>7, <1>8, <1>9, <1>10 DEF IndInv

LEMMA RenameInv ==
    ASSUME IndInv, Rename
    PROVE  IndInv'
<1> DEFINE call == Head(queue).call
<1>1. call \in Call
  <2>1. queue \in Seq(Write) /\ queue # <<>>
    BY FinishedWrite
  <2> QED
    BY <2>1, TailFacts DEF Write
<1>2. CASE call = NoCall
  <2>1. call.kind = "none"
    BY <1>2 DEF NoCall
  <2>2. queue' = Tail(queue) /\ history' = history /\ answered' = answered
    BY <2>1 DEF Rename, Answered
  <2> QED
    BY <2>2, AnsweredWriteInv
<1>3. ASSUME NEW i \in Id, NEW t \in Tag, call = AddCall(i, t)
      PROVE  IndInv'
  <2>1. call.kind = "add" /\ call.id = i /\ call.tag = t
    BY <1>3 DEF AddCall
  <2>2. /\ queue' = Tail(queue) /\ history' = history
        /\ answered' = IF Stands(i, t) THEN answered \cup {AnswerTo(i, t, "saved")}
                                       ELSE answered
    BY <2>1 DEF Rename, Answered
  <2> QED
    BY <2>2, AnsweredWriteInv
<1>4. ASSUME NEW i \in Id, NEW t \in Tag, call = CurrentCall(i, t)
      PROVE  IndInv'
  <2>1. call.kind = "current" /\ call.id = i /\ call.tag = t
    BY <1>4 DEF CurrentCall
  <2>2. AddTag(i, t) /\ queue' = Tail(queue) \o TagWrite(i, t)
    BY <2>1 DEF Rename, Answered
  <2> QED
    BY <2>2, ContinuedWriteInv
<1> QED
  BY <1>1, <1>2, <1>3, <1>4 DEF Call

LEMMA WriteFailsInv ==
    ASSUME IndInv, WriteFails
    PROVE  IndInv'
<1>1. queue \in Seq(Write) /\ queue # <<>>
  BY DEF IndInv, TypeOK, Write, WriteFails
<1>2. /\ queue' \in Seq(Write)
      /\ \A k \in DOMAIN queue' : k + 1 \in DOMAIN queue /\ queue'[k] = queue[k + 1]
      /\ queue' # <<>> => queue'[Len(queue')] = queue[Len(queue)]
  BY <1>1, TailFacts DEF WriteFails
<1>3. TypeOK'
  BY <1>2 DEF IndInv, TypeOK, Write, WriteFails
<1>4. StoresAreSound'
  BY <1>2 DEF IndInv, StoresAreSound, WriteFails
<1>5. LastWriteIsMemory'
  BY <1>1, <1>2 DEF IndInv, LastWriteIsMemory, WriteFails
<1>6. QuietStart'
  <2>1. Len(queue) = 1 => queue' = <<>>
    BY <1>1, <1>2 DEF WriteFails
  <2> QED
    BY <2>1 DEF IndInv, QuietStart, WriteFails
<1>7. SavedTagsSurvive'
  BY <1>2 DEF IndInv, SavedTagsSurvive, WriteFails
<1> QED
  BY <1>3, <1>4, <1>5, <1>6, <1>7 DEF IndInv

LEMMA StartAndStopInv ==
    ASSUME IndInv, WriteTemporary \/ Crash \/ Load
    PROVE  IndInv'
<1>1. CASE WriteTemporary
  BY <1>1 DEF WriteTemporary, IndInv, TypeOK, StoresAreSound, LastWriteIsMemory,
     QuietStart, SavedTagsSurvive
<1>2. CASE Crash
  <2>1. queue' = <<>> /\ queue' \in Seq([payload : History, call : Call])
    BY <1>2 DEF Crash
  <2>2. TypeOK' /\ LastWriteIsMemory' /\ QuietStart'
    BY <1>2, <2>1 DEF Crash, IndInv, TypeOK, LastWriteIsMemory, QuietStart
  <2>3. StoresAreSound' /\ SavedTagsSurvive'
    BY <1>2, <2>1 DEF Crash, IndInv, StoresAreSound, SavedTagsSurvive
  <2> QED
    BY <2>2, <2>3 DEF IndInv
<1>3. CASE Load
  <2> DEFINE w == [payload |-> disk, call |-> NoCall]
  <2>1. w \in Write /\ w.payload = disk
    BY DEF Write, Call, IndInv, TypeOK
  <2> HIDE DEF w
  <2>2. queue' = <<w>> /\ history' = disk /\ up' = "loading"
        /\ UNCHANGED <<pushed, disk, temporary, failed, answered>>
    BY <1>3 DEF Load, w
  <2>3. /\ queue' \in Seq(Write) /\ queue' # <<>> /\ Len(queue') = 1
        /\ \A k \in DOMAIN queue' : queue'[k] = w
    BY <2>1, <2>2
  <2>4. TypeOK'
    BY <2>2, <2>3 DEF IndInv, TypeOK, Write
  <2>5. StoresAreSound'
    BY <2>1, <2>2, <2>3 DEF IndInv, StoresAreSound
  <2>6. LastWriteIsMemory' /\ QuietStart'
    BY <2>1, <2>2, <2>3 DEF LastWriteIsMemory, QuietStart
  <2>7. SavedTagsSurvive'
    BY <2>1, <2>2, <2>3 DEF IndInv, SavedTagsSurvive
  <2> QED
    BY <2>4, <2>5, <2>6, <2>7 DEF IndInv
<1> QED
  BY <1>1, <1>2, <1>3

LEMMA InitInv == Init => IndInv
<1>1. \A S : <<>> \in Seq(S)
  OBVIOUS
<1>2. ASSUME Init PROVE TypeOK
  BY <1>1, <1>2 DEF Init, TypeOK, History
<1>3. ASSUME Init PROVE StoresAreSound /\ LastWriteIsMemory /\ QuietStart /\ SavedTagsSurvive
  BY <1>3, EmptyIsSound
     DEF Init, StoresAreSound, LastWriteIsMemory, QuietStart, SavedTagsSurvive
<1> QED
  BY <1>2, <1>3 DEF IndInv

LEMMA StepInv == IndInv /\ [Next]_vars => IndInv'
<1> SUFFICES ASSUME IndInv, [Next]_vars
             PROVE  IndInv'
  OBVIOUS
<1>1. ASSUME NEW i \in Id, Record(i)
      PROVE  IndInv'
  BY <1>1, RecordForInv DEF Record, Call
<1>2. ASSUME NEW i \in Id, NEW t \in Tag, TagCurrent(i, t)
      PROVE  IndInv'
  BY <1>2, RecordForInv DEF TagCurrent, Call
<1>3. ASSUME NEW i \in Id, NEW t \in Tag, AddDeploymentTag(i, t)
      PROVE  IndInv'
  BY <1>3, AddDeploymentTagInv
<1>4. ASSUME NEW i \in Id, NEW t \in Tag, RemoveDeploymentTag(i, t)
      PROVE  IndInv'
  BY <1>4, RemoveDeploymentTagInv
<1>5. CASE RemoveServer
  BY <1>5, RemoveServerInv
<1>6. CASE WriteTemporary \/ Crash \/ Load
  BY <1>6, StartAndStopInv
<1>7. CASE Rename
  BY <1>7, RenameInv
<1>8. CASE WriteFails
  BY <1>8, WriteFailsInv
<1>9. CASE UNCHANGED vars
  BY <1>9 DEF vars, IndInv, TypeOK, StoresAreSound, LastWriteIsMemory, QuietStart,
     SavedTagsSurvive
<1> QED
  BY <1>1, <1>2, <1>3, <1>4, <1>5, <1>6, <1>7, <1>8, <1>9 DEF Next

-----------------------------------------------------------------------------
\* The inductive invariant holds in every state.
THEOREM Invariance == Spec => []IndInv
<1>1. Init => IndInv
  BY InitInv
<1>2. IndInv /\ [Next]_vars => IndInv'
  BY StepInv
<1> QED
  BY <1>1, <1>2, PTL DEF Spec

\* The variables keep their types, and a .tmp file is pending only for a queued write.
THEOREM HistoryTypeCorrect == Spec => []TypeOK
<1>1. IndInv => TypeOK
  BY DEF IndInv
<1> QED
  BY <1>1, Invariance, PTL

\* Neither pruning, nor reloads, nor repeated tagCurrent calls ever leave two entries
\* with one id, in memory or in the file.
THEOREM IdsStayUnique == Spec => []UniqueIds
<1>1. IndInv => UniqueIds
  BY DEF IndInv, StoresAreSound, Sound, Unique, UniqueIds
<1> QED
  BY <1>1, Invariance, PTL

\* The cap holds in memory and in the file for every limit, although tagged entries
\* are exempt from pruning: the snapshot just pushed is always there to be dropped.
THEOREM HistoryIsCapped == Spec => []Capped
<1>1. IndInv => Capped
  BY DEF IndInv, StoresAreSound, Sound, Capped
<1> QED
  BY <1>1, Invariance, PTL

\* When the queue has drained and the last write succeeded, file and memory agree.
THEOREM FileAgrees == Spec => []FileCatchesUp
<1>1. IndInv => FileCatchesUp
  BY DEF IndInv, LastWriteIsMemory, FileCatchesUp
<1> QED
  BY <1>1, Invariance, PTL

\* A tag confirmed after its own write survives crashes, failed writes and prunings.
THEOREM ConfirmedTagsSurvive == Spec => []SavedTagsSurvive
<1>1. IndInv => SavedTagsSurvive
  BY DEF IndInv
<1> QED
  BY <1>1, Invariance, PTL

\* While the process runs, only the removal of its server takes a tagged snapshot.
THEOREM TaggedStay == Spec => TaggedNeverPruned
<1> DEFINE Keeps == up = "running" /\ up' = "running" /\ history' # {}
                        => Ids(Tagged(history)) \subseteq Ids(history')
<1>1. IndInv /\ [Next]_vars => [Keeps]_vars
  <2> SUFFICES ASSUME IndInv, Next, up = "running", up' = "running", history' # {}
               PROVE  Ids(Tagged(history)) \subseteq Ids(history')
    OBVIOUS
  <2>1. Ids(Tagged(history)) \subseteq Ids(history) /\ Sound(history) /\ history \in History
    BY DEF Ids, Tagged, IndInv, TypeOK, StoresAreSound
  <2>2. ASSUME NEW i \in Id, NEW call, RecordFor(i, call)
        PROVE  Tagged(history) \subseteq history'
    BY <2>1, <2>2, RecordedFacts DEF RecordFor, Save, IndInv
  <2>3. ASSUME NEW i \in Id, NEW t \in Tag, AddTag(i, t)
        PROVE  Ids(history') = Ids(history)
    BY <2>3, AddTagFacts
  <2>4. ASSUME NEW i \in Id, NEW t \in Tag, RemoveDeploymentTag(i, t)
        PROVE  Ids(history') = Ids(history)
    BY <2>1, <2>4, WithoutTagFacts DEF RemoveDeploymentTag, Save
  <2>5. CASE Rename
    <3> DEFINE call == Head(queue).call
    <3>1. call \in Call
      BY <2>5, FinishedWrite, TailFacts DEF Write
    <3>2. CASE call = NoCall
      <4>1. call.kind = "none"
        BY <3>2 DEF NoCall
      <4> QED
        BY <2>1, <2>5, <4>1 DEF Rename, Answered
    <3>3. ASSUME NEW i \in Id, NEW t \in Tag, call = AddCall(i, t)
          PROVE  Ids(Tagged(history)) \subseteq Ids(history')
      <4>1. call.kind = "add"
        BY <3>3 DEF AddCall
      <4> QED
        BY <2>1, <2>5, <4>1 DEF Rename, Answered
    <3>4. ASSUME NEW i \in Id, NEW t \in Tag, call = CurrentCall(i, t)
          PROVE  Ids(Tagged(history)) \subseteq Ids(history')
      <4>1. call.kind = "current" /\ call.id = i /\ call.tag = t
        BY <3>4 DEF CurrentCall
      <4>2. AddTag(i, t)
        BY <2>5, <4>1 DEF Rename, Answered
      <4> QED
        BY <2>1, <2>3, <4>2
    <3> QED
      BY <3>1, <3>2, <3>3, <3>4 DEF Call
  <2>6. CASE WriteTemporary \/ WriteFails \/ Crash \/ Load
    BY <2>1, <2>6 DEF WriteTemporary, WriteFails, Crash, Load
  <2>7. CASE RemoveServer
    BY <2>7 DEF RemoveServer, Save
  <2>8. Tagged(history) \subseteq history' => Ids(Tagged(history)) \subseteq Ids(history')
    BY DEF Ids
  <2> QED
    BY <2>1, <2>2, <2>3, <2>4, <2>5, <2>6, <2>7, <2>8
       DEF Next, Record, TagCurrent, AddDeploymentTag
<1> QED
  BY <1>1, Invariance, PTL DEF Spec, TaggedNeverPruned

-----------------------------------------------------------------------------
(***************************************************************************)
(* The store is a write-behind store.                                      *)
(***************************************************************************)
\* The payloads of a queue form a sequence, and follow the queue.
LEMMA PayloadFacts ==
    ASSUME NEW q \in Seq(Write)
    PROVE  /\ Payloads(q) \in Seq(History)
           /\ Len(Payloads(q)) = Len(q) /\ DOMAIN Payloads(q) = 1 .. Len(q)
           /\ \A k \in 1 .. Len(q) : Payloads(q)[k] = q[k].payload
           /\ (Payloads(q) = <<>>) <=> (q = <<>>)
<1>1. DOMAIN q = 1 .. Len(q) /\ Len(q) \in Nat /\ \A k \in 1 .. Len(q) : q[k] \in Write
  OBVIOUS
<1>2. Payloads(q) = [k \in 1 .. Len(q) |-> q[k].payload]
  BY <1>1 DEF Payloads
<1>3. \A k \in 1 .. Len(q) : q[k].payload \in History
  BY <1>1 DEF Write
<1> QED
  BY <1>1, <1>2, <1>3

\* Saving puts the payload last.
LEMMA PayloadsOfAppend ==
    ASSUME NEW q \in Seq(Write), NEW w \in Write
    PROVE  Payloads(Append(q, w)) = Append(Payloads(q), w.payload)
<1>1. Append(q, w) \in Seq(Write) /\ Len(Append(q, w)) = Len(q) + 1
  OBVIOUS
<1>2. \A k \in 1 .. Len(q) + 1 :
        Append(q, w)[k] = IF k = Len(q) + 1 THEN w ELSE q[k]
  OBVIOUS
<1>3. /\ Payloads(q) \in Seq(History) /\ Len(Payloads(q)) = Len(q)
      /\ \A k \in 1 .. Len(q) : Payloads(q)[k] = q[k].payload
  BY PayloadFacts
<1>4. /\ Payloads(Append(q, w)) \in Seq(History)
      /\ Len(Payloads(Append(q, w))) = Len(q) + 1
      /\ \A k \in 1 .. Len(q) + 1 :
            Payloads(Append(q, w))[k] = Append(q, w)[k].payload
  BY <1>1, PayloadFacts
<1>5. w.payload \in History
  BY DEF Write
<1>6. /\ Append(Payloads(q), w.payload) \in Seq(History)
      /\ Len(Append(Payloads(q), w.payload)) = Len(q) + 1
      /\ \A k \in 1 .. Len(q) + 1 :
            Append(Payloads(q), w.payload)[k] = Append(q, w)[k].payload
  BY <1>2, <1>3, <1>5
<1> QED
  BY <1>4, <1>6, SeqEqual

\* A finished write leaves the front.
LEMMA PayloadsOfTail ==
    ASSUME NEW q \in Seq(Write), q # <<>>
    PROVE  /\ Payloads(q) # <<>>
           /\ Head(Payloads(q)) = Head(q).payload
           /\ Payloads(Tail(q)) = Tail(Payloads(q))
<1>1. Tail(q) \in Seq(Write) /\ Len(Tail(q)) = Len(q) - 1 /\ Len(q) \in Nat \ {0}
  OBVIOUS
<1>2. \A k \in 1 .. Len(q) - 1 : Tail(q)[k] = q[k + 1]
  OBVIOUS
<1>3. /\ Payloads(q) \in Seq(History) /\ Len(Payloads(q)) = Len(q) /\ Payloads(q) # <<>>
      /\ \A k \in 1 .. Len(q) : Payloads(q)[k] = q[k].payload
  BY PayloadFacts
<1>4. Head(Payloads(q)) = Head(q).payload
  BY <1>1, <1>3
<1>5. /\ Payloads(Tail(q)) \in Seq(History)
      /\ Len(Payloads(Tail(q))) = Len(q) - 1
      /\ \A k \in 1 .. Len(q) - 1 : Payloads(Tail(q))[k] = q[k + 1].payload
  BY <1>1, <1>2, PayloadFacts
<1>6. /\ Tail(Payloads(q)) \in Seq(History)
      /\ Len(Tail(Payloads(q))) = Len(q) - 1
      /\ \A k \in 1 .. Len(q) - 1 : Tail(Payloads(q))[k] = q[k + 1].payload
  BY <1>1, <1>3
<1>7. Payloads(Tail(q)) = Tail(Payloads(q))
  BY <1>1, <1>5, <1>6, SeqEqual
<1> QED
  BY <1>3, <1>4, <1>7

\* What the abstract store remembers.
Answers == IF up = "down" THEN disk ELSE history

\* A save by the running process, alone or after a finished write, is a Put.
LEMMA SaveIsPut ==
    ASSUME NEW q \in Seq(Write), NEW call \in Call, history' \in History,
           up' = "running",
           queue' = Append(q, [payload |-> history', call |-> call])
    PROVE  File!Put(Payloads(q))
<1> DEFINE w == [payload |-> history', call |-> call]
<1>1. w \in Write /\ w.payload = history'
  BY DEF Write
<1> HIDE DEF w
<1>2. Payloads(queue') = Append(Payloads(q), history')
  BY <1>1, PayloadsOfAppend DEF w
<1>3. Payloads(queue)' = Payloads(queue')
  BY DEF Payloads
<1> QED
  BY <1>2, <1>3 DEF File!Put

LEMMA RecordForIsChange ==
    ASSUME IndInv, NEW i \in Id, NEW call \in Call, RecordFor(i, call)
    PROVE  File!Change
<1>1. queue \in Seq(Write) /\ history \in History /\ Sound(history)
  BY DEF IndInv, TypeOK, StoresAreSound, Write
<1>2. history' \in History
  BY <1>1, RecordedFacts DEF RecordFor, Save, IndInv
<1>3. up' = "running" /\ disk' = disk
  BY DEF RecordFor, CanSave
<1>4. queue' = Append(queue, [payload |-> history', call |-> call])
  BY DEF RecordFor, Save
<1>5. File!Put(Payloads(queue))
  BY <1>1, <1>2, <1>3, <1>4, SaveIsPut
<1> QED
  BY <1>3, <1>5 DEF File!Change

LEMMA SaveIsChange ==
    ASSUME IndInv, NEW h \in History, CanSave, Save(h, NoCall), up' = up, disk' = disk
    PROVE  File!Change
<1>1. queue \in Seq(Write) /\ NoCall \in Call
  BY DEF IndInv, TypeOK, Write, Call
<1>2. history' = h /\ up' = "running"
  BY DEF CanSave, Save
<1>3. queue' = Append(queue, [payload |-> history', call |-> NoCall])
  BY DEF Save
<1>4. File!Put(Payloads(queue))
  BY <1>1, <1>2, <1>3, SaveIsPut
<1> QED
  BY <1>4 DEF File!Change

LEMMA AddDeploymentTagIsChange ==
    ASSUME IndInv, NEW i \in Id, NEW t \in Tag, AddDeploymentTag(i, t)
    PROVE  File!Change \/ UNCHANGED <<history, queue, disk, up>>
<1>1. queue \in Seq(Write) /\ AddTag(i, t) /\ up' = "running" /\ UNCHANGED <<disk, up>>
  BY DEF IndInv, TypeOK, Write, AddDeploymentTag, CanSave
<1>2. history' \in History /\ AddCall(i, t) \in Call
  BY <1>1, AddTagFacts DEF Call
<1>3. [payload |-> history', call |-> AddCall(i, t)] \in Write
  BY <1>2 DEF Write
<1>4. CASE history' = history
  <2>1. queue' = queue \o <<>>
    BY <1>4 DEF AddDeploymentTag, TagWrite
  <2> QED
    BY <1>1, <1>3, <1>4, <2>1, ConcatFacts
<1>5. CASE history' # history
  <2>1. queue' = queue \o <<[payload |-> history', call |-> AddCall(i, t)]>>
    BY <1>5 DEF AddDeploymentTag, TagWrite
  <2>2. queue' = Append(queue, [payload |-> history', call |-> AddCall(i, t)])
    BY <1>1, <1>3, <2>1, ConcatFacts
  <2>3. File!Put(Payloads(queue))
    BY <1>1, <1>2, <2>2, SaveIsPut
  <2> QED
    BY <1>1, <2>3 DEF File!Change
<1> QED
  BY <1>4, <1>5

LEMMA RenameIsPersist ==
    ASSUME IndInv, Rename
    PROVE  File!Persist
<1> DEFINE call == Head(queue).call
<1>1. queue \in Seq(Write) /\ queue # <<>> /\ Tail(queue) \in Seq(Write) /\ up # "down"
  BY FinishedWrite
<1>2. call \in Call /\ up' = "running" /\ disk' = Head(queue).payload
  BY <1>1, TailFacts DEF Write, Rename
<1>3. /\ Payloads(queue) # <<>> /\ disk' = Head(Payloads(queue))
      /\ Payloads(Tail(queue)) = Tail(Payloads(queue))
  BY <1>1, <1>2, PayloadsOfTail
<1>4. SUFFICES File!Keep(Payloads(Tail(queue))) \/ File!Put(Payloads(Tail(queue)))
  BY <1>3 DEF File!Persist
<1>5. ASSUME queue' = Tail(queue), history' = history
      PROVE  File!Keep(Payloads(Tail(queue)))
  <2>1. Payloads(queue)' = Payloads(Tail(queue))
    BY <1>5 DEF Payloads
  <2> QED
    BY <1>1, <1>2, <1>5, <2>1 DEF File!Keep
<1>6. CASE call = NoCall
  <2>1. call.kind = "none"
    BY <1>6 DEF NoCall
  <2> QED
    BY <1>5, <2>1 DEF Rename, Answered
<1>7. ASSUME NEW i \in Id, NEW t \in Tag, call = AddCall(i, t)
      PROVE  File!Keep(Payloads(Tail(queue)))
  <2>1. call.kind = "add"
    BY <1>7 DEF AddCall
  <2> QED
    BY <1>5, <2>1 DEF Rename, Answered
<1>8. ASSUME NEW i \in Id, NEW t \in Tag, call = CurrentCall(i, t)
      PROVE  File!Keep(Payloads(Tail(queue))) \/ File!Put(Payloads(Tail(queue)))
  <2> DEFINE w == [payload |-> history', call |-> AddCall(i, t)]
  <2>1. call.kind = "current" /\ call.id = i /\ call.tag = t
    BY <1>8 DEF CurrentCall
  <2>2. AddTag(i, t) /\ queue' = Tail(queue) \o TagWrite(i, t)
    BY <2>1 DEF Rename, Answered
  <2>3. history' \in History /\ AddCall(i, t) \in Call /\ w \in Write
    BY <2>2, AddTagFacts DEF Write, Call
  <2>4. CASE history' = history
    <3>1. queue' = Tail(queue) \o <<>>
      BY <2>2, <2>4 DEF TagWrite
    <3> QED
      BY <1>1, <1>5, <2>3, <2>4, <3>1, ConcatFacts
  <2>5. CASE history' # history
    <3>1. queue' = Tail(queue) \o <<w>>
      BY <2>2, <2>5 DEF TagWrite
    <3>2. queue' = Append(Tail(queue), w)
      BY <1>1, <2>3, <3>1, ConcatFacts
    <3> QED
      BY <1>1, <1>2, <2>3, <3>2, SaveIsPut
  <2> QED
    BY <2>4, <2>5
<1> QED
  BY <1>2, <1>6, <1>7, <1>8, <1>5 DEF Call

LEMMA WriteFailsIsDrop ==
    ASSUME IndInv, WriteFails
    PROVE  File!Drop
<1>1. queue \in Seq(Write) /\ queue # <<>> /\ queue' = Tail(queue) /\ up # "down"
  BY DEF IndInv, TypeOK, Write, WriteFails
<1>2. Payloads(queue) # <<>> /\ Payloads(Tail(queue)) = Tail(Payloads(queue))
  BY <1>1, PayloadsOfTail
<1>3. Payloads(queue)' = Tail(Payloads(queue))
  BY <1>1, <1>2 DEF Payloads
<1>4. UNCHANGED Answers /\ disk' = disk
  BY DEF Answers, IndInv, QuietStart, WriteFails
<1> QED
  BY <1>2, <1>3, <1>4 DEF File!Drop, File!Keep, Answers

LEMMA CrashIsRestart ==
    ASSUME IndInv, Crash
    PROVE  File!Restart
<1>1. queue' = <<>> /\ up' = "down" /\ disk' = disk
  BY DEF Crash
<1>2. Payloads(queue)' = <<>>
  BY <1>1, PayloadFacts, EmptySeq DEF Payloads
<1> QED
  BY <1>1, <1>2 DEF File!Restart

LEMMA LoadIsChange ==
    ASSUME IndInv, Load
    PROVE  File!Change
<1> DEFINE w == [payload |-> disk, call |-> NoCall]
<1>1. queue = <<>> /\ disk \in History /\ w \in Write
  BY DEF IndInv, QuietStart, TypeOK, Load, Write, Call
<1>2. history' = disk /\ up' = "loading" /\ disk' = disk /\ queue' = <<w>>
  BY DEF Load
<1>3. Append(queue, w) = <<w>> /\ queue \in Seq(Write)
  BY <1>1
<1>4. Payloads(queue') = Append(Payloads(queue), w.payload)
  BY <1>1, <1>2, <1>3, PayloadsOfAppend
<1>5. Payloads(queue)' = Payloads(queue')
  BY DEF Payloads
<1> QED
  BY <1>1, <1>2, <1>4, <1>5 DEF File!Change, File!Put

LEMMA InitIsFileInit == Init => File!Init
<1> SUFFICES ASSUME Init
             PROVE  File!Init
  OBVIOUS
<1>1. Payloads(queue) = <<>>
  BY PayloadFacts, EmptySeq DEF Init
<1>2. disk \in History
  BY EmptyIsSound DEF Init
<1> QED
  BY <1>1, <1>2 DEF Init, File!Init

LEMMA StepIsFileStep == IndInv /\ [Next]_vars => [File!Next]_(File!vars)
<1> SUFFICES ASSUME IndInv, [Next]_vars
             PROVE  File!Next \/ UNCHANGED File!vars
  OBVIOUS
<1>1. UNCHANGED <<history, queue, disk, up>> => UNCHANGED File!vars
  BY DEF File!vars, Payloads
<1>2. ASSUME NEW i \in Id, Record(i)
      PROVE  File!Change
  BY <1>2, RecordForIsChange DEF Record, Call
<1>3. ASSUME NEW i \in Id, NEW t \in Tag, TagCurrent(i, t)
      PROVE  File!Change
  BY <1>3, RecordForIsChange DEF TagCurrent, Call
<1>4. ASSUME NEW i \in Id, NEW t \in Tag, AddDeploymentTag(i, t)
      PROVE  File!Change \/ UNCHANGED <<history, queue, disk, up>>
  BY <1>4, AddDeploymentTagIsChange
<1>5. ASSUME NEW i \in Id, NEW t \in Tag, RemoveDeploymentTag(i, t)
      PROVE  File!Change
  <2>1. WithoutTag(history, i, t) \in History
    BY WithoutTagFacts DEF IndInv, TypeOK, StoresAreSound
  <2> QED
    BY <1>5, <2>1, SaveIsChange DEF RemoveDeploymentTag
<1>6. ASSUME RemoveServer
      PROVE  File!Change
  BY <1>6, EmptyIsSound, SaveIsChange DEF RemoveServer
<1>7. CASE Rename
  BY <1>7, RenameIsPersist DEF File!Next
<1>8. CASE WriteFails
  BY <1>8, WriteFailsIsDrop DEF File!Next
<1>9. CASE Crash
  BY <1>9, CrashIsRestart DEF File!Next
<1>10. ASSUME Load
       PROVE  File!Change
  BY <1>10, LoadIsChange
<1>11. CASE WriteTemporary
  BY <1>1, <1>11 DEF WriteTemporary
<1>12. CASE UNCHANGED vars
  BY <1>1, <1>12 DEF vars
<1>13. File!Change => File!Next
  BY DEF File!Next
<1> QED
  BY <1>1, <1>2, <1>3, <1>4, <1>5, <1>6, <1>7, <1>8, <1>9, <1>10, <1>11, <1>12, <1>13
     DEF Next

\* Whatever fails and whenever the process dies, the file goes through values memory
\* took, in their order, and a failed write costs that write only: every step of the
\* store is a step of WriteBehind or leaves it unchanged.
THEOREM HistoryIsWriteBehind == Spec => ImplementsWriteBehind
<1>1. Init => File!Init
  BY InitIsFileInit
<1>2. IndInv /\ [Next]_vars => [File!Next]_(File!vars)
  BY StepIsFileStep
<1> QED
  BY <1>1, <1>2, Invariance, PTL DEF Spec, ImplementsWriteBehind, File!Spec
===============================================================================
