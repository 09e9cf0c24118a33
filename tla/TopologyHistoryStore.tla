------------------------- MODULE TopologyHistoryStore -------------------------
(***************************************************************************)
(* The snapshot history of one server and the file that holds it           *)
(* (src/app/src/main/store/topologyHistory.ts, and tagCurrent of           *)
(* TopologyHistoryService.ts).                                             *)
(*                                                                         *)
(* Memory changes at once; save() serialises it at the same moment and     *)
(* puts the payload on a queue of writes.  A write fills the .tmp file and *)
(* renames it, either may fail, and the process may die at any point.      *)
(* Calls that return a promise answer when their write has finished.       *)
(*                                                                         *)
(* The snapshots array is the set of its entries, at being their order.    *)
(***************************************************************************)
EXTENDS Naturals, FiniteSets, Sequences

CONSTANTS
    Id,          \* snapshot ids
    Tag,         \* a tag name on a deployment of the snapshot
    Limit,       \* HISTORY_PER_SERVER_LIMIT
    MaxAt,       \* bound: snapshots recorded
    MaxQueue     \* bound: writes waiting

ASSUME LimitAssumption == Limit \in Nat \ {0}
ASSUME BoundAssumption == MaxAt \in Nat /\ MaxQueue \in Nat

VARIABLES
    history,     \* byServer[serverId].snapshots in memory
    pushed,      \* (history variable) entries pushed so far: the order of the array
    disk,        \* what topologyHistory.json holds
    queue,       \* writeQueue: payloads with the call each one answers
    temporary,   \* the head of the queue is in the .tmp file, not yet renamed
    failed,      \* the last write that finished failed
    up,          \* "loading" until load() is done, then "running", or "down"
    answered     \* (history variable) what tagging calls answered the user

vars == <<history, pushed, disk, queue, temporary, failed, up, answered>>

Entry == [id : Id, at : Nat, tags : SUBSET Tag]

Tagged(h) == {e \in h : e.tags # {}}
Untagged(h) == h \ Tagged(h)
Ids(h) == {e.id : e \in h}
TagsOf(h) == {t \in Id \X Tag : \E e \in h : e.id = t[1] /\ t[2] \in e.tags}

(***************************************************************************)
(* The call a write answers when it finishes.  A tagCurrent() continues    *)
(* with addDeploymentTag once its snapshot is recorded.                    *)
(***************************************************************************)
NoCall == [kind |-> "none"]
AddCall(i, t) == [kind |-> "add", id |-> i, tag |-> t]
CurrentCall(i, t) == [kind |-> "current", id |-> i, tag |-> t]
Call == {NoCall} \cup {AddCall(i, t) : i \in Id, t \in Tag}
                 \cup {CurrentCall(i, t) : i \in Id, t \in Tag}

\* how: the write of the tag was "saved", the tag was "already" there, or the
\* snapshot was not in the history and the call was "skipped".
Answer == [id : Id, tag : Tag, how : {"saved", "already", "skipped"}]
AnswerTo(i, t, how) == [id |-> i, tag |-> t, how |-> how]

(***************************************************************************)
(* record: the entry goes last; above the limit the oldest untagged entries *)
(* go, as long as there are any.                                           *)
(***************************************************************************)
NewEntry(i) == [id |-> i, at |-> pushed + 1, tags |-> {}]

Older(h, e) == {f \in Untagged(h) : f.at < e.at}

\* (mutant) The oldest entries go, tagged or not.
PrunedBlindly(h) ==
    {e \in h : Cardinality({f \in h : f.at < e.at}) >= Cardinality(h) - Limit}

\* (mutant) The loop ends one entry early.
PrunedLate(h) ==
    Tagged(h) \cup
    {e \in Untagged(h) : Cardinality(Older(h, e)) + 1 >= Cardinality(h) - Limit}

Pruned(h) ==
    Tagged(h) \cup
    {e \in Untagged(h) : Cardinality(Older(h, e)) >= Cardinality(h) - Limit}

\* (mutant) A snapshot already stored is pushed again.
RecordedTwice(h, i) == Pruned(h \cup {NewEntry(i)})

Recorded(h, i) == IF i \in Ids(h) THEN h ELSE Pruned(h \cup {NewEntry(i)})

WithTag(h, i, t) ==
    {IF e.id = i THEN [e EXCEPT !.tags = @ \cup {t}] ELSE e : e \in h}

WithoutTag(h, i, t) ==
    {IF e.id = i THEN [e EXCEPT !.tags = @ \ {t}] ELSE e : e \in h}

(***************************************************************************)
(* save(): serialise now, write later.                                     *)
(***************************************************************************)
\* (mutant) The payload is serialised when the write starts, not here: the queue
\* holds what memory was before the change.
SaveLate(h, call) ==
    /\ history' = h
    /\ queue' = Append(queue, [payload |-> history, call |-> call])

Save(h, call) ==
    /\ history' = h
    /\ queue' = Append(queue, [payload |-> h, call |-> call])

CanSave == up = "running" /\ Len(queue) < MaxQueue

\* A tag taken away, or purged, is no longer promised to the user.
Forget(ids, tags) == {a \in answered : ~(a.id \in ids /\ a.tag \in tags)}

\* record, with the call its write answers.
RecordFor(i, call) ==
    /\ CanSave
    /\ pushed < MaxAt
    /\ Save(Recorded(history, i), call)
    /\ pushed' = IF i \in Ids(history) THEN pushed ELSE pushed + 1
    /\ UNCHANGED <<disk, temporary, failed, up, answered>>

Record(i) == RecordFor(i, NoCall)

\* tagCurrent: record, wait for the write, then addDeploymentTag.
TagCurrent(i, t) == RecordFor(i, CurrentCall(i, t))

\* (mutant) save() is not awaited.
AddTagUnawaited(i, t) ==
    IF i \in Ids(history)
    THEN /\ answered' = answered \cup {AnswerTo(i, t, "saved")}
         /\ history' = WithTag(history, i, t)
    ELSE UNCHANGED <<history, answered>>

\* addDeploymentTag: nothing to save when the snapshot is gone or has the tag.
AddTag(i, t) ==
    IF history = {}
    THEN UNCHANGED <<history, answered>>
    ELSE IF i \notin Ids(history)
    THEN /\ answered' = answered \cup {AnswerTo(i, t, "skipped")}
         /\ UNCHANGED history
    ELSE IF <<i, t>> \in TagsOf(history)
    THEN /\ answered' = answered \cup {AnswerTo(i, t, "already")}
         /\ UNCHANGED history
    ELSE /\ history' = WithTag(history, i, t)
         /\ UNCHANGED answered

\* The write AddTag asks for, if it changed anything.
TagWrite(i, t) ==
    IF history' = history
    THEN <<>>
    ELSE <<[payload |-> history', call |-> AddCall(i, t)]>>

\* The user tags a snapshot of the list.
AddDeploymentTag(i, t) ==
    /\ CanSave
    /\ i \in Ids(history)
    /\ AddTag(i, t)
    /\ queue' = queue \o TagWrite(i, t)
    /\ UNCHANGED <<pushed, disk, temporary, failed, up>>

RemoveDeploymentTag(i, t) ==
    /\ CanSave
    /\ <<i, t>> \in TagsOf(history)
    /\ Save(WithoutTag(history, i, t), NoCall)
    /\ answered' = Forget({i}, {t})
    /\ UNCHANGED <<pushed, disk, temporary, failed, up>>

RemoveServer ==
    /\ CanSave
    /\ history # {}
    /\ Save({}, NoCall)
    /\ answered' = Forget(Id, Tag)
    /\ UNCHANGED <<pushed, disk, temporary, failed, up>>

(***************************************************************************)
(* The queue of writes: writeFile of the .tmp file, then rename.           *)
(***************************************************************************)
WriteTemporary ==
    /\ up \in {"loading", "running"}
    /\ queue # <<>> /\ ~temporary
    /\ temporary' = TRUE
    /\ UNCHANGED <<history, pushed, disk, queue, failed, up, answered>>

\* Nobody has taken the tag away since the call was made.
Stands(i, t) ==
    /\ <<i, t>> \in TagsOf(history)
    /\ \A k \in DOMAIN queue : <<i, t>> \in TagsOf(queue[k].payload)

\* What the call behind the head of the queue does once the write succeeded.
Answered ==
    LET call == Head(queue).call
    IN  CASE call.kind = "current" ->
               /\ AddTag(call.id, call.tag)
               /\ queue' = Tail(queue) \o TagWrite(call.id, call.tag)
          [] call.kind = "add" ->
               /\ answered' = IF Stands(call.id, call.tag)
                              THEN answered \cup {AnswerTo(call.id, call.tag, "saved")}
                              ELSE answered
               /\ queue' = Tail(queue)
               /\ UNCHANGED history
          [] call.kind = "none" ->
               /\ queue' = Tail(queue)
               /\ UNCHANGED <<history, answered>>

Rename ==
    /\ temporary
    /\ temporary' = FALSE
    /\ disk' = Head(queue).payload
    /\ failed' = FALSE
    /\ Answered
    /\ up' = "running"
    /\ UNCHANGED pushed

\* (mutant) A failed rename leaves the write half done.
FailsHalfway ==
    /\ up \in {"loading", "running"}
    /\ queue # <<>>
    /\ failed' = TRUE
    /\ queue' = Tail(queue)
    /\ UNCHANGED <<history, pushed, disk, temporary, up, answered>>

\* (mutant) The failure is not caught on the way to the next write: all are lost.
FailsForAll ==
    /\ up \in {"loading", "running"}
    /\ queue # <<>>
    /\ temporary' = FALSE
    /\ failed' = TRUE
    /\ queue' = <<>>
    /\ up' = IF up = "loading" THEN "down" ELSE up
    /\ UNCHANGED <<history, pushed, disk, answered>>

\* Either step fails: the call gets the error, the queue goes on.  A write that
\* fails while loading ends the start of the application.
WriteFails ==
    /\ up \in {"loading", "running"}
    /\ queue # <<>>
    /\ temporary' = FALSE
    /\ failed' = TRUE
    /\ queue' = Tail(queue)
    /\ up' = IF up = "loading" THEN "down" ELSE up
    /\ UNCHANGED <<history, pushed, disk, answered>>

Crash ==
    /\ up # "down"
    /\ up' = "down"
    /\ queue' = <<>>
    /\ temporary' = FALSE
    /\ UNCHANGED <<history, pushed, disk, failed, answered>>

\* load(): the file as it is, saved again before the handlers are registered.
Load ==
    /\ up = "down"
    /\ up' = "loading"
    /\ history' = disk
    /\ queue' = <<[payload |-> disk, call |-> NoCall]>>
    /\ UNCHANGED <<pushed, disk, temporary, failed, answered>>

-----------------------------------------------------------------------------
Init ==
    /\ history = {} /\ pushed = 0 /\ disk = {}
    /\ queue = <<>> /\ temporary = FALSE /\ failed = FALSE
    /\ up = "running"
    /\ answered = {}

Next ==
    \/ \E i \in Id : Record(i)
    \/ \E i \in Id, t \in Tag :
        AddDeploymentTag(i, t) \/ RemoveDeploymentTag(i, t) \/ TagCurrent(i, t)
    \/ RemoveServer
    \/ WriteTemporary \/ Rename \/ WriteFails
    \/ Crash \/ Load

Spec == Init /\ [][Next]_vars

-----------------------------------------------------------------------------
(***************************************************************************)
(* Properties.                                                             *)
(***************************************************************************)
History == SUBSET Entry

TypeOK ==
    /\ history \in History /\ disk \in History
    /\ pushed \in Nat
    /\ queue \in Seq([payload : History, call : Call])
    /\ temporary \in BOOLEAN /\ (temporary => queue # <<>>)
    /\ failed \in BOOLEAN
    /\ up \in {"loading", "running", "down"}
    /\ answered \subseteq Answer

\* get() and the tag calls find "the" entry with an id: there is at most one, in
\* memory and in the file, across prunings, reloads and repeated tagCurrent calls.
UniqueIds ==
    \A h \in {history, disk} : \A e, f \in h : e.id = f.id => e = f

\* No save is lost behind another one: when the queue has drained and the last write
\* succeeded, the file holds what memory holds.
FileCatchesUp ==
    up = "running" /\ queue = <<>> /\ ~failed => disk = history

\* A tag whose call was answered after its own write is in the file, stays in every
\* later payload, and so survives a crash at any point, until the user removes it.
SavedTagsSurvive ==
    \A a \in answered : a.how = "saved" =>
        /\ <<a.id, a.tag>> \in TagsOf(disk)
        /\ up # "down" => <<a.id, a.tag>> \in TagsOf(history)
        /\ \A k \in DOMAIN queue : <<a.id, a.tag>> \in TagsOf(queue[k].payload)

\* "Tagged snapshots are never auto-pruned": a tagged entry goes only with its server
\* or with a restart.
TaggedNeverPruned ==
    [][up = "running" /\ up' = "running" /\ history' # {}
        => Ids(Tagged(history)) \subseteq Ids(history')]_vars

\* "Capped at 10 per server": in memory and in the file, although tagged entries are
\* exempt from pruning (when all others are tagged the new snapshot itself goes).
Capped == Cardinality(history) <= Limit /\ Cardinality(disk) <= Limit

Payloads(q) == [k \in DOMAIN q |-> q[k].payload]

(***************************************************************************)
(* The abstract store this one implements.  A process that is down answers *)
(* nothing, and will answer what the file holds.                           *)
(***************************************************************************)
File == INSTANCE WriteBehind WITH
    Value <- History,
    memory <- IF up = "down" THEN disk ELSE history,
    durable <- disk,
    backlog <- Payloads(queue)

\* The file goes through the values memory went through, in their order, whatever
\* fails and whenever the process dies; a failed write costs that write only.
ImplementsWriteBehind == File!Spec
===============================================================================
