------------------------------ MODULE WriteBehind ------------------------------
(***************************************************************************)
(* What a store that answers from memory and writes its file behind it     *)
(* promises.  Every value memory takes joins the backlog; the file takes   *)
(* the values of the backlog one at a time, in the order memory took them, *)
(* except those whose write failed; a restart falls back to the file and   *)
(* forgets the backlog.  So the file never holds a value memory did not,   *)
(* never goes back to an earlier one, and one failed write costs one       *)
(* value.  It abstracts save() of store/topologyHistory.ts.                 *)
(***************************************************************************)
EXTENDS Sequences

CONSTANT Value   \* what the store may hold

VARIABLES
    memory,      \* what the store answers
    durable,     \* what the file holds
    backlog      \* the values still to be written, the oldest first

vars == <<memory, durable, backlog>>

Init ==
    /\ memory \in Value
    /\ durable = memory
    /\ backlog = <<>>

Keep(left) == backlog' = left /\ UNCHANGED memory

Put(left) == memory' \in Value /\ backlog' = Append(left, memory')

Change == Put(backlog) /\ UNCHANGED durable

\* Whoever waited for the write may go on with a change of its own.
Persist ==
    /\ backlog # <<>>
    /\ durable' = Head(backlog)
    /\ Keep(Tail(backlog)) \/ Put(Tail(backlog))

Drop ==
    /\ backlog # <<>>
    /\ Keep(Tail(backlog))
    /\ UNCHANGED durable

Restart ==
    /\ memory' = durable
    /\ backlog' = <<>>
    /\ UNCHANGED durable

Next == Change \/ Persist \/ Drop \/ Restart

Spec == Init /\ [][Next]_vars
===============================================================================
