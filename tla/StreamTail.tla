------------------------------ MODULE StreamTail ------------------------------
(***************************************************************************)
(* Following a log: LogStreamRegistry.ts, which tails a file of nginx or a *)
(* container in a channel, and the view that selects what is followed      *)
(* (NginxLogsView.tsx, ContainerLogsView.tsx).                             *)
(*                                                                         *)
(* A view draws one stream id and keeps it: every selection stops the      *)
(* stream of that id and starts another one with the same id.              *)
(***************************************************************************)
EXTENDS Naturals, Sequences, SequencesExt, Null

CONSTANTS
    LogFile,       \* what can be followed
    MaxTails       \* bound: tails started

ASSUME TlMaxTailsAssumption == MaxTails \in Nat
ASSUME TlNoneAssumption == None \notin Nat

VARIABLES
    tlView,        \* the selection, and the files whose lines are on display
    tlStarts,      \* start() calls that wait for their client or channel
    tlChannels,    \* channels: what they follow, and whether they were told to close
    tlListed,      \* the channel under the key of the stream id, or none
    tlOverlap      \* a start overlapped a stop or the close of another (history)

tlVars == <<tlView, tlStarts, tlChannels, tlListed, tlOverlap>>

TlChannel == [id : 1..MaxTails, file : LogFile, closing : BOOLEAN]
TlCount == Len(tlStarts) + Len(tlChannels)

ToldToClose(channel) == [channel EXCEPT !.closing = TRUE]
TlStopped ==
    IF tlListed = None THEN tlChannels
    ELSE [i \in DOMAIN tlChannels |->
            IF tlChannels[i].id = tlListed THEN ToldToClose(tlChannels[i]) ELSE tlChannels[i]]

TlStops ==
    /\ tlChannels' = TlStopped
    /\ tlListed' = None

TlNextId == CHOOSE n \in 1..MaxTails :
                \A i \in DOMAIN tlChannels : tlChannels[i].id # n

(***************************************************************************)
(* The view: its effect stops what it started and starts anew.             *)
(***************************************************************************)
TlSelects(f) ==
    /\ tlView.selected # f
    /\ TlCount < MaxTails
    /\ TlStops
    /\ tlStarts' = Append(tlStarts, f)
    /\ tlView' = [selected |-> f, shows |-> {}]
    /\ tlOverlap' = (tlOverlap \/ tlStarts # <<>>)

\* The cleanup of the effect, and nothing after it.
TlUnmounts ==
    /\ tlView.selected # None
    /\ TlStops
    /\ tlView' = [selected |-> None, shows |-> {}]
    /\ tlOverlap' = (tlOverlap \/ tlStarts # <<>>)
    /\ UNCHANGED tlStarts

(***************************************************************************)
(* start, after its two awaits: the key is set, whatever it holds.         *)
(***************************************************************************)
TlOpens(i) ==
    /\ tlChannels' = Append(tlChannels, [id |-> TlNextId, file |-> tlStarts[i], closing |-> FALSE])
    /\ tlListed' = TlNextId
    /\ tlStarts' = RemoveAt(tlStarts, i)
    /\ tlOverlap' = (tlOverlap \/ tlChannels # <<>>)
    /\ UNCHANGED tlView

TlCannotOpen(i) ==
    /\ tlStarts' = RemoveAt(tlStarts, i)
    /\ UNCHANGED <<tlView, tlChannels, tlListed, tlOverlap>>

\* onData of the stream id, which a channel told to close still sends.
TlData(i) ==
    /\ tlView.selected # None
    /\ tlView' = [tlView EXCEPT !.shows = tlView.shows \cup {tlChannels[i].file}]
    /\ UNCHANGED <<tlStarts, tlChannels, tlListed, tlOverlap>>

\* finish: closed, ended or lost, the key is deleted, whatever it holds.
TlEnds(i) ==
    /\ tlChannels' = RemoveAt(tlChannels, i)
    /\ tlListed' = None
    /\ UNCHANGED <<tlView, tlStarts, tlOverlap>>

\* stopAllForServer, and the end of the clients; the view stays.
TlTeardown ==
    /\ tlChannels # <<>>
    /\ tlChannels' = [i \in DOMAIN tlChannels |-> ToldToClose(tlChannels[i])]
    /\ tlListed' = None
    /\ UNCHANGED <<tlView, tlStarts, tlOverlap>>

TlInit ==
    /\ tlView = [selected |-> None, shows |-> {}]
    /\ tlStarts = <<>> /\ tlChannels = <<>> /\ tlListed = None
    /\ tlOverlap = FALSE

TlNext ==
    \/ \E f \in LogFile : TlSelects(f)
    \/ TlUnmounts
    \/ \E i \in DOMAIN tlStarts : TlOpens(i) \/ TlCannotOpen(i)
    \/ \E i \in DOMAIN tlChannels : TlData(i) \/ TlEnds(i)
    \/ TlTeardown

TlSpec == TlInit /\ [][TlNext]_tlVars

(***************************************************************************)
(* Properties.                                                             *)
(***************************************************************************)
\* Every variable keeps its type.
TlTypeOK ==
    /\ tlView \in [selected : LogFile \cup {None}, shows : SUBSET LogFile]
    /\ tlStarts \in Seq(LogFile)
    /\ tlChannels \in Seq(TlChannel)
    /\ tlListed \in 1..MaxTails \cup {None}
    /\ tlOverlap \in BOOLEAN

\* A tail nobody told to close is the one of the registry, and follows what the
\* view has selected: none runs on out of reach, as long as a selection waits for
\* the tail before it to be over.
TlTailsAreReachable ==
    ~tlOverlap =>
        \A i \in DOMAIN tlChannels :
            ~tlChannels[i].closing =>
                tlChannels[i].id = tlListed /\ tlChannels[i].file = tlView.selected
===============================================================================
