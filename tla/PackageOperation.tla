--------------------------- MODULE PackageOperation ----------------------------
(***************************************************************************)
(* Installing, removing and upgrading packages: the operations of          *)
(* PackageService.ts, one per stream id, and the Packages panel that       *)
(* starts one, watches it and cancels it.                                  *)
(*                                                                         *)
(* A step of an operation is a command in a channel of its own.  Only the  *)
(* close of the channel tells how it ended, and a channel lost with its    *)
(* connection closes without an exit code.                                 *)
(***************************************************************************)
EXTENDS Naturals, Sequences, Null

CONSTANT
    Operation      \* stream ids

VARIABLES
    pkgRun,        \* each run of runOperation
    pkgPanel,      \* the operation the panel shows
    pkgLink,       \* is the server connected
    pkgManager     \* managerCache: nothing, the manager, or a promise that failed

pkgVars == <<pkgRun, pkgPanel, pkgLink, pkgManager>>

\* The commands of an operation; verify is a plain exec.
Commands(kind) ==
    CASE kind = "install"     -> <<"simulate", "change", "verify">>
      [] kind = "remove"      -> <<"change">>
      [] kind = "upgrade"     -> <<"change", "verify">>
      [] kind = "upgrade-all" -> <<"change">>

PkgKind == {"install", "remove", "upgrade", "upgrade-all"}

RunState ==
    [kind : PkgKind,
     at : {"new", "detect", "opening", "open", "closing", "over"},
     todo : Seq({"simulate", "change", "verify"}),
     listed : BOOLEAN,                  \* is the stream in operationStreams
     cancelled : BOOLEAN,               \* its flag
     reports : Seq({"success", "failure"}),
     done : BOOLEAN,                    \* the change ran to its end with code 0 (history)
     stopped : BOOLEAN,                 \* the user cancelled it while it was listed (history)
     lost : BOOLEAN]                    \* the server was lost while it ran (history)

Fresh(kind) ==
    [kind |-> kind, at |-> "new", todo |-> Commands(kind), listed |-> FALSE,
     cancelled |-> FALSE, reports |-> <<>>, done |-> FALSE, stopped |-> FALSE, lost |-> FALSE]

PkgRunning(o) == pkgRun[o].at \notin {"new", "over"}

\* isCancelled: the flag of the stream operationStreams still holds.
PkgIsCancelled(o) == pkgRun[o].listed /\ pkgRun[o].cancelled

(***************************************************************************)
(* fail, succeed: one done event; then the finally of both callers.        *)
(***************************************************************************)
PkgHeard(o) ==
    IF pkgPanel.shows = o /\ pkgLink THEN [pkgPanel EXCEPT !.finished = TRUE] ELSE pkgPanel

PkgEnds(o, report, record) ==
    /\ pkgRun' = [pkgRun EXCEPT ![o] = [record EXCEPT !.at = "over", !.listed = FALSE,
                     !.reports = Append(@, report)]]
    /\ pkgPanel' = PkgHeard(o)
    /\ pkgManager' = None

(***************************************************************************)
(* resolveManager: the cached promise, whatever came of it.                *)
(***************************************************************************)
PkgManagerFound ==
    IF pkgManager = None
    THEN {"failed"} \cup (IF pkgLink THEN {"apt"} ELSE {})
    ELSE {pkgManager}

\* The panel's lists ask for it too.
PkgListAsks ==
    /\ pkgManager = None /\ pkgPanel.shows = None
    /\ \E found \in PkgManagerFound : pkgManager' = found
    /\ UNCHANGED <<pkgRun, pkgPanel, pkgLink>>

(***************************************************************************)
(* Steps of an operation.                                                  *)
(***************************************************************************)
PkgDetects(o) ==
    /\ pkgRun[o].at = "detect"
    /\ \E found \in PkgManagerFound :
        IF PkgIsCancelled(o) \/ found = "failed"
        THEN PkgEnds(o, "failure", pkgRun[o])
        ELSE /\ pkgRun' = [pkgRun EXCEPT ![o].at = "opening"]
             /\ pkgManager' = found
             /\ UNCHANGED pkgPanel
    /\ UNCHANGED pkgLink

\* getInteractiveClient, getContext, execStreamOnClient: the channel opens even
\* for a cancelled operation, and its flag is looked at when it closes.
PkgOpens(o) ==
    /\ pkgRun[o].at = "opening" /\ pkgLink
    /\ pkgRun' = [pkgRun EXCEPT ![o].at = "open"]
    /\ UNCHANGED <<pkgPanel, pkgLink, pkgManager>>

PkgCannotOpen(o) ==
    /\ pkgRun[o].at = "opening"
    /\ PkgEnds(o, "failure", pkgRun[o])
    /\ UNCHANGED pkgLink

\* The command ran to its end with code 0.
Worked(o) ==
    [pkgRun[o] EXCEPT !.done = @ \/ Head(pkgRun[o].todo) = "change"]

\* What follows a command: exit code -1 of a cancelled one, or the flag, fails;
\* the last command succeeds.
PkgGoesOn(o, record) ==
    IF PkgIsCancelled(o) THEN PkgEnds(o, "failure", record)
    ELSE IF Len(record.todo) = 1 THEN PkgEnds(o, "success", record)
    ELSE /\ pkgRun' = [pkgRun EXCEPT ![o] =
                          [record EXCEPT !.at = "opening", !.todo = Tail(@)]]
         /\ UNCHANGED <<pkgPanel, pkgManager>>

PkgWorks(o) ==
    /\ pkgRun[o].at = "open"
    /\ PkgGoesOn(o, Worked(o))
    /\ UNCHANGED pkgLink

\* (mutant) The exit code is taken for 0.
PkgFailsUnseen(o) ==
    /\ pkgRun[o].at = "open"
    /\ PkgGoesOn(o, pkgRun[o])
    /\ UNCHANGED pkgLink

\* A non-zero exit code, or a package that verify does not find.
PkgFails(o) ==
    /\ pkgRun[o].at = "open"
    /\ PkgEnds(o, "failure", pkgRun[o])
    /\ UNCHANGED pkgLink

\* A channel closed from here or lost has no exit code, which counts as 0 unless
\* the flag is found.  (verify, without a channel, rejects.)
PkgCloses(o) ==
    /\ pkgRun[o].at = "closing"
    /\ IF Head(pkgRun[o].todo) = "verify"
       THEN PkgEnds(o, "failure", pkgRun[o])
       ELSE PkgGoesOn(o, pkgRun[o])
    /\ UNCHANGED pkgLink

(***************************************************************************)
(* startOperation, cancelOperation and the teardown (clearServer).         *)
(***************************************************************************)
PkgStart(o) ==
    /\ pkgLink /\ pkgPanel.shows = None
    /\ pkgRun[o].at = "new"
    /\ pkgRun' = [pkgRun EXCEPT ![o].at = "detect", ![o].listed = TRUE]
    /\ pkgPanel' = [shows |-> o, finished |-> FALSE, remounted |-> FALSE]
    /\ UNCHANGED <<pkgLink, pkgManager>>

\* The progress view goes on showing the operation until its end.
PkgCancel(o) ==
    /\ pkgLink /\ pkgPanel.shows = o /\ ~pkgPanel.finished
    /\ pkgRun' = IF pkgRun[o].listed
                 THEN [pkgRun EXCEPT ![o] = [pkgRun[o] EXCEPT
                          !.cancelled = TRUE, !.stopped = TRUE,
                          !.at = IF @ = "open" /\ Head(pkgRun[o].todo) # "verify"
                                 THEN "closing" ELSE @]]
                 ELSE pkgRun
    /\ UNCHANGED <<pkgPanel, pkgLink, pkgManager>>

\* Close, when finished; or the panel is closed.
PkgLeave ==
    /\ pkgPanel.shows # None
    /\ pkgPanel' = [shows |-> None, finished |-> FALSE, remounted |-> FALSE]
    /\ UNCHANGED <<pkgRun, pkgLink, pkgManager>>

PkgLoseServer ==
    /\ pkgLink /\ pkgLink' = FALSE
    /\ pkgRun' = [o \in Operation |->
                    IF ~PkgRunning(o) THEN pkgRun[o]
                    ELSE [pkgRun[o] EXCEPT !.cancelled = TRUE, !.listed = FALSE, !.lost = TRUE,
                             !.at = IF @ = "open" THEN "closing" ELSE @]]
    /\ pkgManager' = None
    /\ pkgPanel' = [pkgPanel EXCEPT !.finished = FALSE, !.remounted = @ \/ pkgPanel.shows # None]

PkgConnect ==
    /\ ~pkgLink /\ pkgLink' = TRUE
    /\ UNCHANGED <<pkgRun, pkgPanel, pkgManager>>

PkgInit ==
    /\ \E kind \in [Operation -> PkgKind] : pkgRun = [o \in Operation |-> Fresh(kind[o])]
    /\ pkgPanel = [shows |-> None, finished |-> FALSE, remounted |-> FALSE]
    /\ pkgLink = TRUE
    /\ pkgManager = None

PkgNext ==
    \/ \E o \in Operation :
        \/ PkgStart(o) \/ PkgCancel(o)
        \/ PkgDetects(o) \/ PkgOpens(o) \/ PkgCannotOpen(o)
        \/ PkgWorks(o) \/ PkgFails(o) \/ PkgCloses(o)
    \/ PkgListAsks \/ PkgLeave \/ PkgLoseServer \/ PkgConnect

PkgSpec == PkgInit /\ [][PkgNext]_pkgVars

(***************************************************************************)
(* Properties.                                                             *)
(***************************************************************************)
\* Every variable keeps its type; an operation under way has a command to run.
PkgTypeOK ==
    /\ pkgRun \in [Operation -> RunState]
    /\ pkgPanel \in [shows : Operation \cup {None}, finished : BOOLEAN, remounted : BOOLEAN]
    /\ pkgLink \in BOOLEAN
    /\ pkgManager \in {None, "apt", "failed"}
    /\ \A o \in Operation : pkgRun[o].todo # <<>>

\* Every operation that ends says so, once: no early return is silent, and none
\* is followed by a second report.
PkgOneEnd ==
    \A o \in Operation : Len(pkgRun[o].reports) = IF pkgRun[o].at = "over" THEN 1 ELSE 0

\* An operation is only reported as done when its command ended with code 0,
\* unless the server was lost meanwhile.
PkgSuccessIsReal ==
    \A o \in Operation :
        pkgRun[o].reports = <<"success">> /\ ~pkgRun[o].lost => pkgRun[o].done

\* An operation the user cancelled before its end is never reported as done, as
\* long as the server stays.
PkgCancelledFails ==
    \A o \in Operation :
        pkgRun[o].stopped /\ ~pkgRun[o].lost => pkgRun[o].reports \in {<<>>, <<"failure">>}

\* A progress view that stays mounted learns the end of its operation.
PkgViewHearsEnd ==
    pkgPanel.shows # None /\ ~pkgPanel.finished =>
        PkgRunning(pkgPanel.shows) \/ pkgPanel.remounted
===============================================================================
