----------------------------- MODULE NginxReload ------------------------------
(***************************************************************************)
(* The gate of nginx reloads: NginxService.ts counts the edits it has made *)
(* and the edits nginx -t has covered, and refuses a reload in between.    *)
(*                                                                         *)
(* An edit, a test and a reload each wait for the server, one of each at a *)
(* time here.  What is on the server's disk (does it pass nginx -t, was it *)
(* tested) is kept apart from what the tracker says of it.                 *)
(***************************************************************************)
EXTENDS Naturals

CONSTANT MaxEdits          \* bound: edits made through the Nginx tool

ASSUME MaxEditsAssumption == MaxEdits \in Nat

VARIABLES
    ngxDisk,       \* the configuration files of the server
    ngxTracker,    \* validationTrackers.get(serverId)
    ngxEdit,       \* writeConfig under way
    ngxTest,       \* validate under way, with the verdict of nginx -t
    ngxReload,     \* runAction('reload') under way, and what the last one loaded
    ngxMade,       \* edits begun
    ngxRaced       \* an edit the tracker cannot order against the tests (history)

ngxVars == <<ngxDisk, ngxTracker, ngxEdit, ngxTest, ngxReload, ngxMade, ngxRaced>>

Verdict == {"unknown", "valid", "invalid"}

\* tracker(): a server without one starts with nothing edited, nothing tested.
NewTracker == [config |-> 0, validated |-> 0, validation |-> "unknown"]

NgxCanReload ==
    ngxTracker.config = ngxTracker.validated /\ ngxTracker.validation # "invalid"

(***************************************************************************)
(* writeConfig: by SFTP, or staged and copied with privileges.             *)
(***************************************************************************)
NgxEditBegins ==
    /\ ngxEdit = "idle" /\ ngxMade < MaxEdits
    /\ ngxEdit' = "sent" /\ ngxMade' = ngxMade + 1
    /\ UNCHANGED <<ngxDisk, ngxTracker, ngxTest, ngxReload, ngxRaced>>

\* The write reaches the file, possibly during a test.
NgxEditLands ==
    /\ ngxEdit = "sent"
    /\ ngxEdit' = "landed"
    /\ \E good \in BOOLEAN : ngxDisk' = [good |-> good, tested |-> FALSE]
    /\ ngxRaced' = (ngxRaced \/ ngxTest # "idle" \/ ngxReload.pending)
    /\ UNCHANGED <<ngxTracker, ngxTest, ngxReload, ngxMade>>

NgxEditReturns ==
    /\ ngxEdit = "landed"
    /\ ngxEdit' = "idle"
    /\ ngxTracker' = [ngxTracker EXCEPT !.config = @ + 1, !.validation = "unknown"]
    /\ UNCHANGED <<ngxDisk, ngxTest, ngxReload, ngxMade, ngxRaced>>

\* An error before or after the file changed: the tracker is not told.
NgxEditFails ==
    /\ ngxEdit # "idle"
    /\ ngxEdit' = "idle"
    /\ ngxRaced' = (ngxRaced \/ ngxEdit = "landed")
    /\ UNCHANGED <<ngxDisk, ngxTracker, ngxTest, ngxReload, ngxMade>>

\* The same files changed from the Files tool or a terminal.
NgxEditElsewhere ==
    /\ ngxDisk.tested
    /\ \E good \in BOOLEAN : ngxDisk' = [good |-> good, tested |-> FALSE]
    /\ ngxRaced' = TRUE
    /\ UNCHANGED <<ngxTracker, ngxEdit, ngxTest, ngxReload, ngxMade>>

(***************************************************************************)
(* validate.                                                               *)
(***************************************************************************)
NgxTestBegins ==
    /\ ngxTest = "idle" /\ ngxTest' = "sent"
    /\ ngxRaced' = (ngxRaced \/ ngxEdit = "landed")
    /\ UNCHANGED <<ngxDisk, ngxTracker, ngxEdit, ngxReload, ngxMade>>

NgxTestRuns ==
    /\ ngxTest = "sent"
    /\ ngxTest' = IF ngxDisk.good THEN "valid" ELSE "invalid"
    /\ ngxDisk' = [ngxDisk EXCEPT !.tested = ngxDisk.good]
    /\ UNCHANGED <<ngxTracker, ngxEdit, ngxReload, ngxMade, ngxRaced>>

NgxTestAnswers ==
    /\ ngxTest \in {"valid", "invalid"}
    /\ ngxTracker' = [ngxTracker EXCEPT !.validation = ngxTest, !.validated = ngxTracker.config]
    /\ ngxTest' = "idle"
    /\ UNCHANGED <<ngxDisk, ngxEdit, ngxReload, ngxMade, ngxRaced>>

NgxTestFails ==
    /\ ngxTest # "idle" /\ ngxTest' = "idle"
    /\ UNCHANGED <<ngxDisk, ngxTracker, ngxEdit, ngxReload, ngxMade, ngxRaced>>

(***************************************************************************)
(* runAction('reload'): the gate is looked at once, before the awaits.     *)
(***************************************************************************)
\* (mutant) Only the versions are compared.
NgxAsksAfterAnyTest ==
    /\ ~ngxReload.pending /\ ngxTracker.config = ngxTracker.validated
    /\ ngxReload' = [ngxReload EXCEPT !.pending = TRUE]
    /\ ngxRaced' = (ngxRaced \/ ngxEdit = "landed")
    /\ UNCHANGED <<ngxDisk, ngxTracker, ngxEdit, ngxTest, ngxMade>>

NgxReloadAsked ==
    /\ ~ngxReload.pending /\ NgxCanReload
    /\ ngxReload' = [ngxReload EXCEPT !.pending = TRUE]
    /\ ngxRaced' = (ngxRaced \/ ngxEdit = "landed")
    /\ UNCHANGED <<ngxDisk, ngxTracker, ngxEdit, ngxTest, ngxMade>>

NgxReloadRuns ==
    /\ ngxReload.pending
    /\ ngxReload' = [pending |-> FALSE,
                     loaded |-> IF ngxDisk.tested THEN "tested" ELSE "untested"]
    /\ UNCHANGED <<ngxDisk, ngxTracker, ngxEdit, ngxTest, ngxMade, ngxRaced>>

(***************************************************************************)
(* stopAllLogsForServer at a teardown: the tracker is forgotten.  What was *)
(* under way fails or, with a new connection, returns.                     *)
(***************************************************************************)
NgxTeardown ==
    /\ ngxTracker' = NewTracker
    /\ ngxRaced' = (ngxRaced \/ ~ngxDisk.tested)
    /\ UNCHANGED <<ngxDisk, ngxEdit, ngxTest, ngxReload, ngxMade>>

\* The files nginx started with count as tested.
NgxInit ==
    /\ ngxDisk = [good |-> TRUE, tested |-> TRUE]
    /\ ngxTracker = NewTracker
    /\ ngxEdit = "idle" /\ ngxTest = "idle"
    /\ ngxReload = [pending |-> FALSE, loaded |-> "nothing"]
    /\ ngxMade = 0 /\ ngxRaced = FALSE

NgxNext ==
    \/ NgxEditBegins \/ NgxEditLands \/ NgxEditReturns \/ NgxEditFails \/ NgxEditElsewhere
    \/ NgxTestBegins \/ NgxTestRuns \/ NgxTestAnswers \/ NgxTestFails
    \/ NgxReloadAsked \/ NgxReloadRuns
    \/ NgxTeardown

NgxSpec == NgxInit /\ [][NgxNext]_ngxVars

(***************************************************************************)
(* Properties.                                                             *)
(***************************************************************************)
\* Every variable keeps its type, and no more edits are validated than made.
NgxTypeOK ==
    /\ ngxDisk \in [good : BOOLEAN, tested : BOOLEAN]
    /\ ngxTracker \in [config : 0..MaxEdits, validated : 0..MaxEdits, validation : Verdict]
    /\ ngxTracker.validated <= ngxTracker.config
    /\ ngxEdit \in {"idle", "sent", "landed"}
    /\ ngxTest \in {"idle", "sent", "valid", "invalid"}
    /\ ngxReload \in [pending : BOOLEAN, loaded : {"nothing", "tested", "untested"}]
    /\ ngxMade \in 0..MaxEdits
    /\ ngxRaced \in BOOLEAN

\* nginx only ever loads files that passed nginx -t, as long as no edit crossed a
\* test or a reload, failed after it had changed a file, was made elsewhere or was
\* forgotten with the connection (the versions order everything else).
NgxReloadsTested == ngxReload.loaded = "untested" => ngxRaced
===============================================================================
