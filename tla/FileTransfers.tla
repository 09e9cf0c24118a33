---------------------------- MODULE FileTransfers -----------------------------
(***************************************************************************)
(* Uploads and downloads: FileService.ts, which moves the bytes, and the   *)
(* transfer list of useFileManager, which shows progress and cancels.      *)
(*                                                                         *)
(* Events of the main process reach the list in order, at once here; a     *)
(* cancel clicked in the list reaches the main process later.  A transfer  *)
(* is stepped (fastPut, fastGet) or sent by the renderer in one chunk.     *)
(***************************************************************************)
EXTENDS Naturals

CONSTANT
    Transfer       \* transfer ids

VARIABLES
    trMain,        \* the transfer in the main process, and the file it writes
    trView,        \* the status of its row in the list
    trClicked,     \* a cancel on its way to the main process
    trEnded        \* complete events sent (history)

trVars == <<trMain, trView, trClicked, trEnded>>

Kind == {"stepped", "chunk"}
ViewStatus == {"none", "active", "complete", "cancelled"}

\* at: what the handler waits for; listed: is it in transfers.
TransferRecord ==
    [kind : Kind, at : {"new", "sftp", "moving", "over"}, listed : BOOLEAN,
     cancelled : BOOLEAN, file : {"absent", "partial", "whole"}]

\* onTransferProgress: the row is active (again), and there again if dismissed.
Progress(view, t) == [view EXCEPT ![t] = "active"]

\* onTransferComplete changes a row that is there.
Complete(view, t, success) ==
    [view EXCEPT ![t] = IF view[t] = "none" THEN "none"
                        ELSE IF success THEN "complete" ELSE "cancelled"]

TransferIs(t, state) == trMain' = [trMain EXCEPT ![t] = state]

(***************************************************************************)
(* finishTransfer: only a listed transfer is reported, once.               *)
(***************************************************************************)
\* (mutant) The transfer stays in the map.
FinishKeepingEntry(t, success, state, view) ==
    /\ TransferIs(t, state)
    /\ trView' = Complete(view, t, success)
    /\ trEnded' = [trEnded EXCEPT ![t] = trEnded[t] + 1]

Finish(t, success, state, view) ==
    IF state.listed
    THEN /\ TransferIs(t, [state EXCEPT !.listed = FALSE])
         /\ trView' = Complete(view, t, success)
         /\ trEnded' = [trEnded EXCEPT ![t] = trEnded[t] + 1]
    ELSE TransferIs(t, state) /\ trView' = view /\ UNCHANGED trEnded

(***************************************************************************)
(* The handlers.                                                           *)
(***************************************************************************)
\* upload or download is called.  A chunk reports its progress at once.
TrStarts(t) ==
    /\ trMain[t].at = "new"
    /\ TransferIs(t, [trMain[t] EXCEPT !.at = "sftp", !.listed = TRUE])
    /\ trView' = IF trMain[t].kind = "chunk" THEN Progress(trView, t) ELSE trView
    /\ UNCHANGED <<trClicked, trEnded>>

TrOpens(t) ==
    /\ trMain[t].at = "sftp"
    /\ TransferIs(t, [trMain[t] EXCEPT !.at = "moving"])
    /\ UNCHANGED <<trView, trClicked, trEnded>>

\* getSftp rejects, or writeFile of a chunk does: nothing is reported and the
\* transfer stays listed.
TrFailsQuietly(t) ==
    /\ trMain[t].at \in {"sftp"} \cup (IF trMain[t].kind = "chunk" THEN {"moving"} ELSE {})
    /\ TransferIs(t, [trMain[t] EXCEPT !.at = "over"])
    /\ UNCHANGED <<trView, trClicked, trEnded>>

\* A step of fastPut or fastGet: bytes have moved, cancelled or not.
TrSteps(t) ==
    /\ trMain[t].at = "moving" /\ trMain[t].kind = "stepped"
    /\ TransferIs(t, [trMain[t] EXCEPT !.file = "partial"])
    /\ trView' = Progress(trView, t)
    /\ UNCHANGED <<trClicked, trEnded>>

\* The file is whole.  Cancelled meanwhile, the promise is left unsettled.
TrMoved(t) ==
    /\ trMain[t].at = "moving"
    /\ LET moved == [trMain[t] EXCEPT !.at = "over", !.file = "whole"]
       IN  IF trMain[t].cancelled
           THEN TransferIs(t, moved) /\ UNCHANGED <<trView, trEnded>>
           ELSE Finish(t, TRUE, moved,
                       IF trMain[t].kind = "chunk" THEN Progress(trView, t) ELSE trView)
    /\ UNCHANGED trClicked

\* fastPut or fastGet fails.
TrFails(t) ==
    /\ trMain[t].at = "moving" /\ trMain[t].kind = "stepped"
    /\ LET failed == [trMain[t] EXCEPT !.at = "over"]
       IN  IF trMain[t].cancelled
           THEN TransferIs(t, failed) /\ UNCHANGED <<trView, trEnded>>
           ELSE Finish(t, FALSE, failed, trView)
    /\ UNCHANGED trClicked

(***************************************************************************)
(* The list: cancelTransfer and dismissTransfer.                           *)
(***************************************************************************)
TrCancelClicked(t) ==
    /\ trView[t] = "active"
    /\ trView' = [trView EXCEPT ![t] = "cancelled"]
    /\ trClicked' = trClicked \cup {t}
    /\ UNCHANGED <<trMain, trEnded>>

TrCancels(t) ==
    /\ t \in trClicked
    /\ trClicked' = trClicked \ {t}
    /\ IF trMain[t].listed
       THEN Finish(t, FALSE, [trMain[t] EXCEPT !.cancelled = TRUE], trView)
       ELSE UNCHANGED <<trMain, trView, trEnded>>

TrDismissed(t) ==
    /\ trView[t] \in {"complete", "cancelled"}
    /\ trView' = [trView EXCEPT ![t] = "none"]
    /\ UNCHANGED <<trMain, trClicked, trEnded>>

TrInit ==
    /\ \E kind \in [Transfer -> Kind] :
        trMain = [t \in Transfer |-> [kind |-> kind[t], at |-> "new", listed |-> FALSE,
                                      cancelled |-> FALSE, file |-> "absent"]]
    /\ trView = [t \in Transfer |-> "none"]
    /\ trClicked = {}
    /\ trEnded = [t \in Transfer |-> 0]

TrNext ==
    \E t \in Transfer :
        \/ TrStarts(t) \/ TrOpens(t) \/ TrFailsQuietly(t) \/ TrSteps(t) \/ TrMoved(t)
        \/ TrFails(t) \/ TrCancelClicked(t) \/ TrCancels(t) \/ TrDismissed(t)

TrSpec == TrInit /\ [][TrNext]_trVars

(***************************************************************************)
(* Properties.                                                             *)
(***************************************************************************)
\* Every variable keeps its type; a transfer ends once, cancelled or finished.
TrTypeOK ==
    /\ trMain \in [Transfer -> TransferRecord]
    /\ trView \in [Transfer -> ViewStatus]
    /\ trClicked \subseteq Transfer
    /\ trEnded \in [Transfer -> {0, 1}]

\* A row that says complete stands for a whole file.
TrCompleteIsWhole ==
    \A t \in Transfer : trView[t] = "complete" => trMain[t].file = "whole"

\* It says so until it is dismissed, whatever cancel is still under way.
TrCompleteIsFinal ==
    [][\A t \in Transfer : trView[t] = "complete" => trView'[t] \in {"complete", "none"}]_trVars
===============================================================================
