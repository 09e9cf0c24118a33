------------------------------- MODULE Desktop --------------------------------
(***************************************************************************)
(* The parts of the application that work on what the user has on screen   *)
(* and on disk, side by side.  None reads what another one writes, so, as  *)
(* in ServerTools, it is enough to let one of them at a time be at work.   *)
(*                                                                         *)
(* This is also the module TLC is given.  No part compares members of      *)
(* different sets: in its instance the sets of two share the model values  *)
(* a1, a2.  Directories are not interchangeable (one is the root).         *)
(***************************************************************************)
EXTENDS RemoteEditor, FileTransfers, FileBrowser, FileOperations,
        ProfileStores, HostKeyTrust, Workspace, DeploymentViews, TLC

VARIABLE part      \* the part at work

Parts == {"editor", "transfers", "browser", "operations", "stores",
    "hostkeys", "workspace", "snapshots"}

desktopVars == <<part, edVars, trVars, fbVars, foVars, psVars, hkVars, wsVars,
    dvVars>>

Init ==
    /\ part \in Parts
    /\ EdInit
    /\ part # "editor" => edTool = "files"
    /\ TrInit
    /\ part # "transfers" => \A t \in Transfer : trMain[t].kind = "chunk"
    /\ FbInit
    /\ FoInit
    /\ PsInit
    /\ HkInit
    /\ WsInit
    /\ DvInit
    /\ part # "snapshots" => ~dvUp

Next ==
    /\ UNCHANGED part
    /\ IF part = "editor" THEN EdNext ELSE UNCHANGED edVars
    /\ IF part = "transfers" THEN TrNext ELSE UNCHANGED trVars
    /\ IF part = "browser" THEN FbNext ELSE UNCHANGED fbVars
    /\ IF part = "operations" THEN FoNext ELSE UNCHANGED foVars
    /\ IF part = "stores" THEN PsNext ELSE UNCHANGED psVars
    /\ IF part = "hostkeys" THEN HkNext ELSE UNCHANGED hkVars
    /\ IF part = "workspace" THEN WsNext ELSE UNCHANGED wsVars
    /\ IF part = "snapshots" THEN DvNext ELSE UNCHANGED dvVars

Spec == Init /\ [][Next]_desktopVars

\* The values that may be exchanged for each other.
DesktopSymmetry == Permutations(Profile) \cup Permutations(Panel)

(***************************************************************************)
(* Properties.                                                             *)
(***************************************************************************)
\* Every variable of every part keeps its type.
DesktopTypeOK ==
    /\ EdTypeOK /\ TrTypeOK /\ FbTypeOK /\ FoTypeOK
    /\ PsTypeOK /\ HkTypeOK /\ WsTypeOK /\ DvTypeOK

\* Files arrive where they belong and whole, and none goes that was not given up: a text
\* in the file it was typed into, the files of a paste in one directory, a transfer shown
\* as complete entirely; only what a prompt named is deleted, nothing is lost in a move,
\* and nothing critical is deleted or pasted over without the phrase.
FilesArrive ==
    /\ EdTextStaysHome /\ FbPastesTogether /\ TrCompleteIsWhole
    /\ part = "operations" => FoOnlyMarkedGoes

\* What is trusted and kept is what the user decided: files, memory and window hold
\* the same profiles and passphrases, and only keys the user accepted are known.
StoresAgree == PsStoresAgree /\ HkTrustIsTheUsers

\* The window shows what it says: the entries of the path and those selected among them,
\* the focused panel, the panel an intent went to, the panel a question is about, the
\* snapshots, tags and changes of the deployment it names.
ScreenIsConsistent ==
    /\ FbShowsPath
    /\ WsLayoutIsWhole /\ WsFocusIsShown /\ WsIntentArrives /\ WsQuestionStands
    /\ part = "operations" => FoListIsTrue
    /\ part = "snapshots" => DvTagsAreTrue /\ DvShowsItsOwn

\* What was done stays done: an editor shown as clean was saved, and a transfer that
\* is complete stays complete.
DoneStaysDone == EdCleanWasSaved /\ TrCompleteIsFinal
===============================================================================
