----------------------------- MODULE FileBrowser ------------------------------
(***************************************************************************)
(* Walking remote directories in the Files tool: navigation, listings and  *)
(* the operations on several files (useFileManager.ts).                    *)
(*                                                                         *)
(* Every change of directory asks for a listing and shows what comes back, *)
(* in whatever order it does.  A paste runs file by file while the user    *)
(* goes on walking.                                                        *)
(***************************************************************************)
EXTENDS Naturals, Sequences, SequencesExt

CONSTANTS
    Dir,           \* directories
    Root,          \* "/"
    MaxTrail,      \* bound: directories remembered
    MaxLists       \* bound: listings under way

ASSUME RootAssumption == Root \in Dir

VARIABLES
    fbPath,        \* currentPath
    fbBack,        \* backStack
    fbForward,     \* forwardStack
    fbShown,       \* the directory whose entries are on display, or none
    fbLists,       \* listings under way, oldest first
    fbMissed,      \* a listing was overtaken by a later one, or failed (history)
    fbPaste,       \* a paste under way: its destination and the files left
    fbPasted       \* where its files went

fbVars == <<fbPath, fbBack, fbForward, fbShown, fbLists, fbMissed, fbPaste, fbPasted>>

Nothing == {}
PasteSize == 2

\* The effect on refresh asks for a listing of the new path.
Listing(path) == fbLists' = Append(fbLists, path)

(***************************************************************************)
(* navigateTo, goBack, goForward.                                          *)
(***************************************************************************)
FbNavigates(path) ==
    /\ path # fbPath /\ Len(fbBack) < MaxTrail /\ Len(fbLists) < MaxLists
    /\ fbPath' = path
    /\ fbBack' = Append(fbBack, fbPath) /\ fbForward' = <<>>
    /\ Listing(path)
    /\ UNCHANGED <<fbShown, fbMissed, fbPaste, fbPasted>>

FbGoesBack ==
    /\ fbBack # <<>> /\ Len(fbLists) < MaxLists
    /\ fbPath' = Last(fbBack) /\ fbBack' = Front(fbBack)
    /\ fbForward' = Append(fbForward, fbPath)
    /\ Listing(fbPath')
    /\ UNCHANGED <<fbShown, fbMissed, fbPaste, fbPasted>>

FbGoesForward ==
    /\ fbForward # <<>> /\ Len(fbLists) < MaxLists
    /\ fbPath' = Last(fbForward) /\ fbForward' = Front(fbForward)
    /\ fbBack' = Append(fbBack, fbPath)
    /\ Listing(fbPath')
    /\ UNCHANGED <<fbShown, fbMissed, fbPaste, fbPasted>>

(***************************************************************************)
(* Listings: refresh has no guard against a late answer.                   *)
(***************************************************************************)
\* The Refresh button or a completed transfer.
FbRefreshes ==
    /\ Len(fbLists) < MaxLists
    /\ Listing(fbPath)
    /\ UNCHANGED <<fbPath, fbBack, fbForward, fbShown, fbMissed, fbPaste, fbPasted>>

FbListed(i) ==
    /\ fbShown' = {fbLists[i]}
    /\ fbLists' = RemoveAt(fbLists, i)
    /\ fbMissed' = (fbMissed \/ i # 1)
    /\ UNCHANGED <<fbPath, fbBack, fbForward, fbPaste, fbPasted>>

FbListFails(i) ==
    /\ fbLists' = RemoveAt(fbLists, i)
    /\ fbMissed' = TRUE
    /\ UNCHANGED <<fbPath, fbBack, fbForward, fbShown, fbPaste, fbPasted>>

(***************************************************************************)
(* pasteClipboard: the closure keeps the directory of the click; the first *)
(* failure ends it.  deleteEntries goes through its files the same way.    *)
(***************************************************************************)
FbPastes ==
    /\ fbPaste.left = 0
    /\ fbPaste' = [to |-> fbPath, left |-> PasteSize]
    /\ fbPasted' = {}
    /\ UNCHANGED <<fbPath, fbBack, fbForward, fbShown, fbLists, fbMissed>>

\* The listing at the end is for the same directory: refresh is of that closure.
FbPasteStep ==
    /\ fbPaste.left > 0 /\ Len(fbLists) < MaxLists
    /\ fbPaste' = [fbPaste EXCEPT !.left = fbPaste.left - 1]
    /\ fbPasted' = fbPasted \cup {fbPaste.to}
    /\ IF fbPaste.left = 1
       THEN /\ Listing(fbPaste.to)
            /\ fbMissed' = (fbMissed \/ fbPaste.to # fbPath)
       ELSE UNCHANGED <<fbLists, fbMissed>>
    /\ UNCHANGED <<fbPath, fbBack, fbForward, fbShown>>

FbPasteFails ==
    /\ fbPaste.left > 0
    /\ fbPaste' = [fbPaste EXCEPT !.left = 0]
    /\ UNCHANGED <<fbPath, fbBack, fbForward, fbShown, fbLists, fbMissed, fbPasted>>

FbInit ==
    /\ fbPath = Root /\ fbBack = <<>> /\ fbForward = <<>>
    /\ fbShown = Nothing /\ fbLists = <<Root>> /\ fbMissed = FALSE
    /\ fbPaste = [to |-> Root, left |-> 0] /\ fbPasted = {}

FbNext ==
    \/ \E path \in Dir : FbNavigates(path)
    \/ FbGoesBack \/ FbGoesForward \/ FbRefreshes
    \/ \E i \in DOMAIN fbLists : FbListed(i) \/ FbListFails(i)
    \/ FbPastes \/ FbPasteStep \/ FbPasteFails

FbSpec == FbInit /\ [][FbNext]_fbVars

(***************************************************************************)
(* Properties.                                                             *)
(***************************************************************************)
\* Every variable keeps its type.
FbTypeOK ==
    /\ fbPath \in Dir
    /\ fbBack \in Seq(Dir) /\ fbForward \in Seq(Dir) /\ fbLists \in Seq(Dir)
    /\ fbShown \in {Nothing} \cup {{d} : d \in Dir}
    /\ fbMissed \in BOOLEAN
    /\ fbPaste \in [to : Dir, left : 0..PasteSize]
    /\ fbPasted \subseteq Dir

\* With no listing under way the entries on display are those of the path in the
\* breadcrumbs, unless listings were answered out of order, one failed, or a paste
\* refreshed the directory it was started in.
FbShowsPath == fbLists = <<>> /\ ~fbMissed => fbShown = {fbPath}

\* The files of one paste end up in one directory, the one it was started in.
FbPastesTogether == fbPasted \subseteq {fbPaste.to}
===============================================================================
