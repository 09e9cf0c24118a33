---------------------------- MODULE FileOperations -----------------------------
(***************************************************************************)
(* What the Files tool does to remote files: selecting, searching, the     *)
(* prompts that create, rename and delete, the clipboard and the question  *)
(* before a critical path is touched (FilesPanel.tsx, useFileManager.ts),  *)
(* over the commands of FileService.                                       *)
(*                                                                         *)
(* A home directory and a critical one; a folder is one item, whatever it  *)
(* holds.  An operation on several files is one call after the other.      *)
(* Transfers and the editor have modules of their own; here a transfer     *)
(* that completes asks for a listing like anything else.                   *)
(***************************************************************************)
EXTENDS Null, Naturals, SequencesExt

CONSTANTS
    FileName,      \* base names
    MaxGestures,   \* bound: gestures of the user, answers to a dialog not counted
    MaxRunning,    \* bound: operations under way
    MaxListings    \* bound: listings under way

VARIABLES
    foServer,      \* the item at each path
    foPanel,       \* the panel and its hook
    foRuns,        \* operations under way
    foLists,       \* the directories of the listings under way
    foDone,        \* what has been done, and what for (history)
    foGestures

foVars == <<foServer, foPanel, foRuns, foLists, foDone, foGestures>>

FoMove == foGestures < MaxGestures /\ foGestures' = foGestures + 1

FileDir == {"home", "system"}
FilePath == FileDir \X FileName
ItemAt(path) == foServer[path]
EntriesOf(dir) ==
    {[path |-> p, kind |-> ItemAt(p).kind] : p \in {q \in {dir} \X FileName : ItemAt(q) # None}}

isCriticalSystemPath(path) == path[1] = "system"
CriticalOf(paths) == \E path \in paths : isCriticalSystemPath(path)
assertCriticalPathMutationAllowed(paths, confirmed) == CriticalOf(paths) => confirmed

(***************************************************************************)
(* The panel.                                                              *)
(***************************************************************************)
FoPanel ==
    [dir |-> "home", entries |-> {}, query |-> None, selected |-> {}, clipboard |-> None,
     prompt |-> None, asksToPaste |-> FALSE, off |-> FALSE]

DisplayedEntries == {e \in foPanel.entries : foPanel.query \in {None, e.path[2]}}
SelectedEntries == {e \in DisplayedEntries : e.path \in foPanel.selected}
NoPrompt == foPanel.prompt = None /\ ~foPanel.asksToPaste
HasFolder(entries) == \E e \in entries : e.kind = "folder"

FoDoes(panel, lists) ==
    /\ FoMove
    /\ foPanel' = panel /\ foLists' = foLists \o lists
    /\ UNCHANGED <<foServer, foRuns, foDone>>

\* Going back and forward keeps what is searched for.
FoGoesTo(dir, query) ==
    /\ NoPrompt /\ dir # foPanel.dir
    /\ FoDoes([foPanel EXCEPT !.dir = dir, !.selected = {}, !.query = query], <<dir>>)

\* By the button, or because a transfer is complete.
FoRefreshes == FoDoes(foPanel, <<foPanel.dir>>)

FoSearches(query) ==
    /\ NoPrompt /\ query # foPanel.query
    /\ FoDoes([foPanel EXCEPT !.query = query], <<>>)

\* A click selects one, with a key held it adds one or takes it away.
FoSelects(e, multi) ==
    /\ NoPrompt
    /\ LET before == IF multi THEN foPanel.selected ELSE {}
           after == IF e.path \in before THEN before \ {e.path} ELSE before \cup {e.path}
       IN FoDoes([foPanel EXCEPT !.selected = after], <<>>)

FoMarks(mode) ==
    /\ NoPrompt /\ SelectedEntries # {}
    /\ foPanel' = [foPanel EXCEPT !.clipboard = [mode |-> mode, paths |-> foPanel.selected]]
    /\ UNCHANGED <<foServer, foRuns, foLists, foDone, foGestures>>

(***************************************************************************)
(* The prompts.                                                            *)
(***************************************************************************)
\* One entry becomes the target; several are those selected when it is confirmed.
Target == IF Cardinality(SelectedEntries) = 1 THEN SelectedEntries ELSE {}
Marked(target) == IF target # {} THEN {e.path : e \in target} ELSE foPanel.selected
FoOpensPrompt(mode) ==
    /\ NoPrompt
    /\ mode = "delete" => SelectedEntries # {}
    /\ mode = "rename" => Target # {}
    /\ LET target == IF mode \in {"delete", "rename"} THEN Target ELSE {}
           prompt == [mode |-> mode, target |-> target, marked |-> Marked(target)]
       IN FoDoes([foPanel EXCEPT !.prompt = prompt], <<>>)

FoCancels ==
    /\ ~NoPrompt
    /\ foPanel' = [foPanel EXCEPT !.prompt = None, !.asksToPaste = FALSE]
    /\ UNCHANGED <<foServer, foRuns, foLists, foDone, foGestures>>

mutationPaths(prompt, name) ==
    CASE prompt.mode = "delete" -> Marked(prompt.target)
      [] prompt.mode = "rename" ->
             Marked(prompt.target) \cup {<<e.path[1], name>> : e \in prompt.target}
      [] prompt.mode = "create-file" -> {<<foPanel.dir, name>>}
      [] OTHER -> {}

Begins(run) == foRuns' = Append(foRuns, run)

criticalConfirmationReady(paths, phrase) == CriticalOf(paths) => phrase

\* The button waits for the phrase and, before a folder, for the box to be ticked; the
\* Enter key in the name's field does not.
FoConfirms(name, recursive, by) ==
    /\ foPanel.prompt # None /\ (name = None) = (foPanel.prompt.mode = "delete")
    /\ LET phrase == by = "phrase"
           prompt == foPanel.prompt
           paths == mutationPaths(prompt, name)
           needs == CriticalOf(paths)
           todo == CASE prompt.mode = "delete" -> Marked(prompt.target)
                     [] prompt.mode = "rename" -> {<<e.path[1], name>> : e \in prompt.target}
                     [] OTHER -> {<<foPanel.dir, name>>}
           folder == HasFolder({e \in DisplayedEntries : e.path \in Marked(prompt.target)})
       IN /\ IF prompt.mode = "delete"
             THEN /\ by # "enter" /\ criticalConfirmationReady(paths, phrase)
                  /\ HasFolder(prompt.target \cup SelectedEntries) => recursive
             ELSE ~recursive /\ (by = "enter" \/ criticalConfirmationReady(paths, phrase))
          /\ Begins([kind |-> prompt.mode, dir |-> foPanel.dir, todo |-> todo,
                     from |-> {e.path : e \in prompt.target}, confirmed |-> needs,
                     phrase |-> needs /\ phrase, recursive |-> folder /\ recursive])
          /\ foDone' = IF prompt.mode = "delete"
                       THEN [foDone EXCEPT !.marked = foDone.marked \cup prompt.marked]
                       ELSE foDone
    /\ UNCHANGED <<foServer, foPanel, foLists, foGestures>>

(***************************************************************************)
(* Pasting.                                                                *)
(***************************************************************************)
Paste(confirmed) ==
    Begins([kind |-> foPanel.clipboard.mode, dir |-> foPanel.dir, todo |-> foPanel.clipboard.paths,
            from |-> {}, confirmed |-> confirmed, phrase |-> confirmed, recursive |-> FALSE])
getClipboardCriticalPaths ==
    {path \in foPanel.clipboard.paths \cup {<<foPanel.dir, p[2]>> : p \in foPanel.clipboard.paths} :
        isCriticalSystemPath(path)}
FoPastes ==
    /\ NoPrompt /\ foPanel.clipboard # None /\ FoMove
    /\ IF getClipboardCriticalPaths = {}
       THEN Paste(FALSE) /\ UNCHANGED foPanel
       ELSE foPanel' = [foPanel EXCEPT !.asksToPaste = TRUE] /\ UNCHANGED foRuns
    /\ UNCHANGED <<foServer, foLists, foDone>>
FoConfirmsPaste ==
    /\ foPanel.asksToPaste
    /\ IF foPanel.clipboard = None THEN UNCHANGED foRuns ELSE Paste(TRUE)
    /\ foPanel' = [foPanel EXCEPT !.asksToPaste = FALSE]
    /\ UNCHANGED <<foServer, foLists, foDone, foGestures>>

(***************************************************************************)
(* The server carries an operation out, a path at a time.                  *)
(***************************************************************************)
Destination(run, path) == IF run.kind \in {"copy", "move"} THEN <<run.dir, path[2]>> ELSE path
Source(run, path) == IF run.kind = "rename" THEN CHOOSE p \in run.from : TRUE ELSE path
Touches(run, path) == {Source(run, path), Destination(run, path)}

\* Neither a rename nor a new folder replaces what is there; a file that is written or
\* copied does.
Refused(run, path) ==
    LET from == ItemAt(Source(run, path))  to == ItemAt(Destination(run, path))
    IN CASE run.kind = "delete" -> from = None \/ (from.kind = "folder" /\ ~run.recursive)
         [] run.kind = "create-file" -> to # None /\ to.kind = "folder"
         [] run.kind = "create-folder" -> to # None
         [] run.kind = "copy" ->
                \/ from = None \/ Source(run, path) = Destination(run, path)
                \/ (from.kind = "folder" /\ to # None /\ to.kind = "file")
         [] OTHER -> from = None \/ to # None

NewItem(kind) == [kind |-> kind, of |-> None]

\* A folder copied onto a folder, or a file, lands inside it.
Afterwards(run, path) ==
    LET to == Destination(run, path)
    IN CASE run.kind = "delete" -> [foServer EXCEPT ![path] = None]
         [] run.kind = "create-file" -> [foServer EXCEPT ![to] = NewItem("file")]
         [] run.kind = "create-folder" -> [foServer EXCEPT ![to] = NewItem("folder")]
         [] run.kind = "copy" ->
                IF ItemAt(to) # None /\ ItemAt(to).kind = "folder" THEN foServer
                ELSE [foServer EXCEPT ![to] = ItemAt(Source(run, path))]
         [] OTHER -> [foServer EXCEPT ![Source(run, path)] = None,
                                      ![to] = ItemAt(Source(run, path))]

Replaces(run) == run.kind \in {"delete", "create-file", "copy"}
NeedsConfirmation(run, path) == IF run.kind = "create-folder" THEN {} ELSE Touches(run, path)
FoRunSteps(i, path) ==
    LET run == foRuns[i]
        kept == ItemAt(Destination(run, path))
    IN /\ path \in run.todo /\ ~Refused(run, path)
       /\ assertCriticalPathMutationAllowed(NeedsConfirmation(run, path), run.confirmed)
       \* The exit code of rm -rf is not looked at.
       /\ \/ foServer' = Afterwards(run, path)
          \/ run.kind = "delete" /\ ItemAt(path).kind = "folder" /\ UNCHANGED foServer
       /\ foRuns' = [foRuns EXCEPT ![i] = [run EXCEPT !.todo = run.todo \ {path}]]
       /\ LET deleted == IF run.kind = "delete" THEN {path} ELSE {}
              gone == IF /\ Replaces(run) /\ kept # None
                         /\ foServer'[Destination(run, path)] # kept
                      THEN {kept.of} ELSE {}
              unasked == IF CriticalOf(Touches(run, path)) /\ ~run.phrase THEN {run.kind} ELSE {}
          IN foDone' = [marked |-> foDone.marked, deleted |-> foDone.deleted \cup deleted,
                        gone |-> foDone.gone \cup gone, unasked |-> foDone.unasked \cup unasked]
    /\ UNCHANGED <<foPanel, foLists, foGestures>>

\* The calls that are left are not made and nothing is listed again.
FoRunFails(i) ==
    /\ foRuns[i].todo # {}
    /\ foRuns' = RemoveAt(foRuns, i) /\ foPanel' = [foPanel EXCEPT !.off = TRUE]
    /\ UNCHANGED <<foServer, foLists, foDone, foGestures>>

\* The prompt that is closed is the one on screen by now, the directory that is listed
\* the one of the click.
FoRunEnds(i) ==
    LET run == foRuns[i]
    IN /\ run.todo = {}
       /\ foRuns' = RemoveAt(foRuns, i) /\ foLists' = Append(foLists, run.dir)
       /\ foPanel' = CASE run.kind = "copy" -> foPanel
                        [] run.kind = "move" -> [foPanel EXCEPT !.clipboard = None]
                        [] run.kind = "delete" -> [foPanel EXCEPT !.prompt = None, !.selected = {}]
                        [] OTHER -> [foPanel EXCEPT !.prompt = None]
    /\ UNCHANGED <<foServer, foDone, foGestures>>

(***************************************************************************)
(* The listings.                                                           *)
(***************************************************************************)
ListShown(panel, dir) ==
    [panel EXCEPT !.entries = EntriesOf(dir), !.selected = {}, !.off = dir # panel.dir]
FoListed(i) ==
    /\ foPanel' = ListShown(foPanel, foLists[i]) /\ foLists' = RemoveAt(foLists, i)
    /\ UNCHANGED <<foServer, foRuns, foDone, foGestures>>

FoListFails(i) ==
    /\ foPanel' = [foPanel EXCEPT !.off = TRUE] /\ foLists' = RemoveAt(foLists, i)
    /\ UNCHANGED <<foServer, foRuns, foDone, foGestures>>

(***************************************************************************)
\* A file and a folder at home and a file in the critical directory.
Initial(path) ==
    IF path = <<"system", 2>> THEN None
    ELSE [kind |-> IF path = <<"home", 2>> THEN "folder" ELSE "file", of |-> path]
FoInit ==
    /\ foServer = [path \in FilePath |-> Initial(path)]
    /\ foPanel = [FoPanel EXCEPT !.entries = EntriesOf("home")]
    /\ foLists = <<>> /\ foRuns = <<>>
    /\ foDone = [marked |-> {}, deleted |-> {}, gone |-> {}, unasked |-> {}]
    /\ foGestures = 0

FoNext ==
    \/ \E dir \in FileDir, query \in {None, foPanel.query} : FoGoesTo(dir, query)
    \/ FoRefreshes \/ FoCancels \/ FoPastes \/ FoConfirmsPaste
    \/ \E query \in FileName \cup {None} : FoSearches(query)
    \/ \E e \in DisplayedEntries, multi \in BOOLEAN : FoSelects(e, multi)
    \/ \E mode \in {"copy", "move"} : FoMarks(mode)
    \/ \E mode \in {"create-file", "create-folder", "rename", "delete"} : FoOpensPrompt(mode)
    \/ \E name \in FileName \cup {None}, recursive \in BOOLEAN,
          by \in {"button", "phrase", "enter"} : FoConfirms(name, recursive, by)
    \/ \E i \in DOMAIN foRuns :
           FoRunFails(i) \/ FoRunEnds(i) \/ \E path \in foRuns[i].todo : FoRunSteps(i, path)
    \/ \E i \in DOMAIN foLists : FoListed(i) \/ FoListFails(i)

\* Bounds: operations and listings under way.
FoBound == Len(foRuns) <= MaxRunning /\ Len(foLists) <= MaxListings

(***************************************************************************)
(* Properties.                                                             *)
(***************************************************************************)
FoTypeOK ==
    /\ foPanel.dir \in FileDir /\ foPanel.selected \subseteq FilePath
    /\ \A path \in FilePath : ItemAt(path) = None \/ ItemAt(path).kind \in {"file", "folder"}
    /\ foLists \in Seq(FileDir) /\ foDone.marked \subseteq FilePath

\* Nothing goes but what the user gave up: what is deleted was marked when the prompt
\* opened, whatever the lists have done since; what was there at the start is still
\* somewhere unless it was deleted or written over; and nothing critical is deleted, moved
\* or replaced by a copy without the phrase.
FoOnlyMarkedGoes ==
    /\ foDone.deleted \subseteq foDone.marked
    /\ \A path \in {p \in FilePath : Initial(p) # None} :
           path \in foDone.gone \/ \E p \in FilePath : ItemAt(p) # None /\ ItemAt(p).of = path
    /\ foDone.unasked \cap {"delete", "copy", "move"} = {}

\* What is selected is in the list, and with nothing under way the list is the
\* directory, unless a call failed or the directory was left.
FoListIsTrue ==
    /\ foPanel.selected \subseteq {e.path : e \in foPanel.entries}
    /\ foLists = <<>> /\ foRuns = <<>> /\ ~foPanel.off => foPanel.entries = EntriesOf(foPanel.dir)
===============================================================================
