----------------------------- MODULE RemoteEditor -----------------------------
(***************************************************************************)
(* Editing a remote file, in the Files tool (useFileManager, FilesPanel)   *)
(* and in the configuration tab of the Nginx tool (NginxConfigTab).        *)
(*                                                                         *)
(* Both hold one open file, replace it by whatever a read or a save brings *)
(* back, and differ in one guard: only the Nginx tab refuses to open       *)
(* another file over unsaved text.  A text is a number, drawn anew         *)
(* whenever the user types.                                                *)
(***************************************************************************)
EXTENDS Naturals, FiniteSets, Null

CONSTANTS
    EditFile,      \* remote files; of one directory, all readable
    MaxTyped,      \* bound: texts typed
    MaxSaves       \* bound: saves at once

ASSUME MaxTypedAssumption == MaxTyped \in Nat

VARIABLES
    edTool,        \* the tool: "files" or "nginx"
    edOpen,        \* the open file: path, content and dirty
    edDisk,        \* the text of each file on the server
    edReads,       \* reads under way, with the text once it was read
    edSaves,       \* saves under way: the open file each has captured, and its progress
    edTyped,       \* texts typed so far
    edHome         \* the file each text belongs to (history)

edVars == <<edTool, edOpen, edDisk, edReads, edSaves, edTyped, edHome>>

Text == 0..MaxTyped
OpenFile == [path : EditFile, content : Text, dirty : BOOLEAN]
Save == [file : OpenFile, landed : BOOLEAN]

Opened(f, text) == [path |-> f, content |-> text, dirty |-> FALSE]

\* FileEditor puts a text that comes back into the view of the same file, and the
\* view reports it as a change: the file counts as unsaved.
Displayed(file) ==
    IF edOpen # None /\ edOpen.path = file.path /\ edOpen.content # file.content
    THEN [file EXCEPT !.dirty = TRUE] ELSE file

\* selectFile refuses, openEntry does not look.
EdMayOpen(f) ==
    ~(edTool = "nginx" /\ edOpen # None /\ edOpen.dirty /\ edOpen.path # f)

EdAsksFor(f) ==
    /\ EdMayOpen(f)
    /\ \A r \in edReads : r.path # f
    /\ edReads' = edReads \cup {[path |-> f, content |-> None]}
    /\ UNCHANGED <<edTool, edOpen, edDisk, edSaves, edTyped, edHome>>

EdReads(r) ==
    /\ r.content = None
    /\ edReads' = (edReads \ {r}) \cup {[r EXCEPT !.content = edDisk[r.path]]}
    /\ UNCHANGED <<edTool, edOpen, edDisk, edSaves, edTyped, edHome>>

\* The answer replaces the open file, whatever it has become meanwhile.
EdShows(r) ==
    /\ r.content # None
    /\ edReads' = edReads \ {r}
    /\ edOpen' = Displayed(Opened(r.path, r.content))
    /\ UNCHANGED <<edTool, edDisk, edSaves, edTyped, edHome>>

EdReadFails(r) ==
    /\ edReads' = edReads \ {r}
    /\ UNCHANGED <<edTool, edOpen, edDisk, edSaves, edTyped, edHome>>

EdTypes ==
    /\ edOpen # None /\ edTyped < MaxTyped
    /\ edTyped' = edTyped + 1
    /\ edOpen' = [edOpen EXCEPT !.content = edTyped + 1, !.dirty = TRUE]
    /\ edHome' = [edHome EXCEPT ![edTyped + 1] = edOpen.path]
    /\ UNCHANGED <<edTool, edDisk, edReads, edSaves>>

\* save, saveEditor: the closure keeps the open file of the click.  Nothing
\* disables the button meanwhile.
EdAsksToSave ==
    /\ edOpen # None /\ edOpen.dirty
    /\ Cardinality(edSaves) < MaxSaves
    /\ edSaves' = edSaves \cup {[file |-> edOpen, landed |-> FALSE]}
    /\ UNCHANGED <<edTool, edOpen, edDisk, edReads, edTyped, edHome>>

Landed(w) == edSaves' = (edSaves \ {w}) \cup {[w EXCEPT !.landed = TRUE]}

\* (mutant) The text goes to the file that is open when it arrives.
EdLandsInOpenFile(w) ==
    /\ ~w.landed /\ edOpen # None
    /\ edDisk' = [edDisk EXCEPT ![edOpen.path] = w.file.content]
    /\ Landed(w)
    /\ UNCHANGED <<edTool, edOpen, edReads, edTyped, edHome>>

EdLands(w) ==
    /\ ~w.landed
    /\ edDisk' = [edDisk EXCEPT ![w.file.path] = w.file.content]
    /\ Landed(w)
    /\ UNCHANGED <<edTool, edOpen, edReads, edTyped, edHome>>

\* (mutant) The file that is open by now is marked as saved.
EdMarksOpenSaved(w) ==
    /\ w.landed
    /\ edOpen' = IF edOpen = None THEN None ELSE [edOpen EXCEPT !.dirty = FALSE]
    /\ edSaves' = edSaves \ {w}
    /\ UNCHANGED <<edTool, edDisk, edReads, edTyped, edHome>>

\* setEditor({...editor, dirty: false}): the captured file is back, and what was
\* typed meanwhile is gone.
EdSaved(w) ==
    /\ w.landed
    /\ edOpen' = Displayed([w.file EXCEPT !.dirty = FALSE])
    /\ edSaves' = edSaves \ {w}
    /\ UNCHANGED <<edTool, edDisk, edReads, edTyped, edHome>>

EdSaveFails(w) ==
    /\ edSaves' = edSaves \ {w}
    /\ UNCHANGED <<edTool, edOpen, edDisk, edReads, edTyped, edHome>>

\* Close, after the question about unsaved changes.
EdCloses ==
    /\ edOpen # None /\ edOpen' = None
    /\ UNCHANGED <<edTool, edDisk, edReads, edSaves, edTyped, edHome>>

\* createFile writes an empty file (text 0) and opens it, whatever was open and
\* whatever the name held.
EdCreates(f) ==
    /\ edTool = "files"
    /\ edDisk' = [edDisk EXCEPT ![f] = 0]
    /\ edOpen' = Displayed(Opened(f, 0))
    /\ UNCHANGED <<edTool, edReads, edSaves, edTyped, edHome>>

EdInit ==
    /\ edTool \in {"files", "nginx"}
    /\ edOpen = None
    /\ edDisk = [f \in EditFile |-> 0]
    /\ edReads = {}
    /\ edSaves = {}
    /\ edTyped = 0
    /\ edHome = [t \in 1..MaxTyped |-> None]

EdNext ==
    \/ \E f \in EditFile : EdAsksFor(f) \/ EdCreates(f)
    \/ \E r \in edReads : EdReads(r) \/ EdShows(r) \/ EdReadFails(r)
    \/ \E w \in edSaves : EdLands(w) \/ EdSaved(w) \/ EdSaveFails(w)
    \/ EdTypes \/ EdAsksToSave \/ EdCloses

EdSpec == EdInit /\ [][EdNext]_edVars

(***************************************************************************)
(* Properties.                                                             *)
(***************************************************************************)
\* Every variable keeps its type.
EdTypeOK ==
    /\ edTool \in {"files", "nginx"}
    /\ edOpen \in OpenFile \cup {None}
    /\ edDisk \in [EditFile -> Text]
    /\ edReads \subseteq [path : EditFile, content : Text \cup {None}]
    /\ edSaves \subseteq Save
    /\ edTyped \in Text
    /\ edHome \in [1..MaxTyped -> EditFile \cup {None}]

\* A text typed into a file ends up in that file or nowhere, however reads, saves
\* and creations overlap: path and content travel together.
EdTextStaysHome ==
    /\ \A f \in EditFile : edDisk[f] # 0 => edHome[edDisk[f]] = f
    /\ edOpen # None /\ edOpen.content # 0 => edHome[edOpen.content] = edOpen.path

\* A text shown as saved has been on the server: "Unsaved" only goes away when the
\* write was acknowledged, or with the text.
EdCleanWasSaved ==
    [][\A t \in 1..MaxTyped :
        edOpen' # None /\ edOpen'.content = t /\ ~edOpen'.dirty =>
            \/ edOpen = edOpen'
            \/ \E r \in edReads : r.content = t
            \/ \E w \in edSaves : w.landed /\ w.file.content = t]_edVars
===============================================================================
