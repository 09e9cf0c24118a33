------------------------------ MODULE Workspace -------------------------------
(***************************************************************************)
(* The workspace of one server: panels, tabs, focus and the tree of panes  *)
(* (workspaceStore.ts), what of it is on screen (PanelLayout.tsx), the     *)
(* question before a panel with unsaved text is closed, and the intents    *)
(* one tool opens another with (navigationStore.ts).                       *)
(*                                                                         *)
(* The tree is given by the paths of its leaves: the root is <<>>, the     *)
(* children of a split at path q are Append(q, 1) and Append(q, 2).        *)
(***************************************************************************)
EXTENDS Null, Naturals, Sequences, FiniteSets, SequencesExt, Functions

CONSTANTS
    Panel,         \* panel ids
    Tool,          \* tools a panel can show
    MaxDepth,      \* bound: depth of the tree
    MaxDirty       \* bound: panels with unsaved text

ASSUME WsNoneAssumption == None \notin Panel \cup Tool

VARIABLES
    wsTool,        \* panels: the tool of each open panel
    wsTabs,        \* tabOrder
    wsLeaf,        \* root: the path of each panel in the layout
    wsFocus,       \* focusedPanelId
    wsDirty,       \* dirtyPanels: panels whose view holds unsaved text
    wsClosing,     \* pendingPanelClose
    wsTaken,       \* the panel that took the last intent
    wsAway,        \* another server is selected
    wsBlind        \* panels split off a tab that is not in the layout (history)

wsVars == <<wsTool, wsTabs, wsLeaf, wsFocus, wsDirty, wsClosing, wsTaken, wsAway, wsBlind>>

Open == {p \in Panel : wsTool[p] # None}
NoLeaf == [p \in {} |-> <<>>]
RootIs(p) == [q \in {p} |-> <<>>]

(***************************************************************************)
(* PanelLayout: a single root shows the focused tab out of one stack, a    *)
(* split shows its leaves and hides the other tabs.  A panel whose place   *)
(* in this structure changes is mounted anew.                              *)
(***************************************************************************)
IsSplit(leaf) == Cardinality(DOMAIN leaf) > 1

Place(leaf, p) ==
    IF ~IsSplit(leaf) THEN <<"stack">>
    ELSE IF p \in DOMAIN leaf THEN <<"pane", leaf[p]>> ELSE <<"hidden">>

Shown(p) == IF IsSplit(wsLeaf) THEN p \in DOMAIN wsLeaf ELSE p = wsFocus

\* Unsaved text is state of the mounted view.
StillMounted == wsDirty' = {p \in wsDirty : wsTool'[p] # None /\ Place(wsLeaf', p) = Place(wsLeaf, p)}

(***************************************************************************)
(* openTool, focusPanel, openWithIntent.                                   *)
(***************************************************************************)
\* ensurePanelVisible: a panel out of the layout becomes its root.
Focuses(p) ==
    /\ wsFocus' = p
    /\ wsLeaf' = IF p \in DOMAIN wsLeaf THEN wsLeaf ELSE RootIs(p)

OpensNew(t) ==
    \E p \in Panel \ Open :
        /\ wsTool' = [wsTool EXCEPT ![p] = t]
        /\ wsTabs' = Append(wsTabs, p)
        /\ wsFocus' = p /\ wsLeaf' = RootIs(p)

\* findPanelByTool: one of the panels of the tool.
OpensTool(t) ==
    IF \E p \in Open : wsTool[p] = t
    THEN \E p \in Open : wsTool[p] = t /\ Focuses(p) /\ UNCHANGED <<wsTool, wsTabs>>
    ELSE OpensNew(t)

WsOpens(t) ==
    /\ ~wsAway /\ wsClosing = None
    /\ OpensTool(t)
    /\ StillMounted
    /\ wsTaken' = None
    /\ UNCHANGED <<wsClosing, wsAway, wsBlind>>

\* The intent is taken by the first panel of the tool whose effect runs, before any
\* other event.
WsOpensWithIntent(t) ==
    /\ ~wsAway /\ wsClosing = None
    /\ OpensTool(t)
    /\ StillMounted
    /\ \E p \in Panel : wsTool'[p] = t /\ wsTaken' = p
    /\ UNCHANGED <<wsClosing, wsAway, wsBlind>>

WsFocuses(p) ==
    /\ ~wsAway /\ wsClosing = None /\ p \in Open /\ p # wsFocus
    /\ Focuses(p) /\ UNCHANGED <<wsTool, wsTabs>>
    /\ StillMounted
    /\ wsTaken' = None
    /\ UNCHANGED <<wsClosing, wsAway, wsBlind>>

(***************************************************************************)
(* splitPanel: the tab's menu opens on any tab, in the layout or not.      *)
(***************************************************************************)
WsSplits(p) ==
    /\ ~wsAway /\ wsClosing = None /\ p \in Open /\ DOMAIN wsLeaf # {}
    /\ p \in DOMAIN wsLeaf => Len(wsLeaf[p]) < MaxDepth
    /\ \E new \in Panel \ Open :
           /\ wsTool' = [wsTool EXCEPT ![new] = wsTool[p]]
           /\ wsTabs' = Append(wsTabs, new)
           /\ wsFocus' = new
           /\ IF p \in DOMAIN wsLeaf
              THEN /\ wsLeaf' = [q \in DOMAIN wsLeaf \cup {new} |->
                                     IF q = new THEN Append(wsLeaf[p], 2)
                                     ELSE IF q = p THEN Append(wsLeaf[p], 1) ELSE wsLeaf[q]]
                   /\ UNCHANGED wsBlind
              ELSE wsBlind' = wsBlind \cup {new} /\ UNCHANGED wsLeaf
    /\ StillMounted
    /\ wsTaken' = None
    /\ UNCHANGED <<wsClosing, wsAway>>

(***************************************************************************)
(* closePanel, with the question before it.                                *)
(***************************************************************************)
IndexIn(seq, x) == CHOOSE i \in DOMAIN seq : seq[i] = x

\* A panel has one tab (WsLayoutIsWhole): filtering it out of the tabs is removing that one.
TabsWithout(p) == IF p \in ToSet(wsTabs) THEN RemoveAt(wsTabs, IndexIn(wsTabs, p)) ELSE wsTabs

\* removePanelFromLayout: the sibling of the leaf takes the place of their split.
WithoutLeaf(p) ==
    IF p \notin DOMAIN wsLeaf THEN wsLeaf
    ELSE LET path == wsLeaf[p]
             Moved(q) == IF path # <<>> /\ IsPrefix(Front(path), q)
                         THEN Front(path) \o SubSeq(q, Len(path) + 1, Len(q)) ELSE q
         IN [q \in DOMAIN wsLeaf \ {p} |-> Moved(wsLeaf[q])]

\* (mutant) The layout keeps the pane of a closed panel.
ClosesKeepingPane(p) ==
    LET tabs == TabsWithout(p)
        focus == IF wsFocus # p THEN wsFocus ELSE IF tabs = <<>> THEN None ELSE Last(tabs)
    IN /\ wsTool' = [wsTool EXCEPT ![p] = None]
       /\ wsTabs' = tabs /\ wsFocus' = focus
       /\ UNCHANGED wsLeaf

Closes(p) ==
    LET tabs == TabsWithout(p)
        focus == IF wsFocus # p THEN wsFocus ELSE IF tabs = <<>> THEN None ELSE Last(tabs)
        leaf == WithoutLeaf(p)
    IN /\ wsTool' = [wsTool EXCEPT ![p] = None]
       /\ wsTabs' = tabs /\ wsFocus' = focus
       /\ wsLeaf' = IF focus = None THEN NoLeaf
                    ELSE IF focus \in DOMAIN leaf THEN leaf ELSE RootIs(focus)

\* requestClosePanel of a clean panel, by its tab or the keyboard.
WsCloses(p) ==
    /\ ~wsAway /\ wsClosing = None /\ p \in Open /\ p \notin wsDirty
    /\ Closes(p)
    /\ StillMounted
    /\ wsTaken' = None /\ wsBlind' = wsBlind \ {p}
    /\ UNCHANGED <<wsClosing, wsAway>>

WsAsksToClose(p) ==
    /\ ~wsAway /\ wsClosing = None /\ p \in Open \cap wsDirty
    /\ wsClosing' = p
    /\ UNCHANGED <<wsTool, wsTabs, wsLeaf, wsFocus, wsDirty, wsTaken, wsAway, wsBlind>>

WsConfirms ==
    /\ wsClosing # None /\ wsClosing' = None
    /\ Closes(wsClosing)
    /\ StillMounted
    /\ wsTaken' = None /\ wsBlind' = wsBlind \ {wsClosing}
    /\ UNCHANGED wsAway

WsCancels ==
    /\ wsClosing # None /\ wsClosing' = None
    /\ UNCHANGED <<wsTool, wsTabs, wsLeaf, wsFocus, wsDirty, wsTaken, wsAway, wsBlind>>

(***************************************************************************)
(* Tabs, text, and the other servers.                                      *)
(***************************************************************************)
\* reorderTabs: out of its place and in where the target was.
WsReorders(p, target) ==
    /\ ~wsAway /\ wsClosing = None /\ {p, target} \subseteq Open /\ p # target
    /\ wsTabs' = InsertAt(TabsWithout(p), IndexIn(wsTabs, target), p)
    /\ UNCHANGED <<wsTool, wsLeaf, wsFocus, wsDirty, wsClosing, wsTaken, wsAway, wsBlind>>

\* A view registers what it holds; text can be typed only where it shows.
WsTypes(p) ==
    /\ ~wsAway /\ wsClosing = None /\ p \in Open \ wsDirty /\ Shown(p)
    /\ Cardinality(wsDirty) < MaxDirty
    /\ wsDirty' = wsDirty \cup {p}
    /\ UNCHANGED <<wsTool, wsTabs, wsLeaf, wsFocus, wsClosing, wsTaken, wsAway, wsBlind>>

WsSaves(p) ==
    /\ p \in wsDirty /\ ~wsAway
    /\ wsDirty' = wsDirty \ {p}
    /\ UNCHANGED <<wsTool, wsTabs, wsLeaf, wsFocus, wsClosing, wsTaken, wsAway, wsBlind>>

\* Selecting another server unmounts every panel of this one.
WsLeaves ==
    /\ ~wsAway /\ wsClosing = None
    /\ wsAway' = TRUE /\ wsDirty' = {} /\ wsTaken' = None
    /\ UNCHANGED <<wsTool, wsTabs, wsLeaf, wsFocus, wsClosing, wsBlind>>

WsReturns ==
    /\ wsAway /\ wsAway' = FALSE
    /\ UNCHANGED <<wsTool, wsTabs, wsLeaf, wsFocus, wsDirty, wsClosing, wsTaken, wsBlind>>

(***************************************************************************)
WsInit ==
    /\ wsTool = [p \in Panel |-> None]
    /\ wsTabs = <<>> /\ wsLeaf = NoLeaf /\ wsFocus = None
    /\ wsDirty = {} /\ wsClosing = None /\ wsTaken = None /\ wsAway = FALSE /\ wsBlind = {}

WsNext ==
    \/ WsConfirms \/ WsCancels \/ WsLeaves \/ WsReturns
    \/ \E t \in Tool : WsOpens(t) \/ WsOpensWithIntent(t)
    \/ \E p \in Panel :
           \/ WsFocuses(p) \/ WsSplits(p) \/ WsCloses(p) \/ WsAsksToClose(p)
           \/ WsTypes(p) \/ WsSaves(p)
           \/ \E target \in Panel : WsReorders(p, target)

(***************************************************************************)
(* Properties.                                                             *)
(***************************************************************************)
WsTypeOK ==
    /\ wsTool \in [Panel -> Tool \cup {None}]
    /\ wsTabs \in Seq(Panel) /\ wsFocus \in Panel \cup {None}
    /\ DOMAIN wsLeaf \subseteq Panel
    /\ wsDirty \subseteq Panel /\ wsBlind \subseteq Panel
    /\ wsClosing \in Panel \cup {None} /\ wsTaken \in Panel \cup {None}
    /\ wsAway \in BOOLEAN

\* Tabs, panels and panes agree: one tab for each panel, panes only of open panels,
\* and no hole in the tree (every pane's sibling is a pane or a split).
WsLayoutIsWhole ==
    /\ Len(wsTabs) = Cardinality(Open) /\ ToSet(wsTabs) = Open
    /\ DOMAIN wsLeaf \subseteq Open
    /\ DOMAIN wsLeaf = {} <=> Open = {}
    /\ \A p, q \in DOMAIN wsLeaf : p # q => ~IsPrefix(wsLeaf[p], wsLeaf[q])
    /\ \A p \in DOMAIN wsLeaf : \A i \in DOMAIN wsLeaf[p] :
           \E q \in DOMAIN wsLeaf :
               IsPrefix(Append(SubSeq(wsLeaf[p], 1, i - 1), 3 - wsLeaf[p][i]), wsLeaf[q])

\* The focused panel is on screen, unless it was split off a hidden tab.
WsFocusIsShown ==
    /\ wsFocus \in Open \cup {None} /\ (wsFocus = None <=> Open = {})
    /\ wsFocus # None => Shown(wsFocus) \/ wsFocus \in wsBlind

\* An intent is taken in the panel the user sees, unless several panels share its tool.
WsIntentArrives ==
    wsTaken # None /\ (\A p \in Open : wsTool[p] = wsTool[wsTaken] => p = wsTaken)
        => wsTaken = wsFocus

\* The panel a question is about is open, and still holds what it asks about.
WsQuestionStands == wsClosing # None => wsClosing \in Open
===============================================================================
