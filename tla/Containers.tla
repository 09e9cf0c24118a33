------------------------------ MODULE Containers ------------------------------
(***************************************************************************)
(* Docker on a server: DockerService.ts with its cache of the availability, *)
(* and the panel with its tabs (DockerPanel.tsx, ContainersTab.tsx,        *)
(* ImagesTab.tsx, VolumesTab.tsx, NetworksTab.tsx).                        *)
(*                                                                         *)
(* Every call first asks whether Docker answers.  A tab lists, acts and    *)
(* lists again; its lists are not numbered, so the answer that comes last  *)
(* is shown.  Following the logs of a container is StreamTail's, its shell *)
(* TerminalService's.                                                      *)
(***************************************************************************)
EXTENDS Null, Naturals, FiniteSets

CONSTANTS
    Box,           \* containers, by id
    Tag,           \* repository:tag of an image
    Image,         \* images, by id
    Volume,        \* volumes, by name
    MaxActs,       \* bound: moves of the user, of other clients and of the daemon
    MaxLoads       \* bound: lists under way

VARIABLES
    ctServer,      \* the daemon and what it keeps
    ctCache,       \* availabilityCache: None, or the answer of the last 5 seconds
    ctPanel,       \* the panel, with the page of its tab
    ctLoads,       \* lists under way for that page
    ctAction,      \* the action under way
    ctRemoved,     \* what was removed by an action of the panel (history)
    ctConfirmed,   \* what the dialogs that were confirmed have named (history)
    ctUnlisted,    \* the list after an action was overtaken, or never asked for (history)
    ctActs

ctHistory == <<ctRemoved, ctConfirmed, ctUnlisted>>
ctVars == <<ctServer, ctCache, ctPanel, ctLoads, ctAction, ctHistory, ctActs>>

Tab == {"containers", "images", "volumes", "networks"}
Act == ctActs < MaxActs /\ ctActs' = ctActs + 1

\* listContainers, listImages, listVolumes, listNetworks.
Listing(tab, all) ==
    CASE tab = "containers" ->
            {[thing |-> b, is |-> ctServer.boxes[b]] : b \in
                {b \in Box : ctServer.boxes[b] \in IF all THEN {"running", "exited"}
                                                   ELSE {"running"}}}
      [] tab = "images" ->
            {[thing |-> t, is |-> ctServer.tags[t]] : t \in
                {t \in Tag : ctServer.tags[t] # None}}
      [] tab = "volumes" -> {[thing |-> v, is |-> None] : v \in ctServer.volumes}
      [] OTHER -> {}

Page(tab) ==
    [tab |-> tab, rows |-> {}, all |-> TRUE, view |-> "list", selected |-> None,
     intent |-> None, dialog |-> None, loading |-> FALSE]
Load(page) == [all |-> page.all, stage |-> "check", saw |-> {}, by |-> "page"]
Loading(page) == [page EXCEPT !.loading = TRUE]
Closed == [open |-> FALSE, available |-> None, page |-> None]
Shows(page) == ctPanel' = [ctPanel EXCEPT !.page = page]
OnPage == ctPanel.page # None
OnList == OnPage /\ ctPanel.page.view = "list"
OnTab(tab) == OnPage /\ ctPanel.page.tab = tab

(***************************************************************************)
(* isAvailable: docker info, or what it said less than 5 seconds ago: the  *)
(* age of an answer is not counted.  A command that fails for any other    *)
(* reason counts as not available, too.                                    *)
(***************************************************************************)
Available(answer) ==
    /\ answer = ctCache \/ (answer => ctServer.up)
    /\ ctCache' = answer

(***************************************************************************)
(* The panel.                                                              *)
(***************************************************************************)
\* What a page has under way is answered to nobody once it is gone.
PageGone ==
    LET over == ctAction # None /\ ctAction.stage \in {"told", "reload"}
    IN /\ ctAction' = IF ctAction = None \/ over THEN None ELSE [ctAction EXCEPT !.told = FALSE]
       /\ ctUnlisted' = (ctUnlisted \/ over)

\* Opened, or asked to recheck: the tabs make room for the check, whatever they show.
CtChecks ==
    /\ Act
    /\ ctPanel' = [Closed EXCEPT !.open = TRUE]
    /\ PageGone /\ ctLoads' = {}
    /\ UNCHANGED <<ctServer, ctCache, ctRemoved, ctConfirmed>>

\* A panel that finds no Docker offers a terminal and no way to look again.
CtChecked(answer, intent) ==
    /\ ctPanel.open /\ ctPanel.available = None
    /\ Available(answer)
    /\ ctPanel' = [open |-> TRUE, available |-> answer,
                   page |-> IF answer
                            THEN [Loading(Page("containers")) EXCEPT !.intent = intent]
                            ELSE None]
    /\ ctLoads' = IF answer THEN {Load(Page("containers"))} ELSE {}
    /\ UNCHANGED <<ctServer, ctAction, ctHistory, ctActs>>

\* Left, or the connection is gone.
CtCloses ==
    /\ ctPanel.open /\ ctPanel' = Closed
    /\ PageGone /\ ctLoads' = {}
    /\ UNCHANGED <<ctServer, ctCache, ctRemoved, ctConfirmed, ctActs>>

CtSwitches(tab) ==
    /\ OnPage /\ ctPanel.page.tab # tab /\ Act
    /\ Shows(Loading(Page(tab)))
    /\ ctLoads' = {Load(Page(tab))}
    /\ PageGone
    /\ UNCHANGED <<ctServer, ctCache, ctRemoved, ctConfirmed>>

(***************************************************************************)
(* Lists.                                                                  *)
(***************************************************************************)
Begins(load) ==
    /\ ctLoads' = ctLoads \cup {load}
    /\ load \notin ctLoads /\ Cardinality(ctLoads') <= MaxLoads

CtTicks ==
    /\ OnList /\ OnTab("containers")
    /\ Begins(Load(ctPanel.page)) /\ Shows(Loading(ctPanel.page))
    /\ UNCHANGED <<ctServer, ctCache, ctAction, ctHistory, ctActs>>

CtRefreshes ==
    /\ OnList /\ ~ctPanel.page.loading /\ Act
    /\ Begins(Load(ctPanel.page)) /\ Shows(Loading(ctPanel.page))
    /\ UNCHANGED <<ctServer, ctCache, ctAction, ctHistory>>

CtShowsAll ==
    /\ OnList /\ OnTab("containers") /\ Act
    /\ LET page == Loading([ctPanel.page EXCEPT !.all = ~ctPanel.page.all])
       IN Begins(Load(page)) /\ Shows(page)
    /\ UNCHANGED <<ctServer, ctCache, ctAction, ctHistory>>

\* Refused when Docker is not available; the statistics of containers are optional.
CtLoadRuns(load, answer) ==
    /\ load.stage = "check"
    /\ Available(answer)
    /\ LET lists == answer /\ ctServer.up
           lost == load.by = "action" /\ ~lists
           listed == [load EXCEPT !.stage = "answer",
                                  !.saw = Listing(ctPanel.page.tab, load.all)]
       IN /\ ctLoads' = (ctLoads \ {load}) \cup (IF lists THEN {listed} ELSE {})
          /\ Shows([ctPanel.page EXCEPT !.loading = lists /\ ctPanel.page.loading])
          /\ ctAction' = IF lost THEN None ELSE ctAction
          /\ ctUnlisted' = (ctUnlisted \/ lost)
    /\ UNCHANGED <<ctServer, ctRemoved, ctConfirmed, ctActs>>

\* The container another tool has asked for is inspected whenever a list has it, also
\* after the user has gone back to the list.
WithRows(page, rows) ==
    LET shown == [page EXCEPT !.rows = rows]
    IN IF \E row \in rows : row.thing = page.intent
       THEN [shown EXCEPT !.view = "detail", !.selected = page.intent] ELSE shown

CtLoadAnswers(load) ==
    /\ load.stage = "answer" /\ ctLoads' = ctLoads \ {load}
    /\ Shows([WithRows(ctPanel.page, load.saw) EXCEPT !.loading = FALSE])
    /\ ctAction' = IF load.by = "action" THEN None ELSE ctAction
    /\ UNCHANGED <<ctServer, ctCache, ctHistory, ctActs>>

(***************************************************************************)
(* Looking at a container, and acting on a row.                            *)
(***************************************************************************)
CtOpens(row) ==
    /\ OnList /\ OnTab("containers") /\ row \in ctPanel.page.rows /\ Act
    /\ ctPanel.page.dialog = None
    /\ Shows([ctPanel.page EXCEPT !.view = "detail", !.selected = row.thing])
    /\ UNCHANGED <<ctServer, ctCache, ctLoads, ctAction, ctHistory>>

\* Back to the list, which keeps the selection.
CtBack ==
    /\ OnPage /\ ctPanel.page.view = "detail"
    /\ Shows([ctPanel.page EXCEPT !.view = "list"])
    /\ UNCHANGED <<ctServer, ctCache, ctLoads, ctAction, ctHistory, ctActs>>

Idle == ctAction = None
\* An action keeps what the page was when it began: the filter and the selection.
Action(op, row) ==
    [op |-> op, tab |-> ctPanel.page.tab, row |-> row, stage |-> "check", told |-> TRUE,
     all |-> ctPanel.page.all, selected |-> ctPanel.page.selected]

CtRuns(op, row) ==
    /\ OnList /\ OnTab("containers") /\ Idle /\ row \in ctPanel.page.rows /\ Act
    /\ ctPanel.page.dialog = None
    /\ op = "start" <=> row.is # "running"
    /\ ctAction' = Action(op, row)
    /\ UNCHANGED <<ctServer, ctCache, ctPanel, ctLoads, ctHistory>>

CtAsks(row) ==
    /\ OnList /\ ~OnTab("networks") /\ row \in ctPanel.page.rows /\ ctPanel.page.dialog = None
    /\ OnTab("containers") => Idle
    /\ Act
    /\ Shows([ctPanel.page EXCEPT !.dialog = row])
    /\ UNCHANGED <<ctServer, ctCache, ctLoads, ctAction, ctHistory>>

CtCancels ==
    /\ OnList /\ ctPanel.page.dialog # None
    /\ Shows([ctPanel.page EXCEPT !.dialog = None])
    /\ UNCHANGED <<ctServer, ctCache, ctLoads, ctAction, ctHistory, ctActs>>

\* The dialog stays open until the removal has succeeded.
CtConfirms ==
    /\ OnList /\ ctPanel.page.dialog # None /\ Idle
    /\ ctAction' = Action("remove", ctPanel.page.dialog)
    /\ ctConfirmed' = ctConfirmed \cup {ctPanel.page.dialog}
    /\ UNCHANGED <<ctServer, ctCache, ctPanel, ctLoads, ctRemoved, ctUnlisted, ctActs>>

\* An image goes by its id and with force: every tag of it goes, not the row's alone.
TagsTaken(row) == {t \in Tag : ctServer.tags[t] = row.is /\ row.is # None}

\* What docker start, stop, restart, rm -f, rmi -f and volume rm -f do.
Exists(tab, row) ==
    CASE tab = "containers" -> ctServer.boxes[row.thing] # "absent"
      [] tab = "images"     -> TagsTaken(row) # {}
      [] OTHER              -> row.thing \in ctServer.volumes

\* A container's state, and what a tag names, become another one.
BoxIs(b, is) == [ctServer EXCEPT !.boxes = [ctServer.boxes EXCEPT ![b] = is]]
TagIs(t, i) == [ctServer EXCEPT !.tags = [ctServer.tags EXCEPT ![t] = i]]

Taken(tab, row) == IF tab = "images" THEN TagsTaken(row) ELSE {row.thing}

Without(tab, things) ==
    CASE tab = "containers" ->
            [ctServer EXCEPT !.boxes = [b \in Box |-> IF b \in things THEN "absent"
                                               ELSE ctServer.boxes[b]]]
      [] tab = "images" ->
            [ctServer EXCEPT !.tags = [t \in Tag |-> IF t \in things THEN None ELSE ctServer.tags[t]]]
      [] OTHER -> [ctServer EXCEPT !.volumes = ctServer.volumes \ things]

CtActionChecks(answer) ==
    /\ ctAction # None /\ ctAction.stage = "check"
    /\ Available(answer)
    /\ ctAction' = IF answer THEN [ctAction EXCEPT !.stage = "run"] ELSE None
    /\ UNCHANGED <<ctServer, ctPanel, ctLoads, ctHistory, ctActs>>

\* A start forgets what is known of the availability.
CtActionRuns ==
    /\ ctAction # None /\ ctAction.stage = "run"
    /\ ctServer.up /\ Exists(ctAction.tab, ctAction.row)
    /\ LET row == ctAction.row
           taken == Taken(ctAction.tab, row)
       IN IF ctAction.op = "remove"
          THEN /\ ctServer' = Without(ctAction.tab, taken)
               /\ ctRemoved' = ctRemoved \cup {[row EXCEPT !.thing = t] : t \in taken}
          ELSE /\ ctServer' = BoxIs(row.thing,
                                    IF ctAction.op = "stop" THEN "exited" ELSE "running")
               /\ UNCHANGED ctRemoved
    /\ ctCache' = IF ctAction.op = "start" THEN None ELSE ctCache
    /\ ctAction' = IF ctAction.told THEN [ctAction EXCEPT !.stage = "told"] ELSE None
    /\ ctUnlisted' = (ctUnlisted \/ ~ctAction.told)
    /\ UNCHANGED <<ctPanel, ctLoads, ctConfirmed, ctActs>>

\* It fails, or its answer is lost although it was done: the page tells an error.
CtActionFails ==
    /\ ctAction # None /\ ctAction.stage \in {"run", "told"}
    /\ ctAction' = None
    /\ ctUnlisted' = (ctUnlisted \/ ctAction.stage = "told")
    /\ UNCHANGED <<ctServer, ctCache, ctPanel, ctLoads, ctRemoved, ctConfirmed, ctActs>>

\* The dialog closes, whichever it is by now; a selection that was the removed container
\* when the action began returns to the list; the list is read again, under the filter
\* of then.
CtActionTold ==
    /\ ctAction # None /\ ctAction.stage = "told"
    /\ LET page == ctPanel.page
           load == [Load(ctAction) EXCEPT !.by = "action"]
           leaves == ctAction.op = "remove" /\ ctAction.tab = "containers"
                         /\ ctAction.selected = ctAction.row.thing
       IN /\ Shows([page EXCEPT !.dialog = IF ctAction.op = "remove" THEN None ELSE page.dialog,
                                !.view = IF leaves THEN "list" ELSE page.view,
                                !.selected = IF leaves THEN None ELSE page.selected,
                                !.loading = TRUE])
          /\ ctLoads' = ctLoads \cup {load} /\ load \notin ctLoads
          /\ Cardinality(ctLoads') <= MaxLoads
    /\ ctUnlisted' = (ctUnlisted \/ ctLoads # {})
    /\ ctAction' = [ctAction EXCEPT !.stage = "reload"]
    /\ UNCHANGED <<ctServer, ctCache, ctRemoved, ctConfirmed, ctActs>>

(***************************************************************************)
(* Others: the daemon stops or starts, containers come and go.             *)
(***************************************************************************)
\* What was removed stays away (a bound).
GoneThings == {row.thing : row \in ctRemoved}

CtServerChanges ==
    /\ Act
    /\ \/ ctServer' = [ctServer EXCEPT !.up = ~ctServer.up]
       \/ \E b \in Box, is \in {"running", "exited"} :
              /\ ctServer.boxes[b] # "absent" => ctServer.boxes[b] # is
              /\ b \notin GoneThings
              /\ ctServer' = BoxIs(b, is)
       \/ \E t \in Tag, i \in Image :
              /\ t \notin GoneThings /\ ctServer.tags[t] # i
              /\ ctServer' = TagIs(t, i)
    /\ UNCHANGED <<ctCache, ctPanel, ctLoads, ctAction, ctHistory>>

(***************************************************************************)
(* What the variables hold besides None.                                   *)
(***************************************************************************)
CtRow(tab) ==
    CASE tab = "containers" -> [thing : Box, is : {"running", "exited"}]
      [] tab = "images"     -> [thing : Tag, is : Image]
      [] tab = "volumes"    -> [thing : Volume, is : {None}]
      [] OTHER              -> {}
CtAnyRow == UNION {CtRow(tab) : tab \in Tab}

CtServerRecord ==
    [up : BOOLEAN, boxes : [Box -> {"running", "exited", "absent"}],
     tags : [Tag -> Image \cup {None}], volumes : SUBSET Volume]
CtPageRecord ==
    [tab : Tab, rows : SUBSET CtAnyRow, all : BOOLEAN, view : {"list", "detail"},
     selected : Box \cup {None}, intent : Box \cup {None}, dialog : CtAnyRow \cup {None},
     loading : BOOLEAN]
CtPanelRecord ==
    [open : BOOLEAN, available : BOOLEAN \cup {None}, page : CtPageRecord \cup {None}]
CtLoadRecord ==
    [all : BOOLEAN, stage : {"check", "answer"}, saw : SUBSET CtAnyRow, by : {"page", "action"}]
CtActionRecord ==
    [op : {"start", "stop", "restart", "remove"}, tab : Tab, row : CtAnyRow,
     stage : {"check", "run", "told", "reload"}, told : BOOLEAN, all : BOOLEAN,
     selected : Box \cup {None}]

ASSUME CtNoneAssumption ==
    /\ None \notin Box \cup Tag \cup Image \cup Volume /\ None \notin BOOLEAN
    /\ None \notin CtAnyRow /\ None \notin CtPageRecord /\ None \notin CtActionRecord

\* A container, a tag and a volume are not taken for each other.
ASSUME CtThingsAssumption ==
    Box \cap Tag = {} /\ Box \cap Volume = {} /\ Tag \cap Volume = {}

(***************************************************************************)
CtInit ==
    /\ \E up \in BOOLEAN, i \in Image \cup {None} :
           ctServer = [up |-> up, boxes |-> [b \in Box |-> "running"],
                       tags |-> [t \in Tag |-> i], volumes |-> Volume]
    /\ ctCache = None /\ ctPanel = [Closed EXCEPT !.open = TRUE] /\ ctLoads = {} /\ ctAction = None
    /\ ctRemoved = {} /\ ctConfirmed = {} /\ ctUnlisted = FALSE /\ ctActs = 0

CtNext ==
    \/ CtChecks \/ CtCloses \/ CtTicks \/ CtRefreshes \/ CtShowsAll
    \/ \E answer \in BOOLEAN :
          \/ \E intent \in Box \cup {None} : CtChecked(answer, intent)
          \/ \E load \in ctLoads : CtLoadRuns(load, answer)
          \/ CtActionChecks(answer)
    \/ \E tab \in Tab : CtSwitches(tab)
    \/ \E load \in ctLoads : CtLoadAnswers(load)
    \/ OnPage /\ \E row \in ctPanel.page.rows :
          \/ CtOpens(row) \/ CtAsks(row)
          \/ \E op \in {"start", "stop", "restart"} : CtRuns(op, row)
    \/ CtBack \/ CtCancels \/ CtConfirms \/ CtActionRuns \/ CtActionFails \/ CtActionTold
    \/ CtServerChanges

(***************************************************************************)
(* Properties.                                                             *)
(***************************************************************************)
CtTypeOK ==
    /\ ctServer.up \in BOOLEAN /\ ctServer.tags \in [Tag -> Image \cup {None}]
    /\ ctCache \in BOOLEAN \cup {None}
    /\ OnPage => /\ ctPanel.available = TRUE /\ ctPanel.page.tab \in Tab
                 /\ ctPanel.page.view = "detail" => ctPanel.page.selected \in Box
    /\ ctLoads # {} => OnPage

\* What goes was named by a dialog that was confirmed: the container or the volume, or
\* the image whose id the row had.
CtOnlyNamedGo ==
    \A gone \in ctRemoved : \E row \in ctConfirmed :
        row.thing = gone.thing \/ (row.is \in Image /\ row.is = gone.is)

\* A page with nothing under way does not show what it has removed, unless the list after
\* the action was overtaken, failed, or belonged to a page that was left.
CtRemovedIsGone ==
    (OnPage /\ ctLoads = {} /\ ctAction = None /\ ~ctUnlisted) =>
        \A row \in ctPanel.page.rows : row.thing \notin GoneThings
===============================================================================
