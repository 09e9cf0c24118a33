----------------------------- MODULE SystemdUnits -----------------------------
(***************************************************************************)
(* The systemd services of a server: SystemdService.ts with its cache of   *)
(* the availability, systemdParsers.ts, and the Services panel             *)
(* (useServices.ts, ServicesPanel.tsx, ServicesTable.tsx,                  *)
(* ServiceDetailView.tsx).                                                 *)
(*                                                                         *)
(* The list is read by two commands, one after the other.  Lists and       *)
(* details are not numbered: the answer that comes last is shown.  The     *)
(* journal of a unit is loaded the way its detail is.                      *)
(***************************************************************************)
EXTENDS Null, Naturals, FiniteSets

CONSTANTS
    MaxMoves,      \* bound: moves of the user, of the server and of its connection
    MaxListings    \* bound: lists under way, and details

VARIABLES
    syUp,          \* the connection is 'connected'
    sySystem,      \* systemd: its units, and how often they have changed
    syCache,       \* availabilityCache: None, or the answer of the last 5 seconds
    syPanel,       \* None, or the mounted panel
    syLists,       \* lists under way
    syDetails,     \* details and unit files under way
    syAction,      \* the action under way; bound: one at a time
    syConfirmed,   \* what confirmed dialogs have named (history)
    syHit,         \* the last action systemd has taken: [unit, action, told] (history)
    syDone,        \* None, or the change the last action told done has made (history)
    syMoves

syServerVars == <<sySystem, syHit>>
syWindowVars == <<syPanel, syLists, syDetails>>
syVars == <<syUp, syServerVars, syCache, syWindowVars, syAction, syConfirmed, syDone, syMoves>>

Service == {"web", "db", "ssh"}
SystemdAction == {"start", "stop", "restart", "reload", "enable", "disable"}
CONFIRMED_ACTIONS == {"stop", "disable"}
SyMove == syMoves < MaxMoves /\ syMoves' = syMoves + 1

isProtectedSystemdUnit(unit) == unit = "ssh"
ProtectedActionBlock(unit, action) ==
    action \in {"stop", "disable"} /\ isProtectedSystemdUnit(unit)

\* Units, and what the panel, its lists, reads and actions hold.
UnitState == [active : {"active", "inactive", "failed"},
              startup : {"enabled", "disabled", "unknown"}]
SystemRecord == [units : [Service -> UnitState], changes : Nat]
DialogRecord == [unit : Service, action : SystemdAction]
PanelRecord ==
    [selected : Service \cup {None}, available : BOOLEAN \cup {None},
     units : [Service -> UnitState] \cup {<<>>}, heard : Nat,
     dialog : DialogRecord \cup {None}, running : BOOLEAN, detail : UnitState \cup {None},
     fileOpen : BOOLEAN, file : Service \cup {None}]
ListRecord ==
    [by : {"page", "action"}, stage : {"check", "units", "files"},
     saw : [Service -> UnitState] \cup {<<>>}, at : Nat]
ReadRecord == [kind : {"show", "file"}, unit : Service, saw : UnitState \cup {None}]
ActionRecord ==
    [unit : Service, action : SystemdAction, stage : {"call", "told", "reload"},
     told : BOOLEAN, change : Nat]

ASSUME SyNoneAssumption == None \notin PanelRecord \cup ActionRecord

(***************************************************************************)
(* systemctl, as far as the panel tells units apart by it.                 *)
(***************************************************************************)
ActionAllowed(unit, action) == action = "reload" => unit.active = "active"
AfterAction(unit, action) ==
    CASE action \in {"start", "restart"} -> [unit EXCEPT !.active = "active"]
      [] action = "stop" -> [unit EXCEPT !.active = "inactive"]
      [] action \in {"enable", "disable"} ->
             [unit EXCEPT !.startup = IF action = "enable" THEN "enabled" ELSE "disabled"]
      [] OTHER -> unit
Changed(system, unit, is) ==
    [units |-> [system.units EXCEPT ![unit] = is], changes |-> system.changes + 1]

(***************************************************************************)
(* isAvailable: what systemctl --version told, now or less than 5 seconds  *)
(* ago: the age of an answer is not counted.  A command that fails for any *)
(* reason, a lost connection among them, counts as not available.          *)
(***************************************************************************)
SystemdAvailable(answer) ==
    /\ answer = syCache \/ (answer => syUp)
    /\ syCache' = answer

(***************************************************************************)
(* The panel.  The detail is mounted while a unit is selected and systemd  *)
(* is known to be there; it loads when mounted and when its unit changes.  *)
(***************************************************************************)
ServicesPage(selected) ==
    [selected |-> selected, available |-> None, units |-> <<>>, heard |-> 0, dialog |-> None,
     running |-> FALSE, detail |-> None, fileOpen |-> FALSE, file |-> None]
List(by) == [by |-> by, stage |-> "check", saw |-> <<>>, at |-> 0]
UnitRead(kind, unit) == [kind |-> kind, unit |-> unit, saw |-> None]
Emptied(panel) == [panel EXCEPT !.detail = None, !.fileOpen = FALSE, !.file = None]

DetailMounted(panel, up) ==
    panel # None /\ up /\ panel.available = TRUE /\ panel.selected # None

\* The panel becomes `panel`, and its detail follows.
Renders(panel, up) ==
    LET was == DetailMounted(syPanel, syUp)
        is == DetailMounted(panel, up)
    IN IF ~is
       THEN syDetails' = {} /\ syPanel' = (IF panel = None THEN None ELSE Emptied(panel))
       ELSE IF was /\ panel.selected = syPanel.selected
       THEN syPanel' = panel /\ UNCHANGED syDetails
       ELSE /\ syPanel' = [panel EXCEPT !.fileOpen = FALSE, !.file = None]
            /\ syDetails' = (IF was THEN syDetails ELSE {})
                                \cup {UnitRead("show", panel.selected)}

Begins(list) == list \notin syLists /\ syLists' = syLists \cup {list}
AfterPanelStep == UNCHANGED <<syServerVars, syCache, syConfirmed>>

SyOpens(unit) ==
    /\ syPanel = None /\ SyMove
    /\ syPanel' = ServicesPage(unit)
    /\ syLists' = IF syUp THEN {List("page")} ELSE {}
    /\ UNCHANGED <<syUp, syDetails, syAction, syDone>> /\ AfterPanelStep

\* What is under way goes on, and nobody hears of it.
SyLeaves ==
    /\ syPanel # None /\ syPanel' = None /\ syLists' = {} /\ syDetails' = {}
    /\ syAction' = IF syAction = None \/ syAction.stage \in {"told", "reload"} THEN None
                   ELSE [syAction EXCEPT !.told = FALSE]
    /\ syDone' = None
    /\ UNCHANGED <<syUp, syMoves>> /\ AfterPanelStep

Ready == syPanel # None /\ syUp /\ syPanel.available = TRUE

\* A row, or the link of another tool.
SySelects(unit) ==
    /\ syPanel # None /\ syPanel.selected # unit /\ SyMove
    /\ Renders([syPanel EXCEPT !.selected = unit], syUp)
    /\ UNCHANGED <<syUp, syLists, syAction, syDone>> /\ AfterPanelStep

SyGoesBack ==
    /\ Ready /\ syPanel.selected # None
    /\ Renders([syPanel EXCEPT !.selected = None], syUp)
    /\ UNCHANGED <<syUp, syLists, syAction, syDone, syMoves>> /\ AfterPanelStep

(***************************************************************************)
(* Lists.                                                                  *)
(***************************************************************************)
\* The interval, or Refresh, while no unit is selected.
SyReloads ==
    /\ syPanel # None /\ syUp /\ syPanel.selected = None
    /\ Begins(List("page")) /\ Cardinality(syLists') <= MaxListings
    /\ UNCHANGED <<syUp, syPanel, syDetails, syAction, syDone, syMoves>> /\ AfterPanelStep

Over(list) ==
    IF list.by = "action"
    THEN syAction' = None
    ELSE UNCHANGED syAction
Rested(panel, list) == IF list.by = "action" THEN [panel EXCEPT !.running = FALSE] ELSE panel
Moved(list, next) == syLists' = (syLists \ {list}) \cup {next}
AfterListStep == UNCHANGED <<syUp, syServerVars, syConfirmed, syMoves>>

\* No systemd: the page says so, and has nothing else to show.
SyListChecked(list, answer) ==
    /\ list.stage = "check" /\ SystemdAvailable(answer)
    /\ IF answer
       THEN /\ Renders([syPanel EXCEPT !.available = TRUE], syUp)
            /\ Moved(list, [list EXCEPT !.stage = "units"]) /\ UNCHANGED <<syAction, syDone>>
       ELSE /\ Renders(Rested([syPanel EXCEPT !.available = FALSE, !.units = <<>>], list), syUp)
            /\ syLists' = syLists \ {list} /\ Over(list)
            /\ syDone' = IF list.by = "action" THEN None ELSE syDone
    /\ AfterListStep

\* list-units, asked for after one more check.
SyListsUnits(list) ==
    /\ list.stage = "units" /\ syUp /\ SystemdAvailable(TRUE)
    /\ Moved(list, [list EXCEPT !.stage = "files", !.saw = sySystem.units,
                                !.at = sySystem.changes])
    /\ UNCHANGED <<syPanel, syDetails, syAction, syDone>> /\ AfterListStep

\* list-unit-files: the states it tells, or none when it fails; then the rows are shown.
mergeUnits(rows, startups) ==
    [u \in Service |-> [rows[u] EXCEPT !.startup = startups[u]]]
Startups(told) == [u \in Service |-> IF told THEN sySystem.units[u].startup ELSE "unknown"]
Later(a, b) == IF a < b THEN b ELSE a
SyListAnswers(list, told) ==
    /\ list.stage = "files" /\ syUp
    /\ syPanel' = Rested([syPanel EXCEPT !.units = mergeUnits(list.saw, Startups(told)),
                                         !.heard = Later(syPanel.heard, list.at)], list)
    /\ syLists' = syLists \ {list} /\ Over(list)
    /\ UNCHANGED <<syCache, syDetails, syDone>> /\ AfterListStep

\* A command is refused or lost, or systemd no longer answers: an error shows.
SyListFails(list) ==
    /\ list.stage \in {"units", "files"}
    /\ \E answer \in BOOLEAN : SystemdAvailable(answer)
    /\ syPanel' = Rested(syPanel, list) /\ syLists' = syLists \ {list} /\ Over(list)
    /\ syDone' = IF list.by = "action" THEN None ELSE syDone
    /\ UNCHANGED syDetails /\ AfterListStep

(***************************************************************************)
(* The detail and the unit file.                                           *)
(***************************************************************************)
AsksFor(kinds) ==
    /\ syDetails' = syDetails \cup {UnitRead(k, syPanel.selected) : k \in kinds}
    /\ Cardinality(syDetails') <= MaxListings
LoadedKinds(panel) == {"show"} \cup (IF panel.fileOpen THEN {"file"} ELSE {})
AfterDetailStep ==
    UNCHANGED <<syUp, syServerVars, syLists, syAction, syConfirmed, syDone, syMoves>>

SyRereads ==
    /\ DetailMounted(syPanel, syUp) /\ AsksFor(LoadedKinds(syPanel))
    /\ UNCHANGED <<syCache, syPanel>> /\ AfterDetailStep

SyShowsFile ==
    /\ DetailMounted(syPanel, syUp)
    /\ syPanel' = [syPanel EXCEPT !.fileOpen = ~syPanel.fileOpen]
    /\ IF syPanel.fileOpen THEN UNCHANGED syDetails ELSE AsksFor({"file"})
    /\ UNCHANGED syCache /\ AfterDetailStep

SyDetailReads(d) ==
    /\ d.saw = None /\ syUp /\ SystemdAvailable(TRUE)
    /\ syDetails' = (syDetails \ {d}) \cup {[d EXCEPT !.saw = sySystem.units[d.unit]]}
    /\ UNCHANGED syPanel /\ AfterDetailStep

SyDetailFails(d) ==
    /\ d.saw = None /\ syDetails' = syDetails \ {d}
    /\ \E answer \in BOOLEAN : SystemdAvailable(answer)
    /\ UNCHANGED syPanel /\ AfterDetailStep

\* What comes last is shown, also for a unit selected before.
SyDetailAnswers(d) ==
    /\ d.saw # None /\ syDetails' = syDetails \ {d}
    /\ syPanel' = IF d.kind = "show" THEN [syPanel EXCEPT !.detail = d.saw]
                  ELSE [syPanel EXCEPT !.file = d.unit]
    /\ UNCHANGED syCache /\ AfterDetailStep

(***************************************************************************)
(* Actions.                                                                *)
(***************************************************************************)
RowActions(row) ==
    IF row.active = "failed" THEN {"restart"}
    ELSE IF row.active = "active" THEN {"stop", "restart"} ELSE {"start"}
DetailActions(detail) ==
    (IF detail # None /\ detail.active = "active"
     THEN {"restart", "reload", "stop"} ELSE {"start"})
        \cup (IF detail # None /\ detail.startup = "enabled" THEN {"disable"} ELSE {"enable"})
Offered(unit) ==
    {a \in IF syPanel.selected = unit THEN DetailActions(syPanel.detail)
           ELSE IF syPanel.selected = None /\ syPanel.units # <<>>
           THEN RowActions(syPanel.units[unit]) ELSE {} :
        ~ProtectedActionBlock(unit, a)}

ActionOn(unit, action) ==
    [unit |-> unit, action |-> action, stage |-> "call", told |-> TRUE, change |-> 0]
AfterRequest == UNCHANGED <<syUp, syServerVars, syCache, syLists, syDetails, syDone>>

\* A button: most actions run at once, two are asked for.
SyRequests(unit, action) ==
    /\ Ready /\ ~syPanel.running /\ syAction = None /\ syPanel.dialog = None
    /\ action \in Offered(unit) /\ SyMove
    /\ IF action \in CONFIRMED_ACTIONS
       THEN /\ syPanel' = [syPanel EXCEPT !.dialog = [unit |-> unit, action |-> action]]
            /\ UNCHANGED syAction
       ELSE /\ syPanel' = [syPanel EXCEPT !.running = TRUE]
            /\ syAction' = ActionOn(unit, action)
    /\ UNCHANGED syConfirmed /\ AfterRequest

SyDismisses ==
    /\ Ready /\ syPanel.dialog # None
    /\ syPanel' = [syPanel EXCEPT !.dialog = None]
    /\ UNCHANGED <<syAction, syConfirmed, syMoves>> /\ AfterRequest

SyConfirms ==
    /\ Ready /\ syPanel.dialog # None /\ ~syPanel.running /\ syAction = None
    /\ syPanel' = [syPanel EXCEPT !.dialog = None, !.running = TRUE]
    /\ syAction' = ActionOn(syPanel.dialog.unit, syPanel.dialog.action)
    /\ syConfirmed' = syConfirmed \cup {syPanel.dialog}
    /\ UNCHANGED syMoves /\ AfterRequest

AfterActionStep == UNCHANGED <<syUp, syConfirmed, syMoves>>
ActionAt(stage) == syAction # None /\ syAction.stage = stage
Refused ==
    /\ syAction' = None
    /\ syPanel' = IF syAction.told THEN [syPanel EXCEPT !.running = FALSE] ELSE syPanel

\* Not available, protected, without privileges, or refused by systemctl.
SyActionFails ==
    /\ ActionAt("call") /\ Refused
    /\ \E answer \in BOOLEAN : SystemdAvailable(answer)
    /\ UNCHANGED <<syServerVars, syLists, syDetails, syDone>> /\ AfterActionStep

\* systemctl takes the action; its answer may be lost, or come too late.
SyActionRuns(answers) ==
    /\ ActionAt("call") /\ syUp /\ SystemdAvailable(TRUE)
    /\ LET unit == sySystem.units[syAction.unit]
       IN /\ ~ProtectedActionBlock(syAction.unit, syAction.action)
          /\ ActionAllowed(unit, syAction.action)
          /\ sySystem' = Changed(sySystem, syAction.unit, AfterAction(unit, syAction.action))
    /\ syHit' = [unit |-> syAction.unit, action |-> syAction.action]
    /\ IF answers /\ syAction.told
       THEN /\ syAction' = [syAction EXCEPT !.stage = "told", !.change = sySystem.changes + 1]
            /\ UNCHANGED syPanel
       ELSE Refused
    /\ UNCHANGED <<syLists, syDetails, syDone>> /\ AfterActionStep

\* The detail, where one is open, and the list are read anew; only then the buttons return.
SyActionTold ==
    /\ ActionAt("told") /\ syAction' = [syAction EXCEPT !.stage = "reload"]
    /\ syLists' = syLists \cup {List("action")}
    /\ syDetails' = IF DetailMounted(syPanel, syUp)
                    THEN syDetails \cup {UnitRead(k, syPanel.selected) :
                                         k \in LoadedKinds(syPanel)}
                    ELSE syDetails
    /\ syDone' = syAction.change
    /\ UNCHANGED <<syServerVars, syCache, syPanel>> /\ AfterActionStep

(***************************************************************************)
(* The server and its connection.                                          *)
(***************************************************************************)
\* A service fails, whoever uses it.
SyServiceFails(unit) ==
    /\ SyMove /\ sySystem.units[unit].active = "active"
    /\ sySystem' = Changed(sySystem, unit, [sySystem.units[unit] EXCEPT !.active = "failed"])
    /\ UNCHANGED <<syUp, syHit, syCache, syWindowVars, syAction, syConfirmed, syDone>>

\* The panel keeps what it has selected, and forgets whether systemd is there.
SyLost ==
    /\ syUp /\ syUp' = FALSE
    /\ Renders(IF syPanel = None THEN None ELSE [syPanel EXCEPT !.available = None], FALSE)
    /\ UNCHANGED <<syLists, syAction, syDone, syMoves>> /\ AfterPanelStep

SyConnects ==
    /\ ~syUp /\ syUp' = TRUE /\ SyMove
    /\ Renders(syPanel, TRUE)
    /\ syLists' = IF syPanel = None THEN syLists ELSE syLists \cup {List("page")}
    /\ UNCHANGED <<syAction, syDone>> /\ AfterPanelStep

(***************************************************************************)
SyInit ==
    /\ syUp = TRUE /\ syCache = None
    /\ sySystem = [units |-> [u \in Service |-> [active |-> "active", startup |-> "enabled"]],
                   changes |-> 0]
    /\ syPanel = None /\ syLists = {} /\ syDetails = {} /\ syAction = None
    /\ syConfirmed = {} /\ syHit = None /\ syDone = None /\ syMoves = 0

SyNext ==
    \/ \E unit \in Service \cup {None} : SyOpens(unit)
    \/ SyLeaves \/ SyGoesBack \/ SyReloads \/ SyRereads \/ SyShowsFile
    \/ \E unit \in Service : SySelects(unit)
    \/ \E list \in syLists :
           \/ \E answer \in BOOLEAN : SyListChecked(list, answer)
           \/ SyListsUnits(list) \/ SyListFails(list)
           \/ \E told \in BOOLEAN : SyListAnswers(list, told)
    \/ \E d \in syDetails : SyDetailReads(d) \/ SyDetailFails(d) \/ SyDetailAnswers(d)
    \/ \E unit \in Service, action \in SystemdAction : SyRequests(unit, action)
    \/ SyDismisses \/ SyConfirms \/ SyActionFails \/ SyActionTold
    \/ \E answers \in BOOLEAN : SyActionRuns(answers)
    \/ SyServiceFails("web")
    \/ SyLost \/ SyConnects

\* Bounds: how much is read at the same time; a unit file is read with no action about;
\* an action is followed to its end.
SyBound ==
    /\ Cardinality(syLists) + Cardinality(syDetails) <= MaxListings
    /\ syLists = {} \/ syDetails = {} \/ syAction # None
    /\ (syPanel # None /\ syPanel.fileOpen) => (syLists = {} /\ syAction = None)
    /\ syHit # None => syAction # None

(***************************************************************************)
(* Properties.                                                             *)
(***************************************************************************)
SyTypeOK ==
    /\ syUp \in BOOLEAN /\ syCache \in BOOLEAN \cup {None}
    /\ sySystem \in SystemRecord
    /\ syPanel \in PanelRecord \cup {None} /\ syLists \subseteq ListRecord
    /\ syDetails \subseteq ReadRecord /\ syAction \in ActionRecord \cup {None}
    /\ syPanel # None /\ syPanel.available # TRUE => syPanel.detail = None
    /\ syPanel = None => syLists = {} /\ syDetails = {}
    /\ ~DetailMounted(syPanel, syUp) => syDetails = {}

\* What would cut the user off is never done, and a unit is stopped or disabled only when
\* a dialog that named it, and the action, was confirmed.
SyStopsAreMeant ==
    syHit # None /\ syHit.action \in CONFIRMED_ACTIONS =>
        ~isProtectedSystemdUnit(syHit.unit) /\ syHit \in syConfirmed

\* Once an action has been told done and its buttons are back, a list read after it has
\* been shown, or its loading has failed; a panel is never left without its buttons.
SyActionsAreShown ==
    /\ syDone # None /\ syAction = None => syPanel.heard >= syDone
    /\ syPanel # None /\ syAction = None => ~syPanel.running
===============================================================================
