----------------------------- MODULE PackageViews ------------------------------
(***************************************************************************)
(* The Packages panel: the installed packages and their filter, updates,   *)
(* the search, a package's detail and the dialogs (PackagesPanel.tsx,      *)
(* usePackages.ts), over the apt and dpkg of the server (AptManager.ts,    *)
(* packagesParsers.ts).  Running an operation is PackageOperation's: here  *)
(* it changes the server in one step.                                      *)
(*                                                                         *)
(* Calls are not numbered, the answer that comes last is shown.  A query   *)
(* counts once the typing has paused.  The tabs and the messages of errors *)
(* are left out.                                                           *)
(***************************************************************************)
EXTENDS Null, Naturals, FiniteSetsExt

CONSTANTS
    Packages,         \* the archive: 1..n, in the order dpkg lists them
    LIST_CHUNK_SIZE,  \* lines of a page
    MaxSteps,         \* bound: moves of the user, the server, its connection and the poll
    MaxReloads        \* bound: calls under way

PackageState == {"old", "new", "config", None}
InstalledState == {"old", "new"}
\* An operation that is over, its end on display.
Finished == [kind |-> "over"]

PvPackagesAssumption ==
    /\ Packages \subseteq Nat /\ IsFiniteSet(Packages) /\ LIST_CHUNK_SIZE \in Nat \ {0}
    /\ None \notin Packages /\ None \notin InstalledState /\ None # Finished
ASSUME PvPackagesAssumption

VARIABLES
    pvServer,      \* what dpkg knows of each package
    pvUp,          \* the connection is 'connected'
    pvPanel,       \* the mounted panel and its hook
    pvCalls,       \* calls under way
    pvOff,         \* parts left out of date by a failed or overtaken answer (history)
    pvSteps

pvVars == <<pvServer, pvUp, pvPanel, pvCalls, pvOff, pvSteps>>

PvMove == pvSteps < MaxSteps /\ pvSteps' = pvSteps + 1

(***************************************************************************)
(* The server.  A package that was removed leaves its configuration and a  *)
(* line of dpkg's; an entry goes over two lines, its description the       *)
(* second, and grep keeps the first.  Lists are sets of rows: their order  *)
(* is dpkg's.                                                              *)
(***************************************************************************)
Row(name) == [name |-> name, version |-> pvServer[name]]

Matching(query) == {p \in Packages : pvServer[p] # None /\ query \in {None, p}}
EntryLines(query) == IF query = None THEN 2 ELSE 1
\* The first line of each entry.
dpkgQuery(query) ==
    [p \in Matching(query) |->
        EntryLines(query) * Cardinality({q \in Matching(query) : q < p}) + 1]
parseDpkgQueryOutput(packages) == {Row(p) : p \in {q \in packages : pvServer[q] \in InstalledState}}
listInstalled(query, offset) ==
    LET line == dpkgQuery(query)
    IN [total |-> EntryLines(query) * Cardinality(DOMAIN line),
        items |-> parseDpkgQueryOutput(
                      {p \in DOMAIN line : line[p] \in (offset + 1)..(offset + LIST_CHUNK_SIZE)})]

listUpdates == {p \in Packages : pvServer[p] = "old"}
overview ==
    [installedCount |-> listInstalled(None, 0).total, updateCount |-> Cardinality(listUpdates)]
search(query) == Packages \cap {query}
getInfo(name) ==
    [name |-> name,
     installedVersion |-> IF pvServer[name] \in InstalledState THEN pvServer[name] ELSE None]

(***************************************************************************)
(* The panel and its calls.                                                *)
(***************************************************************************)
PvPanel ==
    [available |-> "unknown", overview |-> None, installed |-> {}, query |-> None,
     updates |-> {}, results |-> {}, searched |-> None, intent |-> None, selected |-> None,
     detail |-> None, dialog |-> None, pending |-> None, operation |-> None, loading |-> {}]

\* A call asks for some parts of the panel; it is over when it has them all.
Got == [overview |-> None, installed |-> {}, updates |-> {}, results |-> {}, detail |-> None,
        dialog |-> None]
PvReload(parts, of) == [parts |-> parts, todo |-> parts, of |-> of, offset |-> 0, got |-> Got,
                      stale |-> {}]
Lists == {"overview", "installed", "updates"}
\* The flag a call sets, and clears whether another call has set it or not.
FlagOf(call) ==
    CASE "detail" \in call.parts -> {"detail"} [] Lists \subseteq call.parts -> {"all"}
      [] "updates" \in call.parts -> {"updates"} [] OTHER -> {}
Loads(panel, calls) ==
    [panel EXCEPT !.loading = panel.loading \cup UNION {FlagOf(c) : c \in calls}]
reloadAll == [PvReload(Lists, None) EXCEPT !.todo = {"available"}]
reloadInstalled(panel) == PvReload({"installed"}, panel.query)
reloadSearch(panel) == IF panel.searched = None THEN {} ELSE {PvReload({"results"}, panel.searched)}
loadDetail(panel, name) ==
    IF pvUp /\ panel.available = "yes" THEN {PvReload({"detail"}, name)} ELSE {}

ShowsPanel == pvUp /\ pvPanel.available # "no" /\ pvPanel.operation = None
NoDialog == pvPanel.dialog = None /\ pvPanel.pending = None
DetailShown == pvPanel.selected # None /\ pvPanel.detail # None

\* What the detail and the tabs offer.
DetailOffers(kind) ==
    IF "detail" \notin pvPanel.loading
       /\ (kind = "install") = (pvPanel.detail.installedVersion = None) /\ kind # "upgrade-all"
    THEN {pvPanel.detail.name} ELSE {}
InstalledOffer == {row.name : row \in pvPanel.installed}
UpdatesOffer(kind) ==
    CASE kind = "upgrade" -> pvPanel.updates
      [] /\ kind = "upgrade-all" /\ pvPanel.updates # {}
         /\ pvPanel.loading \cap {"all", "updates"} = {} -> {None}
      [] OTHER -> {}
SearchOffers == IF pvPanel.searched = None THEN {} ELSE pvPanel.results

PvDoes(panel, more) ==
    /\ PvMove
    /\ pvPanel' = Loads(panel, more) /\ pvCalls' = pvCalls \cup more
    /\ UNCHANGED <<pvServer, pvUp, pvOff>>
PvBecomes(panel) == pvPanel' = panel /\ UNCHANGED <<pvServer, pvUp, pvCalls, pvOff, pvSteps>>

(***************************************************************************)
(* The user.                                                               *)
(***************************************************************************)
PvFilters(query) ==
    /\ ShowsPanel /\ NoDialog /\ ~DetailShown /\ query # pvPanel.query
    /\ LET panel == [pvPanel EXCEPT !.query = query]
       IN PvDoes(panel, IF panel.available = "yes" THEN {reloadInstalled(panel)} ELSE {})

\* Without a query nothing is asked for, and nothing is found.
PvSearches(query) ==
    /\ ShowsPanel /\ NoDialog /\ ~DetailShown /\ query # pvPanel.searched
    /\ LET panel == [pvPanel EXCEPT !.searched = query,
                                    !.results = IF query = None THEN {} ELSE pvPanel.results]
       IN PvDoes(panel, IF panel.available = "yes" THEN reloadSearch(panel) ELSE {})

Opens(panel, name) == [panel EXCEPT !.selected = name]
PvOpens(name) ==
    /\ ShowsPanel /\ NoDialog /\ ~DetailShown
    /\ name \in InstalledOffer \cup UpdatesOffer("upgrade") \cup SearchOffers
    /\ PvDoes(Opens(pvPanel, name), loadDetail(pvPanel, name))

\* An intent stays, and is followed anew whenever loadDetail is another one: when the
\* connection or the availability is another one.
Follows(panel) == IF panel.intent = None THEN panel ELSE Opens(panel, panel.intent)
PvIntends(name) ==
    LET panel == [pvPanel EXCEPT !.intent = name]
    IN pvUp /\ PvDoes(Follows(panel), loadDetail(panel, name))

\* The effects that run when there is a manager and a connection again.
WaitsFor(panel) ==
    {reloadInstalled(panel)} \cup reloadSearch(panel)
    \cup (IF panel.intent = None THEN {} ELSE {PvReload({"detail"}, panel.intent)})
Unsearched(panel) == IF panel.searched = None THEN [panel EXCEPT !.results = {}] ELSE panel

PvGoesBack ==
    /\ ShowsPanel /\ NoDialog /\ DetailShown
    /\ PvMove
    /\ pvPanel' = [pvPanel EXCEPT !.selected = None, !.detail = None]
    /\ pvOff' = pvOff \ {"detail"}
    /\ UNCHANGED <<pvServer, pvUp, pvCalls>>

\* Every 30 seconds, unless a detail or an operation is open.
PvPolls ==
    /\ pvUp /\ pvPanel.selected = None /\ pvPanel.operation = None /\ pvPanel.available = "yes"
    /\ PvDoes(pvPanel, {PvReload({"overview"}, None), PvReload({"updates"}, None)})

\* The dialog of an installation opens with the answer.
PvAsksToInstall(name) ==
    /\ ShowsPanel /\ NoDialog
    /\ name \in IF DetailShown THEN DetailOffers("install") ELSE SearchOffers
    /\ PvDoes(pvPanel, {PvReload({"dialog"}, name)})

Pending(kind, of) == [kind |-> kind, of |-> of, version |-> None]
PvRequests(kind, of) ==
    /\ ShowsPanel /\ NoDialog
    /\ kind # "install" /\ of \in IF DetailShown THEN DetailOffers(kind) ELSE UpdatesOffer(kind)
    /\ PvDoes([pvPanel EXCEPT !.pending = Pending(kind, of)], {})

PvDismisses ==
    /\ ShowsPanel /\ ~NoDialog
    /\ PvBecomes([pvPanel EXCEPT !.dialog = None, !.pending = None])

\* A version is named unless it is the newest.
PvConfirms(version) ==
    /\ ShowsPanel /\ ~NoDialog
    /\ \E started \in {[kind |-> "install", of |-> pvPanel.dialog.name, version |-> version] :
                          d \in {pvPanel.dialog} \ {None}} \cup ({pvPanel.pending} \ {None}) :
           PvBecomes([pvPanel EXCEPT !.dialog = None, !.pending = None, !.operation = started])

(***************************************************************************)
(* An operation, and its end.                                              *)
(***************************************************************************)
\* What has been read before a change of the server is out of date.
Outdated(calls) ==
    {[c EXCEPT !.stale = c.stale \cup (c.parts \ c.todo)
                                 \cup (IF c.offset > 0 THEN {"installed"} ELSE {})] : c \in calls}

AfterOperation(operation) ==
    [p \in Packages |->
        CASE p = operation.of /\ operation.kind = "install" ->
                 IF operation.version = None THEN "new" ELSE operation.version
          [] p = operation.of /\ operation.kind = "remove" -> "config"
          [] (p = operation.of \/ operation.kind = "upgrade-all")
             /\ operation.kind # "install" /\ pvServer[p] = "old" -> "new"
          [] OTHER -> pvServer[p]]
PvOperationRuns ==
    /\ pvPanel.operation \notin {None, Finished}
    /\ pvServer' \in {pvServer, AfterOperation(pvPanel.operation)}
    /\ pvCalls' = Outdated(pvCalls)
    /\ pvPanel' = [pvPanel EXCEPT !.operation = Finished]
    /\ UNCHANGED <<pvUp, pvOff, pvSteps>>

\* finishOperation: back to the lists, which are read again.
FinishedReloads(panel) == {reloadAll}
PvDone ==
    /\ pvUp /\ pvPanel.available # "no" /\ pvPanel.operation = Finished
    /\ pvPanel' = Loads([pvPanel EXCEPT !.operation = None, !.selected = None, !.detail = None],
                        FinishedReloads(pvPanel))
    /\ pvCalls' = pvCalls \cup FinishedReloads(pvPanel) /\ pvOff' = pvOff \ {"detail"}
    /\ UNCHANGED <<pvServer, pvUp, pvSteps>>

\* The operation could not be started.
PvCannotStart ==
    /\ pvPanel.operation \notin {None, Finished}
    /\ pvPanel' = [pvPanel EXCEPT !.operation = None]
    /\ UNCHANGED <<pvServer, pvUp, pvCalls, pvOff, pvSteps>>

(***************************************************************************)
(* The main process answers, a page of the installed packages at a time.   *)
(***************************************************************************)
Answer(call, part) ==
    CASE part = "overview" -> overview [] part = "updates" -> listUpdates
      [] part = "results" -> search(call.of) [] OTHER -> getInfo(call.of)
PvMainReads(call, part) ==
    /\ part \in call.todo \ {"available", "installed"} /\ pvUp
    /\ pvCalls' = (pvCalls \ {call}) \cup
                  {[call EXCEPT !.todo = call.todo \ {part},
                                !.got = [call.got EXCEPT ![part] = Answer(call, part)]]}
    /\ UNCHANGED <<pvServer, pvUp, pvPanel, pvOff, pvSteps>>

LastPage(page, items) == Cardinality(items) >= page.total \/ page.items = {}
\* (history) A page of lines that name no installed package is taken for the last.
EndsEarly(page, offset) == page.items = {} /\ offset + LIST_CHUNK_SIZE < page.total
PvMainLists(call) ==
    /\ "installed" \in call.todo /\ pvUp
    /\ LET page == listInstalled(call.of, call.offset)
           items == call.got.installed \cup page.items
       IN pvCalls' = (pvCalls \ {call}) \cup
              {[call EXCEPT !.got = [call.got EXCEPT !.installed = items],
                            !.offset = call.offset + LIST_CHUNK_SIZE,
                            !.stale = call.stale \cup (IF EndsEarly(page, call.offset)
                                                      THEN {"installed"} ELSE {}),
                            !.todo = call.todo \ (IF LastPage(page, items)
                                                 THEN {"installed"} ELSE {})]}
    /\ UNCHANGED <<pvServer, pvUp, pvPanel, pvOff, pvSteps>>

(***************************************************************************)
(* The window hears the answers.                                           *)
(***************************************************************************)
\* reloadAll goes on to the lists, and what waits for the manager follows.
PvAvailable(call) ==
    /\ "available" \in call.todo
    /\ LET follows == pvPanel.available # "yes"
           panel == [pvPanel EXCEPT !.available = "yes"]
           more == IF follows /\ pvUp THEN WaitsFor(panel) ELSE {}
       IN /\ pvPanel' = IF ~follows THEN panel
                        ELSE Follows(Loads(IF pvUp THEN Unsearched(panel) ELSE panel, more))
          /\ pvCalls' = (pvCalls \ {call}) \cup {PvReload(Lists, panel.query)} \cup more
    /\ UNCHANGED <<pvServer, pvUp, pvOff, pvSteps>>

\* No manager was found, or the command that looks for it was cut short.
PvUnavailable(call) ==
    /\ "available" \in call.todo
    /\ pvPanel' = Follows([pvPanel EXCEPT !.available = "no", !.overview = None, !.installed = {},
                                          !.updates = {}, !.results = {},
                                          !.loading = pvPanel.loading \ {"all"}])
    /\ pvCalls' = pvCalls \ {call}
    /\ UNCHANGED <<pvServer, pvUp, pvOff, pvSteps>>

\* (history) What was asked is no longer what the panel names.
Overtaken(call) ==
    (IF call.of # pvPanel.query THEN {"installed"} ELSE {}) \cup
    (IF call.of # pvPanel.searched THEN {"results"} ELSE {}) \cup
    (IF call.of # pvPanel.selected THEN {"detail"} ELSE {})
PvShown(call) ==
    /\ call.todo = {}
    /\ pvPanel' = [f \in DOMAIN pvPanel |->
                      IF f \in call.parts THEN call.got[f]
                      ELSE IF f = "loading" THEN pvPanel.loading \ FlagOf(call) ELSE pvPanel[f]]
    /\ pvOff' = (pvOff \ call.parts) \cup (call.parts \cap (call.stale \cup Overtaken(call)))
    /\ pvCalls' = pvCalls \ {call}
    /\ UNCHANGED <<pvServer, pvUp, pvSteps>>

PvFails(call) ==
    /\ call.todo # {} /\ pvCalls' = pvCalls \ {call} /\ pvOff' = pvOff \cup call.parts
    /\ pvPanel' = [pvPanel EXCEPT !.loading = pvPanel.loading \ FlagOf(call)]
    /\ UNCHANGED <<pvServer, pvUp, pvSteps>>

(***************************************************************************)
(* The server and its connection.                                          *)
(***************************************************************************)
PvServerChanges(name, state) ==
    /\ PvMove /\ pvServer[name] # state
    /\ pvServer' = [pvServer EXCEPT ![name] = state]
    /\ pvCalls' = Outdated(pvCalls) /\ pvOff' = pvOff \cup Lists \cup {"detail"}
    /\ UNCHANGED <<pvUp, pvPanel>>

\* What is shown is kept, dialogs and operation included.
PvLost ==
    /\ pvUp /\ PvMove
    /\ pvUp' = FALSE /\ pvPanel' = Follows([pvPanel EXCEPT !.available = "unknown"])
    /\ UNCHANGED <<pvServer, pvCalls, pvOff>>

\* The manager is known already if it was found while the connection was away.
PvConnects ==
    /\ ~pvUp /\ pvUp' = TRUE
    /\ LET found == pvPanel.available = "yes"
           more == {reloadAll} \cup (IF found THEN WaitsFor(pvPanel) ELSE {})
       IN /\ pvPanel' = Follows(Loads(IF found THEN Unsearched(pvPanel) ELSE pvPanel, more))
          /\ pvCalls' = pvCalls \cup more
    /\ UNCHANGED <<pvServer, pvOff, pvSteps>>

(***************************************************************************)
\* One package is installed and could be upgraded; nothing is connected yet.
PvInit ==
    /\ pvServer = [p \in Packages |-> IF p = 1 THEN "old" ELSE None]
    /\ pvUp = FALSE /\ pvPanel = PvPanel /\ pvCalls = {} /\ pvOff = {} /\ pvSteps = 0

PvNext ==
    \/ \E query \in Packages \cup {None} : PvFilters(query) \/ PvSearches(query)
    \/ \E name \in Packages : PvOpens(name) \/ PvIntends(name) \/ PvAsksToInstall(name)
    \/ PvGoesBack \/ PvPolls \/ PvDismisses
    \/ \E kind \in {"remove", "upgrade", "upgrade-all"}, of \in Packages \cup {None} :
           PvRequests(kind, of)
    \/ \E version \in {None, "old"} : PvConfirms(version)
    \/ PvOperationRuns \/ PvDone \/ PvCannotStart
    \/ \E call \in pvCalls :
           \/ \E part \in call.todo : PvMainReads(call, part)
           \/ PvMainLists(call) \/ PvAvailable(call) \/ PvUnavailable(call)
           \/ PvShown(call) \/ PvFails(call)
    \/ \E name \in Packages, state \in PackageState : PvServerChanges(name, state)
    \/ PvLost \/ PvConnects

\* Bound: calls under way.
PvBound == Cardinality(pvCalls) <= MaxReloads

(***************************************************************************)
(* Properties.                                                             *)
(***************************************************************************)
PvTypeOK ==
    /\ pvServer \in [Packages -> PackageState] /\ pvUp \in BOOLEAN
    /\ pvPanel.available \in {"unknown", "yes", "no"} /\ pvPanel.updates \subseteq Packages
    /\ \A c \in pvCalls : c.todo \ {"available"} \subseteq c.parts

\* With nothing under way every part of the panel says what dpkg and apt would: all the
\* installed packages that match the filter, the updates and their number, what was searched
\* for, and of the package that was opened its version.
PvListsAreTrue ==
    pvUp /\ pvCalls = {} /\ pvPanel.available = "yes" /\ pvPanel.operation = None =>
        /\ "installed" \notin pvOff =>
               pvPanel.installed = {Row(p) : p \in {q \in Packages :
                   pvServer[q] \in InstalledState /\ pvPanel.query \in {None, q}}}
        /\ "updates" \notin pvOff => pvPanel.updates = listUpdates
        /\ "overview" \notin pvOff => pvPanel.overview = overview
        /\ "results" \notin pvOff => pvPanel.results = search(pvPanel.searched)
        /\ "detail" \notin pvOff /\ DetailShown => pvPanel.detail = getInfo(pvPanel.selected)
===============================================================================
