---------------------------- MODULE DeploymentViews ----------------------------
(***************************************************************************)
(* The Deployments panel and its snapshots: the table, the snapshots of a  *)
(* deployment with their tags, and comparisons (DeploymentsPanel.tsx,      *)
(* useDeployments.ts, useSnapshots.ts, SnapshotsView.tsx,                  *)
(* DiffDetailView.tsx), over TopologyHistoryService.ts.                    *)
(*                                                                         *)
(* The calls of the window are not numbered: the answer that comes last is *)
(* shown.  Scanning is TopologyService's and comparing DeploymentTopology's: *)
(* here a scan is one step, and what is compared are versions.  The same   *)
(* call is not made twice at a time.  That a list waits for its answer is  *)
(* not modelled.                                                           *)
(***************************************************************************)
EXTENDS Null, Naturals, FiniteSets

CONSTANTS
    Site,          \* deployments
    Label,         \* names of tags
    MaxScans,      \* bound: scans
    MaxVisit,      \* bound: moves of the user, the server, its connection and the poll
    MaxCalls       \* bound: calls under way

ASSUME DvNoneAssumption == None \notin Site
\* The panel that has been open for a while has seen two scans.
ASSUME DvScansAssumption == MaxScans \in Nat \ {0, 1}

VARIABLES
    dvMain,        \* the server, its cached scan and the recorded snapshots
    dvUp,          \* the connection is 'connected'
    dvPanel,       \* the mounted panel and its hooks
    dvCalls,       \* calls under way
    dvOff,         \* what an answer has left out of date: see Applied (history)
    dvVisit

dvVars == <<dvMain, dvUp, dvPanel, dvCalls, dvOff, dvVisit>>

DvMove == dvVisit < MaxVisit /\ dvVisit' = dvVisit + 1

(***************************************************************************)
(* TopologyHistoryService.                                                 *)
(***************************************************************************)
Version == {1, 2}
Snapshots == DOMAIN dvMain.recorded
Newest(ids) == CHOOSE i \in ids : \A j \in ids : j <= i

\* What a version is made of, and what distinguishes two of which one may be missing.
Entities(version) ==
    CASE version = 1 -> {"nginx_site", "port", "process"}
      [] version = 2 -> {"nginx_site", "port", "domain"} [] OTHER -> {}
Change(kind, of) == [kind |-> kind, of |-> of]
VersionChanges(before, after) ==
    {Change("entity_added", e) : e \in Entities(after) \ Entities(before)} \cup
    {Change("entity_removed", e) : e \in Entities(before) \ Entities(after)} \cup
    IF before = after THEN {}
    ELSE {Change("entity_modified", e) : e \in Entities(before) \cap Entities(after)} \cup
         (IF {before, after} = Version THEN {Change("relationship_added", None)} ELSE {})
diffTopologyForDeployment(site, before, after) == VersionChanges(before[site], after[site])

Recorded(id) == dvMain.recorded[id].sites
Tags(id, site) == dvMain.recorded[id].tags[site]
list == {[id |-> i, tags |-> dvMain.recorded[i].tags] : i \in Snapshots}
ChangesAt(id, site) ==
    LET older == {i \in Snapshots : i < id}
    IN IF older = {} THEN {}
       ELSE diffTopologyForDeployment(site, Recorded(Newest(older)), Recorded(id))
deploymentHistory(site) ==
    {[id |-> i, tags |-> Tags(i, site), changes |-> Cardinality(ChangesAt(i, site))] :
        i \in {i \in Snapshots : ChangesAt(i, site) # {} \/ Tags(i, site) # {}}}

\* A scan is recorded when it differs from the last one recorded, or when it is tagged.
Record(main, scan) ==
    IF scan.at \in DOMAIN main.recorded THEN main
    ELSE LET snapshot == [sites |-> scan.sites, tags |-> [d \in Site |-> {}]]
         IN [main EXCEPT !.recorded = [i \in DOMAIN main.recorded \cup {scan.at} |->
                                           IF i = scan.at THEN snapshot ELSE main.recorded[i]]]
Scanned ==
    LET scan == [at |-> dvMain.scans + 1, sites |-> dvMain.live]
        main == [dvMain EXCEPT !.scans = scan.at, !.cached = scan]
    IN IF Snapshots # {} /\ Recorded(Newest(Snapshots)) = scan.sites THEN main
       ELSE Record(main, scan)
Tagged(main, id, site, tags) ==
    LET old == main.recorded[id]
        snapshot == [old EXCEPT !.tags = [old.tags EXCEPT ![site] = tags]]
    IN [main EXCEPT !.recorded = [main.recorded EXCEPT ![id] = snapshot]]

(***************************************************************************)
(* The panel: what it has been asked to show, and what it shows.           *)
(***************************************************************************)
DvPanel(intent) ==
    [snapshot |-> None, selected |-> None, snapsOf |-> None, diffOf |-> None, request |-> None,
     intent |-> intent, history |-> {}, loaded |-> FALSE, entries |-> {}, entriesOf |-> None,
     result |-> <<>>, change |-> None]

Known(panel, site) == site # None /\ panel.snapshot.sites[site] # None
DvView(panel) ==
    IF panel.snapshot = None THEN "none"
    ELSE IF panel.selected # None THEN "detail"
    ELSE IF Known(panel, panel.diffOf) /\ panel.request # None THEN "diff"
    ELSE IF Known(panel, panel.snapsOf) THEN "snapshots" ELSE "table"

Live(base) == [from |-> base, to |-> None]
\* An intent stays, and is followed anew with every snapshot shown.
Follow(panel) ==
    IF panel.snapshot = None \/ panel.intent = None THEN panel
    ELSE LET site == panel.intent.site IN
         CASE panel.intent.view = "snapshots" ->
                 [panel EXCEPT !.selected = None, !.diffOf = None, !.request = None,
                               !.snapsOf = site]
           [] panel.intent.view = "diff" ->
                 [panel EXCEPT !.selected = None, !.snapsOf = None, !.diffOf = site,
                               !.request = Live(panel.intent.base)]
           [] OTHER -> IF Known(panel, site) THEN [panel EXCEPT !.selected = site] ELSE panel

Ask(op, site, id, what) == [op |-> op, site |-> site, id |-> id, what |-> what, answer |-> <<>>]
Entries(site) == Ask("entries", site, None, None)
Compare(site, request) == Ask("diff", site, None, request)
History == Ask("history", None, None, None)

\* What the views ask for once the panel is `panel`: the snapshots of a deployment and a
\* comparison when they come on screen or change, the history when a scan is not in it.
EntriesFor(panel) ==
    IF DvView(panel) = "snapshots" /\
       (DvView(dvPanel) # "snapshots" \/ panel.snapsOf # dvPanel.snapsOf)
    THEN {Entries(panel.snapsOf)} ELSE {}
DiffFor(panel) ==
    IF DvView(panel) = "diff" /\ (\/ DvView(dvPanel) # "diff"
                                \/ panel.diffOf # dvPanel.diffOf
                                \/ panel.request # dvPanel.request)
    THEN {Compare(panel.diffOf, panel.request)} ELSE {}
HistoryFor(panel) ==
    IF /\ panel.snapshot # None /\ panel.loaded
       /\ dvPanel.snapshot = None \/ panel.snapshot.at # dvPanel.snapshot.at
       /\ \A e \in panel.history : e.id # panel.snapshot.at
    THEN {History} ELSE {}

Renders(panel, calls) ==
    /\ dvPanel' = [panel EXCEPT !.change = IF DvView(panel) = "diff" THEN panel.change ELSE None]
    /\ dvCalls' = calls \cup EntriesFor(panel) \cup DiffFor(panel) \cup HistoryFor(panel)
AfterMove == UNCHANGED <<dvMain, dvUp, dvOff>>

\* The changes of a comparison, by the layer of what has changed; what no layer is known
\* for comes with the backend.
LAYER_ORDER == <<"ssl", "nginx", "backend", "service", "container", "files">>
KIND_TO_LAYER == [ssl_certificate |-> "ssl", nginx_site |-> "nginx", port |-> "backend",
                  process |-> "backend", systemd_unit |-> "service",
                  docker_container |-> "container", docker_compose_service |-> "container",
                  file_path |-> "files"]
LayerOf(change) ==
    IF change.of \in DOMAIN KIND_TO_LAYER THEN KIND_TO_LAYER[change.of] ELSE "backend"
ChangesByLayer(changes) ==
    [i \in DOMAIN LAYER_ORDER |-> {c \in changes : LayerOf(c) = LAYER_ORDER[i]}]

\* Of the results at hand the view takes the one of its request.
ChangesShown(panel) ==
    IF panel.result # <<>> /\ panel.result[1].request = panel.request
    THEN panel.result[1].changes ELSE {}

(***************************************************************************)
(* The user.                                                               *)
(***************************************************************************)
DvShows(panel) == dvUp /\ DvMove /\ Renders(panel, dvCalls) /\ AfterMove
On(view) == dvUp /\ DvView(dvPanel) = view

DvSelects(site) ==
    /\ On("table") /\ Known(dvPanel, site) /\ DvShows([dvPanel EXCEPT !.selected = site])
DvOpensSnapshots(site) ==
    /\ On("table") /\ Known(dvPanel, site) /\ DvShows([dvPanel EXCEPT !.snapsOf = site])

\* The badge of a deployment is its tag on the newest snapshot that has one.
LatestTag(site) ==
    LET tagged == {e.id : e \in {x \in dvPanel.history : x.tags[site] # {}}}
    IN IF tagged = {} THEN None ELSE Newest(tagged)
DvOpensTagDiff(site) ==
    /\ On("table") /\ Known(dvPanel, site) /\ LatestTag(site) # None
    /\ DvShows([dvPanel EXCEPT !.diffOf = site, !.request = Live(LatestTag(site))])

\* Chosen in the two selects of the compare bar, or with the button of a row.
DvCompares(from, to) ==
    /\ On("snapshots") /\ from # to
    /\ {from, to} \ {None} \subseteq {e.id : e \in dvPanel.entries}
    /\ DvShows([dvPanel EXCEPT !.diffOf = dvPanel.snapsOf,
                               !.request = [from |-> from, to |-> to]])

DvGoesBack ==
    \/ On("detail") /\ DvShows([dvPanel EXCEPT !.selected = None])
    \/ On("diff") /\ DvShows([dvPanel EXCEPT !.diffOf = None, !.request = None])
    \/ On("snapshots") /\ DvShows([dvPanel EXCEPT !.snapsOf = None])

\* A change is looked at beside the list, and stays there when the list is another one.
DvPicks(change) == On("diff") /\ DvShows([dvPanel EXCEPT !.change = change])

\* Another tool, or a link, asks for a view.
DvIntents(view, site, base) ==
    /\ dvUp /\ (view = "diff") = (base # None) /\ base \in Snapshots \cup {None}
    /\ DvShows(Follow([dvPanel EXCEPT !.intent = [view |-> view, site |-> site, base |-> base]]))

Sends(call) ==
    /\ dvUp /\ dvCalls' = dvCalls \cup {call} /\ Cardinality(dvCalls') <= MaxCalls
    /\ UNCHANGED <<dvMain, dvUp, dvPanel, dvOff>>

DvRefreshes ==
    /\ On("table") /\ DvMove /\ (\A c \in dvCalls : c.op \notin {"snapshot", "scan"})
    /\ Sends(Ask("scan", None, None, None))
DvPolls ==
    /\ dvPanel.selected = None /\ dvPanel.snapsOf = None
    /\ DvMove /\ Sends(Ask("snapshot", None, None, None))

\* Whether the rows are those of the deployment is decided now, and used with the answer.
OfRows == dvPanel.entriesOf = dvPanel.snapsOf
DvTags(row, label) ==
    /\ On("snapshots") /\ DvMove /\ row \in dvPanel.entries /\ label \notin row.tags
    /\ Sends(Ask("tag", dvPanel.snapsOf, row.id, <<label, OfRows>>))
DvUntags(row, label) ==
    /\ On("snapshots") /\ DvMove /\ row \in dvPanel.entries /\ label \in row.tags
    /\ Sends(Ask("untag", dvPanel.snapsOf, row.id, <<label, OfRows>>))
DvTagsCurrent(label) ==
    /\ On("snapshots") /\ DvMove
    /\ Sends(Ask("tagCurrent", dvPanel.snapsOf, None, <<label, OfRows>>))

\* refresh: the history, then the snapshots of the deployment whose rows are shown.
DvRereads ==
    /\ On("snapshots") /\ DvMove
    /\ Sends([History EXCEPT !.what = dvPanel.entriesOf])

(***************************************************************************)
(* The main process takes a call.                                          *)
(***************************************************************************)
Takes(call, answer, main) ==
    /\ call.answer = <<>> /\ dvMain' = main
    /\ dvCalls' = (dvCalls \ {call}) \cup {[call EXCEPT !.answer = <<answer>>]}
    /\ UNCHANGED <<dvUp, dvPanel, dvOff, dvVisit>>

\* getSnapshot answers a cached scan until it has grown old.
HasCached(old) == dvMain.cached # None /\ ~old
GetSnapshot(old) == IF HasCached(old) THEN dvMain ELSE Scanned
CanScan == dvUp /\ dvMain.scans < MaxScans

DvMainScans(call, old) ==
    \/ call.op = "scan" /\ CanScan /\ Takes(call, Scanned.cached, Scanned)
    \/ /\ call.op = "snapshot" /\ (HasCached(old) \/ CanScan)
       /\ Takes(call, GetSnapshot(old).cached, GetSnapshot(old))

DvMainReads(call) ==
    \/ call.op = "history" /\ Takes(call, list, dvMain)
    \/ call.op = "entries" /\ Takes(call, deploymentHistory(call.site), dvMain)

DvMainCompares(call, old) ==
    /\ call.op = "diff" /\ (call.what.to # None \/ HasCached(old) \/ CanScan)
    /\ LET current == IF call.what.to = None THEN GetSnapshot(old) ELSE dvMain
           to == IF call.what.to = None THEN current.cached.sites ELSE Recorded(call.what.to)
       IN Takes(call, [of |-> call.site, request |-> call.what,
                       changes |-> diffTopologyForDeployment(call.site,
                                                             Recorded(call.what.from), to)],
                current)

Retagged(call, tags) ==
    IF call.op = "tag" THEN tags \cup {call.what[1]} ELSE tags \ {call.what[1]}

DvMainTags(call, old) ==
    \/ /\ call.op \in {"tag", "untag"}
       /\ Takes(call, None, Tagged(dvMain, call.id, call.site,
                                   Retagged(call, Tags(call.id, call.site))))
    \/ /\ call.op = "tagCurrent" /\ (HasCached(old) \/ CanScan)
       /\ LET current == GetSnapshot(old)
              at == current.cached.at
              main == Record(current, current.cached)
          IN Takes(call, None, Tagged(main, at, call.site,
                                      main.recorded[at].tags[call.site] \cup {call.what[1]}))

(***************************************************************************)
(* The window hears the answer.                                            *)
(***************************************************************************)
\* (history) A part of the panel is out of date from an answer that was overtaken or
\* failed on, until one that is not.
Applied(part, fresh) == dvOff' = IF fresh THEN dvOff \ {part} ELSE dvOff \cup {part}
Heard(call, panel, more) ==
    /\ call.answer # <<>>
    /\ Renders(panel, (dvCalls \ {call}) \cup more)
    /\ UNCHANGED <<dvMain, dvUp, dvVisit>>

DvSnapshotShown(call) ==
    /\ call.op \in {"snapshot", "scan"} /\ call.answer # <<>>
    /\ Heard(call, Follow([dvPanel EXCEPT !.snapshot = call.answer[1]]), {})
    /\ UNCHANGED dvOff

DvHistoryShown(call) ==
    /\ call.op = "history" /\ call.answer # <<>>
    /\ Heard(call, [dvPanel EXCEPT !.history = call.answer[1], !.loaded = TRUE],
             IF call.what = None THEN {} ELSE {Entries(call.what)})
    /\ Applied("history", call.answer[1] \subseteq list)

DvEntriesShown(call) ==
    /\ call.op = "entries" /\ call.answer # <<>>
    /\ Heard(call, [dvPanel EXCEPT !.entries = call.answer[1], !.entriesOf = call.site], {})
    /\ Applied("entries", call.site = dvPanel.snapsOf /\ \A e \in call.answer[1] :
                              e.tags = Tags(e.id, call.site))

\* What is compared with the server is told apart by the snapshot only.
DvDiffShown(call) ==
    /\ call.op = "diff" /\ call.answer # <<>>
    /\ Heard(call, [dvPanel EXCEPT !.result = call.answer], {})
    /\ Applied("diff", call.site = dvPanel.diffOf /\ call.what = dvPanel.request)

Patched(call) ==
    {IF e.id # call.id THEN e
     ELSE [e EXCEPT !.tags = [e.tags EXCEPT ![call.site] = Retagged(call, e.tags[call.site])]] :
        e \in dvPanel.history}
DvTagged(call) ==
    /\ call.op \in {"tag", "untag"} /\ call.answer # <<>>
    /\ Heard(call, [dvPanel EXCEPT !.history = Patched(call)],
             IF call.what[2] THEN {Entries(call.site)} ELSE {})
    /\ dvOff' = dvOff \cup (IF call.what[2] THEN {} ELSE {"entries"})
                       \cup (IF (call.what[1] \in Tags(call.id, call.site)) = (call.op = "tag")
                             THEN {} ELSE {"history"})

DvCurrentTagged(call) ==
    /\ call.op = "tagCurrent" /\ call.answer # <<>>
    /\ Heard(call, dvPanel, {[History EXCEPT !.what = IF call.what[2] THEN call.site ELSE None]})
    /\ dvOff' = IF call.what[2] THEN dvOff ELSE dvOff \cup {"entries"}

\* An error shows - a comparison shows none: it looks like one without changes.  The rows
\* are read even when the history that goes first could not be.
DvCallFails(call) ==
    /\ call.answer = <<>>
    /\ dvCalls' = (dvCalls \ {call}) \cup
                  (IF call.op = "history" /\ call.what # None THEN {Entries(call.what)} ELSE {})
    /\ dvOff' = dvOff \cup ({call.op} \cap {"diff", "entries", "history"})
    /\ UNCHANGED <<dvMain, dvUp, dvPanel, dvVisit>>

(***************************************************************************)
(* The server and its connection.                                          *)
(***************************************************************************)
DvServerChanges(site, version) ==
    /\ DvMove /\ dvMain.live[site] # version
    /\ dvMain' = [dvMain EXCEPT !.live = [dvMain.live EXCEPT ![site] = version]]
    /\ UNCHANGED <<dvUp, dvPanel, dvCalls, dvOff>>

\* The hooks forget what they have; which deployment was open is kept.
DvLost ==
    /\ dvUp /\ dvUp' = FALSE /\ DvMove
    /\ dvPanel' = [dvPanel EXCEPT !.snapshot = None, !.history = {}, !.loaded = FALSE,
                                  !.entries = {}, !.entriesOf = None, !.result = <<>>,
                                  !.change = None]
    /\ dvMain' = [dvMain EXCEPT !.cached = None]
    /\ UNCHANGED <<dvCalls, dvOff>>

DvConnects ==
    /\ ~dvUp /\ dvUp' = TRUE
    /\ dvPanel' = [dvPanel EXCEPT !.snapshot = None, !.history = {}, !.loaded = FALSE,
                                  !.entries = {}, !.entriesOf = None, !.result = <<>>,
                                  !.change = None]
    /\ dvCalls' = dvCalls \cup {Ask("snapshot", None, None, None), History}
    /\ UNCHANGED <<dvMain, dvOff, dvVisit>>

(***************************************************************************)
\* Not connected and nothing scanned yet.
AtRest ==
    /\ dvUp = FALSE /\ dvPanel = DvPanel(None)
    /\ dvMain = [live |-> [d \in Site |-> 1], scans |-> 0, cached |-> None, recorded |-> <<>>]

\* The panel has been open for a while: of two deployments one has changed, and both scans
\* were recorded.  The table is shown, or the snapshots of one, the newest maybe with a tag.
OpenForAWhile ==
    /\ dvUp = TRUE
    /\ \E changed \in Site, open \in Site \cup {None}, tags \in {{}, Label} :
           LET first == [d \in Site |-> 1]
               second == [first EXCEPT ![changed] = 2]
               untagged == [d \in Site |-> {}]
               tagged == [untagged EXCEPT ![changed] = tags]
               scan == [at |-> 2, sites |-> second]
           IN /\ dvMain = [live |-> second, scans |-> 2, cached |-> scan,
                           recorded |-> <<[sites |-> first, tags |-> untagged],
                                          [sites |-> second, tags |-> tagged]>>]
              /\ dvPanel = [DvPanel(None) EXCEPT !.snapshot = scan, !.loaded = TRUE,
                                !.history = {[id |-> 1, tags |-> untagged],
                                             [id |-> 2, tags |-> tagged]},
                                !.snapsOf = open, !.entriesOf = open,
                                !.entries = IF open # changed THEN {}
                                            ELSE {[id |-> 2, tags |-> tags,
                                                   changes |-> Cardinality(ChangesAt(2, open))]}]

DvInit ==
    /\ AtRest \/ OpenForAWhile
    /\ dvOff = {} /\ dvVisit = 0 /\ dvCalls = {}

DvNext ==
    \/ \E site \in Site : DvSelects(site) \/ DvOpensSnapshots(site) \/ DvOpensTagDiff(site)
    \/ \E from \in Snapshots, to \in Snapshots \cup {None} : DvCompares(from, to)
    \/ \E view \in {"snapshots", "diff", "detail"}, site \in Site, base \in Snapshots \cup {None} :
           DvIntents(view, site, base)
    \/ \E change \in ChangesShown(dvPanel) \cup {None} : DvPicks(change)
    \/ DvGoesBack \/ DvRefreshes \/ DvPolls \/ DvRereads
    \/ \E row \in dvPanel.entries, label \in Label : DvTags(row, label) \/ DvUntags(row, label)
    \/ \E label \in Label : DvTagsCurrent(label)
    \/ \E call \in dvCalls :
           \/ \E old \in BOOLEAN :
                  DvMainScans(call, old) \/ DvMainCompares(call, old) \/ DvMainTags(call, old)
           \/ DvMainReads(call)
           \/ DvSnapshotShown(call) \/ DvHistoryShown(call) \/ DvEntriesShown(call)
           \/ DvDiffShown(call) \/ DvTagged(call) \/ DvCurrentTagged(call) \/ DvCallFails(call)
    \/ \E site \in Site, version \in Version \cup {None} : DvServerChanges(site, version)
    \/ DvLost \/ DvConnects

\* Bound: calls under way, those the views make included.
DvBound == Cardinality(dvCalls) <= MaxCalls

(***************************************************************************)
(* Properties.                                                             *)
(***************************************************************************)
DvTypeOK ==
    /\ dvUp \in BOOLEAN /\ Snapshots \subseteq 1..MaxScans
    /\ dvPanel.entriesOf \in Site \cup {None}
    /\ dvPanel.entriesOf = None => dvPanel.entries = {}

\* With nothing under way the tags shown, in the table and with the snapshots of a
\* deployment, are those the history keeps.
DvTagsAreTrue ==
    dvCalls = {} /\ dvUp =>
        /\ "history" \notin dvOff =>
               \A e \in dvPanel.history : \A d \in Site : e.tags[d] = Tags(e.id, d)
        /\ "entries" \notin dvOff =>
               \A e \in dvPanel.entries : e.tags = Tags(e.id, dvPanel.entriesOf)

\* With nothing under way the snapshots and the changes shown are those of the deployment
\* named above them, and of the snapshots it was asked to compare; every change is listed.
DvShowsItsOwn ==
    dvCalls = {} /\ dvUp =>
        /\ On("snapshots") /\ "entries" \notin dvOff => dvPanel.entriesOf = dvPanel.snapsOf
        /\ On("diff") /\ "diff" \notin dvOff =>
               /\ dvPanel.result # <<>>
               /\ dvPanel.result[1].of = dvPanel.diffOf
               /\ dvPanel.result[1].request = dvPanel.request
               /\ \A c \in dvPanel.result[1].changes :
                      \E i \in DOMAIN LAYER_ORDER : c \in ChangesByLayer(ChangesShown(dvPanel))[i]
===============================================================================
