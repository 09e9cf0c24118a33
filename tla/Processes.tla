------------------------------- MODULE Processes -------------------------------
(***************************************************************************)
(* The processes of a server: the list polled for the panel that           *)
(* subscribes, the detail of one of them, and the signals sent to it       *)
(* (ProcessService.ts, useProcesses.ts, ProcessesPanel.tsx).               *)
(*                                                                         *)
(* Calls of the window reach the main process in order.  Each command runs *)
(* at some moment between its call and its answer, and the server goes on  *)
(* in between: a pid may change hands.  The window learns of a loss at     *)
(* once; StatsPolling models the delay.                                    *)
(***************************************************************************)
EXTENDS Null, Naturals, Sequences, FiniteSets

CONSTANTS
    Pid,            \* pids in use; 1 is not among them: see Init process
    MaxMoves,       \* bound: moves of the user, of the server and of its connection
    MaxPolls        \* bound: lists read at the same time

ASSUME PrPidAssumption == 1 \notin Pid

VARIABLES
    prUp,           \* the connection is 'connected'
    prServer,       \* the program each pid runs
    prListed,       \* servers: None, or the subscriptions and the timer of this server
    prToMain,       \* subscribe and unsubscribe calls under way
    prReads,        \* lists under way: [by, saw]
    prPanel,        \* the mounted panel
    prDetails,      \* details under way: [pid, found]
    prSignal,       \* the signal under way
    prHit,          \* the last signal delivered: [named, found, hit] (history)
    prPast,         \* the last panel's id, and the processes started so far
    prMoves         \* moves so far

prVars == <<prUp, prServer, prListed, prToMain, prReads, prPanel, prDetails, prSignal,
            prHit, prPast, prMoves>>
prServerVars == <<prUp, prServer>>
prPollVars == <<prListed, prToMain, prReads>>
prSignalVars == <<prSignal, prHit>>
prCountVars == <<prPast, prMoves>>

\* Each stands for one process: none starts twice.
Traits == [sshd  |-> [comm |-> "sshd", mine |-> FALSE, busy |-> FALSE, stat |-> "S"],
            web   |-> [comm |-> "web", mine |-> TRUE, busy |-> TRUE, stat |-> "R"],
            batch |-> [comm |-> "batch", mine |-> FALSE, busy |-> FALSE, stat |-> "T"]]
Named == DOMAIN Traits
Nothing == [p \in Pid \cup {1} |-> IF p = 1 THEN "init" ELSE None]
Alive(table) == {p \in Pid : table[p] # None}

PROCESS_INTERVAL_OPTIONS == {1, 2, 5}
DEFAULT_INTERVAL == 2
SubscriberId == {1, 2}
NoSubscription == [s \in SubscriberId |-> None]

(***************************************************************************)
(* What the panel shows.                                                   *)
(***************************************************************************)
Filter == {"all", "high-cpu", "running", "my-user"}

\* 'Alive' counts what waits, too.
MatchesProcessFilter(x, filter) ==
    CASE filter = "high-cpu" -> x.busy
      [] filter = "running"  -> x.stat \in {"R", "S", "D"}
      [] filter = "my-user"  -> x.mine
      [] OTHER -> TRUE

VisibleProcesses ==
    {p \in Alive(prPanel.shown) :
        MatchesProcessFilter(Traits[prPanel.shown[p]], prPanel.filter)}

\* The names of kernel threads are compared as ps -o comm prints them, without brackets,
\* so none of them is taken for one.
IsProtectedProcess(pid, comm, sshPids) == pid = 1 \/ pid \in sshPids \/ comm = "sshd"

SshPids == {p \in Pid : prServer[p] = "sshd"}

(***************************************************************************)
(* The panel's subscription: an effect of the interval, of the connection  *)
(* and of a detail that is open.                                           *)
(***************************************************************************)
Watches(panel) == prUp /\ panel # None /\ panel.selected = None
Subscribe(panel) == <<[op |-> "subscribe", id |-> panel.id, interval |-> panel.interval]>>
Unsubscribe(panel) == <<[op |-> "unsubscribe", id |-> panel.id, interval |-> None]>>

\* The cleanup of the effect that ran for `was' and the effect for `is'.
Effect(was, is) ==
    LET ended == IF Watches(was) THEN Unsubscribe(was) ELSE <<>>
        begun == IF is = None THEN <<>>
                 ELSE IF Watches(is) THEN Subscribe(is) ELSE Unsubscribe(is)
    IN ended \o begun

MaxCalls == 3
Calls(messages) ==
    /\ prToMain' = prToMain \o messages
    /\ Len(prToMain') <= MaxCalls

Read(by) == [by |-> by, saw |-> None]
Refresh == Read("refresh")
\* refresh() of a panel that watches again, in addition to the reads under way.
Refreshed(reads) ==
    /\ prReads' = reads \cup {Refresh}
    /\ Cardinality(prReads') <= MaxPolls
OfWindow == {r \in prReads : r.by = "refresh"}

Move == prMoves < MaxMoves /\ prMoves' = prMoves + 1

Panel(id, selected) ==
    [id |-> id, interval |-> DEFAULT_INTERVAL, filter |-> "all", shown |-> Nothing,
     selected |-> selected, detail |-> None, dialog |-> None]
Asked(pid) == [pid |-> pid, found |-> None]

\* Opened from the tool's button, or from a port with a pid to look at.
PrOpens(selected) ==
    /\ prPanel = None /\ Move
    /\ \E id \in SubscriberId \ {prPast.last} :
           /\ prPanel' = Panel(id, selected)
    /\ Calls(Effect(None, prPanel'))
    /\ IF Watches(prPanel') THEN Refreshed(prReads) ELSE UNCHANGED prReads
    /\ prDetails' = IF selected # None /\ prUp THEN {Asked(selected)} ELSE {}
    /\ UNCHANGED <<prServerVars, prSignalVars, prListed, prPast>>

\* What was under way for the panel is answered to nobody.
PrLeaves ==
    /\ prPanel # None /\ prPanel' = None
    /\ Calls(Effect(prPanel, None))
    /\ prReads' = prReads \ OfWindow /\ prDetails' = {}
    /\ prPast' = [prPast EXCEPT !.last = prPanel.id]
    /\ prSignal' = IF prSignal = None THEN None
                   ELSE IF prSignal.stage = "reread" THEN None
                   ELSE [prSignal EXCEPT !.told = FALSE]
    /\ UNCHANGED <<prServerVars, prListed, prHit, prMoves>>

PrChoosesInterval(interval) ==
    /\ prUp /\ prPanel # None /\ prPanel.selected = None /\ prPanel.interval # interval
    /\ Move
    /\ prPanel' = [prPanel EXCEPT !.interval = interval]
    /\ Calls(Effect(prPanel, prPanel'))
    /\ UNCHANGED <<prServerVars, prSignalVars, prListed, prReads, prDetails, prPast>>

PrFilters(filter) ==
    /\ prUp /\ prPanel # None /\ prPanel.selected = None /\ prPanel.filter # filter
    /\ Move
    /\ prPanel' = [prPanel EXCEPT !.filter = filter]
    /\ UNCHANGED <<prServerVars, prPollVars, prSignalVars, prDetails, prPast>>

PrRefreshes ==
    /\ prUp /\ prPanel # None /\ Refresh \notin prReads
    /\ Move
    /\ Refreshed(prReads)
    /\ UNCHANGED <<prServerVars, prSignalVars, prListed, prToMain, prPanel, prDetails, prPast>>

\* A row of the table, or a pid from another tool while a detail is open: then the old
\* detail stays until the new one is there.
PrSelects(pid) ==
    /\ prUp /\ prPanel # None /\ prPanel.selected # pid /\ Move
    /\ prPanel.selected = None => pid \in VisibleProcesses
    /\ prPanel' = [prPanel EXCEPT !.selected = pid]
    /\ prDetails' = prDetails \cup {Asked(pid)}
    /\ IF prPanel.selected = None THEN Calls(Effect(prPanel, prPanel')) ELSE UNCHANGED prToMain
    /\ UNCHANGED <<prServerVars, prSignalVars, prListed, prReads, prPast>>

PrRereads ==
    /\ prUp /\ prPanel # None /\ prPanel.selected # None /\ Move
    /\ prDetails' = prDetails \cup {Asked(prPanel.selected)}
    /\ UNCHANGED <<prServerVars, prPollVars, prSignalVars, prPanel, prPast>>

Deselected(panel) == [panel EXCEPT !.selected = None, !.detail = None]

PrGoesBack ==
    /\ prUp /\ prPanel # None /\ prPanel.selected # None
    /\ prPanel' = Deselected(prPanel)
    /\ prDetails' = {}
    /\ Calls(Effect(prPanel, prPanel')) /\ Refreshed(prReads)
    /\ UNCHANGED <<prServerVars, prSignalVars, prCountVars, prListed>>

(***************************************************************************)
(* subscribe, unsubscribe and poll.                                        *)
(***************************************************************************)
Polls == {r \in prReads : r.by = "poll"}
\* poll(): nothing when one is under way for this state.
PolledOnce(reads) == IF \E r \in reads : r.by = "poll" THEN reads ELSE reads \cup {Read("poll")}
\* A poll keeps the state it began with, and emits although nobody listens to it.
Abandoned(reads) == {IF r.by = "poll" THEN [r EXCEPT !.by = "ended poll"] ELSE r : r \in reads}

\* getDesiredInterval starts from the default: an interval above it is not honoured.
DesiredInterval(subscribers) ==
    LET asked == {subscribers[s] : s \in SubscriberId} \ {None}
    IN CHOOSE i \in asked \cup {DEFAULT_INTERVAL} :
           \A j \in asked \cup {DEFAULT_INTERVAL} : i <= j

ListedWith(subscribers) ==
    [subscribers |-> subscribers, timer |-> DesiredInterval(subscribers)]

PrSubscribed ==
    /\ prToMain # <<>> /\ Head(prToMain).op = "subscribe" /\ prToMain' = Tail(prToMain)
    /\ IF prUp
       THEN LET call == Head(prToMain)
                before == IF prListed = None THEN NoSubscription ELSE prListed.subscribers
            IN /\ prListed' = ListedWith([before EXCEPT ![call.id] = call.interval])
               /\ prReads' = PolledOnce(prReads) /\ Cardinality(prReads') <= MaxPolls
       ELSE UNCHANGED <<prListed, prReads>>
    /\ UNCHANGED <<prServerVars, prSignalVars, prCountVars, prPanel, prDetails>>

PrUnsubscribed ==
    /\ prToMain # <<>> /\ Head(prToMain).op = "unsubscribe" /\ prToMain' = Tail(prToMain)
    /\ IF prListed = None THEN UNCHANGED <<prListed, prReads>>
       ELSE LET left == [prListed.subscribers EXCEPT ![Head(prToMain).id] = None]
            IN IF left = NoSubscription
               THEN prListed' = None /\ prReads' = Abandoned(prReads)
               ELSE prListed' = ListedWith(left) /\ UNCHANGED prReads
    /\ UNCHANGED <<prServerVars, prSignalVars, prCountVars, prPanel, prDetails>>

PrTicks ==
    /\ prListed # None /\ Polls = {} /\ prUp
    /\ prReads' = PolledOnce(prReads) /\ Cardinality(prReads') <= MaxPolls
    /\ UNCHANGED <<prServerVars, prSignalVars, prCountVars, prListed, prToMain, prPanel,
                   prDetails>>

\* ps runs on the server.
PrReads(r) ==
    /\ r.saw = None /\ prUp
    /\ prReads' = (prReads \ {r}) \cup {[r EXCEPT !.saw = prServer]}
    /\ UNCHANGED <<prServerVars, prSignalVars, prCountVars, prListed, prToMain, prPanel,
                   prDetails>>

\* The answer of a list, or the update a poll emits, replaces what is shown, whichever
\* was read later.  Nobody listens to updates while a detail is open.
PrAnswers(r) ==
    /\ r.saw # None /\ prReads' = prReads \ {r}
    /\ prPanel' = IF prPanel # None /\ (r.by = "refresh" \/ Watches(prPanel))
                  THEN [prPanel EXCEPT !.shown = r.saw] ELSE prPanel
    /\ UNCHANGED <<prServerVars, prSignalVars, prCountVars, prListed, prToMain, prDetails>>

\* A poll that failed is ignored, a refresh tells its error.
PrReadFails(r) ==
    /\ prReads' = prReads \ {r} /\ r.saw = None
    /\ UNCHANGED <<prServerVars, prSignalVars, prCountVars, prListed, prToMain, prPanel,
                   prDetails>>

(***************************************************************************)
(* A detail: the row of the list, then what the server tells of its pid.   *)
(***************************************************************************)
PrDetailLists(d) ==
    /\ prUp /\ d.found = None /\ prServer[d.pid] # None
    /\ prDetails' = (prDetails \ {d}) \cup {[d EXCEPT !.found = prServer[d.pid]]}
    /\ UNCHANGED <<prServerVars, prPollVars, prSignalVars, prCountVars, prPanel>>

\* No longer running, or unreadable: an error shows, an older detail stays.
PrDetailFails(d) ==
    /\ prDetails' = prDetails \ {d}
    /\ UNCHANGED <<prServerVars, prPollVars, prSignalVars, prCountVars, prPanel>>

\* The row found, with what the server tells of its pid by now.
ProcessDetail(d) ==
    [pid |-> d.pid, program |-> d.found,
     protected |-> IsProtectedProcess(d.pid, Traits[d.found].comm, SshPids)]

\* The answer that comes last is shown, also one for a pid no longer selected.
PrDetailAnswers(d) ==
    /\ prUp /\ d.found # None /\ prDetails' = prDetails \ {d}
    /\ prPanel' = [prPanel EXCEPT !.detail = ProcessDetail(d)]
    /\ UNCHANGED <<prServerVars, prPollVars, prSignalVars, prCountVars>>

(***************************************************************************)
(* Signals.                                                                *)
(***************************************************************************)
Signal == {"terminate", "kill"}

PrRequests(signal) ==
    /\ prUp /\ prPanel # None /\ prPanel.detail # None /\ prSignal = None
    /\ ~prPanel.detail.protected /\ prPanel.dialog = None
    /\ prPanel' = [prPanel EXCEPT !.dialog = [pid |-> prPanel.detail.pid, signal |-> signal,
                                              named |-> prPanel.detail.program]]
    /\ UNCHANGED <<prServerVars, prPollVars, prSignalVars, prCountVars, prDetails>>

PrCancels ==
    /\ prUp /\ prPanel # None /\ prPanel.dialog # None
    /\ prPanel' = [prPanel EXCEPT !.dialog = None]
    /\ UNCHANGED <<prServerVars, prPollVars, prSignalVars, prCountVars, prDetails>>

Sent(pid, signal, named) ==
    [pid |-> pid, signal |-> signal, named |-> named, stage |-> "list", found |-> None,
     sudo |-> FALSE, told |-> TRUE, saw |-> None]

PrConfirms ==
    /\ prUp /\ prPanel # None /\ prPanel.dialog # None /\ prSignal = None
    /\ LET pending == prPanel.dialog
       IN prSignal' = Sent(pending.pid, pending.signal, pending.named)
    /\ prPanel' = [prPanel EXCEPT !.dialog = None]
    /\ UNCHANGED <<prServerVars, prPollVars, prCountVars, prDetails, prHit>>

At(stage) == prSignal # None /\ prSignal.stage = stage
AfterSignalStep ==
    UNCHANGED <<prUp, prPollVars, prPanel, prDetails, prCountVars>>

\* The row of the pid, whoever has it now.
PrSignalLists ==
    /\ At("list")
    /\ prSignal' = IF ~prUp \/ prServer[prSignal.pid] = None THEN None
                   ELSE [prSignal EXCEPT !.stage = "protection", !.found = prServer[prSignal.pid]]
    /\ UNCHANGED <<prServer, prHit>> /\ AfterSignalStep

\* The pids of the SSH server, none if their command was cut short, then the privileges.
PrSignalChecks(cut) ==
    /\ At("protection")
    /\ LET found == Traits[prSignal.found]
       IN prSignal' = IF \/ ~prUp
                         \/ IsProtectedProcess(prSignal.pid, found.comm,
                                               IF cut THEN {} ELSE SshPids)
                      THEN None
                      ELSE [prSignal EXCEPT !.stage = "kill", !.sudo = ~found.mine]
    /\ UNCHANGED <<prServer, prHit>> /\ AfterSignalStep

\* Refused without sudo on the server, no such process, or not allowed.
PrSignalFails ==
    /\ At("kill")
    /\ \/ ~prUp \/ prSignal.sudo
       \/ prServer[prSignal.pid] \notin {x \in Named : Traits[x].mine}
    /\ prSignal' = None
    /\ UNCHANGED <<prServer, prHit>> /\ AfterSignalStep

\* What is asked to terminate may decline.
PrSignalHits(ends) ==
    /\ At("kill") /\ prUp
    /\ LET hit == prServer[prSignal.pid]
       IN /\ hit # None /\ (Traits[hit].mine \/ prSignal.sudo)
          /\ ends \/ prSignal.signal = "terminate"
          /\ prServer' = IF ends THEN [prServer EXCEPT ![prSignal.pid] = None] ELSE prServer
          /\ prHit' = [named |-> prSignal.named, found |-> prSignal.found, hit |-> hit]
    /\ prSignal' = IF prSignal.told THEN [prSignal EXCEPT !.stage = "reread"] ELSE None
    /\ AfterSignalStep

\* The list after the signal; then the detail is read anew, or left after a kill:
\* whichever process it is of by now.
PrSignalRereads ==
    /\ At("reread") /\ prSignal.saw = None
    /\ prSignal' = [prSignal EXCEPT !.saw = IF prUp THEN <<prServer>> ELSE <<>>]
    /\ UNCHANGED <<prServer, prHit>> /\ AfterSignalStep

PrSignalEnds ==
    /\ At("reread") /\ prSignal.saw # None /\ prSignal' = None
    /\ LET reread == IF prSignal.saw = <<>> THEN prPanel
                     ELSE [prPanel EXCEPT !.shown = prSignal.saw[1]]
           leaves == prSignal.signal = "kill" /\ prPanel.selected # None
       IN /\ prPanel' = IF leaves THEN Deselected(reread) ELSE reread
          /\ IF leaves /\ prUp
             THEN Calls(Effect(prPanel, prPanel')) /\ Refreshed(prReads)
             ELSE UNCHANGED <<prToMain, prReads>>
          /\ prDetails' = IF leaves THEN {}
                          ELSE IF prPanel.selected # None /\ prUp
                          THEN prDetails \cup {Asked(prPanel.selected)} ELSE prDetails
    /\ UNCHANGED <<prServerVars, prCountVars, prListed, prHit>>

(***************************************************************************)
(* The server and the connection.                                          *)
(***************************************************************************)
\* A process starts under a free pid, or ends.
PrServerRuns(pid, program) ==
    /\ Move
    /\ IF program = None THEN prServer[pid] # None
       ELSE prServer[pid] = None /\ program \notin prPast.started
    /\ prPast' = [prPast EXCEPT !.started = @ \cup {program}]
    /\ prServer' = [prServer EXCEPT ![pid] = program]
    /\ UNCHANGED <<prPollVars, prSignalVars, prUp, prPanel, prDetails>>

\* Its teardown hook is clearServer.  The detail unmounts with the panel's content.
PrLost ==
    /\ prUp /\ prUp' = FALSE
    /\ prListed' = None /\ prReads' = Abandoned(prReads) \ OfWindow
    /\ prPanel' = IF prPanel = None THEN None ELSE [prPanel EXCEPT !.detail = None]
    /\ prDetails' = {}
    /\ IF prPanel = None THEN UNCHANGED prToMain
       ELSE Calls((IF prPanel.selected = None THEN Unsubscribe(prPanel) ELSE <<>>)
                      \o Unsubscribe(prPanel))
    /\ UNCHANGED <<prSignalVars, prCountVars, prServer>>

PrConnects ==
    /\ ~prUp /\ prUp' = TRUE /\ Move
    /\ IF prPanel = None THEN UNCHANGED <<prToMain, prReads, prDetails, prPast>>
       ELSE /\ Calls(IF prPanel.selected = None THEN Subscribe(prPanel)
                     ELSE Unsubscribe(prPanel))
            /\ IF prPanel.selected = None THEN Refreshed(prReads) ELSE UNCHANGED prReads
            /\ prDetails' = IF prPanel.selected = None THEN {} ELSE {Asked(prPanel.selected)}
    /\ UNCHANGED <<prSignalVars, prServer, prListed, prPanel, prPast>>

(***************************************************************************)
(* What the variables hold besides None.                                   *)
(***************************************************************************)
PrTable == [Pid -> Named \cup {None}] \cup {Nothing}
PrCallRecord ==
    [op : {"subscribe", "unsubscribe"}, id : SubscriberId,
     interval : PROCESS_INTERVAL_OPTIONS \cup {None}]
PrListedRecord ==
    [subscribers : [SubscriberId -> PROCESS_INTERVAL_OPTIONS \cup {None}], timer : {1, 2}]
PrReadRecord == [by : {"refresh", "poll", "ended poll"}, saw : PrTable \cup {None}]
PrAskedRecord == [pid : Pid, found : Named \cup {None}]
PrDetailRecord == [pid : Pid, program : Named, protected : BOOLEAN]
PrDialogRecord == [pid : Pid, signal : Signal, named : Named]
PrPanelRecord ==
    [id : SubscriberId, interval : PROCESS_INTERVAL_OPTIONS, filter : Filter,
     shown : PrTable, selected : Pid \cup {None}, detail : PrDetailRecord \cup {None},
     dialog : PrDialogRecord \cup {None}]
PrSignalRecord ==
    [pid : Pid, signal : Signal, named : Named,
     stage : {"list", "protection", "kill", "reread"}, found : Named \cup {None},
     sudo : BOOLEAN, told : BOOLEAN, saw : Seq(PrTable) \cup {None}]

ASSUME PrNoneAssumption ==
    /\ None \notin Pid /\ None \notin Named /\ None \notin PROCESS_INTERVAL_OPTIONS
    /\ None \notin PrListedRecord \cup PrTable \cup PrDetailRecord \cup PrDialogRecord
    /\ None \notin PrPanelRecord \cup PrSignalRecord \cup Seq(PrTable)
    /\ None \notin [named : Named, found : Named, hit : Named]

(***************************************************************************)
PrInit ==
    /\ prUp = TRUE
    /\ \E first, other \in Pid, second \in {None, "sshd"} :
           /\ first # other
           /\ prServer = [p \in Pid |-> CASE p = first -> "web" [] p = other -> second
                                         [] OTHER -> None]
           /\ prPast = [last |-> 2,
                         started |-> {"web", second}] /\ prMoves = 0
    /\ prListed = None /\ prToMain = <<>> /\ prReads = {}
    /\ prPanel = None /\ prDetails = {} /\ prSignal = None /\ prHit = None

PrNext ==
    \/ \E selected \in Pid \cup {None} : PrOpens(selected)
    \/ PrLeaves \/ PrRefreshes \/ PrGoesBack \/ PrRereads
    \/ \E interval \in PROCESS_INTERVAL_OPTIONS : PrChoosesInterval(interval)
    \/ \E filter \in Filter : PrFilters(filter)
    \/ \E pid \in Pid : PrSelects(pid)
    \/ PrSubscribed \/ PrUnsubscribed \/ PrTicks
    \/ \E r \in prReads : PrReads(r) \/ PrAnswers(r) \/ PrReadFails(r)
    \/ \E d \in prDetails : PrDetailLists(d) \/ PrDetailFails(d) \/ PrDetailAnswers(d)
    \/ \E signal \in Signal : PrRequests(signal)
    \/ PrCancels \/ PrConfirms \/ PrSignalLists
    \/ \E cut \in BOOLEAN : PrSignalChecks(cut)
    \/ PrSignalFails
    \/ \E ends \in BOOLEAN : PrSignalHits(ends)
    \/ PrSignalRereads \/ PrSignalEnds
    \/ \E pid \in Pid, program \in Named \cup {None} : PrServerRuns(pid, program)
    \/ PrLost \/ PrConnects

\* Bounds: one signal is followed to its end; it and a detail, with no list under way.
PrBound ==
    /\ prSignal # None \/ prDetails # {} => prReads = {}
    /\ prSignal # None => prToMain = <<>>
    /\ prHit # None => prPanel = None \/ prPanel.dialog = None

(***************************************************************************)
(* Properties.                                                             *)
(***************************************************************************)
PrTypeOK ==
    /\ prUp \in BOOLEAN /\ prServer \in [Pid -> Named \cup {None}]
    /\ \A p, q \in Pid : (p # q /\ prServer[p] # None) => prServer[p] # prServer[q]
    /\ prListed # None => prListed.timer \in {1, 2}
    /\ prPanel # None => /\ prPanel.selected \in Pid \cup {None}
                         /\ prPanel.detail # None => prPanel.selected # None

\* A signal hits the process its dialog named, or one that has taken the pid of that
\* process since; the SSH server is hit only if it took the pid after the check.
PrSignalsAreMeant ==
    prHit # None =>
        /\ prHit.hit # prHit.named => \A p \in Pid : prServer[p] # prHit.named
        /\ prHit.hit = "sshd" => prHit.found # "sshd"

\* With no call under way the server is polled exactly while its table is on screen,
\* at least as often as asked, and never twice at a time.
PrTableIsLive ==
    /\ Cardinality(Polls) <= 1
    /\ prListed # None => prListed.subscribers # NoSubscription
    /\ prToMain = <<>> =>
           IF Watches(prPanel)
           THEN /\ prListed # None
                /\ \A s \in SubscriberId : prListed.subscribers[s] =
                       IF s = prPanel.id THEN prPanel.interval ELSE None
                /\ prListed.timer <= prPanel.interval
           ELSE prListed = None
===============================================================================
