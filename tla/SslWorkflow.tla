----------------------------- MODULE SslWorkflow ------------------------------
(***************************************************************************)
(* Enabling HTTPS: the workflow of SSLService.ts, one run per stream id,   *)
(* and the SSL panel that starts it, watches it and cancels it.            *)
(*                                                                         *)
(* A run is a chain of awaited commands on one server.  What a run leaves  *)
(* on the server (a backup, a certificate, a changed site, a reload) is    *)
(* kept apart from what it reports, since a cancelled run goes on.         *)
(***************************************************************************)
EXTENDS Naturals, Null

CONSTANT
    Workflow       \* stream ids the panel can draw

ASSUME WorkflowAssumption == None \notin Workflow

VARIABLES
    sslRun,        \* each run of runEnableHttpsWorkflow
    sslPanel,      \* the run the panel shows, and whether it was told of its end
    sslSite,       \* the nginx site on the server: is it valid, and was that tested
    sslLink        \* is the server connected

sslVars == <<sslRun, sslPanel, sslSite, sslLink>>

\* The 14 steps of the workflow, in the order of the code; the steps that have
\* no await of their own (nginx-running, domain-configured) go with the one before.
Validate == 3
BackUp == 8
Issue == 9
Revalidate == 11
Reload == 12
LastStep == 14
Ended == LastStep + 1
NoAwait == {2, 5}
After(step) == IF step + 1 \in NoAwait THEN step + 2 ELSE step + 1

Deed == {"backup", "certificate", "reload", "untested-reload"}

RunRecord ==
    [at : 0..Ended,                              \* 0: not started
     listed : BOOLEAN,                           \* is the stream in workflowStreams
     cancelled : BOOLEAN,                        \* its flag
     channel : {"none", "open", "closing"},      \* certbot's channel
     report : {"none", "success", "failure"},    \* ssl:workflowDone
     did : SUBSET Deed,                          \* what it has done on the server (history)
     crossed : BOOLEAN,                          \* another run's certbot ran meanwhile (history)
     silent : BOOLEAN]                           \* certbot printed nothing (history)

FreshRun == [at |-> 0, listed |-> FALSE, cancelled |-> FALSE, channel |-> "none",
             report |-> "none", did |-> {}, crossed |-> FALSE, silent |-> FALSE]

NoRunShown == [shows |-> None, finished |-> FALSE, remounted |-> FALSE]

Running(w) == sslRun[w].at \in 1..LastStep

\* isCancelled: the flag of the stream that workflowStreams still holds.
SslIsCancelled(w) == sslRun[w].listed /\ sslRun[w].cancelled

(***************************************************************************)
(* The end of a run: ssl:workflowDone, then the finally that removes it.   *)
(* The panel hears of it while it is mounted, i.e. while connected.        *)
(***************************************************************************)
SslHeard(w, report) ==
    IF report # "none" /\ sslPanel.shows = w /\ sslLink
    THEN [sslPanel EXCEPT !.finished = TRUE]
    ELSE sslPanel

EndRun(w, report, deeds, silent) ==
    /\ sslRun' = [sslRun EXCEPT ![w] = [sslRun[w] EXCEPT !.at = Ended, !.listed = FALSE,
                     !.channel = "none", !.report = report, !.did = @ \cup deeds,
                     !.silent = silent]]
    /\ sslPanel' = SslHeard(w, report)

Proceed(w, deeds) ==
    /\ sslRun' = [sslRun EXCEPT ![w] = [sslRun[w] EXCEPT !.at = After(@),
                     !.channel = "none", !.did = @ \cup deeds]]
    /\ UNCHANGED sslPanel

(***************************************************************************)
(* Steps of a run.                                                         *)
(***************************************************************************)
\* A check fails, a command is refused, or the connection is gone: fail() or
\* the catch.
\* (mutant) The catch swallows the error.
SslFailsQuietly(w) ==
    /\ Running(w) /\ sslRun[w].channel = "none"
    /\ EndRun(w, "none", {}, FALSE)
    /\ UNCHANGED <<sslSite, sslLink>>

SslStepFails(w) ==
    /\ Running(w) /\ sslRun[w].channel = "none"
    /\ EndRun(w, "failure", {}, FALSE)
    /\ UNCHANGED <<sslSite, sslLink>>

\* The steps that only look at the server.
SslStepPasses(w) ==
    /\ sslRun[w].at \in (1..LastStep) \ {Validate, BackUp, Issue, Revalidate, Reload}
    /\ sslLink
    /\ IF sslRun[w].at = LastStep
       THEN EndRun(w, "success", {}, FALSE)
       ELSE Proceed(w, {})
    /\ UNCHANGED <<sslSite, sslLink>>

SslValidates(w) ==
    /\ sslRun[w].at \in {Validate, Revalidate}
    /\ sslLink
    /\ sslSite.valid
    /\ sslSite' = [sslSite EXCEPT !.tested = TRUE]
    /\ Proceed(w, {})
    /\ UNCHANGED sslLink

SslBacksUp(w) ==
    /\ sslRun[w].at = BackUp
    /\ sslLink
    /\ IF SslIsCancelled(w) THEN EndRun(w, "none", {"backup"}, FALSE)
                            ELSE Proceed(w, {"backup"})
    /\ UNCHANGED <<sslSite, sslLink>>

\* certbot --nginx starts and changes the site, for better or worse.
SslCertbotRuns(w) ==
    /\ sslRun[w].at = Issue /\ sslRun[w].channel = "none"
    /\ sslLink
    /\ sslRun' = [v \in Workflow |->
                    IF v = w THEN [sslRun[w] EXCEPT !.channel = "open",
                                                    !.did = @ \cup {"certificate"}]
                    ELSE [sslRun[v] EXCEPT !.crossed = @ \/ Running(v)]]
    /\ \E valid \in BOOLEAN : sslSite' = [valid |-> valid, tested |-> FALSE]
    /\ UNCHANGED <<sslPanel, sslLink>>

\* Its channel closes: with an error, with nothing printed (the run returns
\* without a word), or with output and the second look at the flag.  A channel
\* closed from here or lost with the connection has no exit code, as success has.
SslCertbotEnds(w) ==
    /\ sslRun[w].channel # "none"
    /\ \/ EndRun(w, "failure", {}, FALSE)
       \/ EndRun(w, "none", {}, TRUE)
       \/ IF SslIsCancelled(w) THEN EndRun(w, "none", {}, FALSE) ELSE Proceed(w, {})
    /\ UNCHANGED <<sslSite, sslLink>>

SslReloads(w) ==
    /\ sslRun[w].at = Reload
    /\ sslLink
    /\ Proceed(w, {IF sslSite.tested THEN "reload" ELSE "untested-reload"})
    /\ UNCHANGED <<sslSite, sslLink>>

(***************************************************************************)
(* The panel: startEnableHttps, cancelWorkflow, onDone, and leaving it.    *)
(***************************************************************************)
SslStart(w) ==
    /\ sslLink /\ sslPanel.shows = None
    /\ sslRun[w].at = 0
    /\ sslRun' = [sslRun EXCEPT ![w].at = 1, ![w].listed = TRUE]
    /\ sslPanel' = [shows |-> w, finished |-> FALSE, remounted |-> FALSE]
    /\ UNCHANGED <<sslSite, sslLink>>

\* What cancelEnableHttps and stopAllForServer do to a listed stream.
Dropped(r) ==
    IF ~r.listed THEN r
    ELSE [r EXCEPT !.cancelled = TRUE, !.listed = FALSE,
                   !.channel = IF @ = "open" THEN "closing" ELSE @]

SslCancel(w) ==
    /\ sslLink /\ sslPanel.shows = w /\ ~sslPanel.finished
    /\ sslRun' = [sslRun EXCEPT ![w] = Dropped(sslRun[w])]
    /\ sslPanel' = NoRunShown
    /\ UNCHANGED <<sslSite, sslLink>>

\* The Close button, another server, or the tab of the tool is closed.
SslLeave ==
    /\ sslPanel.shows # None
    /\ sslPanel' = NoRunShown
    /\ UNCHANGED <<sslRun, sslSite, sslLink>>

SslLoseServer ==
    /\ sslLink /\ sslLink' = FALSE
    /\ sslRun' = [w \in Workflow |-> Dropped(sslRun[w])]
    /\ sslPanel' = [sslPanel EXCEPT !.finished = FALSE, !.remounted = @ \/ sslPanel.shows # None]
    /\ UNCHANGED sslSite

SslConnect ==
    /\ ~sslLink /\ sslLink' = TRUE
    /\ UNCHANGED <<sslRun, sslPanel, sslSite>>

SslInit ==
    /\ sslRun = [w \in Workflow |-> FreshRun]
    /\ sslPanel = NoRunShown
    /\ sslSite = [valid |-> TRUE, tested |-> FALSE]
    /\ sslLink = TRUE

SslNext ==
    \/ \E w \in Workflow :
        \/ SslStart(w) \/ SslCancel(w)
        \/ SslStepPasses(w) \/ SslStepFails(w) \/ SslValidates(w) \/ SslBacksUp(w)
        \/ SslCertbotRuns(w) \/ SslCertbotEnds(w) \/ SslReloads(w)
    \/ SslLeave \/ SslLoseServer \/ SslConnect

SslSpec == SslInit /\ [][SslNext]_sslVars

(***************************************************************************)
(* Properties.                                                             *)
(***************************************************************************)
\* Every variable keeps its type; a panel that was told of an end shows a run.
SslTypeOK ==
    /\ sslRun \in [Workflow -> RunRecord]
    /\ sslPanel \in [shows : Workflow \cup {None}, finished : BOOLEAN, remounted : BOOLEAN]
    /\ sslPanel.finished => sslPanel.shows # None
    /\ sslSite \in [valid : BOOLEAN, tested : BOOLEAN]
    /\ sslLink \in BOOLEAN

\* certbot never touches a site that the run has not backed up (the dialog:
\* "Zvia backs up the site configuration first").
SslBackedUpBeforeCertbot ==
    \A w \in Workflow : "certificate" \in sslRun[w].did => "backup" \in sslRun[w].did

\* A run reloads nginx only with a site that passed nginx -t since certbot last
\* changed it, unless the certbot of another run came in between ("and reloads
\* nginx only after a successful test"; a cancelled run makes room for another).
SslReloadsTested ==
    \A w \in Workflow : "untested-reload" \in sslRun[w].did => sslRun[w].crossed

\* Every run that ends says so, except one whose certbot printed nothing: the
\* progress view has no other way to stop waiting.
SslEndIsReported ==
    \A w \in Workflow :
        sslRun[w].at = Ended /\ sslRun[w].report = "none" => sslRun[w].silent

\* A progress view that stays mounted learns the end of its run: when it still
\* waits, the run is at work, or was silent, or the view was unmounted meanwhile.
SslViewHearsEnd ==
    sslPanel.shows # None /\ ~sslPanel.finished =>
        LET r == sslRun[sslPanel.shows]
        IN  r.at # Ended \/ r.silent \/ sslPanel.remounted
===============================================================================
