----------------------------- MODULE ServerTools ------------------------------
(***************************************************************************)
(* The services of one server side by side.                                *)
(*                                                                         *)
(* Each service of the main process keeps maps of its own, and each tool   *)
(* of the window a state of its own: none reads what another one writes.   *)
(* Their steps interleave without effect on each other, so it is enough to *)
(* let one of them at a time be at work, and to state of all of them       *)
(* together what the tools of a server promise.                            *)
(*                                                                         *)
(* This is also the module TLC is given.  No tool compares members of two  *)
(* of its sets: in its instance the sets of several tools share the model  *)
(* values a1, a2.  Certificate files are the one set whose members differ  *)
(* (their lists have an order).                                            *)
(***************************************************************************)
EXTENDS SslWorkflow, NginxReload, SslDiscovery, PackageOperation,
        PortFirewall, StreamTail, StatsPolling, Processes, Containers,
        PackageViews, TLC

VARIABLE tool      \* the tool at work

Tools == {"ssl", "nginx", "certificates", "packages", "ports", "tails",
    "stats", "processes", "docker", "package-lists"}

toolsVars == <<tool, sslVars, ngxVars, sdVars, pkgVars, fwVars, tlVars,
    stVars, prVars, ctVars, pvVars>>

Init ==
    /\ tool \in Tools
    /\ SslInit
    /\ NgxInit
    /\ SdInit
    /\ tool # "certificates" => sdServer = PlainServer
    /\ PkgInit
    /\ tool # "packages" => \A o \in Operation : pkgRun[o] = Fresh("install")
    /\ FwInit
    /\ tool # "ports" => fwRules = <<SshRule>>
    /\ TlInit
    /\ StInit
    /\ PrInit
    /\ tool # "processes" => SshPids = {}
    /\ CtInit
    /\ tool # "docker" => ctServer.up /\ \A t \in Tag : ctServer.tags[t] = None
    /\ PvInit

Next ==
    /\ UNCHANGED tool
    /\ IF tool = "ssl" THEN SslNext ELSE UNCHANGED sslVars
    /\ IF tool = "nginx" THEN NgxNext ELSE UNCHANGED ngxVars
    /\ IF tool = "certificates" THEN SdNext ELSE UNCHANGED sdVars
    /\ IF tool = "packages" THEN PkgNext ELSE UNCHANGED pkgVars
    /\ IF tool = "ports" THEN FwNext ELSE UNCHANGED fwVars
    /\ IF tool = "tails" THEN TlNext ELSE UNCHANGED tlVars
    /\ IF tool = "stats" THEN StNext ELSE UNCHANGED stVars
    /\ IF tool = "processes" THEN PrNext ELSE UNCHANGED prVars
    /\ IF tool = "docker" THEN CtNext ELSE UNCHANGED ctVars
    /\ IF tool = "package-lists" THEN PvNext ELSE UNCHANGED pvVars

Spec == Init /\ [][Next]_toolsVars

\* The values that may be exchanged for each other.
ToolSymmetry == Permutations(Workflow) \cup Permutations(View)

(***************************************************************************)
(* Properties.                                                             *)
(***************************************************************************)
\* Every variable of every tool keeps its type.
ToolsTypeOK ==
    /\ SslTypeOK /\ NgxTypeOK /\ SdTypeOK /\ PkgTypeOK /\ FwTypeOK
    /\ TlTypeOK /\ StTypeOK /\ PrTypeOK /\ CtTypeOK /\ PvTypeOK

\* nginx is reloaded only with a configuration that passed nginx -t: by the reload
\* of the Nginx tool, whose gate compares versions, and by the workflow that
\* enables HTTPS, which tests between certbot and the reload.
ReloadsAreTested == NgxReloadsTested /\ SslReloadsTested

\* A run that works on the server after its call has returned says how it ended, and
\* the view that shows it learns it: the HTTPS workflow, a package operation.  What is
\* reported as done was done: a package operation ended well and was not cancelled,
\* certbot changed a site only after its backup.
RunsTellTheirEnd ==
    /\ SslEndIsReported /\ SslViewHearsEnd /\ SslBackedUpBeforeCertbot
    /\ PkgOneEnd /\ PkgViewHearsEnd /\ PkgSuccessIsReal /\ PkgCancelledFails

\* What runs repeatedly runs for somebody, and whoever looks is served: every tail on
\* the server can be stopped from the window, a timer polls exactly while a view is
\* subscribed, and a view in front of a connected server is.
StreamsMatchViews == TlTailsAreReachable /\ StTimerFits /\ StViewsAreServed /\ PrTableIsLive

\* Nothing but what the user named is stopped or deleted, and SSH least of all: no rule
\* that lets this session in, no process, container, image or volume but the one of the
\* dialog.
OnlyTheNamedGo == FwSshStaysOpen /\ PrSignalsAreMeant /\ CtOnlyNamedGo

\* Figures, lists and certificates are those of the server as it is: a cached lookup knows
\* what was changed since, rates compare counters of one start, a list does not show what
\* its page has removed, packages are listed whole and as they were left.
ToolsTellTheTruth ==
    /\ SdTellsTheTruth /\ StRatesAreSane /\ CtRemovedIsGone
    /\ tool = "package-lists" => PvListsAreTrue
===============================================================================
