---------------------------- MODULE Administration ----------------------------
(***************************************************************************)
(* What a server is made of - deployments, cron jobs and their schedules,  *)
(* accounts, systemd services - with the services of the main process that *)
(* read and change it and the views that show it.  As in ServerTools none  *)
(* of them reads what another one writes: one at a time is at work.        *)
(* This is also the module TLC is given.                                   *)
(***************************************************************************)
EXTENDS DeploymentTopology, CronJobs, CronSchedule, UserAccounts,
        SystemdUnits, TLC

VARIABLE desk      \* the one at work

Desks == {"deployments", "cron", "schedules", "users", "services"}

adminVars == <<desk, tpVars, crVars, cdVars, usVars, syVars>>

Init ==
    /\ desk \in Desks
    /\ TpInit
    /\ desk # "deployments" => tpServer.proxies /\ \A b \in Block : tpServer.blocks[b] = NoBlock
    /\ CrInit
    /\ CdInit
    /\ desk # "schedules" => cdBuilder = DEFAULT_BUILDER
    /\ UsInit
    /\ desk # "users" => \A a \in Account : usServer[a] = Absent
    /\ SyInit

Next ==
    /\ UNCHANGED desk
    /\ IF desk = "deployments" THEN TpNext ELSE UNCHANGED tpVars
    /\ IF desk = "cron" THEN CrNext ELSE UNCHANGED crVars
    /\ IF desk = "schedules" THEN CdNext ELSE UNCHANGED cdVars
    /\ IF desk = "users" THEN UsNext ELSE UNCHANGED usVars
    /\ IF desk = "services" THEN SyNext ELSE UNCHANGED syVars

Spec == Init /\ [][Next]_adminVars

\* The values that may be exchanged for each other.
AdminSymmetry ==
    UNION {Permutations(set) : set \in {Domain, Block, BackendPort, Container}}

(***************************************************************************)
(* Properties.                                                             *)
(***************************************************************************)
\* Every variable keeps its type.
AdminTypeOK ==
    /\ desk = "deployments" => TpTypeOK
    /\ desk = "cron" => CrTypeOK
    /\ desk = "schedules" => CdTypeOK
    /\ desk = "users" => UsTypeOK
    /\ desk = "services" => SyTypeOK

\* The Deployments tool shows the server as it was scanned: who belongs to which
\* deployment, how it fares, what it shares, and what has changed.
DeploymentsAreTrue == desk = "deployments" => TpShowsTheServer

\* What a panel does is done to what the user saw in it, once, and the panel is told; what
\* its dialog says of it is so.
EditsAreMeant ==
    /\ desk = "cron" => CrMeantJob /\ CrOneEdit
    /\ desk = "schedules" => CdScheduleIsSaid
    /\ desk = "users" => UsSparesMe /\ UsTellsTheTruth
    /\ desk = "services" => SyStopsAreMeant /\ SyActionsAreShown
===============================================================================
