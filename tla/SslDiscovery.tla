----------------------------- MODULE SslDiscovery -----------------------------
(***************************************************************************)
(* What the SSL tool knows of a server's certificates: the discovery of    *)
(* SSLService.ts and sslParsers.ts, its cache of 30 s, and the panel that  *)
(* shows, renews and switches on renewal (useSsl.ts, SslPanel.tsx).        *)
(*                                                                         *)
(* A discovery runs one command that lists everything and one that         *)
(* inspects every certificate file found.  A certificate is its path; of   *)
(* its contents only the date it expires is kept.                          *)
(***************************************************************************)
EXTENDS Naturals, Sequences, SequencesExt, FiniteSets, Null

CONSTANTS
    CertPath,      \* certificate files
    MaxLookups     \* bound: discoveries under way

\* A listing is finite.
ASSUME SdPathsAssumption == IsFiniteSet(CertPath)

SdActionRecord == [does : CertPath \cup {"enable"}, at : {"checking", "sent", "done"}]
ASSUME SdNoneAssumption == None \notin SdActionRecord

VARIABLES
    sdServer,      \* the server: programs, certificates, how they are renewed
    sdCache,       \* detectionCache.get(serverId)
    sdLookups,     \* discoveries under way, each with what it has read so far
    sdAction,      \* an operation of the panel under way: None, or its command
    sdPanel,       \* the overview on display, whether it is paused (detail view)
    sdCrossed      \* a discovery was under way when an operation ended (history)

sdVars == <<sdServer, sdCache, sdLookups, sdAction, sdPanel, sdCrossed>>

Expiry == {"past", "soon", "later"}
Program == {"openssl", "curl", "systemctl", "crontab"}

ServerRecord ==
    [certbot : BOOLEAN, programs : SUBSET Program,
     managed : SUBSET CertPath,        \* certbot certificates
     linked : SUBSET CertPath,         \* ssl_certificate of nginx sites
     readable : SUBSET CertPath,       \* without privileges
     expires : [CertPath -> Expiry],
     timer : {"none", "success", "failure"},   \* certbot's timer and its last result
     cron : BOOLEAN,                   \* a crontab line runs certbot renew
     changes : Nat]                    \* changes made by this tool (history)

(***************************************************************************)
(* The listing command and its parsers.                                    *)
(***************************************************************************)
Present(s, names) == SelectSeq(names, LAMBDA n : n \in s.programs)

\* toolLines[i]: `command -v` prints a line for a program that is there, and
\* nothing for one that is not.
ToolLine(s, i) == Len(Present(s, <<"openssl", "curl", "systemctl", "crontab">>)) >= i
SdOpenssl(s) == ToolLine(s, 1)
SdSystemd(s) == ToolLine(s, 3)
SdCron(s) == ToolLine(s, 4)

\* certbotLines[0] is never empty: `certbot --version 2>&1` prints a version or
\* the shell's complaint.
CertbotLines(s) == (IF s.certbot THEN <<"path">> ELSE <<>>) \o <<"version or complaint">>
SdInstalled(s) == CertbotLines(s) # <<>>
SdInstallHint(s) == ~SdInstalled(s)

SdEntries(s) == IF SdInstalled(s) /\ s.certbot THEN SetToSeq(s.managed) ELSE <<>>
\* certPaths: a Set keeps the order of insertion.
SdBlocks(s) == SetToSeq(s.linked \ ToSet(SdEntries(s)))
SdPaths(s) == SdEntries(s) \o SdBlocks(s)

SdHasTimer(s) == SdSystemd(s) /\ s.timer # "none"

\* detectAutoRenewal.
SdMethod(s) ==
    IF SdHasTimer(s) THEN "systemd-timer"
    ELSE IF SdCron(s) /\ s.cron THEN "cron"
    ELSE IF s.certbot /\ s.managed # {} /\ SdInstalled(s) THEN "certbot-internal"
    ELSE "none"

LastResult(s) == IF SdHasTimer(s) THEN s.timer ELSE "none"

(***************************************************************************)
(* The inspection.  The section of a path goes on to the end of the        *)
(* output, and of several dates the parser keeps the last.                 *)
(***************************************************************************)
SdInspected(s, paths, i) ==
    LET readable == {k \in i..Len(paths) : paths[k] \in s.readable}
    IN  IF readable = {} THEN None ELSE s.expires[paths[Max(readable)]]

\* deriveStatus.
DeriveStatus(expires, error, managed, lastResult) ==
    IF error THEN "unknown"
    ELSE IF expires = "past" THEN "expired"
    ELSE IF lastResult = "failure" /\ managed THEN "renewal-failed"
    ELSE IF ~managed THEN "renewal-unavailable"
    ELSE IF expires = "soon" THEN "expiring-soon" ELSE "valid"

\* One row of certificates: linkCertificatesToSites of a certbot entry.  Blocks
\* add rows for the paths that certPaths does not hold, and it holds them all.
\* (the openssl date wins over the one certbot printed with the listing)
SdRow(listed, inspected, i) ==
    LET paths == SdPaths(listed)
        date == IF SdOpenssl(listed) THEN SdInspected(inspected, paths, i) ELSE None
    IN  [path |-> paths[i],
         expires |-> IF date = None THEN listed.expires[paths[i]] ELSE date,
         status |-> DeriveStatus(IF date = None THEN listed.expires[paths[i]] ELSE date,
                                 date = None, TRUE, LastResult(listed))]

SdOverview(listed, inspected) ==
    [rows |-> {SdRow(listed, inspected, i) : i \in DOMAIN SdEntries(listed)},
     installed |-> SdInstalled(listed),
     hint |-> SdInstallHint(listed),
     method |-> SdMethod(listed),
     canEnable |-> SdMethod(listed) = "none" /\ SdInstalled(listed) /\ SdSystemd(listed),
     systemd |-> SdSystemd(listed),
     changes |-> listed.changes]

(***************************************************************************)
(* runDiscovery, for the panel's refresh or to check an operation.         *)
(***************************************************************************)
SdFresh == sdCache # None /\ sdCache.fresh

SdServesCached ==
    /\ ~sdPanel.paused /\ SdFresh
    /\ sdPanel' = [sdPanel EXCEPT !.shows = sdCache.overview]
    /\ UNCHANGED <<sdServer, sdCache, sdLookups, sdAction, sdCrossed>>

SdStarts ==
    /\ ~sdPanel.paused /\ ~SdFresh
    /\ Len(sdLookups) < MaxLookups
    /\ sdLookups' = Append(sdLookups, [for |-> "panel", listed |-> None])
    /\ UNCHANGED <<sdServer, sdCache, sdAction, sdPanel, sdCrossed>>

SdLists(i) ==
    /\ sdLookups[i].listed = None
    /\ sdLookups' = [sdLookups EXCEPT ![i] = [for |-> sdLookups[i].for, listed |-> sdServer]]
    /\ UNCHANGED <<sdServer, sdCache, sdAction, sdPanel, sdCrossed>>

\* assertKnownCertName, and the two checks of enableAutoRenewal.
SdAllows(overview, command) ==
    IF command = "enable"
    THEN overview.method = "none" /\ overview.systemd
    ELSE \E row \in overview.rows : row.path = command

Checked(overview, action) ==
    IF SdAllows(overview, action.does) THEN [action EXCEPT !.at = "sent"] ELSE None

SdStores(i) ==
    /\ sdLookups[i].listed # None
    /\ LET overview == SdOverview(sdLookups[i].listed, sdServer)
       IN  /\ sdCache' = [overview |-> overview, fresh |-> TRUE]
           /\ IF sdLookups[i].for = "panel"
              THEN sdPanel' = [sdPanel EXCEPT !.shows = overview] /\ UNCHANGED sdAction
              ELSE sdAction' = Checked(overview, sdAction) /\ UNCHANGED sdPanel
    /\ sdLookups' = RemoveAt(sdLookups, i)
    /\ UNCHANGED <<sdServer, sdCrossed>>

SdFails(i) ==
    /\ sdLookups' = RemoveAt(sdLookups, i)
    /\ sdAction' = IF sdLookups[i].for = "panel" THEN sdAction ELSE None
    /\ UNCHANGED <<sdServer, sdCache, sdPanel, sdCrossed>>

\* 30 s pass.
SdCacheAges ==
    /\ SdFresh
    /\ sdCache' = [sdCache EXCEPT !.fresh = FALSE]
    /\ UNCHANGED <<sdServer, sdLookups, sdAction, sdPanel, sdCrossed>>

(***************************************************************************)
(* The detail view, which pauses the refresh, and the operations: renew    *)
(* from it, enableAutoRenewal from the list.  One at a time (actionLoading).*)
(***************************************************************************)
SdSelects ==
    /\ sdPanel.shows # None
    /\ sdPanel' = [sdPanel EXCEPT !.paused = ~sdPanel.paused]
    /\ UNCHANGED <<sdServer, sdCache, sdLookups, sdAction, sdCrossed>>

SdOffers(command) ==
    IF command = "enable"
    THEN ~sdPanel.paused /\ sdPanel.shows.canEnable
    ELSE sdPanel.paused /\ \E row \in sdPanel.shows.rows : row.path = command

SdAsks(command) ==
    /\ sdAction = None /\ sdPanel.shows # None /\ SdOffers(command)
    /\ IF SdFresh
       THEN /\ sdAction' = Checked(sdCache.overview, [does |-> command, at |-> "checking"])
            /\ UNCHANGED sdLookups
       ELSE /\ Len(sdLookups) < MaxLookups
            /\ sdAction' = [does |-> command, at |-> "checking"]
            /\ sdLookups' = Append(sdLookups, [for |-> "action", listed |-> None])
    /\ UNCHANGED <<sdServer, sdCache, sdPanel, sdCrossed>>

\* The command runs on the server.
SdRuns ==
    /\ sdAction # None /\ sdAction.at = "sent"
    /\ sdAction' = [sdAction EXCEPT !.at = "done"]
    /\ sdServer' = [sdServer EXCEPT
                      !.changes = sdServer.changes + 1,
                      !.expires = [p \in CertPath |-> IF p = sdAction.does THEN "later"
                                                      ELSE sdServer.expires[p]],
                      !.timer = IF sdAction.does = "enable" THEN "success" ELSE sdServer.timer]
    /\ UNCHANGED <<sdCache, sdLookups, sdPanel, sdCrossed>>

\* (mutant) The cache is kept.
SdDoneKeepingCache ==
    /\ sdAction # None /\ sdAction.at = "done"
    /\ sdAction' = None
    /\ sdCrossed' = (sdCrossed \/ sdLookups # <<>>)
    /\ UNCHANGED <<sdServer, sdCache, sdLookups, sdPanel>>

\* The cache is dropped; a discovery under way puts it back later.
SdDone ==
    /\ sdAction # None /\ sdAction.at = "done"
    /\ sdAction' = None
    /\ sdCache' = None
    /\ sdCrossed' = (sdCrossed \/ sdLookups # <<>>)
    /\ UNCHANGED <<sdServer, sdLookups, sdPanel>>

\* The command fails, changed or not: the cache is kept.
SdActionFails ==
    /\ sdAction # None /\ sdAction.at # "checking"
    /\ sdAction' = None
    /\ sdCrossed' = (sdCrossed \/ sdAction.at = "done")
    /\ UNCHANGED <<sdServer, sdCache, sdLookups, sdPanel>>

\* A server without certificates and without certbot.
PlainServer ==
    [certbot |-> FALSE, programs |-> Program, managed |-> {}, linked |-> {},
     readable |-> CertPath, expires |-> [p \in CertPath |-> "later"], timer |-> "none",
     cron |-> FALSE, changes |-> 0]

\* The servers of the runs: all programs or no openssl, all files readable or
\* none, and no difference in what nobody looks at.
SdInit ==
    /\ \E s \in [certbot : BOOLEAN,
                 programs : {Program, Program \ {"openssl"}},
                 managed : SUBSET CertPath, linked : SUBSET CertPath,
                 readable : {CertPath, {}},
                 expires : [CertPath -> {"past", "later"}],
                 timer : {"none", "failure"}, cron : BOOLEAN, changes : {0}] :
        /\ s.certbot \/ (s.managed = {} /\ s.timer = "none")
        /\ s.cron => s.timer = "none"
        /\ s.readable = {} => s.linked = {} /\ ~s.cron /\ s.timer = "none"
        /\ s.programs # Program => ~s.cron /\ s.timer = "none"
        /\ \A p \in CertPath \ (s.managed \cup s.linked) : s.expires[p] = "later"
        /\ sdServer = s
    /\ sdCache = None /\ sdLookups = <<>> /\ sdAction = None
    /\ sdPanel = [shows |-> None, paused |-> FALSE]
    /\ sdCrossed = FALSE

SdNext ==
    \/ SdServesCached \/ SdStarts \/ SdCacheAges \/ SdSelects
    \/ \E i \in DOMAIN sdLookups : SdLists(i) \/ SdStores(i) \/ SdFails(i)
    \/ \E command \in CertPath \cup {"enable"} : SdAsks(command)
    \/ SdRuns \/ SdDone \/ SdActionFails

SdSpec == SdInit /\ [][SdNext]_sdVars

\* Bound of the runs: one operation.
SdBound == sdServer.changes <= 1

(***************************************************************************)
(* Properties.                                                             *)
(***************************************************************************)
\* Every variable keeps its type.
SdTypeOK ==
    /\ sdServer \in ServerRecord
    /\ sdCache # None => sdCache.fresh \in BOOLEAN
    /\ sdLookups \in Seq([for : {"panel", "action"}, listed : ServerRecord \cup {None}])
    /\ sdAction # None => sdAction \in SdActionRecord
    /\ (\E i \in DOMAIN sdLookups : sdLookups[i].for = "action") =>
          sdAction # None /\ sdAction.at = "checking"
    /\ sdPanel.paused \in BOOLEAN
    /\ sdCrossed \in BOOLEAN

\* The cache tells of every operation made here: none is followed by 30 s of the
\* list it made obsolete, unless a discovery overlapped its end or it failed half
\* way.
SdCacheTellsChanges ==
    sdCache # None /\ sdAction = None /\ ~sdCrossed =>
        sdCache.overview.changes = sdServer.changes

\* A single certificate is never shown as valid when it has expired, whatever is
\* installed and whichever renewal is configured.
SdExpiredNotValid ==
    sdPanel.shows # None /\ Len(SdPaths(sdServer)) <= 1 =>
        \A row \in sdPanel.shows.rows :
            row.status \in {"valid", "renewal-failed"} => sdServer.expires[row.path] # "past"

\* Renewal is shown as configured only on a server that has a timer, a cron job or
\* certbot's own renewal files.
SdConfiguredIsReal ==
    sdPanel.shows # None /\ sdPanel.shows.method # "none" =>
        \/ sdServer.timer # "none" \/ sdServer.cron
        \/ sdServer.certbot /\ sdServer.managed # {}

\* What the overview says of certificates and their renewal is so.
SdTellsTheTruth == SdCacheTellsChanges /\ SdExpiredNotValid /\ SdConfiguredIsReal
===============================================================================
