----------------------------- MODULE UserAccounts -----------------------------
(***************************************************************************)
(* The Users tool: UserService, its parsers, the hook useUsers, UsersPanel *)
(* and its dialogs.                                                        *)
(*                                                                         *)
(* Every request starts from a discovery of the accounts, taken from a     *)
(* cache for some seconds; an action checks the account there, runs its    *)
(* commands and drops the cache.  A discovery whose shell is killed, or    *)
(* whose channel closes early, counts as complete: what it had not said by *)
(* then is missing, the name of the connected account for one.             *)
(* Left out: availability, privileges, names of groups and shells, search. *)
(***************************************************************************)
EXTENDS Null, Naturals, Sequences, TLC

CONSTANTS
    Account,        \* accounts a person may have on the server
    Query,          \* slots for requests of the views
    Order,          \* slots for actions
    MaxOrders,      \* bound: actions
    MaxCuts,        \* bound: discoveries cut short
    MaxVisits,      \* bound: times the panel is opened
    MaxAsks         \* bound: requests, actions and cuts

ASSUME UsBoundsAssumption == MaxOrders \in Nat /\ MaxCuts \in Nat /\ MaxVisits \in Nat

\* The connected account, which the tool must not modify.
Me == "me"
Accounts == Account \cup {Me}

VARIABLES
    usServer,      \* what each account is on the server
    usCache,       \* listCache
    usQuery,       \* requests of the views under way
    usOrder,       \* actions under way, with the commands that failed (history)
    usPanel,       \* the panel on display
    usVisits, usAsks,      \* panels and requests so far
    usOrders, usCuts       \* actions and cut discoveries so far

usVars == <<usServer, usCache, usQuery, usOrder, usPanel, usVisits, usAsks,
           usOrders, usCuts>>

Absent == [exists |-> FALSE, admin |-> FALSE]
Created == [exists |-> TRUE, admin |-> FALSE]

\* splitDiscoverySections and buildUserSummaries: a cut discovery lists the accounts, as
\* nobody's in particular and with none of the marks of the later sections.
Listed(server, cut) ==
    [users |-> {a \in Accounts : server[a].exists},
     admins |-> IF cut THEN {} ELSE {a \in Accounts : server[a].admin},
     connected |-> IF cut THEN None ELSE Me]

\* protectedUserReason.
Protected(listing, a) == a = listing.connected

NoQuery == [phase |-> "free"]
NoOrder == [phase |-> "free"]
EmptyPanel == [open |-> FALSE, listing |-> None, selected |-> None, detail |-> None,
               pending |-> None, submitting |-> FALSE, told |-> None]

\* "set" stands for lock, unlock, changeShell, setPassword, enableSsh and a change of groups,
\* whose effect no listing here shows.
Kinds == {"create", "delete", "grantSudo", "revokeSudo", "set"}

\* The commands of an action; those after the first of a creation may fail on their own.
StepsOf(kind) ==
    CASE kind = "create" -> <<"useradd", "chpasswd", "grantSudo">>
      [] kind = "delete" -> <<"userdel">>
      [] OTHER -> <<kind>>

After(step, account) ==
    CASE step = "useradd" -> Created
      [] step = "userdel" -> Absent
      [] step = "grantSudo" -> [account EXCEPT !.admin = TRUE]
      [] step = "revokeSudo" -> [account EXCEPT !.admin = FALSE]
      [] OTHER -> account

\* useradd refuses an account that exists, the other commands one that does not.
Works(step, account) == account.exists = (step # "useradd")

UsTypeOK ==
    /\ usServer \in [Accounts -> [exists : BOOLEAN, admin : BOOLEAN]]
    /\ \A q \in Query : usQuery[q].phase \in {"free", "asked", "read"}
    /\ \A o \in Order : usOrder[o].phase \in {"free", "asked", "checked", "ended"}
    /\ usPanel.selected \in Accounts \cup {None}
    /\ usVisits \in 0..MaxVisits /\ usOrders \in 0..MaxOrders /\ usCuts \in 0..MaxCuts

(***************************************************************************)
(* Discoveries.                                                            *)
(***************************************************************************)
\* discover: the cached listing, or what the server says now, maybe not all of it.
Discovers(listing) ==
    \/ usCache # None /\ listing = usCache /\ UNCHANGED <<usCache, usCuts>>
    \/ \E cut \in BOOLEAN :
           /\ usCache = None
           /\ IF cut THEN usCuts < MaxCuts /\ usCuts' = usCuts + 1 ELSE UNCHANGED usCuts
           /\ listing = Listed(usServer, cut) /\ usCache' = listing

Listings == {Listed(usServer, cut) : cut \in BOOLEAN} \cup ({usCache} \ {None})

Read(query, listing) ==
    [phase |-> "read", account |-> query.account, visit |-> query.visit, listing |-> listing]
UsQueryReads(q) ==
    \E listing \in Listings :
        /\ usQuery[q].phase = "asked" /\ Discovers(listing)
        /\ usQuery' = [usQuery EXCEPT ![q] = Read(usQuery[q], listing)]
        /\ UNCHANGED <<usServer, usOrder, usPanel, usVisits, usAsks, usOrders>>

UsCacheExpires ==
    /\ usCache # None /\ usCache' = None
    /\ UNCHANGED <<usServer, usQuery, usOrder, usPanel, usVisits, usAsks, usOrders, usCuts>>

(***************************************************************************)
(* The views: a listing polled while no account is selected, and the       *)
(* detail of the selected one, which the dialogs are about.                *)
(***************************************************************************)
Asks(q, account) ==
    /\ usQuery' = [usQuery EXCEPT ![q] = [phase |-> "asked", account |-> account,
                                          visit |-> usVisits']]
    /\ usAsks' = usAsks + 1

UsOpens ==
    \E q \in Query :
        /\ ~usPanel.open /\ usVisits < MaxVisits
        /\ usVisits' = usVisits + 1 /\ usPanel' = [EmptyPanel EXCEPT !.open = TRUE]
        /\ Asks(q, None)
        /\ UNCHANGED <<usServer, usCache, usOrder, usOrders, usCuts>>

UsLeaves ==
    /\ usPanel.open /\ usPanel' = EmptyPanel
    /\ UNCHANGED <<usServer, usCache, usQuery, usOrder, usVisits, usAsks, usOrders, usCuts>>

UsPolls ==
    \E q \in Query :
        /\ usPanel.open /\ usPanel.selected = None
        /\ UNCHANGED usVisits /\ Asks(q, None)
        /\ UNCHANGED <<usServer, usCache, usOrder, usPanel, usOrders, usCuts>>

UsSelects(a) ==
    \E q \in Query :
        /\ usPanel.open /\ usPanel.listing # None /\ usPanel.selected = None
        /\ a \in usPanel.listing.users
        /\ usPanel' = [usPanel EXCEPT !.selected = a]
        /\ UNCHANGED usVisits /\ Asks(q, a)
        /\ UNCHANGED <<usServer, usCache, usOrder, usOrders, usCuts>>

\* Back forgets the detail at once; an answer still under way brings one back.
UsBack ==
    /\ usPanel.selected # None /\ usPanel.pending = None
    /\ usPanel' = [usPanel EXCEPT !.selected = None, !.detail = None]
    /\ UNCHANGED <<usServer, usCache, usQuery, usOrder, usVisits, usAsks, usOrders, usCuts>>

Detail(listing, a) ==
    IF a \notin listing.users THEN None
    ELSE [account |-> a, protected |-> Protected(listing, a), admin |-> a \in listing.admins]

UsAnswers(q) ==
    /\ usQuery[q].phase = "read"
    /\ usQuery' = [usQuery EXCEPT ![q] = NoQuery]
    /\ LET query == usQuery[q] IN
       usPanel' = IF ~usPanel.open \/ query.visit # usVisits THEN usPanel
                  ELSE IF query.account = None THEN [usPanel EXCEPT !.listing = query.listing]
                  ELSE [usPanel EXCEPT !.detail = Detail(query.listing, query.account)]
    /\ UNCHANGED <<usServer, usCache, usOrder, usVisits, usAsks, usOrders, usCuts>>

\* A failed listing leaves the one on display, a failed detail none.
UsQueryFails(q) ==
    /\ usQuery[q].phase # "free"
    /\ usQuery' = [usQuery EXCEPT ![q] = NoQuery]
    /\ usPanel' = IF usPanel.open /\ usQuery[q].visit = usVisits /\ usQuery[q].account # None
                  THEN [usPanel EXCEPT !.detail = None] ELSE usPanel
    /\ UNCHANGED <<usServer, usCache, usOrder, usVisits, usAsks, usOrders, usCuts>>

(***************************************************************************)
(* Dialogs.                                                                *)
(***************************************************************************)
\* The buttons of UserDetailView, for an account that may be modified.
Offers(detail, kind) ==
    /\ ~detail.protected
    /\ kind = "grantSudo" => ~detail.admin
    /\ kind = "revokeSudo" => detail.admin

UsPicks(kind) ==
    /\ usPanel.open /\ usPanel.pending = None /\ ~usPanel.submitting
    /\ IF kind = "create" THEN usPanel.selected = None
       ELSE usPanel.selected # None /\ usPanel.detail # None /\ Offers(usPanel.detail, kind)
    /\ usPanel' = [usPanel EXCEPT !.pending = kind]
    /\ UNCHANGED <<usServer, usCache, usQuery, usOrder, usVisits, usAsks, usOrders, usCuts>>

UsCancels ==
    /\ usPanel.pending # None /\ usPanel' = [usPanel EXCEPT !.pending = None]
    /\ UNCHANGED <<usServer, usCache, usQuery, usOrder, usVisits, usAsks, usOrders, usCuts>>

\* An action names the account of the detail there is when it is confirmed; without one
\* its name is empty, which the main process refuses.
Ordered(kind, account) ==
    [phase |-> "asked", kind |-> kind, account |-> account, visit |-> usVisits, trusted |-> TRUE,
     left |-> StepsOf(kind), issues |-> {}, failed |-> {}]
UsConfirms(a) ==
    \E o \in Order :
        /\ usPanel.pending # None /\ ~usPanel.submitting /\ usOrder[o].phase = "free"
        /\ usPanel.pending # "create" => usPanel.detail # None /\ a = usPanel.detail.account
        /\ usOrders < MaxOrders /\ usOrders' = usOrders + 1
        /\ usPanel' = [usPanel EXCEPT !.submitting = TRUE, !.told = None]
        /\ usOrder' = [usOrder EXCEPT ![o] = Ordered(usPanel.pending, a)]
        /\ UNCHANGED <<usServer, usCache, usQuery, usVisits, usAsks, usCuts>>

(***************************************************************************)
(* Actions.                                                                *)
(***************************************************************************)
\* createUser refuses an account that is listed; findUser, assertMutable.
MayRun(order, listing) ==
    IF order.kind = "create" THEN order.account \notin listing.users
    ELSE order.account \in listing.users /\ ~Protected(listing, order.account)

Checked(order, listing) ==
    [order EXCEPT !.phase = IF MayRun(order, listing) THEN "checked" ELSE "ended",
                  !.trusted = listing.connected # None]
UsChecks(o) ==
    \E listing \in Listings :
        /\ usOrder[o].phase = "asked" /\ Discovers(listing)
        /\ usOrder' = [usOrder EXCEPT ![o] = Checked(usOrder[o], listing)]
        /\ UNCHANGED <<usServer, usQuery, usPanel, usVisits, usAsks, usOrders>>

\* The first command that fails ends an action; after useradd the failures are collected.
GoesOn(order, ok) ==
    LET step == Head(order.left)  failed == order.failed \cup {step} IN
    IF ok THEN [order EXCEPT !.left = Tail(order.left)]
    ELSE IF order.kind = "create" /\ step # "useradd"
         THEN [order EXCEPT !.left = Tail(order.left), !.issues = order.issues \cup {step},
                            !.failed = failed]
    ELSE [order EXCEPT !.phase = "ended", !.failed = failed]

\* A command; one that times out is reported failed and works all the same.  A creation
\* drops the cache after useradd and lists the accounts anew before it grants sudo.
UsRuns(o) ==
    \E works, reported \in BOOLEAN :
        LET order == usOrder[o]
            step == Head(order.left)
        IN /\ order.phase = "checked" /\ order.left # <<>>
           /\ works => Works(step, usServer[order.account])
           /\ reported => works
           /\ usServer' = IF ~works THEN usServer
                          ELSE [usServer EXCEPT ![order.account] =
                                   After(step, usServer[order.account])]
           /\ usOrder' = [usOrder EXCEPT ![o] = GoesOn(order, reported)]
           /\ usCache' = CASE step = "useradd" /\ reported -> None
                           [] order.kind = "create" /\ step = "grantSudo" -> Listed(usServer, FALSE)
                           [] OTHER -> usCache
           /\ UNCHANGED <<usQuery, usPanel, usVisits, usAsks, usOrders, usCuts>>

Succeeded(order) == order.phase = "checked" /\ order.left = <<>> /\ order.issues = {}
PartlyCreated(order) == order.phase = "checked" /\ order.left = <<>> /\ order.issues # {}

\* runAction after the await.  A success drops the cache, closes the dialog and reloads;
\* so does a creation that went wrong after useradd, with the cache as it left it.
UsTold(o) ==
    LET order == usOrder[o]
        result == IF Succeeded(order) THEN "done"
                  ELSE IF PartlyCreated(order) THEN "partly" ELSE "failed"
        shown == usPanel.open /\ order.visit = usVisits
        told == [kind |-> order.kind, result |-> result, failed |-> order.failed,
                 left |-> order.left]
    IN /\ order.phase = "ended" \/ (order.phase = "checked" /\ order.left = <<>>)
       /\ usOrder' = [usOrder EXCEPT ![o] = NoOrder]
       /\ usCache' = IF result = "done" THEN None ELSE usCache
       /\ usPanel' = IF ~shown THEN usPanel
                     ELSE [usPanel EXCEPT
                              !.submitting = FALSE, !.told = told,
                              !.pending = IF result = "failed" THEN usPanel.pending ELSE None,
                              !.selected = IF order.kind = "delete" THEN None
                                           ELSE usPanel.selected,
                              !.detail = IF order.kind = "delete" THEN None ELSE usPanel.detail]
       /\ IF shown /\ result # "failed"
          THEN \E q \in Query : UNCHANGED usVisits /\ Asks(q, None)
          ELSE UNCHANGED <<usQuery, usVisits, usAsks>>
       /\ UNCHANGED <<usServer, usOrders, usCuts>>

UsInit ==
    /\ \E there \in SUBSET Account :
           usServer = [a \in Accounts |-> IF a \in there \cup {Me}
                                         THEN [exists |-> TRUE, admin |-> TRUE] ELSE Absent]
    /\ usCache = None
    /\ usQuery = [q \in Query |-> NoQuery] /\ usOrder = [o \in Order |-> NoOrder]
    /\ usPanel = EmptyPanel /\ usVisits = 0 /\ usAsks = 0 /\ usOrders = 0 /\ usCuts = 0

UsNext ==
    \/ UsOpens \/ UsLeaves \/ UsPolls \/ UsBack \/ UsCancels \/ UsCacheExpires
    \/ \E a \in Accounts : UsSelects(a) \/ UsConfirms(a)
    \/ \E kind \in Kinds : UsPicks(kind)
    \/ \E q \in Query : UsQueryReads(q) \/ UsAnswers(q) \/ UsQueryFails(q)
    \/ \E o \in Order : UsChecks(o) \/ UsRuns(o) \/ UsTold(o)

\* (bound) Requests of the views, actions and cuts together.
UsBound == usAsks + usOrders + usCuts <= MaxAsks

UsSpec == UsInit /\ [][UsNext]_usVars

(***************************************************************************)
(* Properties.                                                             *)
(***************************************************************************)
\* Nothing is run on the connected account, whatever the views showed and whenever the
\* detail arrived, unless the discovery the action was checked against was cut short.
UsSparesMe ==
    \A o \in Order :
        usOrder[o].phase = "checked" /\ usOrder[o].account = Me /\ usOrder[o].kind # "create" =>
            ~usOrder[o].trusted

\* What the panel is told is so: a success has done all it was asked for, and a failure
\* after useradd is told apart from one before it, which closes no dialog.
UsTellsTheTruth ==
    usPanel.told # None =>
        LET told == usPanel.told IN
        /\ told.result = "done" => told.failed = {} /\ told.left = <<>>
        /\ told.result = "partly" => told.kind = "create" /\ "useradd" \notin told.failed
        /\ told.result = "failed" =>
               told.left # <<>> /\ (told.kind = "create" => told.failed \subseteq {"useradd"})
===============================================================================
