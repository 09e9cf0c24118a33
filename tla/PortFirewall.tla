----------------------------- MODULE PortFirewall -----------------------------
(***************************************************************************)
(* The ufw rules of a server, as PortService.ts reads, caches and changes  *)
(* them for the Ports panel (usePorts.ts, PortsPanel.tsx).                 *)
(*                                                                         *)
(* ufw knows a rule by its number, which changes whenever an earlier rule  *)
(* goes.  The service checks a number against a listing up to 10 s old,    *)
(* and then sends the number.                                              *)
(***************************************************************************)
EXTENDS Naturals, Sequences, SequencesExt, Null

CONSTANTS
    MaxRules,      \* bound: rules on the server
    MaxReads       \* bound: listings under way

ASSUME MaxRulesAssumption == MaxRules \in Nat \ {0}

VARIABLES
    fwRules,       \* the rules, in ufw's order
    fwCache,       \* firewallCache.get(serverId)
    fwReads,       \* listings under way, and what for: the panel's poll, the check of a
                   \* deletion, the refresh after a change
    fwShown,       \* how many rules are on display
    fwChange,      \* the change under way (actionLoading: one)
    fwShifted      \* a number was sent after the listing that checked it was outdated (history)

fwVars == <<fwRules, fwCache, fwReads, fwShown, fwChange, fwShifted>>

Port == {"ssh", "web"}
FwAction == {"allow", "deny"}

\* A rule and the ports it really matches; the scope of an application profile
\* that `ufw status verbose` does not resolve is not known to the parser.
Rule == [action : FwAction, ports : (SUBSET Port) \ {{}}, known : BOOLEAN]

SshRule == [action |-> "allow", ports |-> {"ssh"}, known |-> TRUE]
OpenSshProfile == [action |-> "allow", ports |-> {"ssh"}, known |-> FALSE]
WebRule(action) == [action |-> action, ports |-> {"web"}, known |-> TRUE]

\* ufwVerdictForPort, of an active firewall with "deny" as its default: the first
\* rule that matches decides.
FwMatches(rules, port) == {i \in DOMAIN rules : port \in rules[i].ports}
FwVerdict(rules, port) ==
    IF \E i \in FwMatches(rules, port) :
           /\ rules[i].action = "allow"
           /\ \A j \in FwMatches(rules, port) : i <= j
    THEN "allowed" ELSE "blocked"

\* A listing, and a change on its way to the server.
FwListing == [rules : Seq(Rule), fresh : BOOLEAN]
FwChangeRecord ==
    [does : FwAction \cup {"delete"}, id : Nat, port : Port \cup {"none"},
     at : {"reading", "sent", "done", "refreshing"}, against : Seq(Rule)]

ASSUME FwNoneAssumption == None \notin FwListing \cup FwChangeRecord \cup Seq(Rule)

(***************************************************************************)
(* readFirewall: cached for 10 s, else read and cached.                    *)
(***************************************************************************)
FwFresh == fwCache # None /\ fwCache.fresh

\* (mutant) Only the numbers are compared.
FwMayDeleteListed(rules, id) == id \in DOMAIN rules

\* ruleScopeIsUnknown, ruleCoversPort.
FwMayDelete(rules, id) ==
    id \in DOMAIN rules /\ rules[id].known /\ "ssh" \notin rules[id].ports

\* deleteRule goes on once a listing is there.
FwChecked(rules) ==
    IF FwMayDelete(rules, fwChange.id)
    THEN [fwChange EXCEPT !.at = "sent", !.against = rules]
    ELSE None

\* usePorts.refresh: list.
FwPolls ==
    IF FwFresh
    THEN fwShown' = Len(fwCache.rules)
         /\ UNCHANGED <<fwRules, fwCache, fwReads, fwChange, fwShifted>>
    ELSE Len(fwReads) < MaxReads
         /\ fwReads' = Append(fwReads, [for |-> "panel", rules |-> None])
         /\ UNCHANGED <<fwRules, fwCache, fwShown, fwChange, fwShifted>>

FwLists(i) ==
    /\ fwReads[i].rules = None
    /\ fwReads' = [fwReads EXCEPT ![i].rules = fwRules]
    /\ UNCHANGED <<fwRules, fwCache, fwShown, fwChange, fwShifted>>

FwAnswers(i) ==
    /\ fwReads[i].rules # None
    /\ fwReads' = RemoveAt(fwReads, i)
    /\ fwCache' = [rules |-> fwReads[i].rules, fresh |-> TRUE]
    /\ fwShown' = IF fwReads[i].for = "check" THEN fwShown ELSE Len(fwReads[i].rules)
    /\ fwChange' = CASE fwReads[i].for = "panel"   -> fwChange
                     [] fwReads[i].for = "check"   -> FwChecked(fwReads[i].rules)
                     [] fwReads[i].for = "refresh" -> None
    /\ UNCHANGED <<fwRules, fwShifted>>

FwCacheAges ==
    /\ FwFresh
    /\ fwCache' = [fwCache EXCEPT !.fresh = FALSE]
    /\ UNCHANGED <<fwRules, fwReads, fwShown, fwChange, fwShifted>>

\* clearServer at a teardown.
FwForgets ==
    /\ fwCache # None /\ fwCache' = None
    /\ UNCHANGED <<fwRules, fwReads, fwShown, fwChange, fwShifted>>

(***************************************************************************)
(* deleteRule, setRule.  The dialog names a rule of the list on display.   *)
(***************************************************************************)
FwDelete(id) ==
    /\ fwChange = None
    /\ LET change == [does |-> "delete", id |-> id, port |-> "none", at |-> "reading",
                      against |-> <<>>]
       IN  IF ~FwFresh
           THEN /\ Len(fwReads) < MaxReads
                /\ fwChange' = change
                /\ fwReads' = Append(fwReads, [for |-> "check", rules |-> None])
           ELSE /\ UNCHANGED fwReads
                /\ fwChange' = IF FwMayDelete(fwCache.rules, id)
                               THEN [change EXCEPT !.at = "sent", !.against = fwCache.rules]
                               ELSE None
    /\ UNCHANGED <<fwRules, fwCache, fwShown, fwShifted>>

\* assertNoSshLockout.
FwMaySet(port) == port # "ssh"

FwSet(action, port) ==
    /\ fwChange = None /\ FwMaySet(port)
    /\ fwChange' = [does |-> action, id |-> 0, port |-> port, at |-> "sent", against |-> <<>>]
    /\ UNCHANGED <<fwRules, fwCache, fwReads, fwShown, fwShifted>>

FwDeletes ==
    /\ fwChange # None /\ fwChange.at = "sent" /\ fwChange.does = "delete"
    /\ fwChange' = [fwChange EXCEPT !.at = "done"]
    /\ fwRules' = IF fwChange.id \in DOMAIN fwRules THEN RemoveAt(fwRules, fwChange.id)
                                                    ELSE fwRules
    /\ fwShifted' = (fwShifted \/ fwChange.against # fwRules)
    /\ UNCHANGED <<fwCache, fwReads, fwShown>>

\* ufw changes the rule of the same port, or adds one at the end.
FwSets ==
    /\ fwChange # None /\ fwChange.at = "sent" /\ fwChange.does # "delete"
    /\ LET rule == [action |-> fwChange.does, ports |-> {fwChange.port}, known |-> TRUE]
           same == {i \in DOMAIN fwRules : fwRules[i].ports = rule.ports /\ fwRules[i].known}
       IN  /\ same # {} \/ Len(fwRules) < MaxRules
           /\ fwRules' = IF same # {} THEN [i \in DOMAIN fwRules |-> IF i \in same THEN rule
                                                                     ELSE fwRules[i]]
                         ELSE Append(fwRules, rule)
    /\ fwChange' = [fwChange EXCEPT !.at = "done"]
    /\ UNCHANGED <<fwCache, fwReads, fwShown, fwShifted>>

\* (mutant) runAction does not wait for its refresh.
FwDoneUnawaited ==
    /\ fwChange # None /\ fwChange.at = "done" /\ Len(fwReads) < MaxReads
    /\ fwChange' = None
    /\ fwCache' = None
    /\ fwReads' = Append(fwReads, [for |-> "refresh", rules |-> None])
    /\ UNCHANGED <<fwRules, fwShown, fwShifted>>

\* The listing is forgotten, and runAction reads a new one before it ends.
FwDone ==
    /\ fwChange # None /\ fwChange.at = "done" /\ Len(fwReads) < MaxReads
    /\ fwChange' = [fwChange EXCEPT !.at = "refreshing"]
    /\ fwCache' = None
    /\ fwReads' = Append(fwReads, [for |-> "refresh", rules |-> None])
    /\ UNCHANGED <<fwRules, fwShown, fwShifted>>

\* ufw ends with an error, the privileges are missing or the connection is gone: the
\* cache is kept, whether the rules have changed or not.
FwFails ==
    /\ fwChange # None /\ fwChange.at \in {"sent", "done"}
    /\ fwChange' = None
    /\ UNCHANGED <<fwRules, fwCache, fwReads, fwShown, fwShifted>>

\* Somebody deletes a rule from a shell, never SSH's.
FwDeletedElsewhere(i) ==
    /\ "ssh" \notin fwRules[i].ports
    /\ fwRules' = RemoveAt(fwRules, i)
    /\ UNCHANGED <<fwCache, fwReads, fwShown, fwChange, fwShifted>>

\* A server that can be reached by SSH.
FwInit ==
    /\ \E n \in 1..MaxRules :
        \E rules \in [1..n -> {SshRule, OpenSshProfile, WebRule("allow"), WebRule("deny")}] :
            FwVerdict(rules, "ssh") = "allowed" /\ fwRules = rules
    /\ fwCache = None /\ fwReads = <<>> /\ fwShown = 0 /\ fwChange = None
    /\ fwShifted = FALSE

FwNext ==
    \/ FwPolls \/ FwCacheAges \/ FwForgets
    \/ \E i \in DOMAIN fwReads : FwLists(i) \/ FwAnswers(i)
    \/ \E id \in 1..fwShown : FwDelete(id)
    \/ \E action \in FwAction, port \in Port : FwSet(action, port)
    \/ FwDeletes \/ FwSets \/ FwDone \/ FwFails
    \/ \E i \in DOMAIN fwRules : FwDeletedElsewhere(i)

FwSpec == FwInit /\ [][FwNext]_fwVars

(***************************************************************************)
(* Properties.                                                             *)
(***************************************************************************)
\* Every variable keeps its type.
FwTypeOK ==
    /\ fwRules \in Seq(Rule) /\ Len(fwRules) <= MaxRules
    /\ fwShown \in 0..MaxRules
    /\ fwCache # None => fwCache.rules \in Seq(Rule) /\ fwCache.fresh \in BOOLEAN
    /\ fwChange # None => fwChange.at \in {"reading", "sent", "done", "refreshing"}
    /\ \A i \in DOMAIN fwReads : fwReads[i].for # "panel" =>
          fwChange # None /\ fwChange.at = (IF fwReads[i].for = "check" THEN "reading"
                                                                       ELSE "refreshing")
    /\ fwShifted \in BOOLEAN

\* No sequence of changes made here closes the port the session depends on, as
\* long as each number is sent against the listing that checked it.
FwSshStaysOpen == FwVerdict(fwRules, "ssh") = "allowed" \/ fwShifted

\* The same, whatever listings and changes overlap (PortService.ts: "Refuses any
\* rule that could affect the port this SSH session depends on.").
FwSshAlwaysOpen == FwVerdict(fwRules, "ssh") = "allowed"
===============================================================================
