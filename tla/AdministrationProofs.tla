------------------------- MODULE AdministrationProofs -------------------------
(***************************************************************************)
(* Proofs about what is edited on a server: accounts, the builder of       *)
(* schedules, cron jobs and systemd services, the desks that               *)
(* Administration composes.  Each has an invariant of its own, and one     *)
(* step of another desk leaves it as it is.  The first conjuncts are       *)
(* types; what follows is what an edit rests on: what was seen, asked for  *)
(* or confirmed when it was made.                                          *)
(***************************************************************************)
EXTENDS Administration, SequenceTheorems, FiniteSetTheorems, TLAPS


(***************************************************************************)
(* Accounts.                                                               *)
(***************************************************************************)
UsStep == Kinds \cup {"useradd", "chpasswd", "userdel"}
UsListing == [users : SUBSET Accounts, admins : SUBSET Accounts, connected : {Me, None}]
UsDetailRecord == [account : Accounts, protected : BOOLEAN, admin : BOOLEAN]
UsToldRecord ==
    [kind : Kinds, result : {"done", "partly", "failed"}, failed : SUBSET UsStep,
     left : Seq(UsStep)]
UsPanelRecord ==
    [open : BOOLEAN, listing : UsListing \cup {None}, selected : Accounts \cup {None},
     detail : UsDetailRecord \cup {None}, pending : Kinds \cup {None}, submitting : BOOLEAN,
     told : UsToldRecord \cup {None}]
UsOrderRecord ==
    [phase : {"asked", "checked", "ended"}, kind : Kinds, account : Accounts, visit : Nat,
     trusted : BOOLEAN, left : Seq(UsStep), issues : SUBSET UsStep, failed : SUBSET UsStep]

\* What a request of a view has read is a listing.
UsQueryFits(query) ==
    /\ query.phase \in {"free", "asked", "read"}
    /\ query.phase # "free" => query.account \in Accounts \cup {None}
    /\ query.phase = "read" => query.listing \in UsListing

\* The commands an action may have left.
LeftOf(kind) ==
    IF kind = "create"
    THEN {<<"useradd", "chpasswd", "grantSudo">>, <<"chpasswd", "grantSudo">>, <<"grantSudo">>,
          <<>>}
    ELSE {StepsOf(kind), <<>>}

\* What an action has done so far: nothing before its check; then only a creation goes on
\* with failures behind it, and none of them is useradd's; what ended has commands left.
UsOrderFits(order) ==
    /\ order \in UsOrderRecord
    /\ order.phase = "asked" =>
           order.left = StepsOf(order.kind) /\ order.issues = {} /\ order.failed = {}
    /\ order.phase = "checked" =>
           /\ order.left \in LeftOf(order.kind)
           /\ order.failed = order.issues /\ "useradd" \notin order.failed
           /\ order.kind # "create" => order.failed = {}
           /\ order.left = StepsOf(order.kind) => order.failed = {}
           /\ order.account = Me /\ order.kind # "create" => ~order.trusted
    /\ order.phase = "ended" =>
           order.left # <<>> /\ (order.kind = "create" => order.failed \subseteq {"useradd"})

UsQueriesFit ==
    usQuery = [q \in Query |-> usQuery[q]] /\ \A q \in Query : UsQueryFits(usQuery[q])
UsOrdersFit ==
    /\ usOrder = [o \in Order |-> usOrder[o]]
    /\ \A o \in Order : usOrder[o].phase = "free" \/ UsOrderFits(usOrder[o])
UsInv ==
    /\ usCache \in UsListing \cup {None} /\ usVisits \in Nat /\ UsQueriesFit /\ UsOrdersFit
    /\ usPanel \in UsPanelRecord /\ UsTellsTheTruth

LEMMA UsInvSpares ==
    ASSUME UsInv
    PROVE  UsSparesMe /\ UsTellsTheTruth
BY DEF UsInv, UsOrdersFit, UsOrderFits, UsSparesMe

LEMMA UsInitInv ==
    ASSUME UsInit
    PROVE  UsInv
<1>1. usPanel \in UsPanelRecord
  BY DEF UsInit, EmptyPanel, UsPanelRecord
<1>2. UsTellsTheTruth
  BY DEF UsInit, EmptyPanel, UsTellsTheTruth
<1> QED
  BY <1>1, <1>2 DEF UsInit, UsInv, UsQueriesFit, UsOrdersFit, NoQuery, NoOrder, UsQueryFits

\* A listing, of a cut discovery or of a whole one.
LEMMA ListedFacts ==
    ASSUME NEW server, NEW cut \in BOOLEAN
    PROVE  Listed(server, cut) \in UsListing
BY DEF Listed, UsListing

LEMMA DiscoveredFacts ==
    ASSUME usCache \in UsListing \cup {None}, NEW listing \in Listings, Discovers(listing)
    PROVE  listing \in UsListing /\ usCache' \in UsListing \cup {None}
<1>1. listing \in UsListing
  BY ListedFacts DEF Listings
<1>2. usCache' = usCache \/ usCache' = listing
  BY DEF Discovers
<1> QED
  BY <1>1, <1>2

\* The commands come one after the other, useradd only at the start of a creation.
LEMMA LeftFacts ==
    ASSUME NEW kind \in Kinds, NEW left \in LeftOf(kind)
    PROVE  /\ left \in Seq(UsStep) /\ StepsOf(kind) \in LeftOf(kind) /\ StepsOf(kind) # <<>>
           /\ left # <<>> => /\ Head(left) \in UsStep
                             /\ Tail(left) \in LeftOf(kind) /\ Tail(left) # StepsOf(kind)
                             /\ kind = "create" /\ Head(left) = "useradd" => left = StepsOf(kind)
<1>1. CASE kind = "create"
  <2>1. StepsOf(kind) = <<"useradd", "chpasswd", "grantSudo">>
    BY <1>1 DEF StepsOf
  <2>2. CASE left = <<"useradd", "chpasswd", "grantSudo">>
    <3>1. Tail(left) = <<"chpasswd", "grantSudo">> /\ Head(left) = "useradd"
      BY <2>2
    <3> QED
      BY <1>1, <2>1, <2>2, <3>1 DEF LeftOf, UsStep, Kinds
  <2>3. CASE left = <<"chpasswd", "grantSudo">>
    <3>1. Tail(left) = <<"grantSudo">> /\ Head(left) = "chpasswd"
      BY <2>3
    <3> QED
      BY <1>1, <2>1, <2>3, <3>1 DEF LeftOf, UsStep, Kinds
  <2>4. CASE left = <<"grantSudo">>
    <3>1. Tail(left) = <<>> /\ Head(left) = "grantSudo"
      BY <2>4
    <3> QED
      BY <1>1, <2>1, <2>4, <3>1 DEF LeftOf, UsStep, Kinds
  <2>5. CASE left = <<>>
    BY <1>1, <2>1, <2>5 DEF LeftOf, UsStep, Kinds
  <2> QED
    BY <1>1, <2>2, <2>3, <2>4, <2>5 DEF LeftOf
<1>2. CASE kind # "create"
  <2>1. PICK step \in UsStep : StepsOf(kind) = <<step>>
    BY <1>2 DEF StepsOf, UsStep, Kinds
  <2>2. CASE left = <<step>>
    <3>1. Tail(left) = <<>> /\ Head(left) = step
      BY <2>2
    <3> QED
      BY <1>2, <2>1, <2>2, <3>1 DEF LeftOf
  <2>3. CASE left = <<>>
    BY <1>2, <2>1, <2>3 DEF LeftOf
  <2> QED
    BY <1>2, <2>1, <2>2, <2>3 DEF LeftOf
<1> QED
  BY <1>1, <1>2

\* A command that worked, or failed, leaves an action that fits.
LEMMA GoesOnFits ==
    ASSUME NEW order, UsOrderFits(order), order.phase = "checked", order.left # <<>>,
           NEW ok \in BOOLEAN
    PROVE  UsOrderFits(GoesOn(order, ok))
<1> DEFINE step == Head(order.left)
           rest == Tail(order.left)
<1>1. order \in UsOrderRecord /\ order.left \in LeftOf(order.kind) /\ order.kind \in Kinds
  BY DEF UsOrderFits, UsOrderRecord
<1>2. /\ step \in UsStep /\ rest \in LeftOf(order.kind) /\ rest \in Seq(UsStep)
      /\ rest # StepsOf(order.kind)
      /\ order.kind = "create" /\ step = "useradd" => order.left = StepsOf(order.kind)
  BY <1>1, LeftFacts
<1> HIDE DEF step, rest
<1>3. CASE ok
  <2> DEFINE next == [order EXCEPT !.left = rest]
  <2>1. GoesOn(order, ok) = next
    BY <1>3 DEF GoesOn, rest
  <2>2. next \in UsOrderRecord
    BY <1>1, <1>2 DEF UsOrderRecord
  <2>3. /\ next.left = rest /\ next.phase = order.phase /\ next.kind = order.kind
        /\ next.failed = order.failed /\ next.issues = order.issues
        /\ next.account = order.account /\ next.trusted = order.trusted
    BY <1>1 DEF UsOrderRecord
  <2> HIDE DEF next
  <2> QED
    BY <1>2, <2>1, <2>2, <2>3 DEF UsOrderFits
<1>4. CASE ~ok /\ order.kind = "create" /\ step # "useradd"
  <2> DEFINE next == [order EXCEPT !.left = rest, !.issues = order.issues \cup {step},
                                   !.failed = order.failed \cup {step}]
  <2>1. GoesOn(order, ok) = next
    BY <1>4 DEF GoesOn, step, rest
  <2>2. next \in UsOrderRecord
    BY <1>1, <1>2 DEF UsOrderRecord
  <2>3. /\ next.left = rest /\ next.phase = order.phase /\ next.kind = order.kind
        /\ next.failed = order.failed \cup {step} /\ next.issues = order.issues \cup {step}
        /\ next.account = order.account /\ next.trusted = order.trusted
    BY <1>1 DEF UsOrderRecord
  <2> HIDE DEF next
  <2> QED
    BY <1>2, <1>4, <2>1, <2>2, <2>3 DEF UsOrderFits
<1>5. CASE ~ok /\ ~(order.kind = "create" /\ step # "useradd")
  <2> DEFINE next == [order EXCEPT !.phase = "ended", !.failed = order.failed \cup {step}]
  <2>1. GoesOn(order, ok) = next
    BY <1>5 DEF GoesOn, step
  <2>2. next \in UsOrderRecord
    BY <1>1, <1>2 DEF UsOrderRecord
  <2>3. /\ next.left = order.left /\ next.phase = "ended" /\ next.kind = order.kind
        /\ next.failed = order.failed \cup {step}
    BY <1>1 DEF UsOrderRecord
  <2> HIDE DEF next
  <2>4. order.kind = "create" => order.failed = {} /\ step = "useradd"
    BY <1>2, <1>5 DEF UsOrderFits
  <2> QED
    BY <2>1, <2>2, <2>3, <2>4 DEF UsOrderFits
<1> QED
  BY <1>3, <1>4, <1>5

\* What the check lets through is not the connected account, if the listing names it.
LEMMA CheckedFits ==
    ASSUME NEW order, UsOrderFits(order), order.phase = "asked", NEW listing \in UsListing
    PROVE  UsOrderFits(Checked(order, listing))
<1> DEFINE may == MayRun(order, listing)
           next == [order EXCEPT !.phase = IF may THEN "checked" ELSE "ended",
                                 !.trusted = listing.connected # None]
<1>1. Checked(order, listing) = next
  BY DEF Checked
<1>2. order \in UsOrderRecord /\ order.kind \in Kinds
  BY DEF UsOrderFits, UsOrderRecord
<1>3. may \in BOOLEAN
  BY DEF MayRun, Protected
<1>4. may /\ order.kind # "create" /\ order.account = Me => listing.connected = None
  BY DEF MayRun, Protected, UsListing
<1> HIDE DEF may
<1>5. next \in UsOrderRecord
  BY <1>2, <1>3 DEF UsOrderRecord
<1>6. /\ next.left = order.left /\ next.kind = order.kind /\ next.failed = order.failed
      /\ next.issues = order.issues /\ next.account = order.account
      /\ next.trusted = (listing.connected # None)
      /\ next.phase = IF may THEN "checked" ELSE "ended"
  BY <1>2 DEF UsOrderRecord
<1> HIDE DEF next
<1>7. order.left = StepsOf(order.kind) /\ order.issues = {} /\ order.failed = {}
  BY DEF UsOrderFits
<1>8. StepsOf(order.kind) \in LeftOf(order.kind) /\ StepsOf(order.kind) # <<>>
  <2>1. <<>> \in LeftOf(order.kind)
    BY DEF LeftOf
  <2> QED
    BY <1>2, <2>1, LeftFacts
<1>9. CASE may
  BY <1>1, <1>4, <1>5, <1>6, <1>7, <1>8, <1>9 DEF UsOrderFits
<1>10. CASE ~may
  BY <1>1, <1>5, <1>6, <1>7, <1>8, <1>10 DEF UsOrderFits
<1> QED
  BY <1>3, <1>9, <1>10

LEMMA OrderedFits ==
    ASSUME NEW kind \in Kinds, NEW a \in Accounts, usVisits \in Nat
    PROVE  UsOrderFits(Ordered(kind, a)) /\ Ordered(kind, a).phase = "asked"
<1>1. PICK v \in Nat : v = usVisits
  OBVIOUS
<1> DEFINE next == [phase |-> "asked", kind |-> kind, account |-> a, visit |-> v,
                    trusted |-> TRUE, left |-> StepsOf(kind), issues |-> {}, failed |-> {}]
<1>2. Ordered(kind, a) = next
  BY <1>1 DEF Ordered
<1>3. StepsOf(kind) \in Seq(UsStep)
  <2>1. <<>> \in LeftOf(kind)
    BY DEF LeftOf
  <2>2. StepsOf(kind) \in LeftOf(kind)
    BY <2>1, LeftFacts
  <2> QED
    BY <2>2, LeftFacts
<1>4. next \in UsOrderRecord
  BY <1>1, <1>3 DEF UsOrderRecord
<1> QED
  BY <1>2, <1>4 DEF UsOrderFits

(***************************************************************************)
(* The steps.                                                              *)
(***************************************************************************)
\* A request of a view that is asked, read or answered.
LEMMA QueriesKeep ==
    ASSUME UsQueriesFit, NEW q \in Query, NEW query, UsQueryFits(query),
           usQuery' = [usQuery EXCEPT ![q] = query]
    PROVE  UsQueriesFit'
BY DEF UsQueriesFit

LEMMA UsAskedFits ==
    ASSUME UsQueriesFit, NEW q \in Query, NEW account \in Accounts \cup {None}, Asks(q, account)
    PROVE  UsQueriesFit'
<1>1. PICK v : v = usVisits'
  OBVIOUS
<1> DEFINE query == [phase |-> "asked", account |-> account, visit |-> v]
<1>2. usQuery' = [usQuery EXCEPT ![q] = query]
  BY <1>1 DEF Asks
<1>3. UsQueryFits(query)
  BY DEF UsQueryFits
<1> HIDE DEF query
<1> QED
  BY <1>2, <1>3, QueriesKeep

LEMMA FreeQueryFits == UsQueryFits(NoQuery)
BY DEF UsQueryFits, NoQuery

\* One action goes on.
LEMMA OrdersKeep ==
    ASSUME UsOrdersFit, NEW o \in Order, NEW order, order.phase = "free" \/ UsOrderFits(order),
           usOrder' = [usOrder EXCEPT ![o] = order]
    PROVE  UsOrdersFit'
BY DEF UsOrdersFit

\* A panel that was told nothing new.
LEMMA UsPanelKeeps ==
    ASSUME UsTellsTheTruth, NEW panel \in UsPanelRecord, usPanel' = panel,
           panel.told \in {usPanel.told, None}
    PROVE  usPanel' \in UsPanelRecord /\ UsTellsTheTruth'
<1>1. usPanel' \in UsPanelRecord
  OBVIOUS
<1>2. usPanel'.told = usPanel.told \/ usPanel'.told = None
  OBVIOUS
<1> QED
  BY <1>1, <1>2 DEF UsTellsTheTruth

LEMMA EmptyPanelFacts ==
    /\ EmptyPanel \in UsPanelRecord /\ EmptyPanel.told = None
    /\ [EmptyPanel EXCEPT !.open = TRUE] \in UsPanelRecord
    /\ [EmptyPanel EXCEPT !.open = TRUE].told = None
BY DEF EmptyPanel, UsPanelRecord

LEMMA UsViewsKeep ==
    ASSUME UsInv, \/ UsOpens \/ UsLeaves \/ UsPolls \/ UsBack \/ UsCancels \/ UsCacheExpires
                  \/ \E a \in Accounts : UsSelects(a)
                  \/ \E kind \in Kinds : UsPicks(kind)
    PROVE  UsInv'
<1> USE DEF UsInv
<1>1. CASE UsOpens
  <2>1. PICK q \in Query : Asks(q, None)
    BY <1>1 DEF UsOpens
  <2>2. UsQueriesFit'
    BY <2>1, UsAskedFits
  <2>3. usPanel' = [EmptyPanel EXCEPT !.open = TRUE]
    BY <1>1 DEF UsOpens
  <2>4. usPanel' \in UsPanelRecord /\ UsTellsTheTruth'
    BY <2>3, EmptyPanelFacts, UsPanelKeeps
  <2>5. usVisits' = usVisits + 1 /\ UNCHANGED <<usCache, usOrder>>
    BY <1>1 DEF UsOpens
  <2> QED
    BY <2>2, <2>4, <2>5 DEF UsOrdersFit
<1>2. CASE UsLeaves
  <2>1. usPanel' = EmptyPanel
    BY <1>2 DEF UsLeaves
  <2>2. usPanel' \in UsPanelRecord /\ UsTellsTheTruth'
    BY <2>1, EmptyPanelFacts, UsPanelKeeps
  <2>3. UNCHANGED <<usCache, usVisits, usQuery, usOrder>>
    BY <1>2 DEF UsLeaves
  <2> QED
    BY <2>2, <2>3 DEF UsQueriesFit, UsOrdersFit
<1>3. CASE UsPolls
  <2>1. PICK q \in Query : Asks(q, None)
    BY <1>3 DEF UsPolls
  <2>2. UsQueriesFit'
    BY <2>1, UsAskedFits
  <2>3. UNCHANGED <<usCache, usVisits, usPanel, usOrder>>
    BY <1>3 DEF UsPolls
  <2> QED
    BY <2>2, <2>3 DEF UsOrdersFit, UsTellsTheTruth
<1>4. CASE UsBack \/ UsCancels
  <2>1. \/ usPanel' = [usPanel EXCEPT !.selected = None, !.detail = None]
        \/ usPanel' = [usPanel EXCEPT !.pending = None]
    BY <1>4 DEF UsBack, UsCancels
  <2>2. PICK panel \in UsPanelRecord : panel = usPanel
    OBVIOUS
  <2> DEFINE back == [panel EXCEPT !.selected = None, !.detail = None]
             left == [panel EXCEPT !.pending = None]
  <2>3. /\ back \in UsPanelRecord /\ back.told = panel.told
        /\ left \in UsPanelRecord /\ left.told = panel.told
    BY DEF UsPanelRecord
  <2>4. usPanel' = back \/ usPanel' = left
    BY <2>1, <2>2
  <2> HIDE DEF back, left
  <2>5. usPanel' \in UsPanelRecord /\ UsTellsTheTruth'
    BY <2>2, <2>3, <2>4, UsPanelKeeps
  <2>6. UNCHANGED <<usCache, usVisits, usQuery, usOrder>>
    BY <1>4 DEF UsBack, UsCancels
  <2> QED
    BY <2>5, <2>6 DEF UsQueriesFit, UsOrdersFit
<1>5. CASE UsCacheExpires
  <2>1. usCache' = None /\ UNCHANGED <<usVisits, usQuery, usOrder, usPanel>>
    BY <1>5 DEF UsCacheExpires
  <2> QED
    BY <2>1 DEF UsQueriesFit, UsOrdersFit, UsTellsTheTruth
<1>6. CASE \E a \in Accounts : UsSelects(a)
  <2>1. PICK a \in Accounts : UsSelects(a)
    BY <1>6
  <2>2. PICK q \in Query : Asks(q, a)
    BY <2>1 DEF UsSelects
  <2>3. UsQueriesFit'
    BY <2>2, UsAskedFits
  <2>4. PICK panel \in UsPanelRecord : panel = usPanel
    OBVIOUS
  <2> DEFINE next == [panel EXCEPT !.selected = a]
  <2>5. next \in UsPanelRecord /\ next.told = panel.told
    BY DEF UsPanelRecord
  <2>6. usPanel' = next
    BY <2>1, <2>4 DEF UsSelects
  <2> HIDE DEF next
  <2>7. usPanel' \in UsPanelRecord /\ UsTellsTheTruth'
    BY <2>4, <2>5, <2>6, UsPanelKeeps
  <2>8. UNCHANGED <<usCache, usVisits, usOrder>>
    BY <2>1 DEF UsSelects
  <2> QED
    BY <2>3, <2>7, <2>8 DEF UsOrdersFit
<1>7. CASE \E kind \in Kinds : UsPicks(kind)
  <2>1. PICK kind \in Kinds : UsPicks(kind)
    BY <1>7
  <2>2. PICK panel \in UsPanelRecord : panel = usPanel
    OBVIOUS
  <2> DEFINE next == [panel EXCEPT !.pending = kind]
  <2>3. next \in UsPanelRecord /\ next.told = panel.told
    BY DEF UsPanelRecord
  <2>4. usPanel' = next
    BY <2>1, <2>2 DEF UsPicks
  <2> HIDE DEF next
  <2>5. usPanel' \in UsPanelRecord /\ UsTellsTheTruth'
    BY <2>2, <2>3, <2>4, UsPanelKeeps
  <2>6. UNCHANGED <<usCache, usVisits, usQuery, usOrder>>
    BY <2>1 DEF UsPicks
  <2> QED
    BY <2>5, <2>6 DEF UsQueriesFit, UsOrdersFit
<1> QED
  BY <1>1, <1>2, <1>3, <1>4, <1>5, <1>6, <1>7

LEMMA UsQueriesStep ==
    ASSUME UsInv, NEW q \in Query, UsQueryReads(q) \/ UsAnswers(q) \/ UsQueryFails(q)
    PROVE  UsInv'
<1> USE DEF UsInv
<1>1. CASE UsQueryReads(q)
  <2>1. PICK listing \in Listings :
            /\ usQuery[q].phase = "asked" /\ Discovers(listing)
            /\ usQuery' = [usQuery EXCEPT ![q] = Read(usQuery[q], listing)]
    BY <1>1 DEF UsQueryReads
  <2>2. listing \in UsListing /\ usCache' \in UsListing \cup {None}
    BY <2>1, DiscoveredFacts
  <2>3. UsQueryFits(usQuery[q]) /\ usQuery[q].account \in Accounts \cup {None}
    BY <2>1 DEF UsQueriesFit, UsQueryFits
  <2>4. PICK query : query = usQuery[q]
    OBVIOUS
  <2>5. PICK what \in UsListing : what = listing
    BY <2>2
  <2>6. UsQueryFits(Read(query, what))
    BY <2>3, <2>4 DEF Read, UsQueryFits
  <2>7. usQuery' = [usQuery EXCEPT ![q] = Read(query, what)]
    BY <2>1, <2>4, <2>5
  <2>8. UsQueriesFit'
    BY <2>6, <2>7, QueriesKeep
  <2>9. UNCHANGED <<usVisits, usPanel, usOrder>>
    BY <1>1 DEF UsQueryReads
  <2> QED
    BY <2>2, <2>8, <2>9 DEF UsOrdersFit, UsTellsTheTruth
<1>2. CASE UsAnswers(q) \/ UsQueryFails(q)
  <2>1. usQuery' = [usQuery EXCEPT ![q] = NoQuery] /\ UNCHANGED <<usCache, usVisits, usOrder>>
    BY <1>2 DEF UsAnswers, UsQueryFails
  <2>2. UsQueriesFit'
    BY <2>1, FreeQueryFits, QueriesKeep
  <2>3. PICK panel \in UsPanelRecord : panel = usPanel
    OBVIOUS
  <2>4. PICK query : query = usQuery[q]
    OBVIOUS
  <2>5. UsQueryFits(query)
    BY <2>4 DEF UsQueriesFit
  <2> DEFINE listed == [panel EXCEPT !.listing = query.listing]
             detailed == [panel EXCEPT !.detail = Detail(query.listing, query.account)]
             without == [panel EXCEPT !.detail = None]
  <2>6. \/ usPanel' = panel \/ usPanel' = without
        \/ query.phase = "read"
           /\ (usPanel' = listed \/ (query.account # None /\ usPanel' = detailed))
    BY <1>2, <2>3, <2>4 DEF UsAnswers, UsQueryFails
  <2>7. without \in UsPanelRecord /\ without.told = panel.told
    BY DEF UsPanelRecord
  <2>8. query.phase = "read" => listed \in UsPanelRecord /\ listed.told = panel.told
    BY <2>5 DEF UsPanelRecord, UsQueryFits
  <2>9. query.phase = "read" /\ query.account # None =>
            Detail(query.listing, query.account) \in UsDetailRecord \cup {None}
    BY <2>5 DEF Detail, UsQueryFits, UsDetailRecord, Protected, UsListing
  <2>10. query.phase = "read" /\ query.account # None =>
            detailed \in UsPanelRecord /\ detailed.told = panel.told
    BY <2>9 DEF UsPanelRecord
  <2> HIDE DEF listed, detailed, without
  <2>11. usPanel' \in UsPanelRecord /\ UsTellsTheTruth'
    BY <2>3, <2>6, <2>7, <2>8, <2>10, UsPanelKeeps
  <2> QED
    BY <2>1, <2>2, <2>11 DEF UsOrdersFit
<1> QED
  BY <1>1, <1>2

LEMMA UsConfirmsKeeps ==
    ASSUME UsInv, NEW a \in Accounts, UsConfirms(a)
    PROVE  UsInv'
<1> USE DEF UsInv
<1>1. PICK o \in Order : usOrder' = [usOrder EXCEPT ![o] = Ordered(usPanel.pending, a)]
  BY DEF UsConfirms
<1>2. PICK kind \in Kinds : kind = usPanel.pending
  BY DEF UsConfirms, UsPanelRecord
<1>3. UsOrderFits(Ordered(kind, a))
  BY OrderedFits
<1>4. PICK order : order = Ordered(kind, a)
  OBVIOUS
<1>5. UsOrdersFit'
  BY <1>1, <1>2, <1>3, <1>4, OrdersKeep
<1>6. PICK panel \in UsPanelRecord : panel = usPanel
  OBVIOUS
<1> DEFINE next == [panel EXCEPT !.submitting = TRUE, !.told = None]
<1>7. next \in UsPanelRecord /\ next.told = None
  BY DEF UsPanelRecord
<1>8. usPanel' = next
  BY <1>6 DEF UsConfirms
<1> HIDE DEF next
<1>9. usPanel' \in UsPanelRecord /\ UsTellsTheTruth'
  BY <1>7, <1>8, UsPanelKeeps
<1>10. UNCHANGED <<usCache, usVisits, usQuery>>
  BY DEF UsConfirms
<1> QED
  BY <1>5, <1>9, <1>10 DEF UsQueriesFit

LEMMA UsChecksKeeps ==
    ASSUME UsInv, NEW o \in Order, UsChecks(o)
    PROVE  UsInv'
<1> USE DEF UsInv
<1>1. PICK listing \in Listings :
          /\ usOrder[o].phase = "asked" /\ Discovers(listing)
          /\ usOrder' = [usOrder EXCEPT ![o] = Checked(usOrder[o], listing)]
  BY DEF UsChecks
<1>2. listing \in UsListing /\ usCache' \in UsListing \cup {None}
  BY <1>1, DiscoveredFacts
<1>3. UsOrderFits(usOrder[o])
  BY <1>1 DEF UsOrdersFit
<1>4. PICK order : order = Checked(usOrder[o], listing)
  OBVIOUS
<1>5. UsOrderFits(order)
  BY <1>1, <1>2, <1>3, <1>4, CheckedFits
<1>6. UsOrdersFit'
  BY <1>1, <1>4, <1>5, OrdersKeep
<1>7. UNCHANGED <<usVisits, usPanel, usQuery>>
  BY DEF UsChecks
<1> QED
  BY <1>2, <1>6, <1>7 DEF UsQueriesFit, UsTellsTheTruth

LEMMA UsRunsKeeps ==
    ASSUME UsInv, NEW o \in Order, UsRuns(o)
    PROVE  UsInv'
<1> USE DEF UsInv
<1>1. PICK reported \in BOOLEAN :
          usOrder' = [usOrder EXCEPT ![o] = GoesOn(usOrder[o], reported)]
  BY DEF UsRuns
<1>2. usOrder[o].phase = "checked" /\ usOrder[o].left # <<>>
  BY DEF UsRuns
<1>3. UsOrderFits(usOrder[o])
  BY <1>2 DEF UsOrdersFit
<1>4. PICK order : order = GoesOn(usOrder[o], reported)
  OBVIOUS
<1>5. UsOrderFits(order)
  BY <1>2, <1>3, <1>4, GoesOnFits
<1>6. UsOrdersFit'
  BY <1>1, <1>4, <1>5, OrdersKeep
<1>7. usCache' \in {None, Listed(usServer, FALSE), usCache}
  BY DEF UsRuns
<1>8. usCache' \in UsListing \cup {None}
  BY <1>7, ListedFacts
<1>9. UNCHANGED <<usVisits, usPanel, usQuery>>
  BY DEF UsRuns
<1> QED
  BY <1>6, <1>8, <1>9 DEF UsQueriesFit, UsTellsTheTruth

LEMMA UsToldKeeps ==
    ASSUME UsInv, NEW o \in Order, UsTold(o)
    PROVE  UsInv'
<1> USE DEF UsInv
<1>1. PICK order : order = usOrder[o]
  OBVIOUS
<1>2. UsOrderFits(order)
      /\ (order.phase = "ended" \/ (order.phase = "checked" /\ order.left = <<>>))
  BY <1>1 DEF UsTold, UsOrdersFit
<1>3. PICK result \in {"done", "partly", "failed"} :
          result = IF Succeeded(order) THEN "done"
                   ELSE IF PartlyCreated(order) THEN "partly" ELSE "failed"
  OBVIOUS
<1> DEFINE told == [kind |-> order.kind, result |-> result, failed |-> order.failed,
                    left |-> order.left]
<1>4. told \in UsToldRecord
  BY <1>2, <1>3 DEF UsOrderFits, UsOrderRecord, UsToldRecord
<1>5. /\ result = "done" => order.failed = {} /\ order.left = <<>>
      /\ result = "partly" => order.kind = "create" /\ "useradd" \notin order.failed
      /\ result = "failed" =>
             order.left # <<>> /\ (order.kind = "create" => order.failed \subseteq {"useradd"})
  BY <1>2, <1>3 DEF Succeeded, PartlyCreated, UsOrderFits
<1>6. usOrder' = [usOrder EXCEPT ![o] = NoOrder] /\ NoOrder.phase = "free"
  BY DEF UsTold, NoOrder
<1>7. UsOrdersFit'
  BY <1>6, OrdersKeep
<1>8. usCache' \in UsListing \cup {None}
  BY DEF UsTold
<1>9. UNCHANGED usVisits /\ (UNCHANGED usQuery \/ \E q \in Query : Asks(q, None))
  BY DEF UsTold
<1>10. UsQueriesFit'
  <2>1. CASE UNCHANGED usQuery
    BY <2>1 DEF UsQueriesFit
  <2>2. CASE \E q \in Query : Asks(q, None)
    BY <2>2, UsAskedFits
  <2> QED
    BY <1>9, <2>1, <2>2
<1>11. PICK panel \in UsPanelRecord : panel = usPanel
  OBVIOUS
<1>12. PICK said \in UsToldRecord : said = told
  BY <1>4
<1>17. PICK pending : pending = IF result = "failed" THEN panel.pending ELSE None
  OBVIOUS
<1>18. PICK selected : selected = IF order.kind = "delete" THEN None ELSE panel.selected
  OBVIOUS
<1>19. PICK detail : detail = IF order.kind = "delete" THEN None ELSE panel.detail
  OBVIOUS
<1>20. /\ pending \in Kinds \cup {None} /\ selected \in Accounts \cup {None}
       /\ detail \in UsDetailRecord \cup {None}
  BY ONLY <1>11, <1>17, <1>18, <1>19 DEF UsPanelRecord
<1> DEFINE next == [panel EXCEPT !.submitting = FALSE, !.told = said, !.pending = pending,
                                 !.selected = selected, !.detail = detail]
<1>13. usPanel' = panel \/ usPanel' = next
  BY <1>1, <1>3, <1>11, <1>12, <1>17, <1>18, <1>19 DEF UsTold
<1>14. next \in UsPanelRecord /\ next.told = said
  BY ONLY <1>11, <1>12, <1>20 DEF UsPanelRecord
<1>15. /\ said.result = result /\ said.failed = order.failed /\ said.left = order.left
       /\ said.kind = order.kind
  BY <1>12
<1> HIDE DEF next, told
<1>16. usPanel' \in UsPanelRecord /\ UsTellsTheTruth'
  <2>1. CASE usPanel' = panel
    BY <1>11, <2>1 DEF UsTellsTheTruth
  <2>2. CASE usPanel' = next
    <3>1. usPanel'.told = said
      BY <1>14, <2>2
    <3>2. UsTellsTheTruth'
      BY <1>5, <1>15, <3>1 DEF UsTellsTheTruth
    <3> QED
      BY <1>14, <2>2, <3>2
  <2> QED
    BY <1>13, <2>1, <2>2
<1> QED
  BY <1>7, <1>8, <1>9, <1>10, <1>16

LEMMA UsStepInv ==
    ASSUME UsInv, [UsNext]_usVars
    PROVE  UsInv'
<1>1. CASE UsNext
  BY <1>1, UsViewsKeep, UsQueriesStep, UsConfirmsKeeps, UsChecksKeeps, UsRunsKeeps, UsToldKeeps
     DEF UsNext
<1>2. CASE UNCHANGED usVars
  BY <1>2 DEF usVars, UsInv, UsQueriesFit, UsOrdersFit, UsTellsTheTruth
<1> QED
  BY <1>1, <1>2


(***************************************************************************)
(* Schedules.                                                              *)
(***************************************************************************)
CdBound == [value : Nat, aliases : {0, 4, 5}]
CdPart == [range : Seq(CdBound), step : Seq(Nat)]
CdField == Seq(CdPart) \ {<<>>}
CdNamed == [value |-> 5, aliases |-> 4]

\* A name of a month or a day stands for a number that its field has.
CdBoundFits(bound) == bound.aliases # 0 => bound.value = 5
CdFieldFits(field) ==
    /\ field \in CdField
    /\ \A n \in DOMAIN field : \A m \in DOMAIN field[n].range : CdBoundFits(field[n].range[m])

\* An expression is a word or five fields that fit.
CdRawFits(raw) ==
    /\ raw.special = "none" => /\ Len(raw.fields) = 5 /\ DOMAIN raw.fields = 1..5
                           /\ raw.fields = [i \in 1..5 |-> raw.fields[i]]
                           /\ \A i \in 1..5 : CdFieldFits(raw.fields[i])
    /\ raw.special # "none" => raw.fields = <<>>

CdBuilderRecord ==
    [preset : Presets, interval : Nat, minute : Nat, hour : Nat, weekday : Nat, dayOfMonth : Nat]

CdInv ==
    /\ cdBuilder \in CdBuilderRecord /\ CdRawFits(cdRaw)
    /\ cdBuilder.preset # "custom" => cdRaw = BuildExpression(cdBuilder) /\ ValidExpression(cdRaw)

(***************************************************************************)
(* What a field that fits runs at.                                         *)
(***************************************************************************)
LEMMA SpecFacts ==
    ASSUME NEW i \in 1..5
    PROVE  /\ FIELD_SPECS[i].min \in Nat /\ FIELD_SPECS[i].max \in Nat
           /\ FIELD_SPECS[i].min <= FIELD_SPECS[i].max /\ FIELD_SPECS[i].min <= 1
           /\ i \in {4, 5} => FIELD_SPECS[i].min <= 5 /\ 5 <= FIELD_SPECS[i].max
           /\ All(i) = FIELD_SPECS[i].min..FIELD_SPECS[i].max
BY DEF FIELD_SPECS, All

\* Every number is a multiple of one, and none is one of every number.
LEMMA Multiples == \A n \in Nat : n % 1 = 0 /\ (n # 0 => 0 % n = 0)
OBVIOUS

\* The values of one part.
FieldFrom(part, i) == IF part.range = <<>> THEN FIELD_SPECS[i].min ELSE part.range[1].value
To(part, i) ==
    IF part.range = <<>> THEN FIELD_SPECS[i].max ELSE part.range[Len(part.range)].value
StepIs(part) == IF part.step = <<>> THEN 1 ELSE part.step[1]
PartValues(part, i) ==
    {v \in FieldFrom(part, i)..To(part, i) : (v - FieldFrom(part, i)) % StepIs(part) = 0}

LEMMA ValuesFacts ==
    ASSUME NEW field, NEW i
    PROVE  Values(field, i) = UNION {PartValues(part, i) : part \in Range(field)}
BY DEF Values, PartValues, FieldFrom, To, StepIs

LEMMA PartFacts ==
    ASSUME NEW i \in 1..5, NEW part \in CdPart, IsValidFieldPart(part, i),
           \A m \in DOMAIN part.range : CdBoundFits(part.range[m])
    PROVE  /\ FieldFrom(part, i) \in All(i) /\ To(part, i) \in All(i)
              /\ FieldFrom(part, i) <= To(part, i)
           /\ StepIs(part) \in Nat \ {0}
           /\ FieldFrom(part, i) \in PartValues(part, i) /\ PartValues(part, i) \subseteq All(i)
<1>1. /\ FIELD_SPECS[i].min \in Nat /\ FIELD_SPECS[i].max \in Nat
      /\ FIELD_SPECS[i].min <= FIELD_SPECS[i].max
      /\ All(i) = FIELD_SPECS[i].min..FIELD_SPECS[i].max
  BY SpecFacts
<1>2. part.range \in Seq(CdBound) /\ part.step \in Seq(Nat)
  BY DEF CdPart
<1>3. \A m \in DOMAIN part.range : part.range[m].value \in All(i)
  <2> SUFFICES ASSUME NEW m \in DOMAIN part.range PROVE part.range[m].value \in All(i)
    OBVIOUS
  <2>1. PICK bound \in CdBound : bound = part.range[m]
    BY <1>2
  <2>2. ResolvesField(bound, i)
    BY <2>1 DEF IsValidFieldPart, Range
  <2>3. CdBoundFits(bound)
    BY <2>1
  <2>4. CASE bound.aliases = 0
    BY <2>1, <2>2, <2>4, <1>1 DEF ResolvesField
  <2>5. CASE bound.aliases # 0
    <3>1. bound.value = 5 /\ i \in {4, 5}
      BY <2>2, <2>3, <2>5 DEF ResolvesField, CdBoundFits
    <3>2. /\ FIELD_SPECS[i].min \in Nat /\ FIELD_SPECS[i].max \in Nat
          /\ FIELD_SPECS[i].min <= 5 /\ 5 <= FIELD_SPECS[i].max
          /\ All(i) = FIELD_SPECS[i].min..FIELD_SPECS[i].max
      BY <3>1, SpecFacts
    <3>3. 5 \in All(i)
      BY ONLY <3>2
    <3> QED
      BY <2>1, <3>1, <3>3
  <2> QED
    BY <2>4, <2>5
<1>4. StepIs(part) \in Nat \ {0}
  <2>1. CASE part.step = <<>>
    BY <2>1 DEF StepIs
  <2>2. CASE part.step # <<>>
    <3>1. 1 \in DOMAIN part.step
      BY <1>2, <2>2
    <3>2. part.step[1] \in 1..FIELD_SPECS[i].max
      BY <3>1 DEF IsValidFieldPart, Range
    <3> QED
      BY <1>1, <2>2, <3>2 DEF StepIs
  <2> QED
    BY <2>1, <2>2
<1>5. /\ FieldFrom(part, i) \in All(i) /\ To(part, i) \in All(i)
         /\ FieldFrom(part, i) <= To(part, i)
  <2>1. CASE part.range = <<>>
    BY <1>1, <2>1 DEF FieldFrom, To
  <2>2. CASE part.range # <<>>
    <3>1. /\ Len(part.range) \in 1..2 /\ 1 \in DOMAIN part.range
          /\ Len(part.range) \in DOMAIN part.range
      <4>1. PICK n : n = Len(part.range)
        OBVIOUS
      <4>2. n \in Nat /\ n # 0
        BY <1>2, <2>2, <4>1
      <4>3. n <= 2
        BY <4>1 DEF IsValidFieldPart
      <4>4. n \in 1..2 /\ 1 \in 1..n /\ n \in 1..n
        BY ONLY <4>2, <4>3
      <4>5. DOMAIN part.range = 1..n
        BY <1>2, <4>1
      <4> QED
        BY ONLY <4>1, <4>4, <4>5
    <3>2. FieldFrom(part, i) = part.range[1].value
          /\ To(part, i) = part.range[Len(part.range)].value
      BY <2>2 DEF FieldFrom, To
    <3>3. FieldFrom(part, i) \in All(i) /\ To(part, i) \in All(i)
      BY <1>3, <3>1, <3>2
    <3>4. FieldFrom(part, i) <= To(part, i)
      <4>1. CASE Len(part.range) = 1
        <5>1. FieldFrom(part, i) = To(part, i) /\ FieldFrom(part, i) \in Nat
          BY <1>1, <3>2, <3>3, <4>1
        <5> QED
          BY ONLY <5>1
      <4>2. CASE Len(part.range) = 2
        BY <3>2, <4>2 DEF IsValidFieldPart
      <4> QED
        BY ONLY <3>1, <4>1, <4>2
    <3> QED
      BY <3>3, <3>4
  <2> QED
    BY <2>1, <2>2
<1>6. FieldFrom(part, i) \in PartValues(part, i)
  <2>1. PICK from \in Nat : from = FieldFrom(part, i)
    BY <1>1, <1>5
  <2>2. from - from = 0 /\ 0 % StepIs(part) = 0
    BY <1>4, <2>1, Multiples
  <2>3. from \in from..To(part, i)
    BY <1>1, <1>5, <2>1
  <2> QED
    BY <2>1, <2>2, <2>3 DEF PartValues
<1>7. PartValues(part, i) \subseteq All(i)
  BY <1>1, <1>5 DEF PartValues
<1> QED
  BY <1>4, <1>5, <1>6, <1>7

LEMMA FieldFacts ==
    ASSUME NEW i \in 1..5, NEW field, CdFieldFits(field),
           \A part \in Range(field) : IsValidFieldPart(part, i)
    PROVE  Values(field, i) # {} /\ Values(field, i) \subseteq All(i)
<1>1. field \in Seq(CdPart) /\ field # <<>>
  BY DEF CdFieldFits, CdField
<1>2. 1 \in DOMAIN field
  BY <1>1
<1>3. \A part \in Range(field) :
          PartValues(part, i) # {} /\ PartValues(part, i) \subseteq All(i)
  <2> SUFFICES ASSUME NEW n \in DOMAIN field
               PROVE  PartValues(field[n], i) # {} /\ PartValues(field[n], i) \subseteq All(i)
    BY DEF Range
  <2>1. PICK part \in CdPart : part = field[n]
    BY <1>1
  <2>2. IsValidFieldPart(part, i) /\ \A m \in DOMAIN part.range : CdBoundFits(part.range[m])
    BY <2>1 DEF CdFieldFits, Range
  <2> QED
    BY <2>1, <2>2, PartFacts
<1>4. field[1] \in Range(field)
  BY <1>2 DEF Range
<1> QED
  BY <1>3, <1>4, ValuesFacts

\* One part alone.
LEMMA OnePartFacts ==
    ASSUME NEW field, NEW i, Len(field) = 1, NEW S, field \in Seq(S)
    PROVE  Values(field, i) = PartValues(field[1], i) /\ field[1] \in Range(field)
<1>1. Range(field) = {field[1]}
  <2>1. DOMAIN field = {1}
    OBVIOUS
  <2> QED
    BY <2>1 DEF Range
<1> QED
  BY <1>1, ValuesFacts

\* A number is the only value of its field.
LEMMA NumericFacts ==
    ASSUME NEW i \in 1..5, NEW field, CdFieldFits(field), IsNumeric(field),
           \A part \in Range(field) : IsValidFieldPart(part, i)
    PROVE  Values(field, i) = {NumberOf(field)}
<1>1. field \in Seq(CdPart) /\ Len(field) = 1
  BY DEF CdFieldFits, CdField, IsNumeric
<1>2. PICK part \in CdPart : part = field[1]
  BY <1>1
<1>3. /\ Values(field, i) = PartValues(part, i) /\ IsValidFieldPart(part, i)
      /\ part.step = <<>> /\ Len(part.range) = 1 /\ NumberOf(field) = part.range[1].value
  BY <1>1, <1>2, OnePartFacts DEF IsNumeric, NumberOf
<1>4. \A m \in DOMAIN part.range : CdBoundFits(part.range[m])
  BY <1>1, <1>2 DEF CdFieldFits
<1>5. part.range # <<>>
  BY <1>3
<1>6. FieldFrom(part, i) = NumberOf(field) /\ To(part, i) = NumberOf(field)
  BY <1>3, <1>5 DEF FieldFrom, To
<1>7. FieldFrom(part, i) \in All(i) /\ All(i) \subseteq Nat
      /\ FieldFrom(part, i) \in PartValues(part, i)
  <2>1. FieldFrom(part, i) \in All(i) /\ FieldFrom(part, i) \in PartValues(part, i)
    BY <1>3, <1>4, PartFacts
  <2>2. All(i) = FIELD_SPECS[i].min..FIELD_SPECS[i].max /\ FIELD_SPECS[i].min \in Nat
    BY SpecFacts
  <2>3. All(i) \subseteq Nat
    BY ONLY <2>2
  <2> QED
    BY <2>1, <2>3
<1>8. PICK n \in Nat : n = NumberOf(field)
  BY <1>6, <1>7
<1>9. PartValues(part, i) \subseteq n..n
  BY <1>6, <1>8 DEF PartValues
<1>10. n..n = {n}
  BY <1>8
<1> QED
  BY <1>3, <1>6, <1>7, <1>8, <1>9, <1>10

\* An asterisk stands for every value.
LEMMA EveryFacts ==
    ASSUME NEW i \in 1..5
    PROVE  Values(Every, i) = All(i)
<1> DEFINE part == Part(<<>>, <<>>)
<1>1. Every = <<part>>
  BY DEF Every
<1>2. Range(<<part>>) = {part}
  BY DEF Range
<1>3. part.range = <<>> /\ part.step = <<>>
  BY DEF Part
<1> HIDE DEF part
<1>4. Values(Every, i) = PartValues(part, i)
  BY <1>1, <1>2, ValuesFacts
<1>5. /\ FieldFrom(part, i) = FIELD_SPECS[i].min /\ To(part, i) = FIELD_SPECS[i].max
      /\ StepIs(part) = 1
  BY <1>3 DEF FieldFrom, To, StepIs
<1>6. PICK min \in Nat, max \in Nat : min = FIELD_SPECS[i].min /\ max = FIELD_SPECS[i].max
  BY SpecFacts
<1>7. \A v \in min..max : (v - min) % 1 = 0
  <2> SUFFICES ASSUME NEW v \in min..max PROVE (v - min) % 1 = 0
    OBVIOUS
  <2>1. v - min \in Nat
    BY <1>6
  <2> QED
    BY <2>1, Multiples
<1> QED
  BY <1>4, <1>5, <1>6, <1>7, SpecFacts DEF PartValues

\* A step alone stands for its multiples, in a field that starts at zero.
LEMMA CdStepFacts ==
    ASSUME NEW i \in {1, 2}, NEW field, CdFieldFits(field), IsStep(field)
    PROVE  Values(field, i) = {v \in All(i) : v % StepOf(field) = 0}
<1>1. field \in Seq(CdPart) /\ Len(field) = 1
  BY DEF CdFieldFits, CdField, IsStep
<1>2. PICK part \in CdPart : part = field[1]
  BY <1>1
<1>3. Values(field, i) = PartValues(part, i)
  BY <1>1, <1>2, OnePartFacts
<1>4. part.range = <<>> /\ part.step # <<>> /\ StepOf(field) = part.step[1]
  <2>1. part.range = <<>> /\ Len(part.step) = 1 /\ StepOf(field) = part.step[1]
    BY <1>2 DEF IsStep, StepOf
  <2>2. part.step # <<>>
    BY <2>1
  <2> QED
    BY <2>1, <2>2
<1>5. FieldFrom(part, i) = 0 /\ To(part, i) = FIELD_SPECS[i].max /\ StepIs(part) = StepOf(field)
  BY <1>4 DEF FieldFrom, To, StepIs, FIELD_SPECS
<1>6. All(i) = 0..FIELD_SPECS[i].max /\ FIELD_SPECS[i].max \in Nat
  BY DEF All, FIELD_SPECS
<1>7. PartValues(part, i) = {v \in All(i) : (v - 0) % StepOf(field) = 0}
  BY <1>5, <1>6 DEF PartValues
<1>8. \A v \in All(i) : v - 0 = v
  BY <1>6
<1> QED
  BY <1>3, <1>7, <1>8

\* What a description in words tells of is when the expression runs.
LEMMA DescribedFacts ==
    ASSUME NEW raw, \A k \in 1..5 : CdFieldFits(raw.fields[k]),
           \A k \in 1..5 : \A part \in Range(raw.fields[k]) : IsValidFieldPart(part, k),
           InWords(DescribeFields(raw)), NEW i \in 1..5
    PROVE  Told(DescribeFields(raw))[i] = Values(raw.fields[i], i)
<1>1. PICK f : f = raw.fields
  OBVIOUS
<1> DEFINE everyDay == f[3] = Every /\ f[4] = Every /\ f[5] = Every
           atTime == IsNumeric(f[1]) /\ IsNumeric(f[2])
           said == DescribeFields(raw)
<1>2. /\ \A k \in 1..5 : CdFieldFits(f[k])
      /\ \A k \in 1..5 : \A part \in Range(f[k]) : IsValidFieldPart(part, k)
  BY <1>1
<1>3. \A k \in 1..5 : IsNumeric(f[k]) => Values(f[k], k) = {NumberOf(f[k])}
  BY <1>2, NumericFacts
<1>4. \A k \in {1, 2} : IsStep(f[k]) => Values(f[k], k) = {v \in All(k) : v % StepOf(f[k]) = 0}
  <2> SUFFICES ASSUME NEW k \in {1, 2}, IsStep(f[k])
               PROVE  Values(f[k], k) = {v \in All(k) : v % StepOf(f[k]) = 0}
    OBVIOUS
  <2>1. k \in 1..5
    OBVIOUS
  <2>2. CdFieldFits(f[k])
    BY ONLY <1>2, <2>1
  <2> QED
    BY <2>2, CdStepFacts
<1>5. \A k \in 1..5 : f[k] = Every => Values(f[k], k) = All(k)
  BY EveryFacts
<1>6. \A k \in {1, 2} : All(k) = {v \in All(k) : v % 1 = 0}
  <2>1. All(1) = 0..59 /\ All(2) = 0..23
    BY DEF All, FIELD_SPECS
  <2>2. \A k \in {1, 2} : \A v \in All(k) : v \in Nat
    BY <2>1
  <2>3. \A k \in {1, 2} : \A v \in All(k) : v % 1 = 0
    BY ONLY <2>2, Multiples
  <2> QED
    BY <2>3, Zenon
<1>7. \/ everyDay /\ f[1] = Every /\ f[2] = Every /\ said = Says("minutes", 1)
      \/ everyDay /\ IsStep(f[1]) /\ f[2] = Every /\ said = Says("minutes", StepOf(f[1]))
      \/ /\ everyDay /\ IsNumeric(f[1]) /\ IsStep(f[2])
         /\ said = Says("hours", <<StepOf(f[2]), NumberOf(f[1])>>)
      \/ /\ everyDay /\ IsNumeric(f[1]) /\ f[2] = Every
         /\ said = Says("hours", <<1, NumberOf(f[1])>>)
      \/ everyDay /\ atTime /\ said = Says("day", <<NumberOf(f[2]), NumberOf(f[1])>>)
      \/ /\ atTime /\ f[3] = Every /\ f[4] = Every
         /\ said = Says("week", <<NumberOf(f[2]), NumberOf(f[1]), f[5]>>)
      \/ /\ atTime /\ f[4] = Every /\ f[5] = Every /\ IsNumeric(f[3])
         /\ said = Says("month", <<NumberOf(f[2]), NumberOf(f[1]), NumberOf(f[3])>>)
      \/ /\ atTime /\ f[5] = Every /\ IsNumeric(f[3]) /\ IsNumeric(f[4])
         /\ said = Says("year", <<NumberOf(f[2]), NumberOf(f[1]), NumberOf(f[3]),
                                  NumberOf(f[4])>>)
  <2>1. said.kind # "raw"
    BY DEF InWords
  <2>2. Says("raw", raw).kind = "raw"
    BY DEF Says
  <2>3. said = CASE everyDay /\ f[1] = Every /\ f[2] = Every -> Says("minutes", 1)
                [] everyDay /\ IsStep(f[1]) /\ f[2] = Every ->
                       Says("minutes", StepOf(f[1]))
                [] everyDay /\ IsNumeric(f[1]) /\ IsStep(f[2]) ->
                       Says("hours", <<StepOf(f[2]), NumberOf(f[1])>>)
                [] everyDay /\ IsNumeric(f[1]) /\ f[2] = Every ->
                       Says("hours", <<1, NumberOf(f[1])>>)
                [] everyDay /\ atTime ->
                       Says("day", <<NumberOf(f[2]), NumberOf(f[1])>>)
                [] atTime /\ f[3] = Every /\ f[4] = Every /\ DayParts(f[5]) ->
                       Says("week", <<NumberOf(f[2]), NumberOf(f[1]), f[5]>>)
                [] atTime /\ f[4] = Every /\ f[5] = Every /\ IsNumeric(f[3]) ->
                       Says("month", <<NumberOf(f[2]), NumberOf(f[1]), NumberOf(f[3])>>)
                [] atTime /\ f[5] = Every /\ IsNumeric(f[3]) /\ IsNumeric(f[4]) ->
                       Says("year", <<NumberOf(f[2]), NumberOf(f[1]), NumberOf(f[3]),
                            NumberOf(f[4])>>)
                [] OTHER -> Says("raw", raw)
    BY ONLY <1>1, Zenon DEF DescribeFields, said, everyDay, atTime
  <2> HIDE DEF said, everyDay, atTime
  <2> QED
    BY ONLY <2>1, <2>2, <2>3
<1> HIDE DEF said
<1>8. said = DescribeFields(raw)
  BY DEF said
<1> HIDE DEF everyDay, atTime
<1>9. everyDay <=> f[3] = Every /\ f[4] = Every /\ f[5] = Every
  BY DEF everyDay
<1>10. atTime <=> IsNumeric(f[1]) /\ IsNumeric(f[2])
  BY DEF atTime
<1>11. Told(said)[i] = Values(f[i], i)
  <2>1. CASE everyDay /\ f[1] = Every /\ f[2] = Every /\ said = Says("minutes", 1)
    <3>1. Told(said) = <<{m \in All(1) : m % 1 = 0}, All(2), All(3), All(4), All(5)>>
      BY <2>1 DEF Told, Says
    <3>2. Told(said) = <<All(1), All(2), All(3), All(4), All(5)>>
      BY ONLY <1>6, <3>1
    <3> QED
      BY ONLY <1>5, <1>9, <2>1, <3>2, i \in 1..5
  <2>2. CASE everyDay /\ IsStep(f[1]) /\ f[2] = Every /\ said = Says("minutes", StepOf(f[1]))
    <3>1. Told(said) = <<{m \in All(1) : m % StepOf(f[1]) = 0}, All(2), All(3), All(4), All(5)>>
      BY <2>2 DEF Told, Says
    <3>2. Told(said) = <<Values(f[1], 1), All(2), All(3), All(4), All(5)>>
      BY ONLY <1>4, <2>2, <3>1
    <3> QED
      BY ONLY <1>5, <1>9, <2>2, <3>2, i \in 1..5
  <2>3. CASE /\ everyDay /\ IsNumeric(f[1]) /\ IsStep(f[2])
             /\ said = Says("hours", <<StepOf(f[2]), NumberOf(f[1])>>)
    <3>1. Told(said) = <<{NumberOf(f[1])}, {h \in All(2) : h % StepOf(f[2]) = 0},
                         All(3), All(4), All(5)>>
      BY <2>3 DEF Told, Says
    <3>2. Told(said) = <<Values(f[1], 1), Values(f[2], 2), All(3), All(4), All(5)>>
      BY ONLY <1>3, <1>4, <2>3, <3>1
    <3> QED
      BY ONLY <1>5, <1>9, <2>3, <3>2, i \in 1..5
  <2>4. CASE /\ everyDay /\ IsNumeric(f[1]) /\ f[2] = Every
             /\ said = Says("hours", <<1, NumberOf(f[1])>>)
    <3>1. Told(said) = <<{NumberOf(f[1])}, {h \in All(2) : h % 1 = 0}, All(3), All(4), All(5)>>
      BY <2>4 DEF Told, Says
    <3>2. Told(said) = <<Values(f[1], 1), All(2), All(3), All(4), All(5)>>
      BY ONLY <1>3, <1>6, <2>4, <3>1
    <3> QED
      BY ONLY <1>5, <1>9, <2>4, <3>2, i \in 1..5
  <2>5. CASE everyDay /\ atTime /\ said = Says("day", <<NumberOf(f[2]), NumberOf(f[1])>>)
    <3>1. Told(said) = <<{NumberOf(f[1])}, {NumberOf(f[2])}, All(3), All(4), All(5)>>
      BY <2>5 DEF Told, Says
    <3>2. Told(said) = <<Values(f[1], 1), Values(f[2], 2), All(3), All(4), All(5)>>
      BY ONLY <1>3, <1>10, <2>5, <3>1
    <3> QED
      BY ONLY <1>5, <1>9, <2>5, <3>2, i \in 1..5
  <2>6. CASE /\ atTime /\ f[3] = Every /\ f[4] = Every
             /\ said = Says("week", <<NumberOf(f[2]), NumberOf(f[1]), f[5]>>)
    <3>1. Told(said) = <<{NumberOf(f[1])}, {NumberOf(f[2])}, All(3), All(4), Values(f[5], 5)>>
      BY <2>6 DEF Told, Says
    <3>2. Told(said) = <<Values(f[1], 1), Values(f[2], 2), All(3), All(4), Values(f[5], 5)>>
      BY ONLY <1>3, <1>10, <2>6, <3>1
    <3> QED
      BY ONLY <1>5, <2>6, <3>2, i \in 1..5
  <2>7. CASE /\ atTime /\ f[4] = Every /\ f[5] = Every /\ IsNumeric(f[3])
             /\ said = Says("month", <<NumberOf(f[2]), NumberOf(f[1]), NumberOf(f[3])>>)
    <3>1. Told(said) = <<{NumberOf(f[1])}, {NumberOf(f[2])}, {NumberOf(f[3])}, All(4), All(5)>>
      BY <2>7 DEF Told, Says
    <3>2. Told(said) = <<Values(f[1], 1), Values(f[2], 2), Values(f[3], 3), All(4), All(5)>>
      BY ONLY <1>3, <1>10, <2>7, <3>1
    <3> QED
      BY ONLY <1>5, <2>7, <3>2, i \in 1..5
  <2>8. CASE /\ atTime /\ f[5] = Every /\ IsNumeric(f[3]) /\ IsNumeric(f[4])
             /\ said = Says("year", <<NumberOf(f[2]), NumberOf(f[1]), NumberOf(f[3]),
                                      NumberOf(f[4])>>)
    <3>1. Told(said) = <<{NumberOf(f[1])}, {NumberOf(f[2])}, {NumberOf(f[3])}, {NumberOf(f[4])},
                         All(5)>>
      BY <2>8 DEF Told, Says
    <3>2. Told(said) = <<Values(f[1], 1), Values(f[2], 2), Values(f[3], 3), Values(f[4], 4),
          All(5)>>
      BY ONLY <1>3, <1>10, <2>8, <3>1
    <3> QED
      BY ONLY <1>5, <2>8, <3>2, i \in 1..5
  <2> QED
    BY ONLY <1>7, <1>9, <1>10, <2>1, <2>2, <2>3, <2>4, <2>5, <2>6, <2>7, <2>8
<1> QED
  BY <1>1, <1>8, <1>11

(***************************************************************************)
(* The dialog.                                                             *)
(***************************************************************************)
LEMMA PartIs ==
    ASSUME NEW range \in Seq(CdBound), NEW step \in Seq(Nat)
    PROVE  /\ Part(range, step) \in CdPart /\ Part(range, step).range = range
           /\ Part(range, step).step = step
BY DEF Part, CdPart

\* The fields of the presets fit, and are valid where their numbers are.
LEMMA NumberFieldFits ==
    ASSUME NEW n \in Nat
    PROVE  /\ CdFieldFits(Exactly(n)) /\ CdFieldFits(EveryNth(n)) /\ CdFieldFits(Every)
           /\ \A i \in 1..5 : \A part \in Range(Every) : IsValidFieldPart(part, i)
           /\ \A i \in 1..5 : n \in FIELD_SPECS[i].min..FIELD_SPECS[i].max =>
                  \A part \in Range(Exactly(n)) : IsValidFieldPart(part, i)
           /\ \A i \in 1..5 : n \in 1..FIELD_SPECS[i].max =>
                  \A part \in Range(EveryNth(n)) : IsValidFieldPart(part, i)
<1>1. PICK bound \in CdBound : bound = Number(n)
  BY DEF CdBound, Number
<1>2. bound.value = n /\ bound.aliases = 0 /\ CdBoundFits(bound)
  BY <1>1 DEF Number, CdBoundFits
<1>13. <<>> \in Seq(CdBound) /\ <<>> \in Seq(Nat) /\ <<bound>> \in Seq(CdBound)
       /\ <<n>> \in Seq(Nat)
  OBVIOUS
<1>3. PICK p : p = Part(<<bound>>, <<>>)
  OBVIOUS
<1>4. PICK q : q = Part(<<>>, <<n>>)
  OBVIOUS
<1>5. PICK e : e = Part(<<>>, <<>>)
  OBVIOUS
<1>6. /\ p \in CdPart /\ q \in CdPart /\ e \in CdPart
      /\ p.range = <<bound>> /\ p.step = <<>> /\ q.range = <<>> /\ q.step = <<n>>
      /\ e.range = <<>> /\ e.step = <<>>
  BY <1>3, <1>4, <1>5, <1>13, PartIs
<1>7. Exactly(n) = <<p>> /\ EveryNth(n) = <<q>> /\ Every = <<e>>
  BY <1>1, <1>3, <1>4, <1>5 DEF Exactly, EveryNth, Every
<1>8. CdFieldFits(<<p>>) /\ CdFieldFits(<<q>>) /\ CdFieldFits(<<e>>)
  BY <1>2, <1>6 DEF CdFieldFits, CdField
<1>9. Range(<<p>>) = {p} /\ Range(<<q>>) = {q} /\ Range(<<e>>) = {e}
  BY DEF Range
<1>10. \A i \in 1..5 : IsValidFieldPart(e, i)
  BY <1>6 DEF IsValidFieldPart, Range
<1>11. ASSUME NEW i \in 1..5, n \in FIELD_SPECS[i].min..FIELD_SPECS[i].max
       PROVE  IsValidFieldPart(p, i)
  BY <1>2, <1>6, <1>11 DEF IsValidFieldPart, Range, ResolvesField
<1>12. ASSUME NEW i \in 1..5, n \in 1..FIELD_SPECS[i].max
       PROVE  IsValidFieldPart(q, i)
  BY <1>6, <1>12 DEF IsValidFieldPart, Range
<1> QED
  BY <1>7, <1>8, <1>9, <1>10, <1>11, <1>12

\* Five fields that fit are an expression that does.
LEMMA FieldsFit ==
    ASSUME NEW a, NEW b, NEW c, NEW d, NEW e, CdFieldFits(a), CdFieldFits(b), CdFieldFits(c),
           CdFieldFits(d), CdFieldFits(e)
    PROVE  LET raw == Fields(<<a, b, c, d, e>>) IN
           /\ CdRawFits(raw)
           /\ (/\ \A part \in Range(a) : IsValidFieldPart(part, 1)
               /\ \A part \in Range(b) : IsValidFieldPart(part, 2)
               /\ \A part \in Range(c) : IsValidFieldPart(part, 3)
               /\ \A part \in Range(d) : IsValidFieldPart(part, 4)
               /\ \A part \in Range(e) : IsValidFieldPart(part, 5)) => ValidExpression(raw)
<1> DEFINE raw == Fields(<<a, b, c, d, e>>)
<1>1. raw.special = "none" /\ raw.fields = <<a, b, c, d, e>>
  BY DEF Fields
<1> HIDE DEF raw
<1>2. /\ Len(raw.fields) = 5 /\ DOMAIN raw.fields = 1..5
      /\ raw.fields = [i \in 1..5 |-> raw.fields[i]]
  BY <1>1
<1>3. /\ raw.fields[1] = a /\ raw.fields[2] = b /\ raw.fields[3] = c /\ raw.fields[4] = d
      /\ raw.fields[5] = e
  BY <1>1
<1>4. \A i \in 1..5 : i = 1 \/ i = 2 \/ i = 3 \/ i = 4 \/ i = 5
  OBVIOUS
<1>5. CdRawFits(raw)
  <2>1. \A i \in 1..5 : CdFieldFits(raw.fields[i])
    BY <1>3, <1>4
  <2> QED
    BY <1>1, <1>2, <2>1 DEF CdRawFits
<1>6. ASSUME /\ \A part \in Range(a) : IsValidFieldPart(part, 1)
             /\ \A part \in Range(b) : IsValidFieldPart(part, 2)
             /\ \A part \in Range(c) : IsValidFieldPart(part, 3)
             /\ \A part \in Range(d) : IsValidFieldPart(part, 4)
             /\ \A part \in Range(e) : IsValidFieldPart(part, 5)
      PROVE  ValidExpression(raw)
  <2>1. \A i \in 1..5 : \A part \in Range(raw.fields[i]) : IsValidFieldPart(part, i)
    BY <1>3, <1>4, <1>6
  <2> QED
    BY <1>1, <1>2, <2>1 DEF ValidExpression
<1>7. CdRawFits(raw)
      /\ ((/\ \A part \in Range(a) : IsValidFieldPart(part, 1)
           /\ \A part \in Range(b) : IsValidFieldPart(part, 2)
           /\ \A part \in Range(c) : IsValidFieldPart(part, 3)
           /\ \A part \in Range(d) : IsValidFieldPart(part, 4)
           /\ \A part \in Range(e) : IsValidFieldPart(part, 5)) => ValidExpression(raw))
  BY <1>5, <1>6
<1> QED
  BY <1>7 DEF raw

\* What a preset writes is always accepted.
LEMMA BuiltFits ==
    ASSUME NEW b \in CdBuilderRecord, b.preset # "custom"
    PROVE  CdRawFits(BuildExpression(b)) /\ ValidExpression(BuildExpression(b))
<1>1. /\ b.minute \in Nat /\ b.hour \in Nat /\ b.interval \in Nat /\ b.weekday \in Nat
      /\ b.dayOfMonth \in Nat /\ b.preset \in Presets
  BY DEF CdBuilderRecord
<1>2. PICK minute \in 0..59 : minute = Clamp(b.minute, 0, 59)
  BY <1>1 DEF Clamp
<1>3. PICK hour \in 0..23 : hour = Clamp(b.hour, 0, 23)
  BY <1>1 DEF Clamp
<1>4. PICK interval \in 1..59 : interval = Clamp(b.interval, 1, 59)
  BY <1>1 DEF Clamp
<1>5. PICK weekday \in 0..6 : weekday = Clamp(b.weekday, 0, 6)
  BY <1>1 DEF Clamp
<1>6. PICK day \in 1..31 : day = Clamp(b.dayOfMonth, 1, 31)
  BY <1>1 DEF Clamp
<1>7. /\ minute \in Nat /\ hour \in Nat /\ interval \in Nat /\ weekday \in Nat /\ day \in Nat
      /\ 1 \in 1..5 /\ 2 \in 1..5 /\ 3 \in 1..5 /\ 4 \in 1..5 /\ 5 \in 1..5
  OBVIOUS
<1>8. /\ minute \in FIELD_SPECS[1].min..FIELD_SPECS[1].max
      /\ interval \in 1..FIELD_SPECS[1].max
      /\ hour \in FIELD_SPECS[2].min..FIELD_SPECS[2].max
      /\ weekday \in FIELD_SPECS[5].min..FIELD_SPECS[5].max
      /\ day \in FIELD_SPECS[3].min..FIELD_SPECS[3].max
  BY DEF FIELD_SPECS
<1>9. /\ CdFieldFits(Every) /\ \A i \in 1..5 : \A part \in Range(Every) : IsValidFieldPart(part, i)
  BY <1>7, NumberFieldFits
<1>10. /\ CdFieldFits(Exactly(minute)) /\ CdFieldFits(Exactly(hour)) /\ CdFieldFits(Exactly(day))
       /\ CdFieldFits(Exactly(weekday)) /\ CdFieldFits(EveryNth(interval))
  BY <1>7, NumberFieldFits
<1>11. /\ \A part \in Range(Exactly(minute)) : IsValidFieldPart(part, 1)
       /\ \A part \in Range(Exactly(hour)) : IsValidFieldPart(part, 2)
       /\ \A part \in Range(Exactly(day)) : IsValidFieldPart(part, 3)
       /\ \A part \in Range(Exactly(weekday)) : IsValidFieldPart(part, 5)
       /\ \A part \in Range(EveryNth(interval)) : IsValidFieldPart(part, 1)
  BY <1>7, <1>8, NumberFieldFits
<1>12. CASE b.preset = "minutes"
  <2>1. BuildExpression(b) = Fields(<<EveryNth(interval), Every, Every, Every, Every>>)
    BY <1>4, <1>12 DEF BuildExpression
  <2> QED
    BY <1>7, <1>9, <1>10, <1>11, <2>1, FieldsFit
<1>13. CASE b.preset = "hourly"
  <2>1. BuildExpression(b) = Fields(<<Exactly(minute), Every, Every, Every, Every>>)
    BY <1>2, <1>13 DEF BuildExpression
  <2> QED
    BY <1>7, <1>9, <1>10, <1>11, <2>1, FieldsFit
<1>14. CASE b.preset = "daily"
  <2>1. BuildExpression(b) = Fields(<<Exactly(minute), Exactly(hour), Every, Every, Every>>)
    BY <1>2, <1>3, <1>14 DEF BuildExpression
  <2> QED
    BY <1>7, <1>9, <1>10, <1>11, <2>1, FieldsFit
<1>15. CASE b.preset = "weekly"
  <2>1. BuildExpression(b) =
            Fields(<<Exactly(minute), Exactly(hour), Every, Every, Exactly(weekday)>>)
    BY <1>2, <1>3, <1>5, <1>15 DEF BuildExpression
  <2> QED
    BY <1>7, <1>9, <1>10, <1>11, <2>1, FieldsFit
<1>16. CASE b.preset = "monthly"
  <2>1. BuildExpression(b) =
            Fields(<<Exactly(minute), Exactly(hour), Exactly(day), Every, Every>>)
    BY <1>2, <1>3, <1>6, <1>16 DEF BuildExpression
  <2> QED
    BY <1>7, <1>9, <1>10, <1>11, <2>1, FieldsFit
<1>17. CASE b.preset = "reboot"
  <2>1. BuildExpression(b) = Special("@reboot")
    BY <1>17 DEF BuildExpression
  <2> QED
    BY <2>1 DEF Special, CdRawFits, ValidExpression, Specials
<1> QED
  BY <1>1, <1>12, <1>13, <1>14, <1>15, <1>16, <1>17 DEF Presets

\* What the user types into the expression.
LEMMA TypedFits ==
    ASSUME NEW field \in TypedField
    PROVE  CdFieldFits(field)
<1>1. \A n \in TypedNumber : n \in Nat
  BY TypedAssumption
<1>2. CASE field = Every
  BY <1>2, NumberFieldFits
<1>3. ASSUME NEW bounds \in Seq(CdBound), \A m \in DOMAIN bounds : CdBoundFits(bounds[m]),
             NEW step \in Seq(Nat), field = <<Part(bounds, step)>>
      PROVE  CdFieldFits(field)
  <2>1. PICK part \in CdPart : part = Part(bounds, step)
    BY PartIs
  <2>2. part.range = bounds
    BY <2>1, PartIs
  <2> QED
    BY <1>3, <2>1, <2>2 DEF CdFieldFits, CdField
<1>4. ASSUME NEW bounds \in Seq(CdBound), \A m \in DOMAIN bounds : CdBoundFits(bounds[m]),
             field = <<Part(<<Number(1)>>, <<>>), Part(bounds, <<>>)>>
      PROVE  CdFieldFits(field)
  <2>1. <<>> \in Seq(Nat)
    OBVIOUS
  <2>2. PICK part \in CdPart : part = Part(bounds, <<>>)
    BY <2>1, PartIs
  <2>3. part.range = bounds
    BY <2>1, <2>2, PartIs
  <2>4. PICK one : one = Part(<<Number(1)>>, <<>>)
    OBVIOUS
  <2>5. one \in CdPart /\ CdFieldFits(<<one>>)
    <3>1. Number(1) \in CdBound /\ <<Number(1)>> \in Seq(CdBound)
      BY DEF Number, CdBound
    <3>2. CdFieldFits(<<one>>)
      BY <2>4, NumberFieldFits DEF Exactly
    <3> QED
      BY <2>1, <2>4, <3>1, <3>2, PartIs
  <2>6. \A m \in DOMAIN one.range : CdBoundFits(one.range[m])
    BY <2>5 DEF CdFieldFits
  <2> QED
    BY <1>4, <2>2, <2>3, <2>4, <2>5, <2>6 DEF CdFieldFits, CdField
<1>5. PICK named : named = [i \in {4, 5} |-> [value |-> 5, aliases |-> i]]
  OBVIOUS
<1>6. PICK ranges :
          ranges = {<<Number(1), Number(5)>>, <<Number(5), Number(7)>>, <<Number(7), Number(5)>>}
  OBVIOUS
<1>7. \A n \in Nat : Number(n) \in CdBound /\ CdBoundFits(Number(n))
  BY DEF Number, CdBound, CdBoundFits
<1>8. \A i \in {4, 5} : named[i] \in CdBound /\ CdBoundFits(named[i])
  BY <1>5 DEF CdBound, CdBoundFits
<1>9. ASSUME NEW bound \in CdBound, CdBoundFits(bound)
      PROVE  /\ <<bound>> \in Seq(CdBound)
             /\ \A m \in DOMAIN <<bound>> : CdBoundFits(<<bound>>[m])
  BY <1>9
<1>10. ASSUME NEW from \in Nat, NEW to \in Nat
       PROVE  /\ <<Number(from), Number(to)>> \in Seq(CdBound)
              /\ \A m \in DOMAIN <<Number(from), Number(to)>> :
                     CdBoundFits(<<Number(from), Number(to)>>[m])
  BY <1>7
<1>11. \A bounds \in ranges : /\ bounds \in Seq(CdBound)
                              /\ \A m \in DOMAIN bounds : CdBoundFits(bounds[m])
  BY <1>6, <1>10
<1>12. <<>> \in Seq(CdBound) /\ <<>> \in Seq(Nat) /\ \A n \in Nat : <<n>> \in Seq(Nat)
  OBVIOUS
<1>13. \/ field = Every
       \/ \E n \in TypedNumber : field = <<Part(<<Number(n)>>, <<>>)>>
       \/ \E i \in {4, 5} : field = <<Part(<<named[i]>>, <<>>)>>
       \/ \E bounds \in ranges : field = <<Part(bounds, <<>>)>>
       \/ \E n \in TypedNumber : field = <<Part(<<>>, <<n>>)>>
       \/ \E bounds \in ranges : field = <<Part(<<Number(1)>>, <<>>), Part(bounds, <<>>)>>
       \/ \E i \in {4, 5} : field = <<Part(<<Number(1)>>, <<>>), Part(<<named[i]>>, <<>>)>>
  BY <1>5, <1>6 DEF TypedField
<1>14. ASSUME NEW n \in TypedNumber, field = <<Part(<<Number(n)>>, <<>>)>>
       PROVE  CdFieldFits(field)
  BY <1>1, <1>14, NumberFieldFits DEF Exactly
<1>15. ASSUME NEW i \in {4, 5}, \/ field = <<Part(<<named[i]>>, <<>>)>>
                                \/ field = <<Part(<<Number(1)>>, <<>>), Part(<<named[i]>>, <<>>)>>
       PROVE  CdFieldFits(field)
  BY <1>3, <1>4, <1>8, <1>9, <1>12, <1>15
<1>16. ASSUME NEW bounds \in ranges, \/ field = <<Part(bounds, <<>>)>>
                                     \/ field = <<Part(<<Number(1)>>, <<>>), Part(bounds, <<>>)>>
       PROVE  CdFieldFits(field)
  BY <1>3, <1>4, <1>11, <1>12, <1>16
<1>17. ASSUME NEW n \in TypedNumber, field = <<Part(<<>>, <<n>>)>>
       PROVE  CdFieldFits(field)
  BY <1>1, <1>17, NumberFieldFits DEF EveryNth
<1> QED
  BY <1>2, <1>13, <1>14, <1>15, <1>16, <1>17

LEMMA CdInitInv ==
    ASSUME CdInit
    PROVE  CdInv
<1>1. DEFAULT_BUILDER \in CdBuilderRecord /\ DEFAULT_BUILDER.preset = "daily"
  BY DEF DEFAULT_BUILDER, CdBuilderRecord, Presets
<1>2. CASE cdBuilder = DEFAULT_BUILDER /\ cdRaw = BuildExpression(DEFAULT_BUILDER)
  BY <1>1, <1>2, BuiltFits DEF CdInv
<1>3. CASE /\ cdBuilder = [DEFAULT_BUILDER EXCEPT !.preset = "custom"]
           /\ cdRaw \in {Special("@weekly"), Fields(<<Every, Every, Every, Every, Every>>)}
  <2>1. cdBuilder \in CdBuilderRecord /\ cdBuilder.preset = "custom"
    BY <1>3 DEF DEFAULT_BUILDER, CdBuilderRecord, Presets
  <2>2. CdRawFits(Special("@weekly"))
    BY DEF Special, CdRawFits
  <2>3. CdRawFits(Fields(<<Every, Every, Every, Every, Every>>))
    <3>1. CdFieldFits(Every)
      BY NumberFieldFits, 0 \in Nat
    <3> QED
      BY <3>1, FieldsFit
  <2> QED
    BY <1>3, <2>1, <2>2, <2>3 DEF CdInv
<1> QED
  BY <1>2, <1>3 DEF CdInit

\* The dialog shows another builder.
LEMMA ShownFits ==
    ASSUME CdInv, NEW builder \in CdBuilderRecord, Shows(builder)
    PROVE  CdInv'
<1>1. cdBuilder' = builder
  BY DEF Shows
<1>2. CASE builder.preset = "custom"
  BY <1>1, <1>2 DEF Shows, CdInv
<1>3. CASE builder.preset # "custom"
  <2>1. cdRaw' = BuildExpression(builder)
    BY <1>3 DEF Shows
  <2>2. CdRawFits(BuildExpression(builder)) /\ ValidExpression(BuildExpression(builder))
    BY <1>3, BuiltFits
  <2> QED
    BY <1>1, <2>1, <2>2 DEF CdInv
<1> QED
  BY <1>2, <1>3

LEMMA RawFits ==
    ASSUME CdInv, NEW raw, CdRawFits(raw), CdTypesRaw(raw)
    PROVE  CdInv'
<1>1. cdRaw' = raw /\ cdBuilder' = [cdBuilder EXCEPT !.preset = "custom"]
  BY DEF CdTypesRaw
<1>2. cdBuilder' \in CdBuilderRecord /\ cdBuilder'.preset = "custom"
  BY <1>1 DEF CdInv, CdBuilderRecord, Presets
<1> QED
  BY <1>1, <1>2 DEF CdInv

LEMMA CdStepInv ==
    ASSUME CdInv, [CdNext]_cdVars
    PROVE  CdInv'
<1>1. ASSUME NEW preset \in Presets, CdPicks(preset)
      PROVE  CdInv'
  <2>1. [cdBuilder EXCEPT !.preset = preset] \in CdBuilderRecord
    BY DEF CdInv, CdBuilderRecord
  <2> QED
    BY <1>1, <2>1, ShownFits DEF CdPicks
<1>2. ASSUME NEW input \in InputsOf(cdBuilder.preset), NEW n \in TypedNumber, CdEnters(input, n)
      PROVE  CdInv'
  <2>1. n \in Nat
    BY TypedAssumption
  <2>2. input \in {"interval", "minute", "hour", "weekday", "dayOfMonth"}
    BY DEF InputsOf
  <2>3. [cdBuilder EXCEPT ![input] = n] \in CdBuilderRecord
    BY <2>1, <2>2 DEF CdInv, CdBuilderRecord
  <2> QED
    BY <1>2, <2>3, ShownFits DEF CdEnters
<1>3. ASSUME cdRaw.special = "none", NEW i \in 1..5, NEW field \in TypedField,
             CdTypesRaw(Fields([cdRaw.fields EXCEPT ![i] = field]))
      PROVE  CdInv'
  <2>1. PICK f : f = cdRaw.fields
    OBVIOUS
  <2>2. PICK g : g = [f EXCEPT ![i] = field]
    OBVIOUS
  <2>3. /\ Len(f) = 5 /\ DOMAIN f = 1..5 /\ f = [k \in 1..5 |-> f[k]]
        /\ \A k \in 1..5 : CdFieldFits(f[k])
    BY <1>3, <2>1 DEF CdInv, CdRawFits
  <2>4. CdFieldFits(field)
    BY TypedFits
  <2>5. /\ DOMAIN g = 1..5 /\ g = [k \in 1..5 |-> g[k]]
        /\ \A k \in 1..5 : CdFieldFits(g[k])
    BY ONLY <2>2, <2>3, <2>4, i \in 1..5
  <2>6. Len(g) = 5
    BY ONLY <2>5
  <2>7. CdRawFits(Fields(g))
    BY <2>5, <2>6 DEF Fields, CdRawFits
  <2> QED
    BY <1>3, <2>1, <2>2, <2>7, RawFits
<1>4. CASE CdTypesRaw(Special("@sometimes"))
  <2>1. CdRawFits(Special("@sometimes"))
    BY DEF Special, CdRawFits
  <2> QED
    BY <1>4, <2>1, RawFits
<1>5. CASE UNCHANGED cdVars
  BY <1>5 DEF cdVars, CdInv
<1> QED
  BY <1>1, <1>2, <1>3, <1>4, <1>5 DEF CdNext

\* What the invariant says of the dialog.
LEMMA CdInvSaid ==
    ASSUME CdInv
    PROVE  CdScheduleIsSaid
<1>1. CdRawFits(cdRaw)
  BY DEF CdInv
<1>2. cdBuilder.preset # "custom" => ValidExpression(cdRaw) /\ cdRaw = BuildExpression(cdBuilder)
  BY DEF CdInv
<1>3. ASSUME ValidExpression(cdRaw), NEW i \in DOMAIN cdRaw.fields
      PROVE  /\ Values(cdRaw.fields[i], i) # {} /\ Values(cdRaw.fields[i], i) \subseteq All(i)
             /\ InWords(Describe(cdRaw)) => Told(Describe(cdRaw))[i] = Values(cdRaw.fields[i], i)
  <2>1. cdRaw.special = "none"
    <3>1. DOMAIN <<>> = {}
      OBVIOUS
    <3> QED
      BY <1>1, <1>3, <3>1 DEF CdRawFits
  <2>2. i \in 1..5 /\ \A k \in 1..5 : CdFieldFits(cdRaw.fields[k])
    BY <1>1, <1>3, <2>1 DEF CdRawFits
  <2>3. \A k \in 1..5 : \A part \in Range(cdRaw.fields[k]) : IsValidFieldPart(part, k)
    BY <1>3, <2>1 DEF ValidExpression
  <2>4. Describe(cdRaw) = DescribeFields(cdRaw)
    BY <1>3, <2>1 DEF Describe
  <2> QED
    BY <2>2, <2>3, <2>4, FieldFacts, DescribedFacts
<1> QED
  BY <1>2, <1>3 DEF CdScheduleIsSaid


(***************************************************************************)
(* Cron jobs.                                                              *)
(***************************************************************************)
\* The fields of the panel, of a listing and of an edit.
CrPanelIs(panel) ==
    panel = [open |-> panel.open, jobs |-> panel.jobs, loaded |-> panel.loaded,
             loading |-> panel.loading, dialog |-> panel.dialog,
             submitting |-> panel.submitting]
CrListingIs(call) ==
    call = [phase |-> call.phase, mount |-> call.mount, by |-> call.by, jobs |-> call.jobs]
CrEditIs(edit) ==
    edit = [phase |-> edit.phase, mount |-> edit.mount, kind |-> edit.kind, job |-> edit.job,
            value |-> edit.value, base |-> edit.base, at |-> edit.at]

\* A job that was listed at the version the crontab has now is on its line.
CrSeen(job) ==
    /\ job.seen \in Nat /\ job.seen <= crVersion
    /\ job.seen = crVersion => crTab[job.line] = job.job

\* Every job on its way to an edit has been listed.
CrCallFits(call) ==
    /\ CrListingIs(call) /\ call.phase \in {"asked", "read"}
    /\ call.mount \in Nat /\ call.mount <= crMounts
    /\ \A job \in call.jobs : CrSeen(job)
CrEditFits(edit) ==
    /\ CrEditIs(edit) /\ edit.phase \in {"asked", "read", "late", "done", "failed"}
    /\ edit.mount \in Nat /\ edit.mount <= crMounts
    /\ edit.phase = "asked" /\ edit.kind # "create" => CrSeen(edit.job)
    /\ edit.phase \in {"read", "late"} /\ edit.kind # "create" =>
           (edit.at = edit.job.seen => edit.base[edit.job.line] = edit.job.job)

CrCallsFit ==
    /\ crList = [c \in Listing |-> crList[c]]
    /\ \A c \in Listing : crList[c].phase = "free" \/ CrCallFits(crList[c])
CrEditsFit ==
    /\ crEdit = [e \in Edit |-> crEdit[e]]
    /\ \A e \in Edit : crEdit[e].phase = "free" \/ CrEditFits(crEdit[e])
CrPanelFits ==
    /\ CrPanelIs(crPanel) /\ crPanel.open \in BOOLEAN /\ crPanel.submitting \in BOOLEAN
    /\ \A job \in crPanel.jobs : CrSeen(job)
    /\ crPanel.dialog # None /\ crPanel.dialog.kind # "create" => CrSeen(crPanel.dialog.job)

\* The edits of the panel on display, and the listings that follow one.
CrMine(e) == crEdit[e].phase # "free" /\ crEdit[e].mount = crMounts
CrAfter(c) == crList[c].phase # "free" /\ crList[c].mount = crMounts /\ crList[c].by = "edit"

\* There is one of them while the panel is submitting, and none else.
CrOne ==
    crPanel.open =>
        /\ \A d, e \in Edit : CrMine(d) /\ CrMine(e) => d = e
        /\ \A b, c \in Listing : CrAfter(b) /\ CrAfter(c) => b = c
        /\ \A e \in Edit, c \in Listing : ~(CrMine(e) /\ CrAfter(c))
        /\ crPanel.submitting <=> (\E e \in Edit : CrMine(e)) \/ (\E c \in Listing : CrAfter(c))

CrInv ==
    /\ crVersion \in Nat /\ crMounts \in Nat
    /\ CrCallsFit /\ CrEditsFit /\ CrPanelFits /\ CrOne

LEMMA CrInvMeant ==
    ASSUME CrInv
    PROVE  CrMeantJob
BY DEF CrInv, CrEditsFit, CrEditFits, CrMeantJob

LEMMA CrInvOneEdit ==
    ASSUME CrInv
    PROVE  CrOneEdit
<1> DEFINE mine == {e \in Edit : CrMine(e)}
           after == {c \in Listing : CrAfter(c)}
<1>1. SUFFICES ASSUME crPanel.open
               PROVE  /\ Cardinality(mine) + Cardinality(after) <= 1
                      /\ crPanel.submitting = (mine \cup after # {})
  BY DEF CrOneEdit, CrMine, CrAfter
<1>2. /\ \A d, e \in mine : d = e
      /\ \A b, c \in after : b = c
      /\ mine = {} \/ after = {}
      /\ crPanel.submitting <=> mine # {} \/ after # {}
  BY <1>1 DEF CrInv, CrOne
<1>3. crPanel.submitting \in BOOLEAN
  BY DEF CrInv, CrPanelFits
<1> HIDE DEF mine, after
<1>4. crPanel.submitting = (mine \cup after # {})
  BY <1>2, <1>3
<1>5. ASSUME NEW S, \A a, b \in S : a = b
      PROVE  Cardinality(S) \in {0, 1} /\ (S = {} => Cardinality(S) = 0)
  <2>1. CASE S = {}
    BY <2>1, FS_EmptySet
  <2>2. CASE S # {}
    <3>1. PICK x : S = {x}
      BY <1>5, <2>2
    <3> QED
      BY <2>2, <3>1, FS_Singleton
  <2> QED
    BY <2>1, <2>2
<1>6. Cardinality(mine) \in {0, 1} /\ (mine = {} => Cardinality(mine) = 0)
  BY <1>2, <1>5
<1>7. Cardinality(after) \in {0, 1} /\ (after = {} => Cardinality(after) = 0)
  BY <1>2, <1>5
<1>8. Cardinality(mine) + Cardinality(after) <= 1
  BY ONLY <1>2, <1>6, <1>7
<1> QED
  BY <1>4, <1>8

LEMMA CrInitInv ==
    ASSUME CrInit
    PROVE  CrInv
<1>1. crList = [c \in Listing |-> NoListing] /\ crEdit = [e \in Edit |-> NoEdit]
  BY DEF CrInit
<1>2. CrCallsFit /\ CrEditsFit
  BY <1>1 DEF CrCallsFit, CrEditsFit, NoListing, NoEdit
<1>3. CrPanelFits /\ crPanel.open = FALSE
  BY DEF CrInit, CrPanelFits, CrPanelIs, NoPanel
<1> QED
  BY <1>2, <1>3 DEF CrInit, CrInv, CrOne

\* The jobs of the crontab are on their lines.
LEMMA JobsAreSeen ==
    ASSUME CrInv
    PROVE  \A job \in JobsOf(crTab, crVersion) : CrSeen(job)
BY DEF CrInv, CrSeen, JobsOf

\* A changed crontab makes every job one that was listed before.
LEMMA ChangeKeepsSeen ==
    ASSUME CrInv, NEW lines, TabBecomes(lines)
    PROVE  crVersion' \in Nat /\ \A job : CrSeen(job) => CrSeen(job)'
BY DEF CrInv, CrSeen, TabBecomes

LEMMA StandKeepsSeen ==
    ASSUME UNCHANGED <<crTab, crVersion>>
    PROVE  \A job : CrSeen(job) => CrSeen(job)'
BY DEF CrSeen

\* What fits goes on to fit.
LEMMA FitsGoesOn ==
    ASSUME \A job : CrSeen(job) => CrSeen(job)', crMounts \in Nat, crMounts' \in Nat,
           crMounts <= crMounts'
    PROVE  /\ \A call : CrCallFits(call) => CrCallFits(call)'
           /\ \A edit : CrEditFits(edit) => CrEditFits(edit)'
<1>1. \A n \in Nat : n <= crMounts => n <= crMounts'
  OBVIOUS
<1>2. \A call : CrCallFits(call) => CrCallFits(call)'
  BY <1>1 DEF CrCallFits
<1>3. \A edit : CrEditFits(edit) => CrEditFits(edit)'
  BY <1>1 DEF CrEditFits
<1> QED
  BY <1>2, <1>3

\* One listing changes.
LEMMA CallKeeps ==
    ASSUME CrInv, NEW c \in Listing, NEW call, call.phase = "free" \/ CrCallFits(call)',
           crList' = [crList EXCEPT ![c] = call],
           \A other : CrCallFits(other) => CrCallFits(other)'
    PROVE  /\ CrCallsFit'
           /\ crMounts' = crMounts =>
                  /\ \A b \in Listing : b # c => (CrAfter(b)' <=> CrAfter(b))
                  /\ CrAfter(c)' <=> call.phase # "free" /\ call.mount = crMounts
                                     /\ call.by = "edit"
<1>1. /\ crList' = [b \in Listing |-> crList'[b]] /\ crList'[c] = call
      /\ \A b \in Listing : b # c => crList'[b] = crList[b]
  BY DEF CrInv, CrCallsFit
<1>2. \A b \in Listing : crList[b].phase = "free" \/ CrCallFits(crList[b])
  BY DEF CrInv, CrCallsFit
<1>3. CrCallsFit'
  <2> SUFFICES ASSUME NEW b \in Listing
               PROVE  (crList[b].phase = "free" \/ CrCallFits(crList[b]))'
    BY <1>1 DEF CrCallsFit
  <2>1. PICK now : now = crList'[b]
    OBVIOUS
  <2>2. now.phase = "free" \/ CrCallFits(now)'
    <3>1. CASE b = c
      BY <1>1, <2>1, <3>1
    <3>2. CASE b # c
      <4>1. now = crList[b]
        BY <1>1, <2>1, <3>2
      <4>2. now.phase = "free" \/ CrCallFits(now)
        BY ONLY <1>2, <4>1, b \in Listing
      <4> QED
        BY <4>2
    <3> QED
      BY <3>1, <3>2
  <2> QED
    BY <2>1, <2>2 DEF CrCallFits
<1> QED
  BY <1>1, <1>3 DEF CrAfter

\* One edit changes.
LEMMA EditKeeps ==
    ASSUME CrInv, NEW e \in Edit, NEW edit, edit.phase = "free" \/ CrEditFits(edit)',
           crEdit' = [crEdit EXCEPT ![e] = edit],
           \A other : CrEditFits(other) => CrEditFits(other)'
    PROVE  /\ CrEditsFit'
           /\ crMounts' = crMounts =>
                  /\ \A d \in Edit : d # e => (CrMine(d)' <=> CrMine(d))
                  /\ CrMine(e)' <=> edit.phase # "free" /\ edit.mount = crMounts
<1>1. /\ crEdit' = [d \in Edit |-> crEdit'[d]] /\ crEdit'[e] = edit
      /\ \A d \in Edit : d # e => crEdit'[d] = crEdit[d]
  BY DEF CrInv, CrEditsFit
<1>2. \A d \in Edit : crEdit[d].phase = "free" \/ CrEditFits(crEdit[d])
  BY DEF CrInv, CrEditsFit
<1>3. CrEditsFit'
  <2> SUFFICES ASSUME NEW d \in Edit
               PROVE  (crEdit[d].phase = "free" \/ CrEditFits(crEdit[d]))'
    BY <1>1 DEF CrEditsFit
  <2>1. PICK now : now = crEdit'[d]
    OBVIOUS
  <2>2. now.phase = "free" \/ CrEditFits(now)'
    <3>1. CASE d = e
      BY <1>1, <2>1, <3>1
    <3>2. CASE d # e
      <4>1. now = crEdit[d]
        BY <1>1, <2>1, <3>2
      <4>2. now.phase = "free" \/ CrEditFits(now)
        BY ONLY <1>2, <4>1, d \in Edit
      <4> QED
        BY <4>2
    <3> QED
      BY <3>1, <3>2
  <2> QED
    BY <2>1, <2>2 DEF CrEditFits
<1> QED
  BY <1>1, <1>3 DEF CrMine

LEMMA CallsStand ==
    ASSUME CrInv, UNCHANGED crList, \A other : CrCallFits(other) => CrCallFits(other)'
    PROVE  /\ CrCallsFit'
           /\ crMounts' = crMounts => \A c \in Listing : CrAfter(c)' <=> CrAfter(c)
BY DEF CrInv, CrCallsFit, CrAfter

LEMMA EditsStand ==
    ASSUME CrInv, UNCHANGED crEdit, \A other : CrEditFits(other) => CrEditFits(other)'
    PROVE  /\ CrEditsFit'
           /\ crMounts' = crMounts => \A e \in Edit : CrMine(e)' <=> CrMine(e)
BY DEF CrInv, CrEditsFit, CrMine

\* The panel keeps what it says of the one edit.
LEMMA OneStands ==
    ASSUME CrOne, crPanel.open' => crPanel.open, crPanel.submitting' = crPanel.submitting,
           \A e \in Edit : CrMine(e)' <=> CrMine(e),
           \A c \in Listing : CrAfter(c)' <=> CrAfter(c)
    PROVE  CrOne'
BY DEF CrOne

LEMMA PanelStands ==
    ASSUME CrPanelFits, NEW panel, crPanel' = panel, CrPanelIs(panel),
           panel.open \in BOOLEAN, panel.submitting \in BOOLEAN,
           \A job : CrSeen(job) => CrSeen(job)',
           \A job \in panel.jobs : CrSeen(job)',
           panel.dialog # None /\ panel.dialog.kind # "create" => CrSeen(panel.dialog.job)'
    PROVE  CrPanelFits'
BY DEF CrPanelFits, CrPanelIs

(***************************************************************************)
(* The steps.                                                              *)
(***************************************************************************)
LEMMA CrFacts ==
    ASSUME CrInv
    PROVE  /\ crVersion \in Nat /\ crMounts \in Nat /\ CrPanelFits /\ CrOne
           /\ crPanel = [open |-> crPanel.open, jobs |-> crPanel.jobs, loaded |-> crPanel.loaded,
                         loading |-> crPanel.loading, dialog |-> crPanel.dialog,
                         submitting |-> crPanel.submitting]
           /\ crPanel.open \in BOOLEAN /\ crPanel.submitting \in BOOLEAN
           /\ \A job \in crPanel.jobs : CrSeen(job)
           /\ crPanel.dialog # None /\ crPanel.dialog.kind # "create" => CrSeen(crPanel.dialog.job)
           /\ \A c \in Listing : crList[c].phase = "free" \/ CrCallFits(crList[c])
           /\ \A e \in Edit : crEdit[e].phase = "free" \/ CrEditFits(crEdit[e])
BY DEF CrInv, CrPanelFits, CrPanelIs, CrCallsFit, CrEditsFit

\* What a step leaves alone that changes neither the crontab nor the panels counted.
LEMMA StandFits ==
    ASSUME CrInv, UNCHANGED <<crTab, crVersion, crMounts>>
    PROVE  /\ crVersion' \in Nat /\ crMounts' \in Nat /\ crMounts' = crMounts
           /\ \A job : CrSeen(job) => CrSeen(job)'
           /\ \A call : CrCallFits(call) => CrCallFits(call)'
           /\ \A edit : CrEditFits(edit) => CrEditFits(edit)'
<1>1. \A job : CrSeen(job) => CrSeen(job)'
  BY StandKeepsSeen
<1>2. /\ crVersion \in Nat /\ crMounts \in Nat /\ crMounts' \in Nat /\ crMounts <= crMounts'
      /\ crVersion' \in Nat
  BY DEF CrInv
<1> QED
  BY <1>1, <1>2, FitsGoesOn

LEMMA CrAskedFits ==
    ASSUME NEW by, NEW mount \in Nat, mount <= crMounts'
    PROVE  /\ CrCallFits(Asked(by, mount))'
           /\ Asked(by, mount).phase = "asked" /\ Asked(by, mount).mount = mount
           /\ Asked(by, mount).by = by
BY DEF CrCallFits, CrListingIs, Asked

LEMMA CrOpensKeeps ==
    ASSUME CrInv, CrOpens
    PROVE  CrInv'
<1>1. PICK c \in Listing :
          /\ crMounts' = crMounts + 1 /\ crPanel' = [NoPanel EXCEPT !.open = TRUE, !.loading = TRUE]
          /\ crList' = [crList EXCEPT ![c] = Asked("panel", crMounts + 1)]
          /\ UNCHANGED <<crTab, crVersion, crEdit>>
  BY DEF CrOpens
<1>2. PICK mount : mount = crMounts + 1
  OBVIOUS
<1>3. /\ mount \in Nat /\ crMounts' = mount /\ crMounts \in Nat /\ crMounts < crMounts'
      /\ crMounts <= crMounts' /\ crVersion' \in Nat
  BY <1>1, <1>2 DEF CrInv
<1>4. \A job : CrSeen(job) => CrSeen(job)'
  BY <1>1, StandKeepsSeen
<1>5. /\ \A call : CrCallFits(call) => CrCallFits(call)'
      /\ \A edit : CrEditFits(edit) => CrEditFits(edit)'
  BY <1>3, <1>4, FitsGoesOn
<1>6. PICK call : call = Asked("panel", mount)
  OBVIOUS
<1>7. CrCallFits(call)' /\ call.by = "panel"
  <2>1. mount <= crMounts'
    BY <1>3
  <2> QED
    BY <1>3, <1>6, <2>1, CrAskedFits DEF CrCallFits
<1>8. CrCallsFit'
  BY <1>1, <1>2, <1>5, <1>6, <1>7, CallKeeps
<1>9. CrEditsFit'
  BY <1>1, <1>5, EditsStand
<1>10. CrPanelFits' /\ crPanel'.submitting = FALSE
  BY <1>1 DEF CrPanelFits, CrPanelIs, NoPanel
<1>11. \A e \in Edit : ~CrMine(e)'
  <2>1. \A e \in Edit : crEdit'[e].phase = "free" \/ crEdit'[e].mount < crMounts'
    BY <1>1, <1>3, CrFacts DEF CrEditFits
  <2>2. \A e \in Edit : crEdit'[e].phase = "free" \/ crEdit'[e].mount # crMounts'
    <3> SUFFICES ASSUME NEW e \in Edit, crEdit'[e].phase # "free", crEdit'[e].mount = crMounts'
                 PROVE  FALSE
      OBVIOUS
    <3>1. crMounts' < crMounts'
      BY <2>1
    <3> QED
      BY <1>3, <3>1
  <2> QED
    BY <2>2 DEF CrMine
<1>12. \A b \in Listing : ~CrAfter(b)'
  <2> SUFFICES ASSUME NEW b \in Listing, crList'[b].phase # "free",
                      crList'[b].mount = crMounts', crList'[b].by = "edit"
               PROVE  FALSE
    BY DEF CrAfter
  <2>1. crList'[b] = IF b = c THEN call ELSE crList[b]
    BY <1>1, <1>2, <1>6 DEF CrInv, CrCallsFit
  <2>2. b # c
    BY <1>7, <2>1
  <2>3. CrCallFits(crList[b]) /\ crList[b].mount = mount
    BY <1>3, <2>1, <2>2, CrFacts
  <2>4. mount <= crMounts
    BY <2>3 DEF CrCallFits
  <2> QED
    BY ONLY <1>3, <2>4
<1>13. CrOne'
  BY <1>10, <1>11, <1>12 DEF CrOne
<1> QED
  BY <1>3, <1>8, <1>9, <1>10, <1>13 DEF CrInv

\* A step of the panel alone.
LEMMA CrPanelKeeps ==
    ASSUME CrInv, UNCHANGED <<crTab, crVersion, crMounts, crList, crEdit>>, NEW panel,
           crPanel' = panel, CrPanelIs(panel), panel.open \in BOOLEAN,
           panel.submitting = crPanel.submitting, panel.open => crPanel.open,
           \A job \in panel.jobs : CrSeen(job),
           panel.dialog # None /\ panel.dialog.kind # "create" => CrSeen(panel.dialog.job)
    PROVE  CrInv'
<1>1. /\ crVersion' \in Nat /\ crMounts' \in Nat /\ crMounts' = crMounts
      /\ \A job : CrSeen(job) => CrSeen(job)'
      /\ \A call : CrCallFits(call) => CrCallFits(call)'
      /\ \A edit : CrEditFits(edit) => CrEditFits(edit)'
  BY StandFits
<1>2. CrCallsFit' /\ \A c \in Listing : CrAfter(c)' <=> CrAfter(c)
  BY <1>1, CallsStand
<1>3. CrEditsFit' /\ \A e \in Edit : CrMine(e)' <=> CrMine(e)
  BY <1>1, EditsStand
<1>4. panel.submitting \in BOOLEAN
  BY CrFacts
<1>5. CrPanelFits'
  <2>1. \A job \in panel.jobs : CrSeen(job)'
    BY <1>1
  <2>2. panel.dialog # None /\ panel.dialog.kind # "create" => CrSeen(panel.dialog.job)'
    BY <1>1
  <2> QED
    BY <1>1, <1>4, <2>1, <2>2, CrFacts, PanelStands
<1>6. CrOne'
  BY <1>2, <1>3, CrFacts, OneStands
<1> QED
  BY <1>1, <1>2, <1>3, <1>5, <1>6 DEF CrInv

LEMMA CrLeavesKeeps ==
    ASSUME CrInv, CrLeaves
    PROVE  CrInv'
<1>1. UNCHANGED <<crTab, crVersion, crMounts, crList, crEdit>> /\ crPanel' = NoPanel
  BY DEF CrLeaves
<1>2. /\ crVersion' \in Nat /\ crMounts' \in Nat /\ crMounts' = crMounts
      /\ \A call : CrCallFits(call) => CrCallFits(call)'
      /\ \A edit : CrEditFits(edit) => CrEditFits(edit)'
  BY <1>1, StandFits
<1>3. CrCallsFit' /\ CrEditsFit'
  BY <1>1, <1>2, CallsStand, EditsStand
<1>4. CrPanelFits' /\ crPanel'.open = FALSE
  BY <1>1 DEF CrPanelFits, CrPanelIs, NoPanel
<1> QED
  BY <1>2, <1>3, <1>4 DEF CrInv, CrOne

LEMMA CrDialogsKeep ==
    ASSUME CrInv, CrCancels \/ \E job \in crPanel.jobs \cup {None},
           kind \in {"create", "update", "delete"} :
                                   CrAsks(kind, job)
    PROVE  CrInv'
<1>1. CASE CrCancels
  <2>1. PICK panel : panel = [crPanel EXCEPT !.dialog = None]
    OBVIOUS
  <2>2. /\ CrPanelIs(panel) /\ panel.open = crPanel.open /\ panel.dialog = None
        /\ panel.submitting = crPanel.submitting /\ panel.jobs = crPanel.jobs
    BY <2>1, CrFacts DEF CrPanelIs
  <2>3. UNCHANGED <<crTab, crVersion, crMounts, crList, crEdit>> /\ crPanel' = panel
    BY <1>1, <2>1 DEF CrCancels
  <2> QED
    BY <2>2, <2>3, CrFacts, CrPanelKeeps
<1>2. ASSUME NEW job \in crPanel.jobs \cup {None}, NEW kind, CrAsks(kind, job)
      PROVE  CrInv'
  <2>1. PICK dialog : dialog = Dialog(kind, job)
    OBVIOUS
  <2>2. PICK panel : panel = [crPanel EXCEPT !.dialog = dialog]
    OBVIOUS
  <2>3. /\ CrPanelIs(panel) /\ panel.open = crPanel.open /\ panel.dialog = dialog
        /\ panel.submitting = crPanel.submitting /\ panel.jobs = crPanel.jobs
    BY <2>2, CrFacts DEF CrPanelIs
  <2>4. UNCHANGED <<crTab, crVersion, crMounts, crList, crEdit>> /\ crPanel' = panel
    BY <1>2, <2>1, <2>2 DEF CrAsks
  <2>5. dialog.kind = kind /\ dialog.job = job
    BY <2>1 DEF Dialog
  <2>6. dialog.kind # "create" => CrSeen(dialog.job)
    <3>1. kind # "create" => job # None
      BY <1>2 DEF CrAsks
    <3>2. job # None => CrSeen(job)
      BY CrFacts
    <3> QED
      BY <2>5, <3>1, <3>2
  <2> QED
    BY <2>3, <2>4, <2>6, CrFacts, CrPanelKeeps
<1> QED
  BY <1>1, <1>2

\* A listing that has begun, or been read.
LEMMA CrListingsKeep ==
    ASSUME CrInv, CrRefreshes \/ \E c \in Listing : CrListReads(c)
    PROVE  CrInv'
<1>1. UNCHANGED <<crTab, crVersion, crMounts, crEdit>>
  BY DEF CrRefreshes, CrListReads
<1>2. /\ crVersion' \in Nat /\ crMounts' \in Nat /\ crMounts' = crMounts
      /\ \A job : CrSeen(job) => CrSeen(job)'
      /\ \A call : CrCallFits(call) => CrCallFits(call)'
      /\ \A edit : CrEditFits(edit) => CrEditFits(edit)'
  BY <1>1, StandFits
<1>3. CrEditsFit' /\ \A e \in Edit : CrMine(e)' <=> CrMine(e)
  BY <1>1, <1>2, EditsStand
<1>4. CASE CrRefreshes
  <2>1. PICK c \in Listing : /\ crList[c].phase = "free"
                             /\ crList' = [crList EXCEPT ![c] = Asked("panel", crMounts)]
                             /\ crPanel' = [crPanel EXCEPT !.loading = TRUE]
    BY <1>4 DEF CrRefreshes
  <2>2. PICK call : call = Asked("panel", crMounts)
    OBVIOUS
  <2>3. CrCallFits(call)' /\ call.by = "panel"
    <3>1. crMounts \in Nat /\ crMounts <= crMounts'
      BY <1>2, CrFacts
    <3> QED
      BY <2>2, <3>1, CrAskedFits DEF CrCallFits
  <2>4. CrCallsFit' /\ \A b \in Listing : CrAfter(b)' <=> CrAfter(b)
    <3>1. /\ CrCallsFit' /\ \A b \in Listing : b # c => (CrAfter(b)' <=> CrAfter(b))
          /\ ~CrAfter(c)'
      BY <1>2, <2>1, <2>2, <2>3, CallKeeps
    <3>2. ~CrAfter(c)
      BY <2>1 DEF CrAfter
    <3> QED
      BY <3>1, <3>2
  <2>5. PICK panel : panel = [crPanel EXCEPT !.loading = TRUE]
    OBVIOUS
  <2>6. /\ CrPanelIs(panel) /\ panel.open = crPanel.open /\ panel.dialog = crPanel.dialog
        /\ panel.submitting = crPanel.submitting /\ panel.jobs = crPanel.jobs
    BY <2>5, CrFacts DEF CrPanelIs
  <2>7. crPanel' = panel
    BY <2>1, <2>5
  <2>8. CrPanelFits'
    BY <1>2, <2>6, <2>7, CrFacts, PanelStands
  <2>9. CrOne'
    BY <1>3, <2>4, <2>6, <2>7, CrFacts, OneStands
  <2> QED
    BY <1>2, <1>3, <2>4, <2>8, <2>9 DEF CrInv
<1>5. ASSUME NEW c \in Listing, CrListReads(c)
      PROVE  CrInv'
  <2>1. PICK call : call = [crList[c] EXCEPT !.phase = "read", !.jobs = JobsOf(crTab, crVersion)]
    OBVIOUS
  <2>2. crList[c].phase = "asked" /\ CrCallFits(crList[c])
    BY <1>5, CrFacts DEF CrListReads
  <2>3. /\ CrListingIs(call) /\ call.phase = "read" /\ call.mount = crList[c].mount
        /\ call.by = crList[c].by /\ call.jobs = JobsOf(crTab, crVersion)
    BY <2>1, <2>2 DEF CrCallFits, CrListingIs
  <2>4. CrCallFits(call)
    BY <2>2, <2>3, JobsAreSeen DEF CrCallFits
  <2>5. crList' = [crList EXCEPT ![c] = call] /\ crPanel' = crPanel
    BY <1>5, <2>1 DEF CrListReads
  <2>6. CrCallsFit' /\ \A b \in Listing : CrAfter(b)' <=> CrAfter(b)
    <3>1. /\ CrCallsFit' /\ \A b \in Listing : b # c => (CrAfter(b)' <=> CrAfter(b))
          /\ CrAfter(c)' <=> call.phase # "free" /\ call.mount = crMounts /\ call.by = "edit"
      BY <1>2, <2>4, <2>5, CallKeeps
    <3>2. CrAfter(c)' <=> CrAfter(c)
      BY <2>2, <2>3, <3>1 DEF CrAfter
    <3> QED
      BY <3>1, <3>2
  <2>7. CrPanelFits'
    <3>1. crPanel' = crPanel
      BY <2>5
    <3> QED
      BY <1>2, <3>1 DEF CrInv, CrPanelFits, CrPanelIs
  <2>8. CrOne'
    BY <1>3, <2>5, <2>6, CrFacts, OneStands
  <2> QED
    BY <1>2, <1>3, <2>6, <2>7, <2>8 DEF CrInv
<1> QED
  BY <1>4, <1>5

\* A listing is answered: the buttons are back if it was the one that follows an edit.
LEMMA CrAnswersKeep ==
    ASSUME CrInv, NEW c \in Listing, CrLists(c) \/ CrListFails(c)
    PROVE  CrInv'
<1>1. UNCHANGED <<crTab, crVersion, crMounts, crEdit>> /\ crList[c].phase # "free"
  BY DEF CrLists, CrListFails
<1>2. /\ crVersion' \in Nat /\ crMounts' \in Nat /\ crMounts' = crMounts
      /\ \A job : CrSeen(job) => CrSeen(job)'
      /\ \A call : CrCallFits(call) => CrCallFits(call)'
      /\ \A edit : CrEditFits(edit) => CrEditFits(edit)'
  BY <1>1, StandFits
<1>3. CrEditsFit' /\ \A e \in Edit : CrMine(e)' <=> CrMine(e)
  BY <1>1, <1>2, EditsStand
<1>4. PICK jobs : /\ Answers(c, [crPanel EXCEPT !.jobs = jobs])
                  /\ jobs = crPanel.jobs \/ jobs = crList[c].jobs
  <2>1. CASE CrLists(c)
    BY <2>1 DEF CrLists
  <2>2. CASE CrListFails(c)
    <3>1. crPanel = [crPanel EXCEPT !.jobs = crPanel.jobs]
      BY CrFacts
    <3> QED
      BY <2>2, <3>1 DEF CrListFails
  <2> QED
    BY <2>1, <2>2
<1>5. CrCallFits(crList[c])
  BY <1>1, CrFacts
<1>6. \A job \in jobs : CrSeen(job)
  BY <1>4, <1>5, CrFacts DEF CrCallFits
<1>7. crList' = [crList EXCEPT ![c] = NoListing] /\ NoListing.phase = "free"
  BY <1>4 DEF Answers, NoListing
<1>8. /\ CrCallsFit' /\ \A b \in Listing : b # c => (CrAfter(b)' <=> CrAfter(b))
      /\ ~CrAfter(c)'
  BY <1>2, <1>7, CallKeeps
<1>9. PICK submitting : submitting = IF crList[c].by = "edit" THEN FALSE ELSE crPanel.submitting
  OBVIOUS
<1>14. PICK listed : listed = [crPanel EXCEPT !.jobs = jobs]
  OBVIOUS
<1>10. PICK panel : panel = [listed EXCEPT !.loaded = TRUE, !.loading = FALSE,
                                          !.submitting = submitting]
  OBVIOUS
<1>11. Settled([crPanel EXCEPT !.jobs = jobs], crList[c]) = panel
  <2>1. listed.submitting = crPanel.submitting
    BY <1>14, CrFacts
  <2> QED
    BY <1>9, <1>10, <1>14, <2>1 DEF Settled
<1>15. /\ CrPanelIs(panel) /\ panel.open = crPanel.open /\ panel.jobs = jobs
       /\ panel.dialog = crPanel.dialog /\ panel.submitting = submitting
  <2>1. /\ CrPanelIs(listed) /\ listed.open = crPanel.open /\ listed.jobs = jobs
        /\ listed.dialog = crPanel.dialog
    BY <1>14, CrFacts DEF CrPanelIs
  <2> QED
    BY <1>10, <2>1 DEF CrPanelIs
<1>12. CASE crPanel.open /\ crList[c].mount = crMounts
  <2>1. crPanel' = panel
    BY <1>4, <1>11, <1>12 DEF Answers
  <2>2. submitting \in BOOLEAN
    BY <1>9, CrFacts
  <2>3. CrPanelFits'
    <3>1. CrPanelIs(panel) /\ panel.open \in BOOLEAN /\ panel.submitting \in BOOLEAN
      BY <1>15, <2>2, CrFacts
    <3>2. \A job \in panel.jobs : CrSeen(job)'
      BY <1>2, <1>6, <1>15
    <3>3. panel.dialog # None /\ panel.dialog.kind # "create" => CrSeen(panel.dialog.job)'
      BY <1>2, <1>15, CrFacts
    <3> QED
      BY <1>2, <2>1, <3>1, <3>2, <3>3, CrFacts, PanelStands
  <2>4. crPanel'.open = TRUE /\ crPanel'.submitting = submitting
    BY <1>12, <1>15, <2>1
  <2>5. /\ \A d, e \in Edit : CrMine(d) /\ CrMine(e) => d = e
        /\ \A a, b \in Listing : CrAfter(a) /\ CrAfter(b) => a = b
        /\ \A e \in Edit, b \in Listing : ~(CrMine(e) /\ CrAfter(b))
        /\ crPanel.submitting <=> (\E e \in Edit : CrMine(e)) \/ (\E b \in Listing : CrAfter(b))
    BY <1>12, CrFacts DEF CrOne
  <2>6. crList[c].by = "edit" <=> CrAfter(c)
    BY <1>1, <1>12 DEF CrAfter
  <2>7. submitting <=> (\E e \in Edit : CrMine(e)') \/ (\E b \in Listing : CrAfter(b)')
    <3>1. CASE crList[c].by = "edit"
      <4>1. submitting = FALSE
        BY <1>9, <3>1
      <4>2. \A e \in Edit : ~CrMine(e)'
        BY <1>3, <2>5, <2>6, <3>1
      <4>3. \A b \in Listing : ~CrAfter(b)'
        BY <1>8, <2>5, <2>6, <3>1
      <4> QED
        BY <4>1, <4>2, <4>3
    <3>2. CASE crList[c].by # "edit"
      <4>1. submitting = crPanel.submitting
        BY <1>9, <3>2
      <4>2. ~CrAfter(c)
        BY <2>6, <3>2
      <4>3. \A b \in Listing : CrAfter(b)' <=> CrAfter(b)
        BY <1>8, <4>2
      <4> QED
        BY <1>3, <2>5, <4>1, <4>3
    <3> QED
      BY <3>1, <3>2
  <2>8. CrOne'
    <3>1. \A d, e \in Edit : CrMine(d)' /\ CrMine(e)' => d = e
      BY <1>3, <2>5
    <3>2. \A a, b \in Listing : CrAfter(a)' /\ CrAfter(b)' => a = b
      BY <1>8, <2>5
    <3>3. \A e \in Edit, b \in Listing : ~(CrMine(e)' /\ CrAfter(b)')
      BY <1>3, <1>8, <2>5
    <3> QED
      BY <2>4, <2>7, <3>1, <3>2, <3>3 DEF CrOne
  <2> QED
    BY <1>2, <1>3, <1>8, <2>3, <2>8 DEF CrInv
<1>13. CASE ~(crPanel.open /\ crList[c].mount = crMounts)
  <2>1. crPanel' = crPanel
    BY <1>4, <1>13 DEF Answers
  <2>2. CrPanelFits'
    BY <1>2, <2>1 DEF CrInv, CrPanelFits, CrPanelIs
  <2>3. CrOne'
    <3>1. CASE ~crPanel.open
      BY <2>1, <3>1 DEF CrOne
    <3>2. CASE crList[c].mount # crMounts
      <4>1. ~CrAfter(c)
        BY <3>2 DEF CrAfter
      <4>2. \A b \in Listing : CrAfter(b)' <=> CrAfter(b)
        BY <1>8, <4>1
      <4> QED
        BY <1>3, <2>1, <4>2, CrFacts, OneStands
    <3> QED
      BY <1>13, <3>1, <3>2
  <2> QED
    BY <1>2, <1>3, <1>8, <2>2, <2>3 DEF CrInv
<1> QED
  BY <1>12, <1>13

\* An edit that begins is the only one of its panel.
LEMMA CrSubmitsKeeps ==
    ASSUME CrInv, NEW value, CrSubmits(value)
    PROVE  CrInv'
<1>1. PICK e \in Edit :
          /\ crPanel.open /\ crPanel.dialog # None /\ ~crPanel.submitting
          /\ crEdit[e].phase = "free" /\ crPanel' = Submitting(crPanel)
          /\ crEdit' = [crEdit EXCEPT ![e] =
                 [phase |-> "asked", mount |-> crMounts, kind |-> crPanel.dialog.kind,
                  job |-> crPanel.dialog.job, value |-> value, base |-> <<>>, at |-> 0]]
          /\ UNCHANGED <<crTab, crVersion, crMounts, crList>>
  BY DEF CrSubmits
<1>2. /\ crVersion' \in Nat /\ crMounts' \in Nat /\ crMounts' = crMounts
      /\ \A job : CrSeen(job) => CrSeen(job)'
      /\ \A call : CrCallFits(call) => CrCallFits(call)'
      /\ \A edit : CrEditFits(edit) => CrEditFits(edit)'
  BY <1>1, StandFits
<1>3. CrCallsFit' /\ \A c \in Listing : CrAfter(c)' <=> CrAfter(c)
  BY <1>1, <1>2, CallsStand
<1>4. PICK edit : edit = [phase |-> "asked", mount |-> crMounts, kind |-> crPanel.dialog.kind,
                          job |-> crPanel.dialog.job, value |-> value, base |-> <<>>, at |-> 0]
  OBVIOUS
<1>5. CrEditFits(edit) /\ edit.phase = "asked" /\ edit.mount = crMounts
  <2>1. /\ CrEditIs(edit) /\ edit.phase = "asked" /\ edit.mount = crMounts
        /\ edit.kind = crPanel.dialog.kind /\ edit.job = crPanel.dialog.job
    BY <1>4 DEF CrEditIs
  <2>2. crMounts \in Nat /\ crMounts <= crMounts
    BY CrFacts
  <2>3. edit.kind # "create" => CrSeen(edit.job)
    BY <1>1, <2>1, CrFacts
  <2> QED
    BY <2>1, <2>2, <2>3 DEF CrEditFits
<1>6. /\ CrEditsFit' /\ \A d \in Edit : d # e => (CrMine(d)' <=> CrMine(d))
      /\ CrMine(e)'
  BY <1>1, <1>2, <1>4, <1>5, EditKeeps
<1>7. PICK panel : panel = [crPanel EXCEPT !.submitting = TRUE]
  OBVIOUS
<1>8. crPanel' = panel
  BY <1>1, <1>7 DEF Submitting
<1>12. /\ CrPanelIs(panel) /\ panel.open = crPanel.open /\ panel.jobs = crPanel.jobs
       /\ panel.dialog = crPanel.dialog /\ panel.submitting = TRUE
  BY <1>7, CrFacts DEF CrPanelIs
<1>9. CrPanelFits' /\ crPanel'.submitting = TRUE
  <2>1. CrPanelIs(panel) /\ panel.open \in BOOLEAN /\ panel.submitting = TRUE
    BY <1>12, CrFacts
  <2>2. \A job \in panel.jobs : CrSeen(job)'
    BY <1>2, <1>12, CrFacts
  <2>3. panel.dialog # None /\ panel.dialog.kind # "create" => CrSeen(panel.dialog.job)'
    BY <1>2, <1>12, CrFacts
  <2> QED
    BY <1>2, <1>8, <2>1, <2>2, <2>3, CrFacts, PanelStands
<1>10. (\A d \in Edit : ~CrMine(d)) /\ (\A c \in Listing : ~CrAfter(c))
  BY <1>1, CrFacts DEF CrOne
<1>11. CrOne'
  BY <1>3, <1>6, <1>9, <1>10 DEF CrOne
<1> QED
  BY <1>2, <1>3, <1>6, <1>9, <1>11 DEF CrInv

\* An edit goes on, and the panel does not hear of it.
LEMMA EditGoesOn ==
    ASSUME CrInv, NEW e \in Edit, crEdit[e].phase # "free", NEW edit, CrEditFits(edit)',
           edit.phase # "free", edit.mount = crEdit[e].mount,
           crEdit' = [crEdit EXCEPT ![e] = edit], UNCHANGED <<crList, crPanel, crMounts>>,
           crVersion' \in Nat, \A job : CrSeen(job) => CrSeen(job)'
    PROVE  CrInv'
<1>1. crMounts \in Nat /\ crMounts' \in Nat /\ crMounts' = crMounts /\ crMounts <= crMounts'
  BY CrFacts
<1>2. /\ \A call : CrCallFits(call) => CrCallFits(call)'
      /\ \A other : CrEditFits(other) => CrEditFits(other)'
  BY <1>1, FitsGoesOn
<1>3. CrCallsFit' /\ \A c \in Listing : CrAfter(c)' <=> CrAfter(c)
  BY <1>1, <1>2, CallsStand
<1>4. CrEditsFit' /\ \A d \in Edit : CrMine(d)' <=> CrMine(d)
  <2>1. /\ CrEditsFit' /\ \A d \in Edit : d # e => (CrMine(d)' <=> CrMine(d))
        /\ CrMine(e)' <=> edit.phase # "free" /\ edit.mount = crMounts
    BY <1>1, <1>2, EditKeeps
  <2>2. CrMine(e)' <=> CrMine(e)
    BY <2>1 DEF CrMine
  <2> QED
    BY <2>1, <2>2
<1>5. CrPanelFits'
  BY DEF CrInv, CrPanelFits, CrPanelIs
<1>6. CrOne'
  BY <1>3, <1>4, CrFacts, OneStands
<1> QED
  BY <1>1, <1>3, <1>4, <1>5, <1>6 DEF CrInv

LEMMA PhaseKeeps ==
    ASSUME NEW edit, CrEditFits(edit), NEW phase \in {"late", "done", "failed"},
           phase = "late" => edit.phase = "read"
    PROVE  /\ CrEditFits([edit EXCEPT !.phase = phase])
           /\ [edit EXCEPT !.phase = phase].phase = phase
           /\ [edit EXCEPT !.phase = phase].mount = edit.mount
<1>1. PICK next : next = [edit EXCEPT !.phase = phase]
  OBVIOUS
<1>2. /\ CrEditIs(next) /\ next.phase = phase /\ next.mount = edit.mount
      /\ next.kind = edit.kind /\ next.job = edit.job /\ next.base = edit.base
      /\ next.at = edit.at
  BY <1>1 DEF CrEditFits, CrEditIs
<1>3. CrEditFits(next)
  BY <1>2 DEF CrEditFits
<1> QED
  BY <1>1, <1>2, <1>3

\* What is read is the line the job is on, unless the crontab has changed.
LEMMA CrReadsKeeps ==
    ASSUME CrInv, NEW e \in Edit, CrReads(e)
    PROVE  CrInv'
<1>1. /\ crEdit[e].phase = "asked" /\ UNCHANGED <<crTab, crVersion, crList, crPanel, crMounts>>
      /\ crEdit' = [crEdit EXCEPT ![e] =
             IF Resolves(crTab, crEdit[e])
             THEN [crEdit[e] EXCEPT !.phase = "read", !.base = crTab, !.at = crVersion]
             ELSE [crEdit[e] EXCEPT !.phase = "failed"]]
  BY DEF CrReads
<1>2. CrEditFits(crEdit[e])
  BY <1>1, CrFacts
<1>3. /\ crVersion' \in Nat
      /\ \A job : CrSeen(job) => CrSeen(job)'
      /\ \A edit : CrEditFits(edit) => CrEditFits(edit)'
  BY <1>1, StandFits
<1>4. CASE Resolves(crTab, crEdit[e])
  <2>1. PICK edit : edit = [crEdit[e] EXCEPT !.phase = "read", !.base = crTab, !.at = crVersion]
    OBVIOUS
  <2>2. /\ CrEditIs(edit) /\ edit.phase = "read" /\ edit.mount = crEdit[e].mount
        /\ edit.kind = crEdit[e].kind /\ edit.job = crEdit[e].job /\ edit.base = crTab
        /\ edit.at = crVersion
    BY <1>2, <2>1 DEF CrEditFits, CrEditIs
  <2>3. edit.kind # "create" => (crVersion = edit.job.seen => crTab[edit.job.line] = edit.job.job)
    BY <1>1, <1>2, <2>2 DEF CrEditFits, CrSeen
  <2>4. CrEditFits(edit)
    BY <1>2, <2>2, <2>3 DEF CrEditFits
  <2>5. crEdit' = [crEdit EXCEPT ![e] = edit]
    BY <1>1, <1>4, <2>1
  <2> QED
    BY <1>1, <1>3, <2>2, <2>4, <2>5, EditGoesOn
<1>5. CASE ~Resolves(crTab, crEdit[e])
  <2>1. PICK edit : edit = [crEdit[e] EXCEPT !.phase = "failed"]
    OBVIOUS
  <2>2. CrEditFits(edit) /\ edit.phase = "failed" /\ edit.mount = crEdit[e].mount
    BY <1>2, <2>1, PhaseKeeps
  <2>3. crEdit' = [crEdit EXCEPT ![e] = edit]
    BY <1>1, <1>5, <2>1
  <2> QED
    BY <1>1, <1>3, <2>2, <2>3, EditGoesOn
<1> QED
  BY <1>4, <1>5

\* An edit is installed, given up or lost.
LEMMA CrEndsKeep ==
    ASSUME CrInv, NEW e \in Edit, CrInstalls(e) \/ CrTimesOut(e) \/ CrEditFails(e)
    PROVE  CrInv'
<1>1. PICK phase \in {"late", "done", "failed"} :
          EditIs(e, phase) /\ (phase = "late" => crEdit[e].phase = "read")
  <2>1. CASE CrInstalls(e)
    BY <2>1 DEF CrInstalls
  <2>2. CASE CrTimesOut(e)
    BY <2>2 DEF CrTimesOut
  <2>3. CASE CrEditFails(e)
    BY <2>3 DEF CrEditFails
  <2> QED
    BY <2>1, <2>2, <2>3
<1>2. /\ crEdit[e].phase \in {"asked", "read", "late"} /\ UNCHANGED <<crList, crPanel, crMounts>>
      /\ (UNCHANGED <<crTab, crVersion>> \/ \E lines : TabBecomes(lines))
  BY DEF CrInstalls, CrTimesOut, CrEditFails
<1>3. crVersion' \in Nat /\ \A job : CrSeen(job) => CrSeen(job)'
  <2>1. CASE UNCHANGED <<crTab, crVersion>>
    BY <2>1, CrFacts, StandKeepsSeen
  <2>2. CASE \E lines : TabBecomes(lines)
    BY <2>2, ChangeKeepsSeen
  <2> QED
    BY <1>2, <2>1, <2>2
<1>4. CrEditFits(crEdit[e])
  BY <1>2, CrFacts
<1>5. PICK edit : edit = [crEdit[e] EXCEPT !.phase = phase]
  OBVIOUS
<1>6. CrEditFits(edit) /\ edit.phase = phase /\ edit.mount = crEdit[e].mount
  BY <1>1, <1>4, <1>5, PhaseKeeps
<1>7. CrEditFits(edit)'
  <2>1. crMounts \in Nat /\ crMounts' \in Nat /\ crMounts <= crMounts'
    BY <1>2, CrFacts
  <2> QED
    BY <1>3, <1>6, <2>1, FitsGoesOn
<1>8. crEdit' = [crEdit EXCEPT ![e] = edit]
  BY <1>1, <1>5 DEF EditIs
<1> QED
  BY <1>2, <1>3, <1>6, <1>7, <1>8, EditGoesOn

LEMMA CrSomeoneKeeps ==
    ASSUME CrInv, NEW lines, CrSomeoneEdits(lines)
    PROVE  CrInv'
<1>1. TabBecomes(lines) /\ UNCHANGED <<crList, crEdit, crPanel, crMounts>>
  BY DEF CrSomeoneEdits
<1>2. crVersion' \in Nat /\ \A job : CrSeen(job) => CrSeen(job)'
  BY <1>1, ChangeKeepsSeen
<1>3. crMounts \in Nat /\ crMounts' \in Nat /\ crMounts' = crMounts /\ crMounts <= crMounts'
  BY <1>1, CrFacts
<1>4. /\ \A call : CrCallFits(call) => CrCallFits(call)'
      /\ \A other : CrEditFits(other) => CrEditFits(other)'
  BY <1>2, <1>3, FitsGoesOn
<1>5. CrCallsFit' /\ \A c \in Listing : CrAfter(c)' <=> CrAfter(c)
  BY <1>1, <1>3, <1>4, CallsStand
<1>6. CrEditsFit' /\ \A e \in Edit : CrMine(e)' <=> CrMine(e)
  BY <1>1, <1>3, <1>4, EditsStand
<1>7. CrPanelFits'
  BY <1>1, <1>2 DEF CrInv, CrPanelFits, CrPanelIs
<1>8. CrOne'
  BY <1>1, <1>5, <1>6, CrFacts, OneStands
<1> QED
  BY <1>2, <1>3, <1>5, <1>6, <1>7, <1>8 DEF CrInv

\* An edit is over: the listing that follows it takes its place.
LEMMA CrEditDoneKeeps ==
    ASSUME CrInv, NEW e \in Edit, CrEditDone(e)
    PROVE  CrInv'
<1>1. PICK c \in Listing :
          /\ crEdit[e].phase = "done" /\ crList[c].phase = "free"
          /\ crEdit' = [crEdit EXCEPT ![e] = NoEdit]
          /\ crList' = [crList EXCEPT ![c] = Asked("edit", crEdit[e].mount)]
          /\ crPanel' = IF ~crPanel.open \/ crEdit[e].mount # crMounts THEN crPanel
                        ELSE [crPanel EXCEPT !.loading = TRUE,
                                             !.dialog = DialogAfter(crEdit[e], crPanel.dialog)]
          /\ UNCHANGED <<crTab, crVersion, crMounts>>
  BY DEF CrEditDone
<1>2. /\ crVersion' \in Nat /\ crMounts' \in Nat /\ crMounts' = crMounts
      /\ \A job : CrSeen(job) => CrSeen(job)'
      /\ \A call : CrCallFits(call) => CrCallFits(call)'
      /\ \A edit : CrEditFits(edit) => CrEditFits(edit)'
  BY <1>1, StandFits
<1>3. PICK mount : mount = crEdit[e].mount
  OBVIOUS
<1>4. mount \in Nat /\ mount <= crMounts
  BY <1>1, <1>3, CrFacts DEF CrEditFits
<1>5. PICK call : call = Asked("edit", mount)
  OBVIOUS
<1>6. CrCallFits(call)' /\ call.phase = "asked" /\ call.mount = mount /\ call.by = "edit"
  <2>1. mount <= crMounts'
    BY <1>2, <1>4
  <2> QED
    BY <1>4, <1>5, <2>1, CrAskedFits DEF CrCallFits
<1>7. /\ CrCallsFit' /\ \A b \in Listing : b # c => (CrAfter(b)' <=> CrAfter(b))
      /\ CrAfter(c)' <=> mount = crMounts
  BY <1>1, <1>2, <1>3, <1>5, <1>6, CallKeeps
<1>8. ~CrAfter(c)
  BY <1>1 DEF CrAfter
<1>9. /\ CrEditsFit' /\ \A d \in Edit : d # e => (CrMine(d)' <=> CrMine(d))
      /\ ~CrMine(e)'
  <2>1. NoEdit.phase = "free"
    BY DEF NoEdit
  <2> QED
    BY <1>1, <1>2, <2>1, EditKeeps
<1>10. CrMine(e) <=> mount = crMounts
  BY <1>1, <1>3 DEF CrMine
<1>11. PICK dialog : dialog = DialogAfter(crEdit[e], crPanel.dialog)
  OBVIOUS
<1>12. dialog \in {None, crPanel.dialog}
  BY <1>11 DEF DialogAfter
<1>13. PICK panel : panel = [crPanel EXCEPT !.loading = TRUE, !.dialog = dialog]
  OBVIOUS
<1>14. /\ CrPanelIs(panel) /\ panel.open = crPanel.open /\ panel.jobs = crPanel.jobs
       /\ panel.dialog = dialog /\ panel.submitting = crPanel.submitting
  BY <1>13, CrFacts DEF CrPanelIs
<1>15. crPanel' = crPanel \/ crPanel' = panel
  BY <1>1, <1>11, <1>13
<1>16. CrPanelFits'
  <2>1. CASE crPanel' = crPanel
    BY <1>2, <2>1 DEF CrInv, CrPanelFits, CrPanelIs
  <2>2. CASE crPanel' = panel
    <3>1. \A job \in panel.jobs : CrSeen(job)'
      BY <1>2, <1>14, CrFacts
    <3>2. panel.dialog # None /\ panel.dialog.kind # "create" => CrSeen(panel.dialog.job)'
      BY <1>2, <1>12, <1>14, CrFacts
    <3> QED
      BY <1>2, <1>14, <2>2, <3>1, <3>2, CrFacts, PanelStands
  <2> QED
    BY <1>15, <2>1, <2>2
<1>17. crPanel'.open = crPanel.open /\ crPanel'.submitting = crPanel.submitting
  BY <1>14, <1>15
<1>18. CrOne'
  <2>1. CASE mount = crMounts
    <3>1. SUFFICES ASSUME crPanel.open PROVE CrOne'
      BY <1>17 DEF CrOne
    <3>2. /\ \A d \in Edit : CrMine(d) => d = e
          /\ \A b \in Listing : ~CrAfter(b)
          /\ crPanel.submitting
      BY <1>10, <2>1, <3>1, CrFacts DEF CrOne
    <3>3. /\ \A d \in Edit : ~CrMine(d)'
          /\ \A b \in Listing : CrAfter(b)' <=> b = c
      BY <1>7, <1>9, <2>1, <3>2
    <3>4. crPanel'.submitting
      BY <1>17, <3>2
    <3> QED
      BY <3>3, <3>4 DEF CrOne
  <2>2. CASE mount # crMounts
    <3>1. /\ \A d \in Edit : CrMine(d)' <=> CrMine(d)
          /\ \A b \in Listing : CrAfter(b)' <=> CrAfter(b)
      BY <1>7, <1>8, <1>9, <1>10, <2>2
    <3> QED
      BY <1>17, <3>1, CrFacts, OneStands
  <2> QED
    BY <2>1, <2>2
<1> QED
  BY <1>2, <1>7, <1>9, <1>16, <1>18 DEF CrInv

\* An edit that failed is over, with no listing after it.
LEMMA CrReportedKeeps ==
    ASSUME CrInv, NEW e \in Edit, CrEditReported(e)
    PROVE  CrInv'
<1>1. /\ crEdit[e].phase = "failed" /\ crEdit' = [crEdit EXCEPT ![e] = NoEdit]
      /\ crPanel' = IF crPanel.open /\ crEdit[e].mount = crMounts
                    THEN [crPanel EXCEPT !.submitting = FALSE] ELSE crPanel
      /\ UNCHANGED <<crTab, crVersion, crMounts, crList>>
  BY DEF CrEditReported
<1>2. /\ crVersion' \in Nat /\ crMounts' \in Nat /\ crMounts' = crMounts
      /\ \A job : CrSeen(job) => CrSeen(job)'
      /\ \A call : CrCallFits(call) => CrCallFits(call)'
      /\ \A edit : CrEditFits(edit) => CrEditFits(edit)'
  BY <1>1, StandFits
<1>3. CrCallsFit' /\ \A c \in Listing : CrAfter(c)' <=> CrAfter(c)
  BY <1>1, <1>2, CallsStand
<1>4. /\ CrEditsFit' /\ \A d \in Edit : d # e => (CrMine(d)' <=> CrMine(d))
      /\ ~CrMine(e)'
  <2>1. NoEdit.phase = "free"
    BY DEF NoEdit
  <2> QED
    BY <1>1, <1>2, <2>1, EditKeeps
<1>5. CrMine(e) <=> crEdit[e].mount = crMounts
  BY <1>1 DEF CrMine
<1>6. PICK panel : panel = [crPanel EXCEPT !.submitting = FALSE]
  OBVIOUS
<1>7. /\ CrPanelIs(panel) /\ panel.open = crPanel.open /\ panel.jobs = crPanel.jobs
      /\ panel.dialog = crPanel.dialog /\ panel.submitting = FALSE
  BY <1>6, CrFacts DEF CrPanelIs
<1>8. CASE crPanel.open /\ crEdit[e].mount = crMounts
  <2>1. crPanel' = panel
    BY <1>1, <1>6, <1>8
  <2>2. CrPanelFits'
    <3>1. \A job \in panel.jobs : CrSeen(job)'
      BY <1>2, <1>7, CrFacts
    <3>2. panel.dialog # None /\ panel.dialog.kind # "create" => CrSeen(panel.dialog.job)'
      BY <1>2, <1>7, CrFacts
    <3> QED
      BY <1>2, <1>7, <2>1, <3>1, <3>2, CrFacts, PanelStands
  <2>3. /\ \A d \in Edit : CrMine(d) => d = e
        /\ \A c \in Listing : ~CrAfter(c)
    BY <1>5, <1>8, CrFacts DEF CrOne
  <2>4. (\A d \in Edit : ~CrMine(d)') /\ (\A c \in Listing : ~CrAfter(c)')
    BY <1>3, <1>4, <2>3
  <2>5. crPanel'.submitting = FALSE
    BY <1>7, <2>1
  <2>6. CrOne'
    BY <2>4, <2>5 DEF CrOne
  <2> QED
    BY <1>2, <1>3, <1>4, <2>2, <2>6 DEF CrInv
<1>9. CASE ~(crPanel.open /\ crEdit[e].mount = crMounts)
  <2>1. crPanel' = crPanel
    BY <1>1, <1>9
  <2>2. CrPanelFits'
    BY <1>2, <2>1 DEF CrInv, CrPanelFits, CrPanelIs
  <2>3. CrOne'
    <3>1. CASE ~crPanel.open
      BY <2>1, <3>1 DEF CrOne
    <3>2. CASE crEdit[e].mount # crMounts
      <4>1. \A d \in Edit : CrMine(d)' <=> CrMine(d)
        BY <1>4, <1>5, <3>2
      <4> QED
        BY <1>3, <2>1, <4>1, CrFacts, OneStands
    <3> QED
      BY <1>9, <3>1, <3>2
  <2> QED
    BY <1>2, <1>3, <1>4, <2>2, <2>3 DEF CrInv
<1> QED
  BY <1>8, <1>9

LEMMA CrStepInv ==
    ASSUME CrInv, [CrNext]_crVars
    PROVE  CrInv'
<1>1. CASE CrOpens \/ CrLeaves
  BY <1>1, CrOpensKeeps, CrLeavesKeeps
<1>2. CASE CrRefreshes
  BY <1>2, CrListingsKeep
<1>3. CASE CrCancels
  BY <1>3, CrDialogsKeep
<1>4. ASSUME NEW c \in Listing, CrListReads(c) \/ CrLists(c) \/ CrListFails(c)
      PROVE  CrInv'
  BY <1>4, CrListingsKeep, CrAnswersKeep
<1>5. ASSUME NEW job \in crPanel.jobs \cup {None}, NEW kind \in {"create", "update", "delete"},
             CrAsks(kind, job)
      PROVE  CrInv'
  BY <1>5, CrDialogsKeep
<1>6. ASSUME NEW value, CrSubmits(value)
      PROVE  CrInv'
  BY <1>6, CrSubmitsKeeps
<1>7. ASSUME NEW e \in Edit, \/ CrReads(e) \/ CrInstalls(e) \/ CrTimesOut(e) \/ CrEditFails(e)
                             \/ CrEditDone(e) \/ CrEditReported(e)
      PROVE  CrInv'
  BY <1>7, CrReadsKeeps, CrEndsKeep, CrEditDoneKeeps, CrReportedKeeps
<1>8. ASSUME NEW lines, CrSomeoneEdits(lines)
      PROVE  CrInv'
  BY <1>8, CrSomeoneKeeps
<1>9. CASE UNCHANGED crVars
  <2>1. UNCHANGED <<crTab, crVersion, crMounts, crList, crEdit, crPanel>>
    BY <1>9 DEF crVars
  <2> QED
    BY <2>1, CrFacts, CrPanelKeeps DEF CrPanelIs
<1> QED
  BY <1>1, <1>2, <1>3, <1>4, <1>5, <1>6, <1>7, <1>8, <1>9 DEF CrNext


(***************************************************************************)
(* Systemd services.                                                       *)
(***************************************************************************)
SyShapes ==
    /\ sySystem \in SystemRecord
    /\ syPanel \in PanelRecord \cup {None} /\ syLists \subseteq ListRecord
    /\ syDetails \subseteq ReadRecord /\ syAction \in ActionRecord \cup {None}

\* Without a panel nothing is read for it, and nothing is told.
SyPanelFits ==
    /\ syPanel = None => syLists = {} /\ syDetails = {} /\ syDone = None
    /\ syPanel # None /\ syPanel.running => syAction # None /\ syAction.told

\* An action that is heard of has its panel, and was confirmed where that is asked for.
SyActionFits ==
    syAction # None =>
        /\ syAction.stage \in {"told", "reload"} => syAction.told
        /\ syAction.told => syPanel # None
        /\ syAction.change <= sySystem.changes
        /\ syAction.action \in CONFIRMED_ACTIONS =>
               [unit |-> syAction.unit, action |-> syAction.action] \in syConfirmed

\* The one list of an action has read the units after the action.
SyListsFit ==
    /\ \A list \in syLists :
           /\ list.by = "action" => ActionAt("reload")
           /\ list.stage = "files" => list.saw # <<>>
    /\ \A a, b \in syLists : a.by = "action" /\ b.by = "action" => a = b
    /\ \A list \in syLists :
           list.by = "action" /\ list.stage = "files" /\ syDone # None => list.at >= syDone

SyDoneFits ==
    syDone # None =>
        /\ syDone \in Nat /\ syDone <= sySystem.changes
        /\ syPanel.heard >= syDone \/ ActionAt("reload")

SyInv == SyShapes /\ SyPanelFits /\ SyActionFits /\ SyListsFit /\ SyDoneFits /\ SyStopsAreMeant

LEMMA SyInvShown ==
    ASSUME SyInv
    PROVE  SyStopsAreMeant /\ SyActionsAreShown
BY DEF SyInv, SyPanelFits, SyDoneFits, ActionAt, SyActionsAreShown

LEMMA SyInitInv ==
    ASSUME SyInit
    PROVE  SyInv
<1>1. sySystem \in SystemRecord
  <2>1. PICK unit : unit = [active |-> "active", startup |-> "enabled"]
    OBVIOUS
  <2>2. unit \in UnitState
    BY <2>1 DEF UnitState
  <2>3. PICK units : units = [u \in Service |-> unit]
    OBVIOUS
  <2>4. units \in [Service -> UnitState]
    BY <2>2, <2>3
  <2>5. sySystem = [units |-> units, changes |-> 0]
    BY <2>1, <2>3 DEF SyInit
  <2> QED
    BY <2>4, <2>5 DEF SystemRecord
<1> QED
  BY <1>1 DEF SyInit, SyInv, SyShapes, SyPanelFits, SyActionFits, SyListsFit, SyDoneFits,
              SyStopsAreMeant

LEMMA SyFacts ==
    ASSUME SyInv
    PROVE  /\ sySystem = [units |-> sySystem.units, changes |-> sySystem.changes]
           /\ sySystem.units \in [Service -> UnitState] /\ sySystem.changes \in Nat
           /\ syPanel \in PanelRecord \cup {None} /\ syLists \subseteq ListRecord
           /\ syDetails \subseteq ReadRecord /\ syAction \in ActionRecord \cup {None}
           /\ SyShapes /\ SyPanelFits /\ SyActionFits /\ SyListsFit /\ SyDoneFits
           /\ SyStopsAreMeant
           /\ None \notin PanelRecord /\ None \notin ActionRecord
BY SyNoneAssumption DEF SyInv, SyShapes, SystemRecord

LEMMA SyPanelFields ==
    ASSUME NEW panel \in PanelRecord
    PROVE  /\ panel.selected \in Service \cup {None}
           /\ panel.dialog \in DialogRecord \cup {None}
           /\ panel.heard \in Nat /\ panel.running \in BOOLEAN
BY DEF PanelRecord

LEMMA RendersKeeps ==
    ASSUME SyInv, NEW panel \in PanelRecord \cup {None}, NEW up, Renders(panel, up)
    PROVE  /\ syPanel' \in PanelRecord \cup {None} /\ syDetails' \subseteq ReadRecord
           /\ syPanel' = None <=> panel = None
           /\ panel = None => syDetails' = {}
           /\ panel # None => /\ syPanel'.heard = panel.heard
                              /\ syPanel'.running = panel.running
<1>1. CASE ~DetailMounted(panel, up)
  <2>1. syDetails' = {} /\ syPanel' = (IF panel = None THEN None ELSE Emptied(panel))
    BY <1>1 DEF Renders
  <2>2. CASE panel = None
    BY <2>1, <2>2
  <2>3. CASE panel # None
    <3>1. panel \in PanelRecord /\ syPanel' = Emptied(panel)
      BY <2>1, <2>3
    <3>2. /\ Emptied(panel) \in PanelRecord /\ Emptied(panel).heard = panel.heard
          /\ Emptied(panel).running = panel.running
      BY <3>1 DEF PanelRecord, Emptied
    <3> QED
      BY <2>1, <2>3, <3>1, <3>2, SyNoneAssumption
  <2> QED
    BY <2>2, <2>3
<1>2. CASE DetailMounted(panel, up)
  <2>1. panel \in PanelRecord /\ panel # None /\ panel.selected # None
    BY <1>2 DEF DetailMounted
  <2>2. CASE DetailMounted(syPanel, syUp) /\ panel.selected = syPanel.selected
    <3>1. syPanel' = panel /\ UNCHANGED syDetails
      BY <1>2, <2>2 DEF Renders
    <3> QED
      BY <2>1, <3>1, SyFacts
  <2>3. CASE ~(DetailMounted(syPanel, syUp) /\ panel.selected = syPanel.selected)
    <3>1. /\ syPanel' = [panel EXCEPT !.fileOpen = FALSE, !.file = None]
          /\ syDetails' \subseteq syDetails \cup {UnitRead("show", panel.selected)}
      BY <1>2, <2>3 DEF Renders
    <3>2. panel.selected \in Service
      BY <2>1, SyPanelFields
    <3>3. UnitRead("show", panel.selected) \in ReadRecord
      BY <3>2 DEF UnitRead, ReadRecord
    <3>4. PICK next : next = [panel EXCEPT !.fileOpen = FALSE, !.file = None]
      OBVIOUS
    <3>5. next \in PanelRecord /\ next.heard = panel.heard /\ next.running = panel.running
      BY <2>1, <3>4 DEF PanelRecord
    <3>6. syDetails' \subseteq ReadRecord
      BY <3>1, <3>3, SyFacts
    <3>7. syPanel' = next
      BY <3>1, <3>4
    <3> QED
      BY <2>1, <3>5, <3>6, <3>7, SyNoneAssumption
  <2> QED
    BY <2>2, <2>3
<1> QED
  BY <1>1, <1>2

LEMMA ListFields ==
    /\ \A by \in {"page", "action"} : List(by) \in ListRecord
    /\ \A by : List(by).by = by /\ List(by).stage = "check"
BY DEF List, ListRecord

\* A step of the panel and of what it reads: neither systemd nor an action has a part in it.
LEMMA QuietKeeps ==
    ASSUME SyInv, UNCHANGED <<sySystem, syHit, syConfirmed, syAction, syDone>>,
           syPanel' \in PanelRecord \cup {None}, syPanel' = None <=> syPanel = None,
           syPanel # None => /\ syPanel'.heard = syPanel.heard
                             /\ syPanel'.running = syPanel.running,
           syPanel = None => syLists' = {} /\ syDetails' = {},
           syLists' \subseteq syLists \cup {List("page")}, syDetails' \subseteq ReadRecord
    PROVE  SyInv'
<1>1. SyShapes'
  BY SyFacts, ListFields DEF SyShapes
<1>2. SyPanelFits'
  BY SyFacts DEF SyPanelFits
<1>3. SyActionFits'
  BY SyFacts DEF SyActionFits
<1>4. SyListsFit'
  <2>1. \A list \in syLists' : list.by = "action" \/ list.stage = "files" => list \in syLists
    BY ListFields
  <2> QED
    BY <2>1, SyFacts DEF SyListsFit, ActionAt
<1>5. SyDoneFits'
  BY SyFacts DEF SyDoneFits, SyPanelFits, ActionAt
<1>6. SyStopsAreMeant'
  BY SyFacts DEF SyStopsAreMeant
<1> QED
  BY <1>1, <1>2, <1>3, <1>4, <1>5, <1>6 DEF SyInv

\* A list goes on to its next command.
LEMMA ListGoesOn ==
    ASSUME SyInv, UNCHANGED <<sySystem, syHit, syConfirmed, syAction, syDone>>,
           syPanel # None, syPanel' \in PanelRecord, syPanel'.heard = syPanel.heard,
           syPanel'.running = syPanel.running, syDetails' \subseteq ReadRecord,
           NEW list \in syLists, NEW next \in ListRecord, Moved(list, next),
           next.by = list.by,
           next.stage = "files" => next.at = sySystem.changes /\ next.saw # <<>>
    PROVE  SyInv'
<1>1. syPanel' # None
  BY SyNoneAssumption
<1>2. SyShapes'
  BY SyFacts DEF SyShapes, Moved
<1>3. SyPanelFits'
  BY <1>1, SyFacts DEF SyPanelFits
<1>4. SyActionFits'
  BY <1>1, SyFacts DEF SyActionFits
<1>5. SyListsFit'
  <2>1. \A other \in syLists' : other = next \/ (other \in syLists /\ other # list)
    BY DEF Moved
  <2>2. \A other \in syLists' : /\ other.by = "action" => ActionAt("reload")'
                                /\ other.stage = "files" => other.saw # <<>>
    BY <2>1, SyFacts DEF SyListsFit, ActionAt
  <2>3. \A a, b \in syLists' : a.by = "action" /\ b.by = "action" => a = b
    BY <2>1, SyFacts DEF SyListsFit
  <2>4. syDone # None => sySystem.changes >= syDone
    <3>1. syDone # None => syDone \in Nat /\ syDone <= sySystem.changes
      BY SyFacts DEF SyDoneFits
    <3>2. sySystem.changes \in Nat
      BY SyFacts
    <3> QED
      BY ONLY <3>1, <3>2
  <2>5. \A other \in syLists' :
            other.by = "action" /\ other.stage = "files" /\ syDone # None => other.at >= syDone
    BY <2>1, <2>4, SyFacts DEF SyListsFit
  <2> QED
    BY <2>2, <2>3, <2>5 DEF SyListsFit
<1>6. SyDoneFits'
  BY SyFacts DEF SyDoneFits, ActionAt
<1>7. SyStopsAreMeant'
  BY SyFacts DEF SyStopsAreMeant
<1> QED
  BY <1>2, <1>3, <1>4, <1>5, <1>6, <1>7 DEF SyInv

\* A list is over, and with it the action it was read for.
LEMMA ListEnds ==
    ASSUME SyInv, UNCHANGED <<sySystem, syHit, syConfirmed>>,
           syPanel # None, syPanel' \in PanelRecord, syDetails' \subseteq ReadRecord,
           NEW list \in syLists, syLists' = syLists \ {list}, Over(list),
           syPanel'.heard \in Nat, syPanel'.heard >= syPanel.heard,
           list.by = "action" => ~syPanel'.running /\ (syDone' = None \/ syDone' = syDone),
           list.by = "action" /\ syDone' # None => syPanel'.heard >= syDone',
           list.by # "action" => syPanel'.running = syPanel.running /\ syDone' = syDone
    PROVE  SyInv'
<1>1. syPanel' # None
  BY SyNoneAssumption
<1>2. syAction' = None \/ syAction' = syAction
  BY DEF Over
<1>3. SyShapes'
  BY <1>2, SyFacts DEF SyShapes
<1>4. SyPanelFits'
  BY <1>1, SyFacts DEF SyPanelFits, Over
<1>5. SyActionFits'
  BY <1>1, <1>2, SyFacts DEF SyActionFits
<1>6. SyListsFit'
  <2>1. CASE list.by = "action"
    <3>1. \A other \in syLists' : /\ other.by # "action"
                                  /\ other.stage = "files" => other.saw # <<>>
      BY <2>1, SyFacts DEF SyListsFit
    <3> QED
      BY <3>1 DEF SyListsFit
  <2>2. CASE list.by # "action"
    <3>1. UNCHANGED <<syAction, syDone>> /\ syLists' \subseteq syLists
      BY <2>2 DEF Over
    <3> QED
      BY <3>1, SyFacts DEF SyListsFit, ActionAt
  <2> QED
    BY <2>1, <2>2
<1>7. SyDoneFits'
  <2> SUFFICES ASSUME syDone' # None
               PROVE  SyDoneFits'
    BY DEF SyDoneFits
  <2>1. syDone' = syDone /\ syDone \in Nat /\ syDone <= sySystem.changes
    BY SyFacts DEF SyDoneFits
  <2>2. CASE list.by = "action"
    BY <2>1, <2>2 DEF SyDoneFits
  <2>3. CASE list.by # "action"
    <3>1. syAction' = syAction
      BY <2>3 DEF Over
    <3>2. syPanel.heard >= syDone \/ ActionAt("reload")
      BY <2>1, SyFacts DEF SyDoneFits
    <3>3. syPanel.heard \in Nat
      BY SyFacts, SyPanelFields
    <3>4. PICK heard, before, done : heard = syPanel'.heard /\ before = syPanel.heard
            /\ done = syDone
      OBVIOUS
    <3>5. before >= done => heard >= done
      <4>1. heard \in Nat /\ before \in Nat /\ done \in Nat /\ heard >= before
        BY <2>1, <3>3, <3>4
      <4> QED
        BY ONLY <4>1
    <3>6. syPanel'.heard >= syDone \/ ActionAt("reload")
      BY <3>2, <3>4, <3>5
    <3> QED
      BY <2>1, <3>1, <3>6 DEF SyDoneFits, ActionAt
  <2> QED
    BY <2>2, <2>3
<1>8. SyStopsAreMeant'
  BY SyFacts DEF SyStopsAreMeant
<1> QED
  BY <1>3, <1>4, <1>5, <1>6, <1>7, <1>8 DEF SyInv

(***************************************************************************)
(* The steps.                                                              *)
(***************************************************************************)
LEMMA UnitsAreShown ==
    ASSUME NEW units \in [Service -> UnitState]
    PROVE  units # <<>>
<1>1. DOMAIN units = Service /\ "web" \in Service
  BY DEF Service
<1>2. DOMAIN <<>> = {}
  OBVIOUS
<1> QED
  BY <1>1, <1>2

\* The panel comes; what is under way of an action that was left is not told to it.
LEMMA SyOpensKeeps ==
    ASSUME SyInv, NEW unit \in Service \cup {None}, SyOpens(unit)
    PROVE  SyInv'
<1>1. /\ syPanel = None /\ syPanel' = ServicesPage(unit) /\ syLists' \subseteq {List("page")}
      /\ UNCHANGED <<sySystem, syHit, syConfirmed, syDetails, syAction, syDone>>
  BY DEF SyOpens, AfterPanelStep, syServerVars
<1>2. /\ ServicesPage(unit) \in PanelRecord /\ ServicesPage(unit).running = FALSE
  BY DEF ServicesPage, PanelRecord
<1>3. syPanel' # None
  BY <1>1, <1>2, SyNoneAssumption
<1>4. syDone = None /\ syDetails = {}
  BY <1>1, SyFacts DEF SyPanelFits
<1>5. SyShapes'
  BY <1>1, <1>2, SyFacts, ListFields DEF SyShapes
<1>6. SyPanelFits' /\ SyDoneFits'
  BY <1>1, <1>2, <1>3, <1>4 DEF SyPanelFits, SyDoneFits
<1>7. SyActionFits'
  BY <1>1, <1>3, SyFacts DEF SyActionFits
<1>8. SyListsFit'
  BY <1>1, <1>4, ListFields DEF SyListsFit
<1>9. SyStopsAreMeant'
  BY <1>1, SyFacts DEF SyStopsAreMeant
<1> QED
  BY <1>5, <1>6, <1>7, <1>8, <1>9 DEF SyInv

LEMMA ActionUpdates ==
    ASSUME NEW action \in ActionRecord
    PROVE  /\ [action EXCEPT !.told = FALSE] \in ActionRecord
           /\ \A stage \in {"call", "told", "reload"}, n \in Nat :
                  /\ [action EXCEPT !.stage = stage] \in ActionRecord
                  /\ [action EXCEPT !.stage = stage, !.change = n] \in ActionRecord
           /\ action.unit \in Service /\ action.action \in SystemdAction
           /\ action.stage \in {"call", "told", "reload"}
           /\ action.told \in BOOLEAN /\ action.change \in Nat
BY DEF ActionRecord

LEMMA SyLeavesKeeps ==
    ASSUME SyInv, SyLeaves
    PROVE  SyInv'
<1>1. /\ syPanel' = None /\ syLists' = {} /\ syDetails' = {} /\ syDone' = None
      /\ UNCHANGED <<sySystem, syHit, syConfirmed>>
      /\ syAction' = IF syAction = None \/ syAction.stage \in {"told", "reload"} THEN None
                     ELSE [syAction EXCEPT !.told = FALSE]
  BY DEF SyLeaves, AfterPanelStep, syServerVars
<1>2. SyPanelFits' /\ SyListsFit' /\ SyDoneFits'
  BY <1>1 DEF SyPanelFits, SyListsFit, SyDoneFits
<1>3. SyStopsAreMeant'
  BY <1>1, SyFacts DEF SyStopsAreMeant
<1>4. SyShapes' /\ SyActionFits'
  <2>1. CASE syAction = None \/ syAction.stage \in {"told", "reload"}
    <3>1. syAction' = None
      BY <1>1, <2>1
    <3> QED
      BY <1>1, <3>1, SyFacts DEF SyShapes, SyActionFits
  <2>2. CASE ~(syAction = None \/ syAction.stage \in {"told", "reload"})
    <3>1. syAction \in ActionRecord /\ syAction # None
      BY <2>2, SyFacts
    <3>2. PICK action : action = [syAction EXCEPT !.told = FALSE]
      OBVIOUS
    <3>3. /\ action \in ActionRecord
      BY <3>1, <3>2, ActionUpdates
    <3>4. /\ action.stage = syAction.stage /\ action.told = FALSE
          /\ action.unit = syAction.unit /\ action.action = syAction.action
          /\ action.change = syAction.change
      BY <3>1, <3>2 DEF ActionRecord
    <3>5. syAction' = action
      BY <1>1, <2>2, <3>2
    <3>6. SyShapes'
      BY <1>1, <3>3, <3>5, SyFacts DEF SyShapes
    <3>7. SyActionFits'
      BY <1>1, <2>2, <3>1, <3>4, <3>5, SyFacts DEF SyActionFits
    <3> QED
      BY <3>6, <3>7
  <2> QED
    BY <2>1, <2>2
<1> QED
  BY <1>2, <1>3, <1>4 DEF SyInv

\* What is selected, and what the connection does to it.
LEMMA RenderedKeeps ==
    ASSUME SyInv, NEW panel \in PanelRecord \cup {None}, NEW up, Renders(panel, up),
           panel = None <=> syPanel = None,
           syPanel # None => panel.heard = syPanel.heard /\ panel.running = syPanel.running,
           UNCHANGED <<sySystem, syHit, syConfirmed, syAction, syDone>>,
           syLists' \subseteq syLists \cup {List("page")}, syPanel = None => syLists' = syLists
    PROVE  SyInv'
<1>1. /\ syPanel' \in PanelRecord \cup {None} /\ syDetails' \subseteq ReadRecord
      /\ syPanel' = None <=> syPanel = None
      /\ syPanel = None => syDetails' = {}
      /\ syPanel # None => /\ syPanel'.heard = syPanel.heard
                           /\ syPanel'.running = syPanel.running
  BY RendersKeeps
<1>2. syPanel = None => syLists' = {}
  BY SyFacts DEF SyPanelFits
<1> QED
  BY <1>1, <1>2, QuietKeeps

LEMMA SySelectsKeeps ==
    ASSUME SyInv, NEW unit \in Service \cup {None}, syPanel # None,
           Renders([syPanel EXCEPT !.selected = unit], syUp),
           UNCHANGED <<syLists, syAction, syDone>>, AfterPanelStep
    PROVE  SyInv'
<1>1. syPanel \in PanelRecord
  BY SyFacts
<1>2. PICK panel : panel = [syPanel EXCEPT !.selected = unit]
  OBVIOUS
<1>3. panel \in PanelRecord /\ panel.heard = syPanel.heard /\ panel.running = syPanel.running
  BY <1>1, <1>2 DEF PanelRecord
<1>4. Renders(panel, syUp)
  BY <1>2
<1>5. UNCHANGED <<sySystem, syHit, syConfirmed>> /\ panel # None
  BY <1>3, SyNoneAssumption DEF AfterPanelStep, syServerVars
<1> QED
  BY <1>3, <1>4, <1>5, RenderedKeeps

LEMMA SyConnectionKeeps ==
    ASSUME SyInv, SyLost \/ SyConnects
    PROVE  SyInv'
<1>1. /\ UNCHANGED <<sySystem, syHit, syConfirmed, syAction, syDone>>
      /\ syLists' \subseteq syLists \cup {List("page")}
      /\ syPanel = None => syLists' = syLists
  BY DEF SyLost, SyConnects, AfterPanelStep, syServerVars
<1>2. CASE SyLost
  <2>1. PICK panel : panel = IF syPanel = None THEN None ELSE [syPanel EXCEPT !.available = None]
    OBVIOUS
  <2>2. Renders(panel, FALSE)
    BY <1>2, <2>1 DEF SyLost
  <2>3. CASE syPanel = None
    <3>1. panel = None
      BY <2>1, <2>3
    <3> QED
      BY <1>1, <2>2, <2>3, <3>1, RenderedKeeps
  <2>4. CASE syPanel # None
    <3>1. panel = [syPanel EXCEPT !.available = None] /\ syPanel \in PanelRecord
      BY <2>1, <2>4, SyFacts
    <3>2. panel \in PanelRecord /\ panel.heard = syPanel.heard /\ panel.running = syPanel.running
      BY <3>1 DEF PanelRecord
    <3>3. panel # None
      BY <3>2, SyNoneAssumption
    <3> QED
      BY <1>1, <2>2, <2>4, <3>2, <3>3, RenderedKeeps
  <2> QED
    BY <2>3, <2>4
<1>3. CASE SyConnects
  <2>1. Renders(syPanel, TRUE) /\ syPanel \in PanelRecord \cup {None}
    BY <1>3, SyFacts DEF SyConnects
  <2> QED
    BY <1>1, <2>1, RenderedKeeps
<1> QED
  BY <1>2, <1>3

\* What is read of a unit, and how it is shown.
LEMMA SyDetailsKeep ==
    ASSUME SyInv, \/ SyReloads \/ SyRereads \/ SyShowsFile
                  \/ \E d \in syDetails : SyDetailReads(d) \/ SyDetailFails(d) \/ SyDetailAnswers(d)
    PROVE  SyInv'
<1>1. /\ UNCHANGED <<sySystem, syHit, syConfirmed, syAction, syDone>>
      /\ syLists' \subseteq syLists \cup {List("page")}
  BY DEF SyReloads, SyRereads, SyShowsFile, SyDetailReads, SyDetailFails, SyDetailAnswers,
         AfterPanelStep, AfterDetailStep, syServerVars, Begins
<1>2. syPanel # None /\ syPanel \in PanelRecord
  <2>1. syDetails # {} => syPanel # None
    BY SyFacts DEF SyPanelFits
  <2> QED
    BY <2>1, SyFacts DEF SyReloads, SyRereads, SyShowsFile, DetailMounted
<1>3. \A kinds : kinds \subseteq {"show", "file"} /\ DetailMounted(syPanel, syUp) /\ AsksFor(kinds)
                     => syDetails' \subseteq ReadRecord
  <2> SUFFICES ASSUME NEW kinds, kinds \subseteq {"show", "file"}, DetailMounted(syPanel, syUp),
                      AsksFor(kinds)
               PROVE  syDetails' \subseteq ReadRecord
    OBVIOUS
  <2>1. syPanel.selected \in Service
    BY <1>2, SyPanelFields DEF DetailMounted
  <2>2. \A k \in kinds : UnitRead(k, syPanel.selected) \in ReadRecord
    BY <2>1 DEF UnitRead, ReadRecord
  <2> QED
    BY <2>2, SyFacts DEF AsksFor
<1> DEFINE Quiet == /\ syPanel' \in PanelRecord /\ syDetails' \subseteq ReadRecord
                    /\ syPanel'.heard = syPanel.heard /\ syPanel'.running = syPanel.running
<1>4. ASSUME Quiet PROVE SyInv'
  <2>1. syPanel' # None
    BY <1>4, SyNoneAssumption
  <2> QED
    BY <1>1, <1>2, <1>4, <2>1, QuietKeeps
<1>5. CASE SyReloads
  BY <1>2, <1>4, <1>5, SyFacts DEF SyReloads
<1>6. CASE SyRereads
  BY <1>2, <1>3, <1>4, <1>6 DEF SyRereads, LoadedKinds
<1>7. CASE SyShowsFile
  <2>1. syPanel' = [syPanel EXCEPT !.fileOpen = ~syPanel.fileOpen]
    BY <1>7 DEF SyShowsFile
  <2>2. PICK shown \in BOOLEAN : shown = ~syPanel.fileOpen
    OBVIOUS
  <2>3. syDetails' \subseteq ReadRecord
    BY <1>3, <1>7, SyFacts DEF SyShowsFile
  <2> QED
    BY <1>2, <1>4, <2>1, <2>2, <2>3 DEF PanelRecord
<1>8. ASSUME NEW d \in syDetails, SyDetailReads(d)
      PROVE  Quiet
  <2>1. d \in ReadRecord /\ sySystem.units[d.unit] \in UnitState
    BY SyFacts DEF ReadRecord
  <2>2. [d EXCEPT !.saw = sySystem.units[d.unit]] \in ReadRecord
    BY <2>1 DEF ReadRecord
  <2> QED
    BY <1>2, <1>8, <2>2, SyFacts DEF SyDetailReads
<1>9. ASSUME NEW d \in syDetails, SyDetailFails(d)
      PROVE  Quiet
  BY <1>2, <1>9, SyFacts DEF SyDetailFails
<1>10. ASSUME NEW d \in syDetails, SyDetailAnswers(d)
       PROVE  Quiet
  <2>1. d \in ReadRecord /\ d.saw \in UnitState \cup {None} /\ d.unit \in Service
    BY SyFacts DEF ReadRecord
  <2>2. syDetails' \subseteq ReadRecord
    BY <1>10, SyFacts DEF SyDetailAnswers
  <2>3. CASE d.kind = "show"
    <3>1. syPanel' = [syPanel EXCEPT !.detail = d.saw]
      BY <1>10, <2>3 DEF SyDetailAnswers
    <3> QED
      BY <1>2, <2>1, <2>2, <3>1 DEF PanelRecord
  <2>4. CASE d.kind # "show"
    <3>1. syPanel' = [syPanel EXCEPT !.file = d.unit]
      BY <1>10, <2>4 DEF SyDetailAnswers
    <3> QED
      BY <1>2, <2>1, <2>2, <3>1 DEF PanelRecord
  <2> QED
    BY <2>3, <2>4
<1> QED
  BY <1>4, <1>5, <1>6, <1>7, <1>8, <1>9, <1>10

LEMMA RestedKeeps ==
    ASSUME NEW panel \in PanelRecord, NEW list
    PROVE  /\ Rested(panel, list) \in PanelRecord /\ Rested(panel, list).heard = panel.heard
           /\ list.by = "action" => Rested(panel, list).running = FALSE
           /\ list.by # "action" => Rested(panel, list).running = panel.running
<1>1. CASE list.by = "action"
  <2>1. PICK rested : rested = [panel EXCEPT !.running = FALSE]
    OBVIOUS
  <2>2. rested \in PanelRecord
    BY <2>1 DEF PanelRecord
  <2>3. rested.heard = panel.heard /\ rested.running = FALSE
    BY <2>1 DEF PanelRecord
  <2>4. Rested(panel, list) = rested
    BY <1>1, <2>1 DEF Rested
  <2> QED
    BY <1>1, <2>2, <2>3, <2>4
<1>2. CASE list.by # "action"
  BY <1>2 DEF Rested
<1> QED
  BY <1>1, <1>2

\* Lists.
LEMMA SyListsKeep ==
    ASSUME SyInv, NEW list \in syLists,
           \/ \E answer \in BOOLEAN : SyListChecked(list, answer)
           \/ SyListsUnits(list) \/ SyListFails(list)
           \/ \E told \in BOOLEAN : SyListAnswers(list, told)
    PROVE  SyInv'
<1>1. /\ syPanel # None /\ syPanel \in PanelRecord /\ syPanel.heard \in Nat
      /\ syPanel.running \in BOOLEAN
  BY SyFacts, SyPanelFields DEF SyPanelFits
<1>2. UNCHANGED <<sySystem, syHit, syConfirmed>>
  BY DEF SyListChecked, SyListsUnits, SyListFails, SyListAnswers, AfterListStep, syServerVars
<1>3. /\ list \in ListRecord /\ list.at \in Nat /\ list.by \in {"page", "action"}
      /\ list.saw \in [Service -> UnitState] \cup {<<>>}
  BY SyFacts DEF ListRecord
<1>4. ASSUME SyListChecked(list, TRUE)
      PROVE  SyInv'
  <2>1. PICK panel, next : /\ panel = [syPanel EXCEPT !.available = TRUE]
                           /\ next = [list EXCEPT !.stage = "units"]
    OBVIOUS
  <2>2. /\ panel \in PanelRecord /\ panel.heard = syPanel.heard
        /\ panel.running = syPanel.running
    BY <1>1, <2>1 DEF PanelRecord
  <2>3. next \in ListRecord /\ next.by = list.by /\ next.stage = "units"
    BY <1>3, <2>1 DEF ListRecord
  <2>4. Renders(panel, syUp) /\ Moved(list, next) /\ UNCHANGED <<syAction, syDone>>
    BY <1>4, <2>1 DEF SyListChecked
  <2>5. /\ syPanel' \in PanelRecord /\ syDetails' \subseteq ReadRecord
        /\ syPanel'.heard = syPanel.heard /\ syPanel'.running = syPanel.running
    BY <2>2, <2>4, RendersKeeps, SyNoneAssumption
  <2> QED
    BY <1>1, <1>2, <2>3, <2>4, <2>5, ListGoesOn
<1>5. ASSUME SyListChecked(list, FALSE)
      PROVE  SyInv'
  <2>1. PICK gone : gone = [syPanel EXCEPT !.available = FALSE, !.units = <<>>]
    OBVIOUS
  <2>2. /\ gone \in PanelRecord /\ gone.heard = syPanel.heard
        /\ gone.running = syPanel.running
    BY <1>1, <2>1 DEF PanelRecord
  <2>3. PICK panel : panel = Rested(gone, list)
    OBVIOUS
  <2>4. /\ panel \in PanelRecord /\ panel.heard = syPanel.heard
        /\ list.by = "action" => panel.running = FALSE
        /\ list.by # "action" => panel.running = syPanel.running
    BY <2>2, <2>3, RestedKeeps
  <2>5. /\ Renders(panel, syUp) /\ syLists' = syLists \ {list} /\ Over(list)
        /\ syDone' = IF list.by = "action" THEN None ELSE syDone
    BY <1>5, <2>1, <2>3 DEF SyListChecked
  <2>6. /\ syPanel' \in PanelRecord /\ syDetails' \subseteq ReadRecord
        /\ syPanel'.heard = syPanel.heard /\ syPanel'.running = panel.running
    BY <2>4, <2>5, RendersKeeps, SyNoneAssumption
  <2> QED
    BY <1>1, <1>2, <2>4, <2>5, <2>6, ListEnds
<1>6. ASSUME SyListsUnits(list)
      PROVE  SyInv'
  <2>1. PICK next : next = [list EXCEPT !.stage = "files", !.saw = sySystem.units,
                                        !.at = sySystem.changes]
    OBVIOUS
  <2>2. next \in ListRecord /\ next.by = list.by /\ next.at = sySystem.changes
        /\ next.saw = sySystem.units
    BY <1>3, <2>1, SyFacts DEF ListRecord
  <2>3. Moved(list, next) /\ UNCHANGED <<syPanel, syDetails, syAction, syDone>>
    BY <1>6, <2>1 DEF SyListsUnits
  <2> QED
    BY <1>1, <1>2, <2>2, <2>3, SyFacts, UnitsAreShown, ListGoesOn
<1>7. ASSUME SyListFails(list)
      PROVE  SyInv'
  <2>1. PICK panel : panel = Rested(syPanel, list)
    OBVIOUS
  <2>2. /\ panel \in PanelRecord /\ panel.heard = syPanel.heard
        /\ list.by = "action" => panel.running = FALSE
        /\ list.by # "action" => panel.running = syPanel.running
    BY <1>1, <2>1, RestedKeeps
  <2>3. /\ syPanel' = panel /\ syLists' = syLists \ {list} /\ Over(list) /\ UNCHANGED syDetails
        /\ syDone' = IF list.by = "action" THEN None ELSE syDone
    BY <1>7, <2>1 DEF SyListFails
  <2> QED
    BY <1>1, <1>2, <2>2, <2>3, SyFacts, ListEnds
<1>8. ASSUME NEW told \in BOOLEAN, SyListAnswers(list, told)
      PROVE  SyInv'
  <2>1. /\ list.stage = "files" /\ syLists' = syLists \ {list} /\ Over(list)
        /\ UNCHANGED <<syDetails, syDone>>
        /\ syPanel' = Rested([syPanel EXCEPT !.units = mergeUnits(list.saw, Startups(told)),
                                             !.heard = Later(syPanel.heard, list.at)], list)
    BY <1>8 DEF SyListAnswers
  <2>2. list.saw \in [Service -> UnitState]
    BY <1>3, <2>1, SyFacts DEF SyListsFit
  <2>3. Startups(told) \in [Service -> {"enabled", "disabled", "unknown"}]
    <3>1. \A u \in Service : sySystem.units[u].startup \in {"enabled", "disabled", "unknown"}
      BY SyFacts DEF UnitState
    <3> QED
      BY <3>1 DEF Startups
  <2>4. PICK startups, units : startups = Startups(told) /\ units = mergeUnits(list.saw, startups)
    OBVIOUS
  <2>5. units \in [Service -> UnitState]
    <3>1. \A row \in UnitState, is \in {"enabled", "disabled", "unknown"} :
              [row EXCEPT !.startup = is] \in UnitState
      BY DEF UnitState
    <3>2. \A u \in Service : [list.saw[u] EXCEPT !.startup = startups[u]] \in UnitState
      BY <2>2, <2>3, <2>4, <3>1
    <3> QED
      BY <2>4, <3>2 DEF mergeUnits
  <2>6. PICK before, at, heard : /\ before = syPanel.heard /\ at = list.at
                                 /\ heard = Later(before, at)
    OBVIOUS
  <2>7. heard \in Nat /\ heard >= before /\ heard >= at
    <3>1. before \in Nat /\ at \in Nat /\ heard = IF before < at THEN at ELSE before
      BY <1>1, <1>3, <2>6 DEF Later
    <3> QED
      BY ONLY <3>1
  <2>8. PICK shown : shown = [syPanel EXCEPT !.units = units, !.heard = heard]
    OBVIOUS
  <2>9. shown \in PanelRecord /\ shown.heard = heard /\ shown.running = syPanel.running
    <3>1. shown \in PanelRecord
      BY <1>1, <2>5, <2>7, <2>8 DEF PanelRecord
    <3>2. shown.heard = heard /\ shown.running = syPanel.running
      BY <1>1, <2>8 DEF PanelRecord
    <3> QED
      BY <3>1, <3>2
  <2>10. PICK panel : panel = Rested(shown, list)
    OBVIOUS
  <2>11. /\ panel \in PanelRecord /\ panel.heard = heard
         /\ list.by = "action" => panel.running = FALSE
         /\ list.by # "action" => panel.running = syPanel.running
    BY <2>9, <2>10, RestedKeeps
  <2>12. syPanel' = panel
    BY <2>1, <2>4, <2>6, <2>8, <2>10
  <2>13. list.by = "action" /\ syDone # None => heard >= syDone
    <3> SUFFICES ASSUME list.by = "action", syDone # None
                 PROVE  heard >= syDone
      OBVIOUS
    <3>1. at \in Nat /\ syDone \in Nat /\ at >= syDone
      BY <1>3, <2>1, <2>6, SyFacts DEF SyListsFit, SyDoneFits
    <3>2. PICK done : done = syDone
      OBVIOUS
    <3>3. heard >= done
      <4>1. at \in Nat /\ done \in Nat /\ at >= done /\ heard \in Nat /\ heard >= at
        BY <2>7, <3>1, <3>2
      <4> QED
        BY ONLY <4>1
    <3> QED
      BY <3>2, <3>3
  <2>14. /\ syPanel' \in PanelRecord /\ syPanel'.heard \in Nat /\ syPanel'.heard >= syPanel.heard
         /\ syDetails' \subseteq ReadRecord
    BY <2>1, <2>6, <2>7, <2>11, <2>12, SyFacts
  <2>15. list.by = "action" /\ syDone' # None => syPanel'.heard >= syDone'
    BY <2>1, <2>11, <2>12, <2>13
  <2> QED
    BY <1>1, <1>2, <2>1, <2>11, <2>12, <2>14, <2>15, ListEnds
<1> QED
  BY <1>4, <1>5, <1>6, <1>7, <1>8

\* Actions: a button, and the dialog that two of them ask for.
LEMMA ActionOnIs ==
    ASSUME NEW unit \in Service, NEW action \in SystemdAction
    PROVE  /\ ActionOn(unit, action) \in ActionRecord
           /\ ActionOn(unit, action).unit = unit /\ ActionOn(unit, action).action = action
           /\ ActionOn(unit, action).stage = "call" /\ ActionOn(unit, action).change = 0
BY DEF ActionOn, ActionRecord

\* An action begins.
LEMMA ActionBegins ==
    ASSUME SyInv, syAction = None, syPanel # None, syPanel' \in PanelRecord,
           syPanel'.heard = syPanel.heard,
           NEW unit \in Service, NEW action \in SystemdAction, syAction' = ActionOn(unit, action),
           action \in CONFIRMED_ACTIONS => [unit |-> unit, action |-> action] \in syConfirmed',
           syConfirmed \subseteq syConfirmed',
           UNCHANGED <<sySystem, syHit, syLists, syDetails, syDone>>
    PROVE  SyInv'
<1>1. /\ ActionOn(unit, action) \in ActionRecord
      /\ ActionOn(unit, action).unit = unit /\ ActionOn(unit, action).action = action
      /\ ActionOn(unit, action).stage = "call" /\ ActionOn(unit, action).change = 0
      /\ ActionOn(unit, action).told = TRUE
  BY ActionOnIs DEF ActionOn
<1>2. PICK begun : begun = ActionOn(unit, action)
  OBVIOUS
<1>3. syPanel' # None /\ syAction' = begun /\ begun # None
  BY <1>1, <1>2, SyNoneAssumption
<1>4. SyShapes'
  BY <1>1, <1>2, <1>3, SyFacts DEF SyShapes
<1>5. SyPanelFits'
  BY <1>1, <1>2, <1>3 DEF SyPanelFits
<1>6. 0 <= sySystem.changes
  BY SyFacts
<1>7. SyActionFits'
  BY <1>1, <1>2, <1>3, <1>6 DEF SyActionFits
<1>8. SyListsFit'
  BY SyFacts DEF SyListsFit, ActionAt
<1>9. SyDoneFits'
  BY SyFacts DEF SyDoneFits, ActionAt
<1>10. SyStopsAreMeant'
  BY SyFacts DEF SyStopsAreMeant
<1> QED
  BY <1>4, <1>5, <1>7, <1>8, <1>9, <1>10 DEF SyInv

LEMMA SyRequestsKeeps ==
    ASSUME SyInv, NEW unit \in Service, NEW action \in SystemdAction, SyRequests(unit, action)
    PROVE  SyInv'
<1>1. /\ syPanel # None /\ syPanel \in PanelRecord /\ syAction = None
      /\ UNCHANGED <<sySystem, syHit, syConfirmed, syLists, syDetails, syDone>>
  BY SyFacts DEF SyRequests, Ready, AfterRequest, syServerVars
<1>2. CASE action \in CONFIRMED_ACTIONS
  <2>1. PICK dialog, panel : /\ dialog = [unit |-> unit, action |-> action]
                             /\ panel = [syPanel EXCEPT !.dialog = dialog]
    OBVIOUS
  <2>2. dialog \in DialogRecord
    BY <2>1 DEF DialogRecord
  <2>3. /\ panel \in PanelRecord /\ panel.heard = syPanel.heard
        /\ panel.running = syPanel.running
    BY <1>1, <2>1, <2>2 DEF PanelRecord
  <2>4. syPanel' = panel /\ UNCHANGED syAction
    BY <1>2, <2>1 DEF SyRequests
  <2> QED
    BY <1>1, <2>3, <2>4, SyFacts, QuietKeeps, SyNoneAssumption
<1>3. CASE action \notin CONFIRMED_ACTIONS
  <2>1. PICK panel : panel = [syPanel EXCEPT !.running = TRUE]
    OBVIOUS
  <2>2. panel \in PanelRecord /\ panel.heard = syPanel.heard
    BY <1>1, <2>1 DEF PanelRecord
  <2>3. syPanel' = panel /\ syAction' = ActionOn(unit, action)
    BY <1>3, <2>1 DEF SyRequests
  <2> QED
    BY <1>1, <1>3, <2>2, <2>3, ActionBegins
<1> QED
  BY <1>2, <1>3

LEMMA SyDialogKeeps ==
    ASSUME SyInv, SyDismisses \/ SyConfirms
    PROVE  SyInv'
<1>1. /\ syPanel # None /\ syPanel \in PanelRecord /\ syPanel.dialog # None
      /\ UNCHANGED <<sySystem, syHit, syLists, syDetails, syDone>>
  BY SyFacts DEF SyDismisses, SyConfirms, Ready, AfterRequest, syServerVars
<1>2. CASE SyDismisses
  <2>1. PICK panel : panel = [syPanel EXCEPT !.dialog = None]
    OBVIOUS
  <2>2. /\ panel \in PanelRecord /\ panel.heard = syPanel.heard
        /\ panel.running = syPanel.running
    BY <1>1, <2>1 DEF PanelRecord
  <2>3. syPanel' = panel /\ UNCHANGED <<syAction, syConfirmed>>
    BY <1>2, <2>1 DEF SyDismisses
  <2> QED
    BY <1>1, <2>2, <2>3, SyFacts, QuietKeeps, SyNoneAssumption
<1>3. CASE SyConfirms
  <2>1. PICK panel : panel = [syPanel EXCEPT !.dialog = None, !.running = TRUE]
    OBVIOUS
  <2>2. panel \in PanelRecord /\ panel.heard = syPanel.heard
    BY <1>1, <2>1 DEF PanelRecord
  <2>3. PICK dialog \in DialogRecord : dialog = syPanel.dialog
    BY <1>1, SyPanelFields
  <2>4. /\ dialog.unit \in Service /\ dialog.action \in SystemdAction
        /\ dialog = [unit |-> dialog.unit, action |-> dialog.action]
    BY DEF DialogRecord
  <2>5. /\ syAction = None /\ syPanel' = panel /\ syAction' = ActionOn(dialog.unit, dialog.action)
        /\ syConfirmed' = syConfirmed \cup {dialog}
    BY <1>3, <2>1, <2>3 DEF SyConfirms
  <2> QED
    BY <1>1, <2>2, <2>4, <2>5, ActionBegins
<1> QED
  BY <1>2, <1>3

\* An action is over without the panel having to read: nobody waits for it, or it failed.
LEMMA RefusedKeeps ==
    ASSUME SyInv, ActionAt("call"), Refused, sySystem' \in SystemRecord,
           sySystem'.changes >= sySystem.changes, SyStopsAreMeant',
           UNCHANGED <<syLists, syDetails, syDone, syConfirmed>>
    PROVE  SyInv'
<1>1. /\ syAction' = None /\ syAction # None /\ syAction.stage = "call"
      /\ syAction.told => syPanel # None
  BY SyFacts DEF Refused, ActionAt, SyActionFits
<1>2. /\ syPanel' \in PanelRecord \cup {None}
      /\ syPanel' = None <=> syPanel = None
      /\ syPanel # None => syPanel'.heard = syPanel.heard /\ ~syPanel'.running
  <2>1. CASE syAction.told
    <3>1. syPanel \in PanelRecord /\ syPanel # None
      BY <1>1, <2>1, SyFacts
    <3>2. PICK panel : panel = [syPanel EXCEPT !.running = FALSE]
      OBVIOUS
    <3>3. panel \in PanelRecord /\ panel.heard = syPanel.heard /\ panel.running = FALSE
      BY <3>1, <3>2 DEF PanelRecord
    <3>4. syPanel' = panel
      BY <2>1, <3>2 DEF Refused
    <3> QED
      BY <3>1, <3>3, <3>4, SyNoneAssumption
  <2>2. CASE ~syAction.told
    BY <2>2, SyFacts DEF Refused, SyPanelFits
  <2> QED
    BY <2>1, <2>2
<1>3. SyShapes'
  BY <1>1, <1>2, SyFacts DEF SyShapes
<1>4. SyPanelFits'
  BY <1>2, SyFacts DEF SyPanelFits
<1>5. SyActionFits'
  BY <1>1 DEF SyActionFits
<1>6. SyListsFit'
  BY <1>1, SyFacts DEF SyListsFit, ActionAt
<1>7. SyDoneFits'
  <2> SUFFICES ASSUME syDone # None
               PROVE  /\ syDone \in Nat /\ syDone <= sySystem'.changes
                      /\ syPanel'.heard >= syDone
    BY DEF SyDoneFits
  <2>1. /\ syDone \in Nat /\ syDone <= sySystem.changes /\ syPanel.heard >= syDone
        /\ syPanel # None
    BY <1>1, SyFacts DEF SyDoneFits, SyPanelFits, ActionAt
  <2>2. sySystem.changes \in Nat /\ sySystem'.changes \in Nat
    BY SyFacts DEF SystemRecord
  <2>3. PICK done, before, after : /\ done = syDone /\ before = sySystem.changes
                                   /\ after = sySystem'.changes
    OBVIOUS
  <2>4. done <= after
    <3>1. done \in Nat /\ before \in Nat /\ after \in Nat /\ done <= before /\ after >= before
      BY <2>1, <2>2, <2>3
    <3> QED
      BY ONLY <3>1
  <2> QED
    BY <1>2, <2>1, <2>3, <2>4
<1> QED
  BY <1>3, <1>4, <1>5, <1>6, <1>7 DEF SyInv

LEMMA ChangedIs ==
    ASSUME SyInv, NEW unit \in Service, NEW is \in UnitState
    PROVE  /\ Changed(sySystem, unit, is) \in SystemRecord
           /\ Changed(sySystem, unit, is).changes = sySystem.changes + 1
<1>1. /\ [sySystem.units EXCEPT ![unit] = is] \in [Service -> UnitState]
      /\ sySystem.changes + 1 \in Nat
  BY SyFacts
<1> QED
  BY <1>1 DEF Changed, SystemRecord

LEMMA SyActionFailsKeeps ==
    ASSUME SyInv, SyActionFails
    PROVE  SyInv'
<1>1. /\ ActionAt("call") /\ Refused
      /\ UNCHANGED <<sySystem, syHit, syLists, syDetails, syDone, syConfirmed>>
  BY DEF SyActionFails, AfterActionStep, syServerVars
<1>2. sySystem' \in SystemRecord /\ sySystem'.changes >= sySystem.changes
  BY <1>1, SyFacts DEF SyShapes
<1>3. SyStopsAreMeant'
  BY <1>1, SyFacts DEF SyStopsAreMeant
<1> QED
  BY <1>1, <1>2, <1>3, RefusedKeeps

LEMMA AfterActionIs ==
    ASSUME NEW unit \in UnitState, NEW action
    PROVE  AfterAction(unit, action) \in UnitState
<1>1. /\ \A is \in {"active", "inactive"} : [unit EXCEPT !.active = is] \in UnitState
      /\ \A is \in {"enabled", "disabled"} : [unit EXCEPT !.startup = is] \in UnitState
  BY DEF UnitState
<1> QED
  BY <1>1 DEF AfterAction

LEMMA SyActionRunsKeeps ==
    ASSUME SyInv, NEW answers \in BOOLEAN, SyActionRuns(answers)
    PROVE  SyInv'
<1>1. /\ ActionAt("call") /\ UNCHANGED <<syLists, syDetails, syDone, syConfirmed>>
      /\ ~ProtectedActionBlock(syAction.unit, syAction.action)
      /\ syHit' = [unit |-> syAction.unit, action |-> syAction.action]
      /\ sySystem' = Changed(sySystem, syAction.unit,
                             AfterAction(sySystem.units[syAction.unit], syAction.action))
  BY DEF SyActionRuns, AfterActionStep
<1>2. /\ syAction # None /\ syAction.stage = "call" /\ syAction \in ActionRecord
      /\ syAction.unit \in Service
  BY <1>1, SyFacts, ActionUpdates DEF ActionAt
<1>3. PICK n : n = sySystem.changes
  OBVIOUS
<1>4. sySystem' \in SystemRecord /\ sySystem'.changes = n + 1 /\ n \in Nat
  <2>1. sySystem.units[syAction.unit] \in UnitState
    BY <1>2, SyFacts
  <2> QED
    BY <1>1, <1>2, <1>3, <2>1, SyFacts, AfterActionIs, ChangedIs
<1>5. n + 1 >= n /\ n + 1 \in Nat
  BY <1>4
<1>6. SyStopsAreMeant'
  <2>1. syAction.action \in CONFIRMED_ACTIONS =>
            /\ [unit |-> syAction.unit, action |-> syAction.action] \in syConfirmed
            /\ ~isProtectedSystemdUnit(syAction.unit)
    BY <1>1, <1>2, SyFacts DEF SyActionFits, ProtectedActionBlock, CONFIRMED_ACTIONS
  <2>2. PICK hit : hit = [unit |-> syAction.unit, action |-> syAction.action]
    OBVIOUS
  <2>3. hit.action = syAction.action /\ hit.unit = syAction.unit /\ syHit' = hit
    BY <1>1, <2>2
  <2>4. hit.action \in CONFIRMED_ACTIONS =>
            ~isProtectedSystemdUnit(hit.unit) /\ hit \in syConfirmed
    BY <2>1, <2>2, <2>3
  <2> QED
    BY <1>1, <2>3, <2>4 DEF SyStopsAreMeant, isProtectedSystemdUnit
<1>7. CASE ~(answers /\ syAction.told)
  <2>1. Refused
    BY <1>7 DEF SyActionRuns
  <2> QED
    BY <1>1, <1>3, <1>4, <1>5, <1>6, <2>1, RefusedKeeps
<1>8. CASE answers /\ syAction.told
  <2>1. PICK action : action = [syAction EXCEPT !.stage = "told", !.change = n + 1]
    OBVIOUS
  <2>2. action \in ActionRecord
    BY <1>2, <1>5, <2>1, ActionUpdates
  <2>3. /\ action.stage = "told" /\ action.change = n + 1 /\ action.told = syAction.told
        /\ action.unit = syAction.unit /\ action.action = syAction.action
    BY <1>2, <2>1 DEF ActionRecord
  <2>4. syAction' = action /\ UNCHANGED syPanel /\ action # None
    BY <1>3, <1>8, <2>1, <2>2, SyNoneAssumption DEF SyActionRuns
  <2>5. SyShapes'
    BY <1>1, <1>4, <2>2, <2>4, SyFacts DEF SyShapes
  <2>6. SyPanelFits'
    BY <1>1, <1>8, <2>3, <2>4, SyFacts DEF SyPanelFits
  <2>7. SyActionFits'
    <3>1. action.change <= n + 1
      BY <1>5, <2>3
    <3> QED
      BY <1>1, <1>2, <1>4, <1>8, <2>3, <2>4, <3>1, SyFacts DEF SyActionFits
  <2>8. SyListsFit'
    BY <1>1, <1>2, <2>4, SyFacts DEF SyListsFit, ActionAt
  <2>9. SyDoneFits'
    <3> SUFFICES ASSUME syDone # None
                 PROVE  SyDoneFits'
      BY <1>1 DEF SyDoneFits
    <3>1. syDone \in Nat /\ syDone <= n /\ syPanel.heard >= syDone
      BY <1>1, <1>2, <1>3, SyFacts DEF SyDoneFits, ActionAt
    <3>2. PICK done : done = syDone
      OBVIOUS
    <3>3. done <= n + 1
      <4>1. done \in Nat /\ n \in Nat /\ done <= n
        BY <1>4, <3>1, <3>2
      <4> QED
        BY ONLY <4>1
    <3> QED
      BY <1>1, <1>4, <2>4, <3>1, <3>2, <3>3 DEF SyDoneFits
  <2> QED
    BY <1>6, <2>5, <2>6, <2>7, <2>8, <2>9 DEF SyInv
<1> QED
  BY <1>7, <1>8

LEMMA SyActionToldKeeps ==
    ASSUME SyInv, SyActionTold
    PROVE  SyInv'
<1>1. /\ ActionAt("told") /\ syAction' = [syAction EXCEPT !.stage = "reload"]
      /\ syLists' = syLists \cup {List("action")} /\ syDone' = syAction.change
      /\ syDetails' = IF DetailMounted(syPanel, syUp)
                      THEN syDetails \cup {UnitRead(k, syPanel.selected) :
                                           k \in LoadedKinds(syPanel)}
                      ELSE syDetails
      /\ UNCHANGED <<sySystem, syHit, syConfirmed, syPanel>>
  BY DEF SyActionTold, AfterActionStep, syServerVars
<1>2. /\ syAction # None /\ syAction.stage = "told" /\ syAction \in ActionRecord
      /\ syAction.told /\ syPanel # None /\ syPanel \in PanelRecord /\ syAction.change \in Nat
      /\ syAction.change <= sySystem.changes
  BY <1>1, SyFacts, ActionUpdates DEF ActionAt, SyActionFits
<1>3. PICK action : action = [syAction EXCEPT !.stage = "reload"]
  OBVIOUS
<1>4. action \in ActionRecord
  BY <1>2, <1>3 DEF ActionRecord
<1>5. /\ action.stage = "reload" /\ action.change = syAction.change
      /\ action.told = syAction.told /\ action.unit = syAction.unit
      /\ action.action = syAction.action
  BY <1>2, <1>3 DEF ActionRecord
<1>6. syAction' = action /\ action # None
  BY <1>1, <1>3, <1>4, SyNoneAssumption
<1>7. syDetails' \subseteq ReadRecord
  <2>1. DetailMounted(syPanel, syUp) =>
            \A k \in LoadedKinds(syPanel) : UnitRead(k, syPanel.selected) \in ReadRecord
    BY <1>2, SyPanelFields DEF DetailMounted, LoadedKinds, UnitRead, ReadRecord
  <2> QED
    BY <1>1, <2>1, SyFacts
<1>8. SyShapes'
  BY <1>1, <1>4, <1>6, <1>7, SyFacts, ListFields DEF SyShapes
<1>9. SyPanelFits'
  BY <1>1, <1>2, <1>5, <1>6, SyFacts DEF SyPanelFits
<1>10. SyActionFits'
  BY <1>1, <1>2, <1>5, <1>6, SyFacts DEF SyActionFits
<1>11. SyListsFit'
  <2>1. \A list \in syLists : list.by # "action" /\ (list.stage = "files" => list.saw # <<>>)
    BY <1>2, SyFacts DEF SyListsFit, ActionAt
  <2>2. \A list \in syLists' : /\ list.by = "action" => list = List("action")
                               /\ list.stage = "files" => list \in syLists
    BY <1>1, <2>1, ListFields
  <2>3. ActionAt("reload")'
    BY <1>5, <1>6 DEF ActionAt
  <2> QED
    BY <2>1, <2>2, <2>3 DEF SyListsFit
<1>12. SyDoneFits'
  BY <1>1, <1>2, <1>5, <1>6 DEF SyDoneFits, ActionAt
<1>13. SyStopsAreMeant'
  BY <1>1, SyFacts DEF SyStopsAreMeant
<1> QED
  BY <1>8, <1>9, <1>10, <1>11, <1>12, <1>13 DEF SyInv

LEMMA SyServiceFailsKeeps ==
    ASSUME SyInv, SyServiceFails("web")
    PROVE  SyInv'
<1>1. /\ sySystem' = Changed(sySystem, "web", [sySystem.units["web"] EXCEPT !.active = "failed"])
      /\ UNCHANGED <<syHit, syPanel, syLists, syDetails, syAction, syConfirmed, syDone>>
  BY DEF SyServiceFails, syWindowVars
<1>2. PICK n : n = sySystem.changes
  OBVIOUS
<1>3. sySystem' \in SystemRecord /\ sySystem'.changes = n + 1 /\ n \in Nat
  <2>1. "web" \in Service
    BY DEF Service
  <2>2. sySystem.units["web"] \in UnitState
    BY <2>1, SyFacts
  <2>3. [sySystem.units["web"] EXCEPT !.active = "failed"] \in UnitState
    BY <2>2 DEF UnitState
  <2> QED
    BY <1>1, <1>2, <2>1, <2>3, SyFacts, ChangedIs
<1>4. \A m \in Nat : m <= n => m <= n + 1
  BY <1>3
<1>5. SyShapes'
  BY <1>1, <1>3, SyFacts DEF SyShapes
<1>6. SyPanelFits'
  BY <1>1, SyFacts DEF SyPanelFits
<1>7. SyActionFits'
  <2>1. syAction # None => syAction.change \in Nat /\ syAction.change <= n
    BY <1>2, SyFacts, ActionUpdates DEF SyActionFits
  <2> QED
    BY <1>1, <1>3, <1>4, <2>1, SyFacts DEF SyActionFits
<1>8. SyListsFit'
  BY <1>1, SyFacts DEF SyListsFit, ActionAt
<1>9. SyDoneFits'
  BY <1>1, <1>2, <1>3, <1>4, SyFacts DEF SyDoneFits, ActionAt
<1>10. SyStopsAreMeant'
  BY <1>1, SyFacts DEF SyStopsAreMeant
<1> QED
  BY <1>5, <1>6, <1>7, <1>8, <1>9, <1>10 DEF SyInv

LEMMA SyStepInv ==
    ASSUME SyInv, [SyNext]_syVars
    PROVE  SyInv'
<1>1. ASSUME NEW unit \in Service \cup {None}, SyOpens(unit)
      PROVE  SyInv'
  BY <1>1, SyOpensKeeps
<1>2. CASE SyLeaves
  BY <1>2, SyLeavesKeeps
<1>3. CASE SyGoesBack
  BY <1>3, SySelectsKeeps DEF SyGoesBack, Ready
<1>4. CASE SyReloads \/ SyRereads \/ SyShowsFile
  BY <1>4, SyDetailsKeep
<1>5. ASSUME NEW unit \in Service, SySelects(unit)
      PROVE  SyInv'
  BY <1>5, SySelectsKeeps DEF SySelects
<1>6. ASSUME NEW list \in syLists,
             \/ \E answer \in BOOLEAN : SyListChecked(list, answer)
             \/ SyListsUnits(list) \/ SyListFails(list)
             \/ \E told \in BOOLEAN : SyListAnswers(list, told)
      PROVE  SyInv'
  BY <1>6, SyListsKeep
<1>7. ASSUME NEW d \in syDetails, SyDetailReads(d) \/ SyDetailFails(d) \/ SyDetailAnswers(d)
      PROVE  SyInv'
  BY <1>7, SyDetailsKeep
<1>8. ASSUME NEW unit \in Service, NEW action \in SystemdAction, SyRequests(unit, action)
      PROVE  SyInv'
  BY <1>8, SyRequestsKeeps
<1>9. CASE SyDismisses \/ SyConfirms
  BY <1>9, SyDialogKeeps
<1>10. CASE SyActionFails \/ SyActionTold
  BY <1>10, SyActionFailsKeeps, SyActionToldKeeps
<1>11. ASSUME NEW answers \in BOOLEAN, SyActionRuns(answers)
       PROVE  SyInv'
  BY <1>11, SyActionRunsKeeps
<1>12. CASE SyServiceFails("web")
  BY <1>12, SyServiceFailsKeeps
<1>13. CASE SyLost \/ SyConnects
  BY <1>13, SyConnectionKeeps
<1>14. CASE UNCHANGED syVars
  <2>1. UNCHANGED <<sySystem, syHit, syPanel, syLists, syDetails, syAction, syConfirmed, syDone>>
    BY <1>14 DEF syVars, syServerVars, syWindowVars
  <2> QED
    BY <2>1, SyFacts, QuietKeeps DEF SyPanelFits
<1> QED
  BY <1>1, <1>2, <1>3, <1>4, <1>5, <1>6, <1>7, <1>8, <1>9, <1>10, <1>11, <1>12, <1>13, <1>14
     DEF SyNext


(***************************************************************************)
(* Types.                                                                  *)
(***************************************************************************)
UsTyped ==
    /\ usServer \in [Accounts -> [exists : BOOLEAN, admin : BOOLEAN]]
    /\ usVisits \in 0..MaxVisits /\ usOrders \in 0..MaxOrders /\ usCuts \in 0..MaxCuts

LEMMA UsInitTyped ==
    ASSUME UsInit
    PROVE  UsTyped
<1>1. [exists |-> TRUE, admin |-> TRUE] \in [exists : BOOLEAN, admin : BOOLEAN]
      /\ Absent \in [exists : BOOLEAN, admin : BOOLEAN]
  BY DEF Absent
<1>2. usServer \in [Accounts -> [exists : BOOLEAN, admin : BOOLEAN]]
  BY <1>1 DEF UsInit
<1> QED
  BY <1>2, UsBoundsAssumption DEF UsInit, UsTyped

\* One more stays within its bound.
LEMMA OneMore ==
    ASSUME NEW n, NEW bound \in Nat, n \in 0..bound, n < bound
    PROVE  n + 1 \in 0..bound
OBVIOUS

LEMMA UsStepTyped ==
    ASSUME UsInv, UsTyped, [UsNext]_usVars
    PROVE  UsTyped'
<1> DEFINE Same == UNCHANGED usServer
           Counts == /\ usVisits' \in 0..MaxVisits /\ usOrders' \in 0..MaxOrders
                     /\ usCuts' \in 0..MaxCuts
<1>1. /\ usServer \in [Accounts -> [exists : BOOLEAN, admin : BOOLEAN]]
      /\ usVisits \in 0..MaxVisits /\ usOrders \in 0..MaxOrders /\ usCuts \in 0..MaxCuts
      /\ MaxOrders \in Nat /\ MaxCuts \in Nat /\ MaxVisits \in Nat
  BY UsBoundsAssumption DEF UsTyped
<1>2. ASSUME Same, Counts PROVE UsTyped'
  BY <1>1, <1>2 DEF UsTyped
<1>3. CASE UsOpens
  BY <1>1, <1>2, <1>3, OneMore DEF UsOpens
<1>4. CASE UsLeaves \/ UsPolls \/ UsBack \/ UsCancels \/ UsCacheExpires
  BY <1>1, <1>2, <1>4 DEF UsLeaves, UsPolls, UsBack, UsCancels, UsCacheExpires
<1>5. ASSUME NEW a \in Accounts, UsSelects(a) \/ UsConfirms(a)
      PROVE  UsTyped'
  BY <1>1, <1>2, <1>5, OneMore DEF UsSelects, UsConfirms
<1>6. ASSUME NEW kind \in Kinds, UsPicks(kind)
      PROVE  UsTyped'
  BY <1>1, <1>2, <1>6 DEF UsPicks
<1>7. ASSUME NEW listing, Discovers(listing)
      PROVE  usCuts' \in 0..MaxCuts
  BY <1>1, <1>7, OneMore DEF Discovers
<1>8. ASSUME NEW q \in Query, UsQueryReads(q) \/ UsAnswers(q) \/ UsQueryFails(q)
      PROVE  UsTyped'
  BY <1>1, <1>2, <1>7, <1>8 DEF UsQueryReads, UsAnswers, UsQueryFails
<1>9. ASSUME NEW o \in Order, UsChecks(o)
      PROVE  UsTyped'
  BY <1>1, <1>2, <1>7, <1>9 DEF UsChecks
<1>10. ASSUME NEW o \in Order, UsTold(o)
       PROVE  UsTyped'
  BY <1>1, <1>2, <1>10 DEF UsTold
<1>11. ASSUME NEW o \in Order, UsRuns(o)
       PROVE  UsTyped'
  <2>1. Counts
    BY <1>1, <1>11 DEF UsRuns
  <2>2. PICK step : \/ usServer' = usServer
                    \/ usServer' = [usServer EXCEPT ![usOrder[o].account] =
                                        After(step, usServer[usOrder[o].account])]
    BY <1>11 DEF UsRuns
  <2>3. ASSUME NEW account \in [exists : BOOLEAN, admin : BOOLEAN]
        PROVE  After(step, account) \in [exists : BOOLEAN, admin : BOOLEAN]
    BY <2>3 DEF After, Created, Absent
  <2>4. PICK b : b = usOrder[o].account
    OBVIOUS
  <2>5. CASE b \in Accounts
    <3>1. After(step, usServer[b]) \in [exists : BOOLEAN, admin : BOOLEAN]
      BY <1>1, <2>3, <2>5
    <3>2. PICK is : is = After(step, usServer[b])
      OBVIOUS
    <3>3. usServer' = usServer \/ usServer' = [usServer EXCEPT ![b] = is]
      BY <2>2, <2>4, <3>2
    <3>4. usServer' \in [Accounts -> [exists : BOOLEAN, admin : BOOLEAN]]
      BY <1>1, <3>1, <3>2, <3>3
    <3> QED
      BY <1>1, <2>1, <3>4 DEF UsTyped
  <2>6. CASE b \notin Accounts
    <3>1. usServer' = usServer
      BY <1>1, <2>2, <2>4, <2>6
    <3> QED
      BY <1>2, <2>1, <3>1
  <2> QED
    BY <2>5, <2>6
<1>12. CASE UNCHANGED usVars
  BY <1>1, <1>2, <1>12 DEF usVars
<1> QED
  BY <1>3, <1>4, <1>5, <1>6, <1>8, <1>9, <1>10, <1>11, <1>12 DEF UsNext

\* Every variable of the accounts has its type.
LEMMA UsInvTyped ==
    ASSUME UsInv, UsTyped
    PROVE  UsTypeOK
<1>1. usPanel.selected \in Accounts \cup {None}
  BY DEF UsInv, UsPanelRecord
<1>2. \A o \in Order : usOrder[o].phase \in {"free", "asked", "checked", "ended"}
  BY DEF UsInv, UsOrdersFit, UsOrderFits, UsOrderRecord
<1> QED
  BY <1>1, <1>2 DEF UsInv, UsTyped, UsTypeOK, UsQueriesFit, UsQueryFits

\* What is typed as a word is one of a few.
CdTyped == cdRaw.special \in Specials \cup {"none", "@sometimes"}

LEMMA CdInitTyped ==
    ASSUME CdInit, CdInv
    PROVE  CdTyped
<1>1. CASE cdBuilder.preset # "custom"
  BY <1>1 DEF CdInv, ValidExpression, CdTyped
<1>2. CASE cdBuilder.preset = "custom"
  <2>1. cdBuilder # DEFAULT_BUILDER
    BY <1>2 DEF DEFAULT_BUILDER
  <2>2. cdRaw \in {Special("@weekly"), Fields(<<Every, Every, Every, Every, Every>>)}
    BY <2>1 DEF CdInit
  <2> QED
    BY <2>2 DEF Special, Fields, Specials, CdTyped
<1> QED
  BY <1>1, <1>2

LEMMA CdStepTyped ==
    ASSUME CdTyped, CdInv', [CdNext]_cdVars
    PROVE  CdTyped'
<1>1. ASSUME NEW builder, Shows(builder)
      PROVE  CdTyped'
  <2>1. CASE builder.preset = "custom"
    BY <1>1, <2>1 DEF Shows, CdTyped
  <2>2. CASE builder.preset # "custom"
    <3>1. ValidExpression(cdRaw')
      BY <1>1, <2>2 DEF Shows, CdInv
    <3> QED
      BY <3>1 DEF ValidExpression, CdTyped
  <2> QED
    BY <2>1, <2>2
<1>2. ASSUME NEW raw, CdTypesRaw(raw), raw.special \in {"none", "@sometimes"}
      PROVE  CdTyped'
  BY <1>2 DEF CdTypesRaw, CdTyped
<1>3. ASSUME NEW preset \in Presets, CdPicks(preset)
      PROVE  CdTyped'
  BY <1>1, <1>3 DEF CdPicks
<1>4. ASSUME NEW input, NEW n, CdEnters(input, n)
      PROVE  CdTyped'
  BY <1>1, <1>4 DEF CdEnters
<1>5. ASSUME NEW fields, CdTypesRaw(Fields(fields))
      PROVE  CdTyped'
  BY <1>2, <1>5 DEF Fields
<1>6. CASE CdTypesRaw(Special("@sometimes"))
  BY <1>2, <1>6 DEF Special
<1>7. CASE UNCHANGED cdVars
  BY <1>7 DEF cdVars, CdTyped
<1> QED
  BY <1>3, <1>4, <1>5, <1>6, <1>7 DEF CdNext

LEMMA CdInvTyped ==
    ASSUME CdInv, CdTyped
    PROVE  CdTypeOK
<1>1. cdBuilder \in CdBuilderRecord
  BY DEF CdInv
<1>2. DOMAIN cdBuilder = DOMAIN DEFAULT_BUILDER /\ cdBuilder.preset \in Presets
  <2>1. DOMAIN cdBuilder = {"preset", "interval", "minute", "hour", "weekday", "dayOfMonth"}
        /\ cdBuilder.preset \in Presets
    BY <1>1 DEF CdBuilderRecord
  <2> QED
    BY <2>1 DEF DEFAULT_BUILDER
<1>3. cdRaw.special = "none" => Len(cdRaw.fields) = 5
  BY DEF CdInv, CdRawFits
<1> QED
  BY <1>2, <1>3 DEF CdTyped, CdTypeOK

\* A line that is a job, and an edit of one that was found.
CrJobIs(job) == job.line \in Nat \ {0} /\ IsJob(job.job)
CrEditTyped(edit) ==
    /\ edit.kind \in {"create", "update", "delete"}
    /\ edit.kind # "delete" => edit.value \in CronLine
    /\ edit.base \in Seq(CronLine)
    /\ edit.phase \in {"read", "late"} /\ edit.kind # "create" =>
           edit.job.line \in DOMAIN edit.base

CrListsTyped ==
    /\ \A c \in Listing : crList[c].phase # "free" => \A j \in crList[c].jobs : CrJobIs(j)
    /\ \A j \in crPanel.jobs : CrJobIs(j)
CrEditsTyped ==
    /\ crPanel.dialog # None => crPanel.dialog.kind \in {"create", "update", "delete"}
    /\ \A e \in Edit : crEdit[e].phase # "free" => CrEditTyped(crEdit[e])
CrTyped ==
    /\ crTab \in Seq(CronLine) /\ crVersion \in 0..MaxTabChanges
    /\ crMounts \in 0..MaxMounts /\ crEdits \in 0..MaxEdits
    /\ CrListsTyped /\ CrEditsTyped

\* Taking a line out of a crontab, putting one in its place or behind it.
LEMMA LinesFacts ==
    ASSUME NEW lines \in Seq(CronLine), NEW line \in CronLine
    PROVE  /\ Append(lines, line) \in Seq(CronLine)
           /\ <<line>> \o lines \in Seq(CronLine) /\ <<line>> \in Seq(CronLine)
           /\ \A n \in DOMAIN lines : /\ RemoveAt(lines, n) \in Seq(CronLine)
                                      /\ [lines EXCEPT ![n] = line] \in Seq(CronLine)
<1>1. Append(lines, line) \in Seq(CronLine) /\ <<line>> \in Seq(CronLine)
      /\ <<line>> \o lines \in Seq(CronLine)
  OBVIOUS
<1>2. ASSUME NEW n \in DOMAIN lines
      PROVE  RemoveAt(lines, n) \in Seq(CronLine)
  <2>1. n \in 1..Len(lines) /\ Len(lines) \in Nat
    OBVIOUS
  <2>2. SubSeq(lines, 1, n - 1) \in Seq(CronLine)
    BY <2>1
  <2>3. SubSeq(lines, n + 1, Len(lines)) \in Seq(CronLine)
    BY <2>1
  <2> QED
    BY <2>2, <2>3 DEF RemoveAt
<1>3. ASSUME NEW n \in DOMAIN lines
      PROVE  [lines EXCEPT ![n] = line] \in Seq(CronLine)
  OBVIOUS
<1> QED
  BY <1>1, <1>2, <1>3

LEMMA CrInitTyped ==
    ASSUME CrInit
    PROVE  CrTyped
<1>1. PICK j \in Job : crTab = <<Comment, Broken, j>>
  BY DEF CrInit
<1>2. Comment \in CronLine /\ Broken \in CronLine /\ j \in CronLine
  BY DEF CronLine
<1>3. crTab \in Seq(CronLine)
  <2> HIDE DEF CronLine
  <2> QED
    BY <1>1, <1>2
<1>4. crPanel.jobs = {} /\ crPanel.dialog = None
  BY DEF CrInit, NoPanel
<1>5. /\ \A c \in Listing : crList[c].phase = "free"
      /\ \A e \in Edit : crEdit[e].phase = "free"
  BY DEF CrInit, NoListing, NoEdit
<1>6. /\ crVersion \in 0..MaxTabChanges /\ crMounts \in 0..MaxMounts
      /\ crEdits \in 0..MaxEdits
  BY CrBoundsAssumption DEF CrInit
<1> QED
  BY <1>3, <1>4, <1>5, <1>6 DEF CrTyped, CrListsTyped, CrEditsTyped

\* A crontab that is changed has lines again, and one change more.
LEMMA TabStaysTyped ==
    ASSUME CrTyped, NEW lines \in Seq(CronLine), TabBecomes(lines)
    PROVE  crTab' \in Seq(CronLine) /\ crVersion' \in 0..MaxTabChanges
<1>1. crVersion \in 0..MaxTabChanges /\ MaxTabChanges \in Nat
  BY CrBoundsAssumption DEF CrTyped
<1>2. crVersion < MaxTabChanges /\ crVersion' = crVersion + 1 /\ crTab' = lines
  BY DEF TabBecomes
<1> QED
  BY <1>1, <1>2, OneMore

\* What an edit installs is a crontab.
LEMMA EditedFacts ==
    ASSUME NEW edit, CrEditTyped(edit), edit.phase \in {"read", "late"}
    PROVE  Installed(Edited(edit)) \in Seq(CronLine)
<1>1. Comment \in CronLine
  BY DEF CronLine
<1>2. Edited(edit) \in Seq(CronLine)
  <2>1. CASE edit.kind = "create"
    <3>1. Append(edit.base, edit.value) \in Seq(CronLine)
      BY <2>1, LinesFacts DEF CrEditTyped
    <3> QED
      BY <2>1, <3>1 DEF Edited
  <2>2. CASE edit.kind = "update"
    <3>1. [edit.base EXCEPT ![edit.job.line] = edit.value] \in Seq(CronLine)
      BY <2>2, LinesFacts DEF CrEditTyped
    <3> QED
      BY <2>2, <3>1 DEF Edited
  <2>3. CASE edit.kind = "delete"
    <3>1. RemoveAt(edit.base, edit.job.line) \in Seq(CronLine)
      BY <1>1, <2>3, LinesFacts DEF CrEditTyped
    <3> QED
      BY <2>3, <3>1 DEF Edited
  <2> QED
    BY <2>1, <2>2, <2>3 DEF CrEditTyped
<1>3. <<Comment>> \in Seq(CronLine)
  BY <1>1, <1>2, LinesFacts
<1> QED
  BY <1>2, <1>3 DEF Installed

\* The jobs of a crontab are on lines that are jobs.
LEMMA JobsAreTyped ==
    ASSUME CrTyped
    PROVE  \A j \in JobsOf(crTab, crVersion) : CrJobIs(j)
BY DEF CrTyped, JobsOf, CrJobIs

\* One listing, and one edit, changes.
LEMMA CrListsStay ==
    ASSUME CrInv, CrTyped, NEW c \in Listing, NEW call, crList' = [crList EXCEPT ![c] = call],
           call.phase # "free" => \A j \in call.jobs : CrJobIs(j),
           \A j \in crPanel'.jobs : CrJobIs(j)
    PROVE  CrListsTyped'
<1>1. \A b \in Listing : crList'[b] = IF b = c THEN call ELSE crList[b]
  BY DEF CrInv, CrCallsFit
<1>2. \A b \in Listing : crList[b].phase # "free" => \A j \in crList[b].jobs : CrJobIs(j)
  BY DEF CrTyped, CrListsTyped
<1>3. ASSUME NEW b \in Listing, crList'[b].phase # "free"
      PROVE  \A j \in crList'[b].jobs : CrJobIs(j)
  BY <1>1, <1>2, <1>3
<1> QED
  BY <1>3 DEF CrListsTyped, CrJobIs

LEMMA CrListsRest ==
    ASSUME CrTyped, UNCHANGED crList, \A j \in crPanel'.jobs : CrJobIs(j)
    PROVE  CrListsTyped'
BY DEF CrTyped, CrListsTyped, CrJobIs

LEMMA CrEditsStay ==
    ASSUME CrInv, CrTyped, NEW e \in Edit, NEW edit, crEdit' = [crEdit EXCEPT ![e] = edit],
           edit.phase # "free" => CrEditTyped(edit),
           crPanel'.dialog = crPanel.dialog \/ crPanel'.dialog = None
    PROVE  CrEditsTyped'
<1>1. \A d \in Edit : crEdit'[d] = IF d = e THEN edit ELSE crEdit[d]
  BY DEF CrInv, CrEditsFit
<1>2. \A d \in Edit : crEdit[d].phase # "free" => CrEditTyped(crEdit[d])
  BY DEF CrTyped, CrEditsTyped
<1>3. ASSUME NEW d \in Edit, crEdit'[d].phase # "free"
      PROVE  CrEditTyped(crEdit'[d])
  BY <1>1, <1>2, <1>3
<1>4. crPanel'.dialog # None => crPanel'.dialog.kind \in {"create", "update", "delete"}
  BY DEF CrTyped, CrEditsTyped
<1> QED
  BY <1>3, <1>4 DEF CrEditsTyped, CrEditTyped

LEMMA CrEditsRest ==
    ASSUME CrTyped, UNCHANGED crEdit,
           crPanel'.dialog # None => crPanel'.dialog.kind \in {"create", "update", "delete"}
    PROVE  CrEditsTyped'
BY DEF CrTyped, CrEditsTyped, CrEditTyped

\* Panels and their listings.
LEMMA CrPanelTyped ==
    ASSUME CrInv, CrTyped, CrOpens \/ CrLeaves \/ CrRefreshes \/ CrCancels
    PROVE  CrTyped'
<1>1. /\ crTab' \in Seq(CronLine) /\ crVersion' \in 0..MaxTabChanges
      /\ crEdits' \in 0..MaxEdits /\ UNCHANGED crEdit
  BY DEF CrTyped, CrOpens, CrLeaves, CrRefreshes, CrCancels
<1>2. crMounts' \in 0..MaxMounts
  BY CrBoundsAssumption, OneMore DEF CrTyped, CrOpens, CrLeaves, CrRefreshes, CrCancels
<1>3. \/ crPanel'.jobs = {} /\ crPanel'.dialog = None
      \/ crPanel'.jobs = crPanel.jobs /\ crPanel'.dialog = crPanel.dialog
      \/ crPanel'.jobs = crPanel.jobs /\ crPanel'.dialog = None
  <2>1. CASE CrOpens \/ CrLeaves
    <3>1. \/ crPanel' = [NoPanel EXCEPT !.open = TRUE, !.loading = TRUE]
          \/ crPanel' = NoPanel
      BY <2>1 DEF CrOpens, CrLeaves
    <3>2. CASE crPanel' = NoPanel
      BY <3>2 DEF NoPanel
    <3>3. CASE crPanel' = [NoPanel EXCEPT !.open = TRUE, !.loading = TRUE]
      BY <3>3 DEF NoPanel
    <3> QED
      BY <3>1, <3>2, <3>3
  <2>2. CASE CrRefreshes \/ CrCancels
    BY <2>2, CrFacts DEF CrRefreshes, CrCancels
  <2> QED
    BY <2>1, <2>2
<1>4. \A j \in crPanel'.jobs : CrJobIs(j)
  BY <1>3 DEF CrTyped, CrListsTyped
<1>5. CrEditsTyped'
  <2>1. crPanel'.dialog # None => crPanel'.dialog = crPanel.dialog
    BY <1>3
  <2> QED
    BY <1>1, <2>1, CrEditsRest DEF CrTyped, CrEditsTyped
<1>6. CrListsTyped'
  <2>1. ASSUME NEW by, NEW mount
        PROVE  Asked(by, mount).jobs = {}
    BY DEF Asked
  <2>2. CASE UNCHANGED crList
    BY <1>4, <2>2, CrListsRest
  <2>3. CASE CrOpens \/ CrRefreshes
    <3>1. PICK c, by, mount : /\ c \in Listing
                              /\ crList' = [crList EXCEPT ![c] = Asked(by, mount)]
      BY <2>3 DEF CrOpens, CrRefreshes
    <3>2. \A j \in Asked(by, mount).jobs : CrJobIs(j)
      BY <2>1
    <3> QED
      BY <1>4, <3>1, <3>2, CrListsStay
  <2> QED
    BY <2>2, <2>3 DEF CrLeaves, CrCancels
<1> QED
  BY <1>1, <1>2, <1>5, <1>6 DEF CrTyped

LEMMA SettledFields ==
    ASSUME NEW panel, CrPanelIs(panel), NEW call
    PROVE  Settled(panel, call).jobs = panel.jobs /\ Settled(panel, call).dialog = panel.dialog
BY DEF CrPanelIs, Settled

LEMMA CrAnswersTyped ==
    ASSUME CrInv, CrTyped, NEW c \in Listing, CrListReads(c) \/ CrLists(c) \/ CrListFails(c)
    PROVE  CrTyped'
<1>1. /\ crTab' \in Seq(CronLine) /\ crVersion' \in 0..MaxTabChanges
      /\ crEdits' \in 0..MaxEdits /\ crMounts' \in 0..MaxMounts /\ UNCHANGED crEdit
  BY DEF CrTyped, CrListReads, CrLists, CrListFails
<1>2. CrPanelIs(crPanel)
  BY CrFacts DEF CrPanelFits
<1>3. /\ crList[c].phase # "free"
      /\ \A j \in crList[c].jobs : CrJobIs(j)
  BY DEF CrTyped, CrListsTyped, CrListReads, CrLists, CrListFails
<1>4. ASSUME NEW panel, CrPanelIs(panel), panel.dialog = crPanel.dialog,
             \A j \in panel.jobs : CrJobIs(j), Answers(c, panel)
      PROVE  /\ \A j \in crPanel'.jobs : CrJobIs(j)
             /\ crPanel'.dialog = crPanel.dialog /\ CrListsTyped'
  <2>1. crPanel' = crPanel \/ crPanel' = Settled(panel, crList[c])
    BY <1>4 DEF Answers
  <2>2. (\A j \in crPanel'.jobs : CrJobIs(j)) /\ crPanel'.dialog = crPanel.dialog
    BY <1>4, <2>1, SettledFields DEF CrTyped, CrListsTyped
  <2>3. crList' = [crList EXCEPT ![c] = NoListing] /\ NoListing.phase = "free"
    BY <1>4 DEF Answers, NoListing
  <2> QED
    BY <2>2, <2>3, CrListsStay
<1>5. CASE CrListReads(c)
  <2>1. PICK call : call = [crList[c] EXCEPT !.phase = "read", !.jobs = JobsOf(crTab, crVersion)]
    OBVIOUS
  <2>2. CrListingIs(crList[c])
    BY <1>3, CrFacts DEF CrCallFits
  <2>3. call.jobs = JobsOf(crTab, crVersion)
    BY <2>1, <2>2 DEF CrListingIs
  <2>4. \A j \in call.jobs : CrJobIs(j)
    BY <2>3, JobsAreTyped
  <2>5. crList' = [crList EXCEPT ![c] = call] /\ UNCHANGED crPanel
    BY <1>5, <2>1 DEF CrListReads
  <2>6. CrListsTyped'
    BY <2>4, <2>5, CrListsStay DEF CrTyped, CrListsTyped
  <2>7. CrEditsTyped'
    BY <1>1, <2>5, CrEditsRest DEF CrTyped, CrEditsTyped
  <2> QED
    BY <1>1, <2>6, <2>7 DEF CrTyped
<1>6. CASE CrLists(c) \/ CrListFails(c)
  <2>1. PICK panel : panel = [crPanel EXCEPT !.jobs = crList[c].jobs]
    OBVIOUS
  <2>2. CrPanelIs(panel) /\ panel.dialog = crPanel.dialog /\ panel.jobs = crList[c].jobs
    BY <1>2, <2>1 DEF CrPanelIs
  <2>3. \/ Answers(c, panel)
        \/ Answers(c, crPanel)
    BY <1>6, <2>1 DEF CrLists, CrListFails
  <2>4. CrListsTyped' /\ crPanel'.dialog = crPanel.dialog
    BY <1>2, <1>3, <1>4, <2>2, <2>3 DEF CrTyped, CrListsTyped
  <2>5. CrEditsTyped'
    BY <1>1, <2>4, CrEditsRest DEF CrTyped, CrEditsTyped
  <2> QED
    BY <1>1, <2>4, <2>5 DEF CrTyped
<1> QED
  BY <1>5, <1>6

\* Dialogs and edits.
LEMMA CrDialogTyped ==
    ASSUME CrInv, CrTyped, NEW kind \in {"create", "update", "delete"}, NEW job, CrAsks(kind, job)
    PROVE  CrTyped'
<1>1. /\ UNCHANGED <<crTab, crVersion, crList, crEdit, crMounts, crEdits>>
      /\ crPanel' = [crPanel EXCEPT !.dialog = Dialog(kind, job)]
  BY DEF CrAsks
<1>2. crPanel'.jobs = crPanel.jobs /\ crPanel'.dialog = Dialog(kind, job)
  BY <1>1, CrFacts
<1>3. Dialog(kind, job).kind = kind
  BY DEF Dialog
<1>4. CrListsTyped'
  BY <1>1, <1>2, CrListsRest DEF CrTyped, CrListsTyped
<1>5. CrEditsTyped'
  BY <1>1, <1>2, <1>3, CrEditsRest
<1> QED
  BY <1>1, <1>4, <1>5 DEF CrTyped

LEMMA CrSubmitsTyped ==
    ASSUME CrInv, CrTyped, NEW value \in Job \cup {None}, CrSubmits(value)
    PROVE  CrTyped'
<1>1. PICK e \in Edit :
          crEdit' = [crEdit EXCEPT ![e] =
              [phase |-> "asked", mount |-> crMounts, kind |-> crPanel.dialog.kind,
               job |-> crPanel.dialog.job, value |-> value, base |-> <<>>, at |-> 0]]
  BY DEF CrSubmits
<1>2. /\ UNCHANGED <<crTab, crVersion, crList, crMounts>> /\ crPanel' = Submitting(crPanel)
      /\ crPanel.dialog # None /\ (value = None) = (crPanel.dialog.kind = "delete")
      /\ crEdits < MaxEdits /\ crEdits' = crEdits + 1
  BY DEF CrSubmits
<1>3. PICK edit : edit = [phase |-> "asked", mount |-> crMounts, kind |-> crPanel.dialog.kind,
                          job |-> crPanel.dialog.job, value |-> value, base |-> <<>>, at |-> 0]
  OBVIOUS
<1>4. CrEditTyped(edit)
  <2>1. crPanel.dialog.kind \in {"create", "update", "delete"}
    BY <1>2 DEF CrTyped, CrEditsTyped
  <2>2. /\ edit.kind = crPanel.dialog.kind /\ edit.value = value /\ edit.base = <<>>
        /\ edit.phase = "asked"
    BY <1>3
  <2>3. value # None => value \in CronLine
    BY DEF CronLine
  <2>4. edit.base \in Seq(CronLine)
    BY <2>2
  <2>5. edit.kind # "delete" => value # None
    BY <1>2, <2>2
  <2> QED
    BY <2>1, <2>2, <2>3, <2>4, <2>5 DEF CrEditTyped
<1>5. crPanel'.jobs = crPanel.jobs /\ crPanel'.dialog = crPanel.dialog
  BY <1>2, CrFacts DEF Submitting
<1>6. CrEditsTyped'
  BY <1>1, <1>3, <1>4, <1>5, CrEditsStay
<1>7. CrListsTyped'
  BY <1>2, <1>5, CrListsRest DEF CrTyped, CrListsTyped
<1>8. crEdits' \in 0..MaxEdits
  BY <1>2, CrBoundsAssumption, OneMore DEF CrTyped
<1> QED
  BY <1>2, <1>6, <1>7, <1>8 DEF CrTyped

\* An edit on its way keeps what it edits, and what it has read.
LEMMA CrEditPhase ==
    ASSUME NEW edit, CrEditIs(edit), CrEditTyped(edit), NEW phase,
           phase \in {"read", "late"} => edit.phase \in {"read", "late"}
    PROVE  CrEditTyped([edit EXCEPT !.phase = phase])
<1>1. PICK next : next = [edit EXCEPT !.phase = phase]
  OBVIOUS
<1>2. /\ next.kind = edit.kind /\ next.value = edit.value /\ next.base = edit.base
      /\ next.job = edit.job /\ next.phase = phase
  BY <1>1 DEF CrEditIs
<1>3. CrEditTyped(next)
  BY <1>2 DEF CrEditTyped
<1> QED
  BY <1>1, <1>3

LEMMA CrEditingTyped ==
    ASSUME CrInv, CrTyped, NEW e \in Edit,
           \/ CrReads(e) \/ CrInstalls(e) \/ CrTimesOut(e) \/ CrEditFails(e)
    PROVE  CrTyped'
<1>1. UNCHANGED <<crList, crPanel, crMounts, crEdits>>
  BY DEF CrReads, CrInstalls, CrTimesOut, CrEditFails
<1>2. crEdit[e].phase # "free"
  BY DEF CrReads, CrInstalls, CrTimesOut, CrEditFails
<1>3. CrEditIs(crEdit[e]) /\ CrEditTyped(crEdit[e])
  BY <1>2, CrFacts DEF CrEditFits, CrTyped, CrEditsTyped
<1>4. CrListsTyped'
  BY <1>1, CrListsRest DEF CrTyped, CrListsTyped
<1>5. crTab' \in Seq(CronLine) /\ crVersion' \in 0..MaxTabChanges
  <2>1. CASE CrInstalls(e)
    <3>1. TabBecomes(Installed(Edited(crEdit[e]))) /\ crEdit[e].phase \in {"read", "late"}
      BY <2>1 DEF CrInstalls
    <3> QED
      BY <1>3, <3>1, EditedFacts, TabStaysTyped
  <2>2. CASE UNCHANGED <<crTab, crVersion>>
    BY <2>2 DEF CrTyped
  <2> QED
    BY <2>1, <2>2 DEF CrReads, CrTimesOut, CrEditFails
<1>6. CrEditsTyped'
  <2>1. ASSUME NEW phase, EditIs(e, phase),
               phase \in {"read", "late"} => crEdit[e].phase \in {"read", "late"}
        PROVE  CrEditsTyped'
    <3>1. PICK next : next = [crEdit[e] EXCEPT !.phase = phase]
      OBVIOUS
    <3>2. CrEditTyped(next)
      BY <1>3, <2>1, <3>1, CrEditPhase
    <3>3. crEdit' = [crEdit EXCEPT ![e] = next]
      BY <2>1, <3>1 DEF EditIs
    <3> QED
      BY <1>1, <3>2, <3>3, CrEditsStay
  <2>2. CASE CrReads(e)
    <3>1. CASE Resolves(crTab, crEdit[e])
      <4>1. PICK next : next = [crEdit[e] EXCEPT !.phase = "read", !.base = crTab,
                                                 !.at = crVersion]
        OBVIOUS
      <4>2. /\ next.kind = crEdit[e].kind /\ next.value = crEdit[e].value /\ next.base = crTab
            /\ next.job = crEdit[e].job
        BY <1>3, <4>1 DEF CrEditIs
      <4>3. CrEditTyped(next)
        BY <1>3, <3>1, <4>2 DEF CrEditTyped, Resolves, CrTyped
      <4>4. crEdit' = [crEdit EXCEPT ![e] = next]
        BY <2>2, <3>1, <4>1 DEF CrReads
      <4> QED
        BY <1>1, <4>3, <4>4, CrEditsStay
    <3>2. CASE ~Resolves(crTab, crEdit[e])
      <4>1. EditIs(e, "failed")
        BY <2>2, <3>2 DEF CrReads, EditIs
      <4> QED
        BY <2>1, <4>1
    <3> QED
      BY <3>1, <3>2
  <2>3. CASE CrInstalls(e)
    BY <2>1, <2>3 DEF CrInstalls
  <2>4. CASE CrTimesOut(e) \/ CrEditFails(e)
    BY <2>1, <2>4 DEF CrTimesOut, CrEditFails
  <2> QED
    BY <2>2, <2>3, <2>4
<1> QED
  BY <1>1, <1>4, <1>5, <1>6 DEF CrTyped

LEMMA CrEndsTyped ==
    ASSUME CrInv, CrTyped, NEW e \in Edit, CrEditDone(e) \/ CrEditReported(e)
    PROVE  CrTyped'
<1>1. /\ UNCHANGED <<crTab, crVersion, crMounts, crEdits>>
      /\ crEdit' = [crEdit EXCEPT ![e] = NoEdit]
  BY DEF CrEditDone, CrEditReported
<1>2. NoEdit.phase = "free"
  BY DEF NoEdit
<1>3. crPanel'.jobs = crPanel.jobs
      /\ (crPanel'.dialog = crPanel.dialog \/ crPanel'.dialog = None)
  <2>1. PICK dialog : dialog = DialogAfter(crEdit[e], crPanel.dialog)
    OBVIOUS
  <2>2. dialog = None \/ dialog = crPanel.dialog
    BY <2>1 DEF DialogAfter
  <2>3. \/ crPanel' = crPanel
        \/ crPanel' = [crPanel EXCEPT !.loading = TRUE, !.dialog = dialog]
        \/ crPanel' = [crPanel EXCEPT !.submitting = FALSE]
    BY <2>1 DEF CrEditDone, CrEditReported
  <2> QED
    BY <2>2, <2>3, CrFacts
<1>4. CrEditsTyped'
  BY <1>1, <1>2, <1>3, CrEditsStay
<1>5. \A j \in crPanel'.jobs : CrJobIs(j)
  BY <1>3 DEF CrTyped, CrListsTyped
<1>6. CrListsTyped'
  <2>1. CASE CrEditReported(e)
    BY <1>5, <2>1, CrListsRest DEF CrEditReported
  <2>2. CASE CrEditDone(e)
    <3>1. PICK c \in Listing : crList' = [crList EXCEPT ![c] = Asked("edit", crEdit[e].mount)]
      BY <2>2 DEF CrEditDone
    <3>2. Asked("edit", crEdit[e].mount).jobs = {}
      BY DEF Asked
    <3> QED
      BY <1>5, <3>1, <3>2, CrListsStay
  <2> QED
    BY <2>1, <2>2
<1> QED
  BY <1>1, <1>4, <1>6 DEF CrTyped

LEMMA CrSomeoneTyped ==
    ASSUME CrTyped, NEW lines \in Seq(CronLine), CrSomeoneEdits(lines)
    PROVE  CrTyped'
<1>1. TabBecomes(lines) /\ UNCHANGED <<crList, crEdit, crPanel, crMounts, crEdits>>
  BY DEF CrSomeoneEdits
<1>2. crTab' \in Seq(CronLine) /\ crVersion' \in 0..MaxTabChanges
  BY <1>1, TabStaysTyped
<1>3. CrListsTyped' /\ CrEditsTyped'
  BY <1>1, CrListsRest, CrEditsRest DEF CrTyped, CrListsTyped, CrEditsTyped
<1> QED
  BY <1>1, <1>2, <1>3 DEF CrTyped

LEMMA CrStepTyped ==
    ASSUME CrInv, CrTyped, [CrNext]_crVars
    PROVE  CrTyped'
<1>1. CASE CrOpens \/ CrLeaves \/ CrRefreshes \/ CrCancels
  BY <1>1, CrPanelTyped
<1>2. ASSUME NEW c \in Listing, CrListReads(c) \/ CrLists(c) \/ CrListFails(c)
      PROVE  CrTyped'
  BY <1>2, CrAnswersTyped
<1>3. ASSUME NEW job \in crPanel.jobs \cup {None}, NEW kind \in {"create", "update", "delete"},
             CrAsks(kind, job)
      PROVE  CrTyped'
  BY <1>3, CrDialogTyped
<1>4. ASSUME NEW value \in Job \cup {None}, CrSubmits(value)
      PROVE  CrTyped'
  BY <1>4, CrSubmitsTyped
<1>5. ASSUME NEW e \in Edit, \/ CrReads(e) \/ CrInstalls(e) \/ CrTimesOut(e) \/ CrEditFails(e)
                             \/ CrEditDone(e) \/ CrEditReported(e)
      PROVE  CrTyped'
  BY <1>5, CrEditingTyped, CrEndsTyped
<1>6. ASSUME NEW n \in DOMAIN crTab, CrSomeoneEdits(RemoveAt(crTab, n))
      PROVE  CrTyped'
  <2>1. crTab \in Seq(CronLine) /\ Comment \in CronLine
    BY DEF CrTyped, CronLine
  <2>2. RemoveAt(crTab, n) \in Seq(CronLine)
    BY <2>1, LinesFacts
  <2> QED
    BY <1>6, <2>2, CrSomeoneTyped
<1>7. CASE CrSomeoneEdits(<<Comment>> \o crTab)
  <2>1. crTab \in Seq(CronLine) /\ Comment \in CronLine
    BY DEF CrTyped, CronLine
  <2>2. <<Comment>> \o crTab \in Seq(CronLine)
    BY <2>1, LinesFacts
  <2> QED
    BY <1>7, <2>2, CrSomeoneTyped
<1>8. CASE UNCHANGED crVars
  <2>1. UNCHANGED <<crTab, crVersion, crList, crEdit, crPanel, crMounts, crEdits>>
    BY <1>8 DEF crVars
  <2>2. CrListsTyped' /\ CrEditsTyped'
    BY <2>1, CrListsRest, CrEditsRest DEF CrTyped, CrListsTyped, CrEditsTyped
  <2> QED
    BY <2>1, <2>2 DEF CrTyped
<1> QED
  BY <1>1, <1>2, <1>3, <1>4, <1>5, <1>6, <1>7, <1>8 DEF CrNext

\* Every variable of the cron jobs has its type.
LEMMA CrInvTyped ==
    ASSUME CrInv, CrTyped
    PROVE  CrTypeOK
<1>1. \A c \in Listing : crList[c].phase \in {"free", "asked", "read"}
  BY CrFacts DEF CrCallFits
<1>2. \A e \in Edit : crEdit[e].phase \in {"free", "asked", "read", "late", "done", "failed"}
  BY CrFacts DEF CrEditFits
<1> QED
  BY <1>1, <1>2 DEF CrTyped, CrListsTyped, CrJobIs, CrTypeOK

\* A detail is on display only where its unit is selected, systemd is known to be there
\* and the connection stands.
SyMounted ==
    /\ syUp \in BOOLEAN /\ syCache \in BOOLEAN \cup {None}
    /\ syPanel # None /\ syPanel.available # TRUE => syPanel.detail = None
    /\ ~DetailMounted(syPanel, syUp) => syDetails = {}

LEMMA RendersMounts ==
    ASSUME SyInv, SyMounted, NEW panel \in PanelRecord \cup {None}, Renders(panel, syUp')
    PROVE  /\ syPanel' # None /\ syPanel'.available # TRUE => syPanel'.detail = None
           /\ ~DetailMounted(syPanel', syUp') => syDetails' = {}
<1>1. CASE ~DetailMounted(panel, syUp')
  <2>1. syDetails' = {} /\ syPanel' = (IF panel = None THEN None ELSE Emptied(panel))
    BY <1>1 DEF Renders
  <2>2. panel \in PanelRecord => Emptied(panel).detail = None
    BY DEF PanelRecord, Emptied
  <2> QED
    BY <2>1, <2>2
<1>2. CASE DetailMounted(panel, syUp')
  <2>1. panel \in PanelRecord /\ panel.available = TRUE /\ syUp' /\ panel.selected # None
    BY <1>2 DEF DetailMounted
  <2>2. PICK next : next = [panel EXCEPT !.fileOpen = FALSE, !.file = None]
    OBVIOUS
  <2>3. next \in PanelRecord /\ next.available = TRUE /\ next.selected = panel.selected
    BY <2>1, <2>2 DEF PanelRecord
  <2>4. syPanel' = panel \/ syPanel' = next
    BY <1>2, <2>2 DEF Renders
  <2>5. DetailMounted(syPanel', syUp') /\ syPanel'.available = TRUE
    BY <2>1, <2>3, <2>4, SyNoneAssumption DEF DetailMounted
  <2> QED
    BY <2>5
<1> QED
  BY <1>1, <1>2

\* The panel stays where it is.
LEMMA MountStays ==
    ASSUME SyMounted, syUp' = syUp, syPanel # None, syPanel' # None,
           syPanel'.available = syPanel.available, syPanel'.selected = syPanel.selected,
           \/ syPanel'.detail = syPanel.detail
           \/ DetailMounted(syPanel, syUp),
           \/ syDetails' = syDetails \/ DetailMounted(syPanel, syUp)
    PROVE  /\ syPanel' # None /\ syPanel'.available # TRUE => syPanel'.detail = None
           /\ ~DetailMounted(syPanel', syUp') => syDetails' = {}
BY DEF SyMounted, DetailMounted

LEMMA SyInitTyped ==
    ASSUME SyInit
    PROVE  SyMounted
BY DEF SyInit, SyMounted

\* The parts of a panel that the detail depends on, where others change.
LEMMA PanelParts ==
    ASSUME NEW panel \in PanelRecord, NEW next, NEW value,
           \/ next = panel \/ next = [panel EXCEPT !.dialog = value]
           \/ next = [panel EXCEPT !.running = value] \/ next = [panel EXCEPT !.fileOpen = value]
    PROVE  /\ next.available = panel.available /\ next.selected = panel.selected
           /\ next.detail = panel.detail
<1>1. panel = [selected |-> panel.selected, available |-> panel.available,
               units |-> panel.units, heard |-> panel.heard, dialog |-> panel.dialog,
               running |-> panel.running, detail |-> panel.detail,
               fileOpen |-> panel.fileOpen, file |-> panel.file]
  BY DEF PanelRecord
<1>2. CASE next = [panel EXCEPT !.dialog = value]
  BY <1>1, <1>2
<1>3. CASE next = [panel EXCEPT !.running = value]
  BY <1>1, <1>3
<1>4. CASE next = [panel EXCEPT !.fileOpen = value]
  BY <1>1, <1>4
<1> QED
  BY <1>2, <1>3, <1>4

LEMMA RestedParts ==
    ASSUME NEW panel \in PanelRecord, NEW list
    PROVE  LET next == Rested(panel, list)
           IN next.available = panel.available /\ next.selected = panel.selected
              /\ next.detail = panel.detail
BY PanelParts DEF Rested

\* The answer to a listing leaves a panel on display.
LEMMA AnsweredIsPanel ==
    ASSUME SyInv, NEW list \in syLists, NEW told \in BOOLEAN, SyListAnswers(list, told)
    PROVE  syPanel' \in PanelRecord
<1>1. /\ syPanel \in PanelRecord /\ syPanel.heard \in Nat /\ list.at \in Nat
      /\ list.stage = "files" /\ list.saw \in [Service -> UnitState]
  BY SyFacts, SyPanelFields DEF SyPanelFits, SyListsFit, ListRecord, SyListAnswers
<1>2. Startups(told) \in [Service -> {"enabled", "disabled", "unknown"}]
  <2>1. \A u \in Service : sySystem.units[u].startup \in {"enabled", "disabled", "unknown"}
    BY SyFacts DEF UnitState
  <2> QED
    BY <2>1 DEF Startups
<1>3. PICK startups, units : startups = Startups(told) /\ units = mergeUnits(list.saw, startups)
  OBVIOUS
<1>4. units \in [Service -> UnitState]
  <2>1. \A row \in UnitState, is \in {"enabled", "disabled", "unknown"} :
            [row EXCEPT !.startup = is] \in UnitState
    BY DEF UnitState
  <2>2. \A u \in Service : [list.saw[u] EXCEPT !.startup = startups[u]] \in UnitState
    BY <1>1, <1>2, <1>3, <2>1
  <2> QED
    BY <1>3, <2>2 DEF mergeUnits
<1>5. PICK heard : heard = Later(syPanel.heard, list.at)
  OBVIOUS
<1>6. heard \in Nat
  BY <1>1, <1>5 DEF Later
<1>7. PICK shown : shown = [syPanel EXCEPT !.units = units, !.heard = heard]
  OBVIOUS
<1>8. shown \in PanelRecord
  BY <1>1, <1>4, <1>6, <1>7 DEF PanelRecord
<1>9. syPanel' = Rested(shown, list)
  BY <1>3, <1>5, <1>7 DEF SyListAnswers
<1> QED
  BY <1>8, <1>9, RestedKeeps

LEMMA SyStepTyped ==
    ASSUME SyInv, SyInv', SyMounted, [SyNext]_syVars
    PROVE  SyMounted'
<1> DEFINE Goal == /\ syPanel' # None /\ syPanel'.available # TRUE => syPanel'.detail = None
                   /\ ~DetailMounted(syPanel', syUp') => syDetails' = {}
<1>1. /\ syPanel \in PanelRecord \cup {None} /\ None \notin PanelRecord
      /\ syPanel' \in PanelRecord \cup {None}
      /\ syUp \in BOOLEAN /\ syCache \in BOOLEAN \cup {None}
  BY SyFacts DEF SyMounted, SyInv, SyShapes
<1>2. ASSUME Goal, syUp' \in BOOLEAN, syCache' \in BOOLEAN \cup {None}
      PROVE  SyMounted'
  BY <1>2 DEF SyMounted, DetailMounted
<1>3. ASSUME NEW answer \in BOOLEAN, SystemdAvailable(answer)
      PROVE  syCache' \in BOOLEAN \cup {None}
  BY <1>3 DEF SystemdAvailable
<1>4. ASSUME UNCHANGED <<syUp, syPanel, syDetails>>, syCache' \in BOOLEAN \cup {None}
      PROVE  SyMounted'
  BY <1>4 DEF SyMounted, DetailMounted
<1>5. ASSUME NEW unit \in Service \cup {None}, SyOpens(unit)
      PROVE  SyMounted'
  <2>1. /\ syPanel' = ServicesPage(unit) /\ syPanel = None
        /\ UNCHANGED <<syUp, syDetails, syCache>>
    BY <1>5 DEF SyOpens, AfterPanelStep
  <2>2. ServicesPage(unit).detail = None
    BY DEF ServicesPage
  <2>3. syDetails = {}
    BY <2>1 DEF SyMounted, DetailMounted
  <2> QED
    BY <1>1, <1>2, <2>1, <2>2, <2>3
<1>6. CASE SyLeaves
  BY <1>1, <1>2, <1>6 DEF SyLeaves, AfterPanelStep
<1>7. ASSUME NEW unit \in Service \cup {None}, syPanel # None,
             Renders([syPanel EXCEPT !.selected = unit], syUp), UNCHANGED <<syUp, syCache>>
      PROVE  SyMounted'
  <2>1. [syPanel EXCEPT !.selected = unit] \in PanelRecord
    BY <1>1, <1>7 DEF PanelRecord
  <2> QED
    BY <1>1, <1>2, <1>7, <2>1, RendersMounts
<1>8. CASE SyGoesBack
  BY <1>7, <1>8 DEF SyGoesBack, Ready, AfterPanelStep
<1>9. ASSUME NEW unit \in Service, SySelects(unit)
      PROVE  SyMounted'
  BY <1>7, <1>9 DEF SySelects, AfterPanelStep
<1>10. CASE SyReloads
  BY <1>1, <1>4, <1>10 DEF SyReloads, AfterPanelStep
<1>11. CASE SyRereads
  BY <1>1, <1>2, <1>11, MountStays
     DEF SyRereads, AfterDetailStep, DetailMounted
<1>12. CASE SyShowsFile
  <2>1. /\ DetailMounted(syPanel, syUp) /\ UNCHANGED <<syUp, syCache>>
        /\ syPanel' = [syPanel EXCEPT !.fileOpen = ~syPanel.fileOpen]
    BY <1>12 DEF SyShowsFile, AfterDetailStep
  <2>2. syPanel \in PanelRecord
    BY <1>1, <2>1 DEF DetailMounted
  <2>3. PICK shown \in BOOLEAN : shown = ~syPanel.fileOpen
    OBVIOUS
  <2>4. syPanel' = [syPanel EXCEPT !.fileOpen = shown]
    BY <2>1, <2>3
  <2>5. syPanel' \in PanelRecord
    BY <2>2, <2>4 DEF PanelRecord
  <2>6. syPanel'.available = syPanel.available /\ syPanel'.selected = syPanel.selected
    BY <2>2, <2>4, PanelParts
  <2>7. DetailMounted(syPanel', syUp') /\ syPanel'.available = TRUE
    BY <1>1, <2>1, <2>5, <2>6 DEF DetailMounted
  <2> QED
    BY <1>2, <1>1, <2>1, <2>7
<1>13. ASSUME NEW d \in syDetails, SyDetailReads(d) \/ SyDetailFails(d) \/ SyDetailAnswers(d)
       PROVE  SyMounted'
  <2>1. DetailMounted(syPanel, syUp) /\ syPanel \in PanelRecord
    BY <1>1 DEF SyMounted, DetailMounted
  <2>2. UNCHANGED syUp /\ syCache' \in BOOLEAN \cup {None}
    BY <1>1, <1>3, <1>13 DEF SyDetailReads, SyDetailFails, SyDetailAnswers, AfterDetailStep
  <2>3. d.saw \in UnitState \cup {None} /\ d.unit \in Service
    BY SyFacts DEF ReadRecord
  <2>4. CASE syPanel' = syPanel
    BY <1>2, <2>1, <2>2, <2>4 DEF DetailMounted
  <2>5. CASE syPanel' = [syPanel EXCEPT !.detail = d.saw]
    <3>1. syPanel' \in PanelRecord
      BY <2>1, <2>3, <2>5 DEF PanelRecord
    <3>2. syPanel'.available = syPanel.available /\ syPanel'.selected = syPanel.selected
      BY <2>1, <2>5 DEF PanelRecord
    <3>3. DetailMounted(syPanel', syUp') /\ syPanel'.available = TRUE
      BY <1>1, <2>1, <2>2, <3>1, <3>2 DEF DetailMounted
    <3> QED
      BY <1>1, <1>2, <2>2, <3>3
  <2>6. CASE syPanel' = [syPanel EXCEPT !.file = d.unit]
    <3>1. syPanel' \in PanelRecord
      BY <2>1, <2>3, <2>6 DEF PanelRecord
    <3>2. syPanel'.available = syPanel.available /\ syPanel'.selected = syPanel.selected
      BY <2>1, <2>6 DEF PanelRecord
    <3>3. DetailMounted(syPanel', syUp') /\ syPanel'.available = TRUE
      BY <1>1, <2>1, <2>2, <3>1, <3>2 DEF DetailMounted
    <3> QED
      BY <1>1, <1>2, <2>2, <3>3
  <2> QED
    BY <1>13, <2>4, <2>5, <2>6 DEF SyDetailReads, SyDetailFails, SyDetailAnswers
<1>14. ASSUME syPanel # None, syPanel' # None, UNCHANGED <<syUp, syDetails>>,
              syPanel'.available = syPanel.available, syPanel'.selected = syPanel.selected,
              syPanel'.detail = syPanel.detail, syCache' \in BOOLEAN \cup {None}
       PROVE  SyMounted'
  BY <1>1, <1>2, <1>14, MountStays
<1>15. ASSUME NEW list \in syLists, NEW answer \in BOOLEAN, SyListChecked(list, answer)
       PROVE  SyMounted'
  <2>1. syPanel \in PanelRecord /\ UNCHANGED syUp /\ syCache' \in BOOLEAN \cup {None}
    BY <1>1, <1>3, <1>15, SyFacts DEF SyListChecked, AfterListStep, SyPanelFits
  <2>2. PICK known, gone : /\ known = [syPanel EXCEPT !.available = TRUE]
                           /\ gone = [syPanel EXCEPT !.available = FALSE, !.units = <<>>]
    OBVIOUS
  <2>3. known \in PanelRecord /\ gone \in PanelRecord
    BY <2>1, <2>2 DEF PanelRecord
  <2>4. Rested(gone, list) \in PanelRecord
    BY <2>3, RestedKeeps
  <2>5. Renders(known, syUp) \/ Renders(Rested(gone, list), syUp)
    BY <1>15, <2>2 DEF SyListChecked
  <2>6. Goal
    BY <2>1, <2>3, <2>4, <2>5, RendersMounts
  <2> QED
    BY <1>1, <1>2, <2>1, <2>6
<1>16. ASSUME NEW list \in syLists, SyListsUnits(list)
       PROVE  SyMounted'
  BY <1>3, <1>4, <1>16 DEF SyListsUnits, AfterListStep
<1>17. ASSUME NEW list \in syLists, NEW told \in BOOLEAN, SyListAnswers(list, told)
       PROVE  SyMounted'
  <2>1. syPanel \in PanelRecord /\ UNCHANGED <<syUp, syDetails, syCache>>
    BY <1>1, <1>17, SyFacts DEF SyListAnswers, AfterListStep, SyPanelFits
  <2>2. PICK units, heard : units = mergeUnits(list.saw, Startups(told))
                            /\ heard = Later(syPanel.heard, list.at)
    OBVIOUS
  <2>3. PICK next : next = [syPanel EXCEPT !.units = units, !.heard = heard]
    OBVIOUS
  <2>4. syPanel' = Rested(next, list)
    BY <1>17, <2>2, <2>3 DEF SyListAnswers
  <2>5. /\ next.available = syPanel.available /\ next.selected = syPanel.selected
        /\ next.detail = syPanel.detail
        /\ next = [selected |-> next.selected, available |-> next.available,
                   units |-> next.units, heard |-> next.heard, dialog |-> next.dialog,
                   running |-> next.running, detail |-> next.detail,
                   fileOpen |-> next.fileOpen, file |-> next.file]
    BY <2>1, <2>3 DEF PanelRecord
  <2>6. /\ syPanel'.available = syPanel.available /\ syPanel'.selected = syPanel.selected
        /\ syPanel'.detail = syPanel.detail
    <3>1. syPanel' = next \/ syPanel' = [next EXCEPT !.running = FALSE]
      BY <2>4 DEF Rested
    <3> QED
      BY <2>5, <3>1
  <2>7. syPanel' # None
    BY <1>1, <1>17, AnsweredIsPanel
  <2> QED
    BY <1>1, <1>14, <2>1, <2>6, <2>7
<1>18. ASSUME NEW list \in syLists, SyListFails(list)
       PROVE  SyMounted'
  <2>1. syPanel \in PanelRecord /\ UNCHANGED <<syUp, syDetails>> /\ syPanel' = Rested(syPanel, list)
    BY <1>1, <1>18, SyFacts DEF SyListFails, AfterListStep, SyPanelFits
  <2>2. syCache' \in BOOLEAN \cup {None}
    BY <1>3, <1>18 DEF SyListFails
  <2>3. syPanel' # None
    BY <1>1, <2>1, RestedKeeps
  <2> QED
    BY <1>1, <1>14, <2>1, <2>2, <2>3, RestedParts
<1>19. ASSUME NEW unit \in Service, NEW action \in SystemdAction, SyRequests(unit, action)
       PROVE  SyMounted'
  <2>1. /\ syPanel \in PanelRecord /\ syPanel # None /\ UNCHANGED <<syUp, syDetails, syCache>>
        /\ \/ syPanel' = [syPanel EXCEPT !.dialog = [unit |-> unit, action |-> action]]
           \/ syPanel' = [syPanel EXCEPT !.running = TRUE]
    BY <1>1, <1>19 DEF SyRequests, Ready, AfterRequest
  <2>2. PICK dialog : dialog = [unit |-> unit, action |-> action]
    OBVIOUS
  <2>3. dialog \in DialogRecord
    BY <2>2 DEF DialogRecord
  <2>4. CASE syPanel' = [syPanel EXCEPT !.dialog = dialog]
    <3>1. syPanel' \in PanelRecord
      BY <2>1, <2>3, <2>4 DEF PanelRecord
    <3> QED
      BY <1>1, <1>14, <2>1, <2>4, <3>1, PanelParts
  <2>5. CASE syPanel' = [syPanel EXCEPT !.running = TRUE]
    <3>1. syPanel' \in PanelRecord
      BY <2>1, <2>5 DEF PanelRecord
    <3> QED
      BY <1>1, <1>14, <2>1, <2>5, <3>1, PanelParts
  <2> QED
    BY <2>1, <2>2, <2>4, <2>5
<1>20. CASE SyDismisses \/ SyConfirms
  <2>1. /\ syPanel \in PanelRecord /\ syPanel # None /\ UNCHANGED <<syUp, syDetails, syCache>>
        /\ \/ syPanel' = [syPanel EXCEPT !.dialog = None]
           \/ syPanel' = [syPanel EXCEPT !.dialog = None, !.running = TRUE]
    BY <1>1, <1>20 DEF SyDismisses, SyConfirms, Ready, AfterRequest
  <2>2. PICK next : next = [syPanel EXCEPT !.dialog = None]
    OBVIOUS
  <2>3. next \in PanelRecord
    BY <2>1, <2>2 DEF PanelRecord
  <2>4. syPanel' = next \/ syPanel' = [next EXCEPT !.running = TRUE]
    BY <2>1, <2>2 DEF PanelRecord
  <2>5. syPanel' \in PanelRecord
    BY <2>3, <2>4 DEF PanelRecord
  <2>6. /\ syPanel'.available = syPanel.available /\ syPanel'.selected = syPanel.selected
        /\ syPanel'.detail = syPanel.detail
    <3>1. /\ next.available = syPanel.available /\ next.selected = syPanel.selected
          /\ next.detail = syPanel.detail
      BY <2>1, <2>2, PanelParts
    <3>2. /\ syPanel'.available = next.available /\ syPanel'.selected = next.selected
          /\ syPanel'.detail = next.detail
      BY <2>3, <2>4, PanelParts
    <3> QED
      BY <3>1, <3>2
  <2> QED
    BY <1>1, <1>14, <2>1, <2>5, <2>6
<1>21. ASSUME Refused, syAction # None, UNCHANGED <<syUp, syDetails>>,
              syCache' \in BOOLEAN \cup {None}
       PROVE  SyMounted'
  <2>1. CASE syPanel' = syPanel
    BY <1>4, <1>21, <2>1
  <2>2. CASE syAction.told
    <3>1. syPanel \in PanelRecord /\ syPanel' = [syPanel EXCEPT !.running = FALSE]
      BY <1>1, <1>21, <2>2, SyFacts DEF Refused, SyActionFits
    <3>2. syPanel' \in PanelRecord
      BY <3>1 DEF PanelRecord
    <3> QED
      BY <1>1, <1>14, <1>21, <3>1, <3>2, PanelParts
  <2> QED
    BY <1>21, <2>1, <2>2 DEF Refused
<1>22. CASE SyActionFails
  <2>1. syCache' \in BOOLEAN \cup {None}
    BY <1>3, <1>22 DEF SyActionFails
  <2> QED
    BY <1>21, <1>22, <2>1 DEF SyActionFails, AfterActionStep, ActionAt
<1>23. ASSUME NEW answers \in BOOLEAN, SyActionRuns(answers)
       PROVE  SyMounted'
  <2>1. syCache' \in BOOLEAN \cup {None}
    BY <1>3, <1>23 DEF SyActionRuns
  <2>2. UNCHANGED <<syUp, syDetails>> /\ syAction # None /\ (UNCHANGED syPanel \/ Refused)
    BY <1>23 DEF SyActionRuns, AfterActionStep, ActionAt
  <2> QED
    BY <1>4, <1>21, <2>1, <2>2
<1>24. CASE SyActionTold
  <2>1. UNCHANGED <<syUp, syCache, syPanel>>
    BY <1>24 DEF SyActionTold, AfterActionStep
  <2>2. DetailMounted(syPanel, syUp) \/ syDetails' = syDetails
    BY <1>24 DEF SyActionTold
  <2> QED
    BY <1>1, <2>1, <2>2 DEF SyMounted, DetailMounted
<1>25. CASE SyServiceFails("web")
  BY <1>1, <1>4, <1>25 DEF SyServiceFails, syWindowVars
<1>26. CASE SyLost
  <2>1. PICK panel : panel = IF syPanel = None THEN None ELSE [syPanel EXCEPT !.available = None]
    OBVIOUS
  <2>2. panel \in PanelRecord \cup {None}
    BY <1>1, <2>1 DEF PanelRecord
  <2>3. syUp' = FALSE /\ Renders(panel, syUp') /\ UNCHANGED syCache
    BY <1>26, <2>1 DEF SyLost, AfterPanelStep
  <2>4. Goal
    BY <2>2, <2>3, RendersMounts
  <2> QED
    BY <1>1, <1>2, <2>3, <2>4
<1>27. CASE SyConnects
  <2>1. syUp' = TRUE /\ Renders(syPanel, syUp') /\ UNCHANGED syCache
    BY <1>27 DEF SyConnects, AfterPanelStep
  <2>2. Goal
    BY <1>1, <2>1, RendersMounts
  <2> QED
    BY <1>1, <1>2, <2>1, <2>2
<1>28. CASE UNCHANGED syVars
  BY <1>1, <1>4, <1>28 DEF syVars, syWindowVars
<1> HIDE DEF Goal
<1> QED
  BY <1>5, <1>6, <1>8, <1>9, <1>10, <1>11, <1>12, <1>13, <1>15, <1>16, <1>17, <1>18, <1>19,
     <1>20, <1>22, <1>23, <1>24, <1>25, <1>26, <1>27, <1>28
     DEF SyNext

LEMMA SyInvTyped ==
    ASSUME SyInv, SyMounted
    PROVE  SyTypeOK
BY DEF SyInv, SyShapes, SyPanelFits, SyMounted, SyTypeOK

\* The deployments: what a scan would collect is a record, and a process has a number.
TpTyped ==
    /\ tpServer = [blocks |-> tpServer.blocks, listeners |-> tpServer.listeners,
                   containers |-> tpServer.containers, proxies |-> tpServer.proxies]
    /\ DOMAIN tpServer.listeners = ListenPort /\ DOMAIN tpRecorded.listeners = ListenPort
    /\ tpServer.listeners = [p \in ListenPort |-> tpServer.listeners[p]]
    /\ \A p \in ListenPort : /\ tpServer.listeners[p].pid \in 0..3
                             /\ DOMAIN tpServer.listeners[p] = {"comm", "pid", "at"}
    /\ tpChanges \in 0..MaxChanges /\ tpRestarted \in BOOLEAN

LEMMA TpInitTyped ==
    ASSUME TpInit
    PROVE  TpTyped
<1>1. PICK proxies, blocks :
          tpServer = [blocks |-> blocks,
                       listeners |-> [p \in ListenPort |->
                           IF \A b \in Block : blocks[b] = NoBlock THEN Free
                           ELSE IF p = Web THEN [comm |-> "nginx", pid |-> 1, at |-> "any"]
                           ELSE IF \E b \in Block : blocks[b].proxy = p
                                THEN [comm |-> "app", pid |-> 1, at |-> "local"] ELSE Free],
                       containers |-> [c \in Container |-> NoContainer],
                       proxies |-> proxies]
  BY DEF TpInit
<1>2. PICK listeners : listeners = tpServer.listeners
  OBVIOUS
<1>3. /\ listeners = [p \in ListenPort |-> listeners[p]]
      /\ \A p \in ListenPort : listeners[p] \in {Free, [comm |-> "nginx", pid |-> 1, at |-> "any"],
                                                 [comm |-> "app", pid |-> 1, at |-> "local"]}
  BY <1>1, <1>2
<1>4. \A x \in {Free, [comm |-> "nginx", pid |-> 1, at |-> "any"],
                [comm |-> "app", pid |-> 1, at |-> "local"]} :
          x.pid \in 0..3 /\ DOMAIN x = {"comm", "pid", "at"}
  BY DEF Free
<1>5. \A p \in ListenPort : listeners[p].pid \in 0..3 /\ DOMAIN listeners[p] = {"comm", "pid", "at"}
  BY <1>3, <1>4
<1>6. DOMAIN listeners = ListenPort
  BY <1>3
<1>7. tpServer = [blocks |-> tpServer.blocks, listeners |-> tpServer.listeners,
                  containers |-> tpServer.containers, proxies |-> tpServer.proxies]
  BY <1>1
<1>8. tpRecorded = tpServer /\ tpChanges = 0 /\ tpRestarted = FALSE
  BY DEF TpInit
<1>9. tpChanges \in 0..MaxChanges
  BY <1>8, TpBoundAssumption
<1> QED
  BY <1>2, <1>3, <1>5, <1>6, <1>7, <1>8, <1>9 DEF TpTyped

\* A number that neither the process there is nor the recorded one has.
LEMMA FreshIsNew ==
    ASSUME NEW p
    PROVE  FreshPid(p) \in 0..3
<1>1. \E n \in 1..3 : n \notin {tpServer.listeners[p].pid, tpRecorded.listeners[p].pid}
  <2>1. 1 \in 1..3 /\ 2 \in 1..3 /\ 3 \in 1..3 /\ 1 # 2 /\ 1 # 3 /\ 2 # 3
    OBVIOUS
  <2> QED
    BY ONLY <2>1
<1>2. FreshPid(p) \in 1..3
  BY <1>1 DEF FreshPid
<1> QED
  BY <1>2

LEMMA ListenerFacts ==
    ASSUME NEW p, NEW comm, NEW at
    PROVE  Listener(p, comm, at).pid \in 0..3 /\ DOMAIN Listener(p, comm, at) = {"comm", "pid", "at"}
BY FreshIsNew DEF Listener

\* The server becomes one with these listeners.
LEMMA BecomesTyped ==
    ASSUME TpTyped, NEW server, Becomes(server),
           server = [blocks |-> server.blocks, listeners |-> server.listeners,
                     containers |-> server.containers, proxies |-> server.proxies],
           server.listeners = [p \in ListenPort |-> server.listeners[p]],
           \A p \in ListenPort : /\ server.listeners[p].pid \in 0..3
                                 /\ DOMAIN server.listeners[p] = {"comm", "pid", "at"}
    PROVE  TpTyped'
<1>1. /\ tpServer' = server /\ tpRecorded' = tpRecorded /\ tpRestarted' = FALSE
      /\ tpChanges < MaxChanges /\ tpChanges' = tpChanges + 1
  BY DEF Becomes
<1>2. tpChanges' \in 0..MaxChanges
  BY <1>1, TpBoundAssumption, OneMore DEF TpTyped
<1>3. DOMAIN server.listeners = ListenPort
  OBVIOUS
<1> QED
  BY <1>1, <1>2, <1>3 DEF TpTyped

\* One part of the server changes.
LEMMA PartBecomes ==
    ASSUME TpTyped
    PROVE  /\ \A b, x : LET next == [tpServer EXCEPT !.blocks[b] = x]
                        IN /\ next.listeners = tpServer.listeners
                           /\ next = [blocks |-> next.blocks, listeners |-> next.listeners,
                                      containers |-> next.containers, proxies |-> next.proxies]
           /\ \A c, x : LET next == [tpServer EXCEPT !.containers[c] = x]
                        IN /\ next.listeners = tpServer.listeners
                           /\ next = [blocks |-> next.blocks, listeners |-> next.listeners,
                                      containers |-> next.containers, proxies |-> next.proxies]
           /\ \A p, x : LET next == [tpServer EXCEPT !.listeners[p] = x]
                        IN /\ next.listeners = [tpServer.listeners EXCEPT ![p] = x]
                           /\ next = [blocks |-> next.blocks, listeners |-> next.listeners,
                                      containers |-> next.containers, proxies |-> next.proxies]
BY DEF TpTyped

LEMMA TpStepTyped ==
    ASSUME TpTyped, [TpNext]_tpVars
    PROVE  TpTyped'
<1>1. /\ tpServer = [blocks |-> tpServer.blocks, listeners |-> tpServer.listeners,
                     containers |-> tpServer.containers, proxies |-> tpServer.proxies]
      /\ tpServer.listeners = [p \in ListenPort |-> tpServer.listeners[p]]
      /\ \A p \in ListenPort : /\ tpServer.listeners[p].pid \in 0..3
                               /\ DOMAIN tpServer.listeners[p] = {"comm", "pid", "at"}
  BY DEF TpTyped
<1>2. ASSUME NEW b, NEW x, Becomes([tpServer EXCEPT !.blocks[b] = x])
      PROVE  TpTyped'
  <2>1. PICK next : next = [tpServer EXCEPT !.blocks[b] = x]
    OBVIOUS
  <2>2. /\ next.listeners = tpServer.listeners
        /\ next = [blocks |-> next.blocks, listeners |-> next.listeners,
                   containers |-> next.containers, proxies |-> next.proxies]
    BY <2>1, PartBecomes
  <2> QED
    BY <1>1, <1>2, <2>1, <2>2, BecomesTyped
<1>3. ASSUME NEW c, NEW x, Becomes([tpServer EXCEPT !.containers[c] = x])
      PROVE  TpTyped'
  <2>1. PICK next : next = [tpServer EXCEPT !.containers[c] = x]
    OBVIOUS
  <2>2. /\ next.listeners = tpServer.listeners
        /\ next = [blocks |-> next.blocks, listeners |-> next.listeners,
                   containers |-> next.containers, proxies |-> next.proxies]
    BY <2>1, PartBecomes
  <2> QED
    BY <1>1, <1>3, <2>1, <2>2, BecomesTyped
<1>4. ASSUME NEW p \in ListenPort, NEW x, x.pid \in 0..3, DOMAIN x = {"comm", "pid", "at"},
             Becomes([tpServer EXCEPT !.listeners[p] = x])
      PROVE  TpTyped'
  <2>1. PICK next : next = [tpServer EXCEPT !.listeners[p] = x]
    OBVIOUS
  <2>2. /\ next.listeners = [tpServer.listeners EXCEPT ![p] = x]
        /\ next = [blocks |-> next.blocks, listeners |-> next.listeners,
                   containers |-> next.containers, proxies |-> next.proxies]
    BY <2>1, PartBecomes
  <2>3. /\ next.listeners = [q \in ListenPort |-> next.listeners[q]]
        /\ \A q \in ListenPort : /\ next.listeners[q].pid \in 0..3
                                 /\ DOMAIN next.listeners[q] = {"comm", "pid", "at"}
    BY <1>1, <1>4, <2>2
  <2> QED
    BY <1>4, <2>1, <2>2, <2>3, BecomesTyped
<1>6. CASE TpScan
  BY <1>6 DEF TpScan, TpTyped
<1>7. ASSUME NEW b \in Block, TpSiteRemoved(b)
      PROVE  TpTyped'
  BY <1>2, <1>7 DEF TpSiteRemoved
<1>8. ASSUME NEW b \in Block, NEW names, NEW proxy, TpSiteAdded(b, names, proxy)
      PROVE  TpTyped'
  BY <1>2, <1>8 DEF TpSiteAdded
<1>9. ASSUME NEW p \in ListenPort, TpStops(p)
      PROVE  TpTyped'
  <2>1. Free.pid \in 0..3 /\ DOMAIN Free = {"comm", "pid", "at"}
    BY DEF Free
  <2> QED
    BY <1>4, <1>9, <2>1 DEF TpStops
<1>10. ASSUME NEW p \in ListenPort, NEW comm, NEW at, TpStarts(p, comm, at)
       PROVE  TpTyped'
  BY <1>4, <1>10, ListenerFacts DEF TpStarts
<1>11. ASSUME NEW p \in ListenPort, TpRestarts(p)
       PROVE  TpTyped'
  <2>1. PICK pid : pid = FreshPid(p)
    OBVIOUS
  <2>2. pid \in 0..3
    BY <2>1, FreshIsNew
  <2>3. PICK next : next = [tpServer EXCEPT !.listeners[p].pid = pid]
    OBVIOUS
  <2>4. /\ tpServer' = next /\ tpRecorded' = tpRecorded /\ tpChanges < MaxChanges
        /\ tpChanges' = tpChanges + 1 /\ tpRestarted' \in BOOLEAN
    BY <1>11, <2>1, <2>3 DEF TpRestarts, TpTyped
  <2>5. /\ next.listeners = [tpServer.listeners EXCEPT ![p].pid = pid]
        /\ next = [blocks |-> next.blocks, listeners |-> next.listeners,
                   containers |-> next.containers, proxies |-> next.proxies]
    BY <1>1, <2>3
  <2>6. PICK was, is : was = tpServer.listeners[p] /\ is = [was EXCEPT !.pid = pid]
    OBVIOUS
  <2>7. is.pid \in 0..3 /\ DOMAIN is = {"comm", "pid", "at"}
    BY <1>1, <2>2, <2>6
  <2>8. next.listeners = [tpServer.listeners EXCEPT ![p] = is]
    BY <2>5, <2>6
  <2>9. /\ next.listeners = [q \in ListenPort |-> next.listeners[q]]
        /\ \A q \in ListenPort : /\ next.listeners[q].pid \in 0..3
                                 /\ DOMAIN next.listeners[q] = {"comm", "pid", "at"}
    BY <1>1, <2>7, <2>8
  <2>10. tpChanges' \in 0..MaxChanges
    BY <2>4, TpBoundAssumption, OneMore DEF TpTyped
  <2> QED
    BY <2>4, <2>5, <2>9, <2>10 DEF TpTyped
<1>12. ASSUME NEW c \in Container, TpContainerRemoved(c)
       PROVE  TpTyped'
  BY <1>3, <1>12 DEF TpContainerRemoved
<1>13. ASSUME NEW c \in Container, NEW group, NEW ports, TpContainerRuns(c, group, ports)
       PROVE  TpTyped'
  <2>1. PICK listeners, is : /\ listeners = WithProxies(ports)
                             /\ is = [state |-> "running", group |-> group, ports |-> ports]
    OBVIOUS
  <2>2. PICK next : next = [tpServer EXCEPT !.containers[c] = is, !.listeners = listeners]
    OBVIOUS
  <2>3. Becomes(next)
    BY <1>13, <2>1, <2>2 DEF TpContainerRuns
  <2>4. /\ next.listeners = listeners
        /\ next = [blocks |-> next.blocks, listeners |-> next.listeners,
                   containers |-> next.containers, proxies |-> next.proxies]
    BY <1>1, <2>2
  <2>5. /\ listeners = [p \in ListenPort |-> listeners[p]]
        /\ \A p \in ListenPort : /\ listeners[p].pid \in 0..3
                                 /\ DOMAIN listeners[p] = {"comm", "pid", "at"}
    <3>1. /\ listeners = [p \in ListenPort |-> listeners[p]]
          /\ \A p \in ListenPort : \/ listeners[p] = tpServer.listeners[p]
                                   \/ listeners[p] = Listener(p, "docker", "any")
      BY <2>1 DEF WithProxies
    <3> QED
      BY <1>1, <3>1, ListenerFacts
  <2> QED
    BY <2>3, <2>4, <2>5, BecomesTyped
<1>14. ASSUME NEW c \in Container, TpContainerStops(c)
       PROVE  TpTyped'
  <2>1. PICK ports, now : /\ ports = tpServer.containers[c].ports
                          /\ now = [p \in ListenPort |-> IF p \in ports THEN Free
                                                        ELSE tpServer.listeners[p]]
    OBVIOUS
  <2>2. PICK next : next = [tpServer EXCEPT !.containers[c].state = "exited", !.listeners = now]
    OBVIOUS
  <2>3. Becomes(next)
    BY <1>14, <2>1, <2>2, Zenon DEF TpContainerStops
  <2>4. /\ next.listeners = now
        /\ next = [blocks |-> next.blocks, listeners |-> next.listeners,
                   containers |-> next.containers, proxies |-> next.proxies]
    BY <1>1, <2>2
  <2>5. /\ now = [p \in ListenPort |-> now[p]]
        /\ \A p \in ListenPort : /\ now[p].pid \in 0..3
                                 /\ DOMAIN now[p] = {"comm", "pid", "at"}
    BY <1>1, <2>1 DEF Free
  <2> QED
    BY <2>3, <2>4, <2>5, BecomesTyped
<1>15. CASE UNCHANGED tpVars
  BY <1>15 DEF tpVars, TpTyped
<1> QED
  BY <1>6, <1>7, <1>8, <1>9, <1>10, <1>11, <1>12, <1>13, <1>14, <1>15 DEF TpNext

LEMMA TpInvTyped ==
    ASSUME TpTyped
    PROVE  TpTypeOK
BY DEF TpTyped, TpTypeOK

(***************************************************************************)
(* Changes between two scans.                                              *)
(***************************************************************************)
\* What of the changes is of which kind.
LEMMA DiffFacts ==
    ASSUME NEW before, NEW after
    PROVE  LET IdsOf(kinds) == {c.id : c \in {x \in Diff(before, after) : x.kind \in kinds}}
           IN /\ IdsOf({"removed"}) = DOMAIN before.entities \ DOMAIN after.entities
              /\ IdsOf({"added"}) = DOMAIN after.entities \ DOMAIN before.entities
              /\ IdsOf({"added", "modified"}) =
                     (DOMAIN after.entities \ DOMAIN before.entities)
                     \cup {x \in DOMAIN after.entities \cap DOMAIN before.entities :
                               before.entities[x] # after.entities[x]}
              /\ IdsOf({"linked"}) = {<<"link", l>> : l \in after.links \ before.links}
              /\ IdsOf({"unlinked"}) = {<<"link", l>> : l \in before.links \ after.links}
<1> DEFINE was == DOMAIN before.entities
           is == DOMAIN after.entities
           both == {x \in is \cap was : before.entities[x] # after.entities[x]}
           Added(id) == [kind |-> "added", id |-> id, was |-> <<>>, is |-> <<after.entities[id]>>,
                         owners |-> OwnersOf(after, {id})]
           Modified(id) == [kind |-> "modified", id |-> id, was |-> <<before.entities[id]>>,
                            is |-> <<after.entities[id]>>, owners |-> OwnersOf(after, {id})]
           Removed(id) == [kind |-> "removed", id |-> id, was |-> <<before.entities[id]>>,
                           is |-> <<>>, owners |-> OwnersOf(before, {id})]
           Linked(l) == [kind |-> "linked", id |-> <<"link", l>>, was |-> <<>>, is |-> <<>>,
                         owners |-> OwnersOf(after, {l.from, l.to})]
           Unlinked(l) == [kind |-> "unlinked", id |-> <<"link", l>>, was |-> <<>>, is |-> <<>>,
                           owners |-> OwnersOf(before, {l.from, l.to})]
<1>1. Diff(before, after) = {Added(id) : id \in is \ was} \cup {Modified(id) : id \in both}
                            \cup {Removed(id) : id \in was \ is}
                            \cup {Linked(l) : l \in after.links \ before.links}
                            \cup {Unlinked(l) : l \in before.links \ after.links}
  BY DEF Diff, EntityChanges, LinkChanges
<1>2. /\ \A id : Added(id).kind = "added" /\ Added(id).id = id
      /\ \A id : Modified(id).kind = "modified" /\ Modified(id).id = id
      /\ \A id : Removed(id).kind = "removed" /\ Removed(id).id = id
      /\ \A l : Linked(l).kind = "linked" /\ Linked(l).id = <<"link", l>>
      /\ \A l : Unlinked(l).kind = "unlinked" /\ Unlinked(l).id = <<"link", l>>
  OBVIOUS
<1> HIDE DEF Added, Modified, Removed, Linked, Unlinked
<1> DEFINE Of(kinds) == {c.id : c \in {x \in Diff(before, after) : x.kind \in kinds}}
<1>3. Of({"removed"}) = was \ is
  BY <1>1, <1>2
<1>4. Of({"added"}) = is \ was
  BY <1>1, <1>2
<1>5. Of({"added", "modified"}) = (is \ was) \cup both
  BY <1>1, <1>2
<1>6. Of({"linked"}) = {<<"link", l>> : l \in after.links \ before.links}
  <2>1. ASSUME NEW l \in after.links \ before.links
        PROVE  <<"link", l>> \in Of({"linked"})
    <3>1. Linked(l) \in Diff(before, after) /\ Linked(l).kind = "linked"
          /\ Linked(l).id = <<"link", l>>
      BY <1>1, <1>2
    <3> QED
      BY <3>1
  <2>2. ASSUME NEW id \in Of({"linked"})
        PROVE  \E l \in after.links \ before.links : id = <<"link", l>>
    <3>1. PICK c \in Diff(before, after) : c.kind = "linked" /\ c.id = id
      OBVIOUS
    <3>2. PICK l \in after.links \ before.links : c = Linked(l)
      BY <1>1, <1>2, <3>1
    <3> QED
      BY <1>2, <3>1, <3>2
  <2> HIDE DEF Of
  <2> QED
    BY <2>1, <2>2
<1>7. Of({"unlinked"}) = {<<"link", l>> : l \in before.links \ after.links}
  <2>1. ASSUME NEW l \in before.links \ after.links
        PROVE  <<"link", l>> \in Of({"unlinked"})
    <3>1. Unlinked(l) \in Diff(before, after) /\ Unlinked(l).kind = "unlinked"
          /\ Unlinked(l).id = <<"link", l>>
      BY <1>1, <1>2
    <3> QED
      BY <3>1
  <2>2. ASSUME NEW id \in Of({"unlinked"})
        PROVE  \E l \in before.links \ after.links : id = <<"link", l>>
    <3>1. PICK c \in Diff(before, after) : c.kind = "unlinked" /\ c.id = id
      OBVIOUS
    <3>2. PICK l \in before.links \ after.links : c = Unlinked(l)
      BY <1>1, <1>2, <3>1
    <3> QED
      BY <1>2, <3>1, <3>2
  <2> HIDE DEF Of
  <2> QED
    BY <2>1, <2>2
<1> QED
  BY <1>3, <1>4, <1>5, <1>6, <1>7

\* Laid over any earlier snapshot, the changes that are told give the later one: no entity
\* or relationship comes, goes or changes untold, and none is told that did not.
THEOREM ChangesAreComplete ==
    ASSUME NEW before, NEW after
    PROVE  DiffIsComplete(before, after)
<1> DEFINE IdsOf(kinds) == {c.id : c \in {x \in Diff(before, after) : x.kind \in kinds}}
           Shown(snapshot) == {<<"link", l>> : l \in snapshot.links}
           both == {x \in DOMAIN after.entities \cap DOMAIN before.entities :
                        before.entities[x] # after.entities[x]}
<1>1. /\ IdsOf({"removed"}) = DOMAIN before.entities \ DOMAIN after.entities
      /\ IdsOf({"added"}) = DOMAIN after.entities \ DOMAIN before.entities
      /\ IdsOf({"added", "modified"}) = (DOMAIN after.entities \ DOMAIN before.entities) \cup both
      /\ IdsOf({"linked"}) = {<<"link", l>> : l \in after.links \ before.links}
      /\ IdsOf({"unlinked"}) = {<<"link", l>> : l \in before.links \ after.links}
  BY DiffFacts
<1>2. DOMAIN after.entities = (DOMAIN before.entities \ IdsOf({"removed"})) \cup IdsOf({"added"})
  BY <1>1
<1>3. ASSUME NEW id \in DOMAIN after.entities
      PROVE  IF id \in IdsOf({"added", "modified"})
             THEN \E c \in Diff(before, after) : c.id = id /\ c.is = <<after.entities[id]>>
             ELSE after.entities[id] = before.entities[id]
  <2>1. CASE id \notin DOMAIN before.entities
    <3>1. PICK c : c = [kind |-> "added", id |-> id, was |-> <<>>, is |-> <<after.entities[id]>>,
                        owners |-> OwnersOf(after, {id})]
      OBVIOUS
    <3>2. c \in Diff(before, after)
      BY <1>3, <2>1, <3>1 DEF Diff, EntityChanges
    <3>3. c.id = id /\ c.is = <<after.entities[id]>>
      BY <3>1
    <3> QED
      BY <1>1, <1>3, <2>1, <3>2, <3>3
  <2>2. CASE id \in both
    <3>1. PICK c : c = [kind |-> "modified", id |-> id, was |-> <<before.entities[id]>>,
                        is |-> <<after.entities[id]>>, owners |-> OwnersOf(after, {id})]
      OBVIOUS
    <3>2. c \in Diff(before, after)
      BY <1>3, <2>2, <3>1 DEF Diff, EntityChanges
    <3>3. c.id = id /\ c.is = <<after.entities[id]>>
      BY <3>1
    <3> QED
      BY <1>1, <2>2, <3>2, <3>3
  <2>3. CASE id \in DOMAIN before.entities /\ id \notin both
    BY <1>1, <1>3, <2>3
  <2> QED
    BY <2>1, <2>2, <2>3
<1>4. Shown(after) = (Shown(before) \ IdsOf({"unlinked"})) \cup IdsOf({"linked"})
  <2>1. \A l, k : <<"link", l>> = <<"link", k>> => l = k
    OBVIOUS
  <2> QED
    BY <1>1, <2>1
<1> HIDE DEF IdsOf, Shown
<1> QED
  BY <1>2, <1>3, <1>4 DEF DiffIsComplete, IdsOf, Shown

(***************************************************************************)
(* The desks together.                                                     *)
(***************************************************************************)
AdminInv == UsInv /\ CdInv /\ CrInv /\ SyInv
AdminTyped == UsTyped /\ CdTyped /\ CrTyped /\ SyMounted /\ TpTyped

LEMMA AdminInitInv ==
    ASSUME Init
    PROVE  AdminInv /\ AdminTyped
<1>1. AdminInv
  BY UsInitInv, CdInitInv, CrInitInv, SyInitInv DEF Init, AdminInv
<1>2. AdminTyped
  BY <1>1, UsInitTyped, CdInitTyped, CrInitTyped, SyInitTyped, TpInitTyped
     DEF Init, AdminInv, AdminTyped
<1> QED
  BY <1>1, <1>2

\* A step of one desk is a step of its own module, or leaves it alone.
LEMMA AdminStepInv ==
    ASSUME AdminInv, AdminTyped, [Next]_adminVars
    PROVE  AdminInv' /\ AdminTyped'
<1>1. /\ [UsNext]_usVars /\ [CdNext]_cdVars /\ [CrNext]_crVars /\ [SyNext]_syVars
      /\ [TpNext]_tpVars
  BY DEF Next, adminVars
<1>2. AdminInv'
  BY <1>1, UsStepInv, CdStepInv, CrStepInv, SyStepInv DEF AdminInv
<1>3. UsTyped' /\ CdTyped' /\ CrTyped'
  BY <1>1, <1>2, UsStepTyped, CdStepTyped, CrStepTyped DEF AdminInv, AdminTyped
<1>4. SyMounted' /\ TpTyped'
  BY <1>1, <1>2, SyStepTyped, TpStepTyped DEF AdminInv, AdminTyped
<1> QED
  BY <1>2, <1>3, <1>4 DEF AdminTyped

\* What a panel does is done to what the user saw in it, once, and the panel is told; what
\* its dialog says of it is so: a cron job is edited on the line it was listed on, one edit
\* at a time; a schedule runs when its description says; nothing is run on the account the
\* user is connected with, unless the discovery it was checked against was cut short; a
\* unit is stopped only when that was confirmed, and is shown as it is afterwards.
THEOREM EditsMeant == Spec => []EditsAreMeant
<1>1. Init => AdminInv /\ AdminTyped
  BY AdminInitInv
<1>2. AdminInv /\ AdminTyped /\ [Next]_adminVars => AdminInv' /\ AdminTyped'
  BY AdminStepInv
<1>3. AdminInv => EditsAreMeant
  BY UsInvSpares, CdInvSaid, CrInvMeant, CrInvOneEdit, SyInvShown DEF AdminInv, EditsAreMeant
<1> QED
  BY <1>1, <1>2, <1>3, PTL DEF Spec

\* Every variable of the desk at work keeps its type: what is listed, edited or asked of a
\* unit is of the server there is, a detail is on display only where its unit is selected
\* and systemd is known to be there, and the counts stay within their bounds.
THEOREM AdminTypesHold == Spec => []AdminTypeOK
<1>1. Init => AdminInv /\ AdminTyped
  BY AdminInitInv
<1>2. AdminInv /\ AdminTyped /\ [Next]_adminVars => AdminInv' /\ AdminTyped'
  BY AdminStepInv
<1>3. AdminInv /\ AdminTyped => AdminTypeOK
  BY UsInvTyped, CdInvTyped, CrInvTyped, SyInvTyped, TpInvTyped
     DEF AdminInv, AdminTyped, AdminTypeOK
<1> QED
  BY <1>1, <1>2, <1>3, PTL DEF Spec
===============================================================================
