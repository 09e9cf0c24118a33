------------------------ MODULE ServerConnectionProofs ------------------------
(***************************************************************************)
(* Safety of one connection object for any number of client slots and any  *)
(* values of the bounds.  The states the user sees mean what they say      *)
(* because of two facts the properties do not mention: while the object is *)
(* in use no disconnect() has run on it (InUseIsClean), and a connection   *)
(* that is not being given up has a live control client whatever the       *)
(* manager's map says (LiveControl).                                       *)
(***************************************************************************)
EXTENDS ServerConnection, TLAPS

InUseIsClean == InUse => ~intentional /\ link.state # "disconnected"

LiveControl ==
    ~intentional /\ link.state = "connected" =>
        /\ control \in Client
        /\ client[control].phase = "open"
        /\ client[control].kind = "control"

IndInv ==
    /\ TypeOK
    /\ InUseIsClean
    /\ LiveControl
    /\ ConnectingIsDialing
    /\ ReconnectingWillRetry
    /\ CachedInteractiveIsLive

\* scheduleReconnect leaves 'error', or 'reconnecting' with its timer armed.
LEMMA ScheduleFacts ==
    ASSUME NEW l \in LinkRecord
    PROVE  /\ Schedule(l) \in LinkRecord
           /\ Schedule(l).state \in {"error", "reconnecting"}
           /\ Schedule(l).state = "reconnecting" => Schedule(l).timer
BY BoundAssumption DEF Schedule, LinkRecord, State

\* A connect() that failed leaves 'error', or a retry of its own.
LEMMA FailedConnectFacts ==
    ASSUME NEW l \in LinkRecord, NEW origin \in {"user", "timer"}
    PROVE  LET r == AfterFailedConnect(l, origin)
           IN  /\ r \in LinkRecord
               /\ r.state \in {"error", "reconnecting"}
               /\ r.state = "reconnecting" => r.timer
<1> DEFINE failed == [l EXCEPT !.state = "error"]
<1>1. failed \in LinkRecord /\ failed.state = "error"
  BY DEF LinkRecord, State
<1>2. /\ Schedule(failed) \in LinkRecord
      /\ Schedule(failed).state \in {"error", "reconnecting"}
      /\ Schedule(failed).state = "reconnecting" => Schedule(failed).timer
  BY <1>1, ScheduleFacts
<1> QED
  BY <1>1, <1>2 DEF AfterFailedConnect

\* A loss that is noticed leaves neither 'connected' nor 'connecting'.
LEMMA LossFacts ==
    ASSUME TypeOK
    PROVE  /\ AfterLoss \in LinkRecord
           /\ ~LossNoticed => AfterLoss = link
           /\ LossNoticed => /\ AfterLoss.state \in {"error", "reconnecting"}
                             /\ AfterLoss.state = "reconnecting" => AfterLoss.timer
BY ScheduleFacts DEF AfterLoss, TypeOK

\* closeClients only moves open clients to 'ending'.
LEMMA EndedFacts ==
    ASSUME NEW cl \in [Client -> ClientRecord]
    PROVE  /\ Ended(cl) \in [Client -> ClientRecord]
           /\ \A c \in Client : /\ Ended(cl)[c].kind = cl[c].kind
                                /\ cl[c].phase # "open" => Ended(cl)[c] = cl[c]
BY DEF Ended, ClientRecord, Phase

LEMMA InitIndInv == Init => IndInv
<1> SUFFICES ASSUME Init PROVE IndInv
  OBVIOUS
<1> PICK c \in Client :
      client = [[d \in Client |-> FreeClient] EXCEPT ![c] = NewClient("control", "user")]
  BY DEF Init
<1>1. TypeOK
  <2>1. client \in [Client -> ClientRecord]
    BY DEF ClientRecord, Phase, FreeClient, NewClient
  <2>2. link \in LinkRecord
    BY BoundAssumption DEF Init, LinkRecord, State
  <2> QED
    BY <2>1, <2>2 DEF Init, TypeOK
<1>2. ConnectingIsDialing
  <2>1. client[c] = NewClient("control", "user")
    OBVIOUS
  <2> QED
    BY <2>1 DEF ConnectingIsDialing, Opening, Dialing, InPhase, NewClient
<1> QED
  BY <1>1, <1>2 DEF IndInv, Init, InUseIsClean, LiveControl, ReconnectingWillRetry,
     CachedInteractiveIsLive, InUse

\* A connect() that begins, by the user or by a timer.
LEMMA BeginConnectStep ==
    ASSUME IndInv, NEW c \in Client, NEW origin \in {"user", "timer"},
           NEW l \in LinkRecord, BeginConnect(c, origin, l)
    PROVE  IndInv'
<1> USE DEF IndInv
<1>1. link' \in LinkRecord /\ link'.state = "connecting"
  BY DEF BeginConnect, LinkRecord, State
<1>2. /\ client' \in [Client -> ClientRecord]
      /\ client'[c] = NewClient("control", origin)
      /\ \A d \in Client \ {c} : client'[d] = client[d]
  BY DEF BeginConnect, TypeOK, ClientRecord, Phase, NewClient
<1>3. TypeOK'
  BY <1>1, <1>2 DEF BeginConnect, TypeOK
<1>4. ConnectingIsDialing'
  BY <1>2 DEF ConnectingIsDialing, Opening, Dialing, InPhase, NewClient
<1>5. CachedInteractiveIsLive'
  BY <1>2 DEF CachedInteractiveIsLive, InUse, BeginConnect, Available, TypeOK
<1>6. InUseIsClean' /\ LiveControl' /\ ReconnectingWillRetry'
  BY <1>1 DEF InUseIsClean, LiveControl, ReconnectingWillRetry, BeginConnect
<1> QED
  BY <1>3, <1>4, <1>5, <1>6

LEMMA TimerStep == ASSUME IndInv, TimerFires PROVE IndInv'
<1>1. PICK l \in {[link EXCEPT !.timer = FALSE],
                  [link EXCEPT !.orphans = IF @ > 0 THEN @ - 1 ELSE @]} :
        IF ConnectReturns
        THEN link' = l /\ UNCHANGED <<client, control, interactive, connecting,
                 sftp, sftpCalls, prompt, known, intentional, closing, held>>
        ELSE \E c \in Client : BeginConnect(c, "timer", l)
  BY DEF TimerFires
<1>2. l \in LinkRecord /\ l.state = link.state
  <2>1. link \in LinkRecord
    BY DEF IndInv, TypeOK
  <2>2. CASE l = [link EXCEPT !.timer = FALSE]
    BY <2>1, <2>2 DEF LinkRecord
  <2>3. CASE l = [link EXCEPT !.orphans = IF @ > 0 THEN @ - 1 ELSE @]
    <3>1. (IF link.orphans > 0 THEN link.orphans - 1 ELSE link.orphans) \in Nat
      BY <2>1 DEF LinkRecord
    <3> QED
      BY <2>1, <2>3, <3>1 DEF LinkRecord
  <2> QED
    BY <2>2, <2>3
<1>3. CASE ConnectReturns
  <2>1. TypeOK'
    BY <1>1, <1>2, <1>3 DEF IndInv, TypeOK
  <2> QED
    BY <1>1, <1>2, <1>3, <2>1 DEF ConnectReturns, IndInv, InUse, InUseIsClean,
       LiveControl, ConnectingIsDialing, Opening, Dialing, InPhase,
       ReconnectingWillRetry, CachedInteractiveIsLive
<1>4. CASE ~ConnectReturns
  BY <1>1, <1>2, <1>4, BeginConnectStep
<1> QED
  BY <1>3, <1>4

\* Steps that leave the link record, the caches of clients and the flags alone and
\* move one client between phases in which it is not open.
LEMMA QuietStep ==
    ASSUME IndInv, TypeOK', UNCHANGED <<link, control, interactive, intentional, closing, held>>,
           \A c \in Client : \/ client'[c] = client[c]
                             \/ /\ client'[c].kind = client[c].kind
                                /\ client[c].phase # "open"
                                /\ c \in Dialing => client'[c].phase
                                        \in {"config", "dialing", "verifying"}
                             \/ /\ client[c].phase = "free"
    PROVE  IndInv'
<1>1. ConnectingIsDialing'
  BY DEF IndInv, ConnectingIsDialing, Opening, Dialing, InPhase
<1> QED
  BY <1>1 DEF IndInv, InUse, InUseIsClean, LiveControl, ReconnectingWillRetry,
     CachedInteractiveIsLive, TypeOK

\* The dial goes on, or asks: OpenInteractive, ConfigReady, AskHostKey and the
\* user's answers move a client that is not open.
LEMMA DialGoesOn ==
    ASSUME IndInv,
           \/ OpenInteractive \/ AcceptHostKey \/ RejectHostKey
           \/ \E c \in Client : ConfigReady(c) \/ AskHostKey(c)
    PROVE  IndInv'
<1> USE DEF IndInv
<1>1. CASE OpenInteractive
  <2>1. PICK c \in Client : /\ Available(c) /\ connecting' = c
                            /\ client' = [client EXCEPT ![c] = NewClient("interactive", "user")]
    BY <1>1 DEF OpenInteractive
  <2>2. TypeOK'
    BY <1>1, <2>1 DEF OpenInteractive, TypeOK, NewClient, ClientRecord, Phase
  <2> QED
    BY <1>1, <2>1, <2>2, QuietStep DEF OpenInteractive, Available, TypeOK
<1>2. CASE AcceptHostKey
  <2>1. prompt \in Client
    BY <1>2 DEF AcceptHostKey, TypeOK
  <2>2. TypeOK'
    BY <1>2, <2>1 DEF AcceptHostKey, TypeOK, ClientRecord, Phase
  <2>3. \A d \in Client : \/ client'[d] = client[d]
                          \/ /\ client'[d].kind = client[d].kind
                             /\ client[d].phase = "verifying"
                             /\ client'[d].phase = "dialing"
    BY <1>2, <2>1 DEF AcceptHostKey, TypeOK, ClientRecord
  <2> QED
    BY <1>2, <2>2, <2>3, QuietStep DEF AcceptHostKey
<1>3. CASE RejectHostKey
  BY <1>3, QuietStep DEF RejectHostKey, TypeOK
<1>4. ASSUME NEW c \in Client, ConfigReady(c) \/ AskHostKey(c) PROVE IndInv'
  <2>1. TypeOK'
    BY <1>4 DEF ConfigReady, AskHostKey, TypeOK, ClientRecord, Phase
  <2>2. \A d \in Client : \/ client'[d] = client[d]
                          \/ /\ client'[d].kind = client[d].kind
                             /\ client[d].phase \in {"config", "dialing"}
                             /\ client'[d].phase \in {"dialing", "verifying"}
    BY <1>4 DEF ConfigReady, AskHostKey, TypeOK, ClientRecord
  <2> QED
    BY <1>4, <2>1, <2>2, QuietStep DEF ConfigReady, AskHostKey
<1> QED
  BY <1>1, <1>2, <1>3, <1>4

\* getSftp touches nothing the invariant speaks of but its own cache.
LEMMA SftpSteps ==
    ASSUME IndInv, RequestSftp \/ \E c \in Client : SftpStep(c)
    PROVE  IndInv'
<1>1. TypeOK'
  BY DEF RequestSftp, SftpStep, SftpReady, SftpFails, IndInv, TypeOK
<1> QED
  BY <1>1, QuietStep DEF RequestSftp, SftpStep, SftpReady, SftpFails

\* buildConnectConfig throws.
LEMMA ConfigFailsStep ==
    ASSUME IndInv, NEW c \in Client, ConfigFails(c)
    PROVE  IndInv'
<1> USE DEF IndInv
<1>1. /\ client[c].phase = "config"
      /\ client' \in [Client -> ClientRecord]
      /\ \A d \in Client \ {c} : client'[d] = client[d]
  BY DEF ConfigFails, TypeOK, FreeClient, ClientRecord, Phase
<1>2. /\ link' \in LinkRecord
      /\ IF client[c].kind = "control"
         THEN /\ link'.state \in {"error", "reconnecting"}
              /\ link'.state = "reconnecting" => link'.timer
         ELSE link' = link
  <2>1. client[c].origin \in {"user", "timer"}
    BY DEF TypeOK, ClientRecord
  <2> QED
    BY <2>1, FailedConnectFacts DEF ConfigFails, TypeOK
<1>3. TypeOK'
  BY <1>1, <1>2 DEF ConfigFails, TypeOK, Settled
<1>4. InUseIsClean' /\ ReconnectingWillRetry'
  BY <1>2 DEF ConfigFails, InUseIsClean, ReconnectingWillRetry, InUse
<1>5. LiveControl' /\ CachedInteractiveIsLive'
  BY <1>1, <1>2 DEF ConfigFails, LiveControl, CachedInteractiveIsLive, InUse, TypeOK
<1>6. ConnectingIsDialing'
  BY <1>1, <1>2 DEF ConnectingIsDialing, Opening, Dialing, InPhase
<1> QED
  BY <1>3, <1>4, <1>5, <1>6

\* 'ready': a control client ends every retry, an interactive one fills the cache.
LEMMA ReadySteps ==
    ASSUME IndInv, NEW c \in Client, ControlReady(c) \/ InteractiveReady(c)
    PROVE  IndInv'
<1> USE DEF IndInv
<1>1. /\ client[c].phase = "dialing"
      /\ client' \in [Client -> ClientRecord]
      /\ client'[c].phase = "open" /\ client'[c].kind = client[c].kind
      /\ \A d \in Client \ {c} : client'[d] = client[d]
  BY DEF ControlReady, InteractiveReady, TypeOK, ClientRecord, Phase
<1>2. CASE ControlReady(c)
  <2>1. link' \in LinkRecord /\ link'.state = "connected"
    <3>1. link \in LinkRecord /\ 0 \in 0..MaxAttempts
      BY BoundAssumption DEF TypeOK
    <3>2. link' = [link EXCEPT !.attempts = 0, !.state = "connected"]
      BY <1>2 DEF ControlReady
    <3> QED
      BY <3>1, <3>2 DEF LinkRecord, State
  <2>2. TypeOK'
    BY <1>1, <1>2, <2>1 DEF ControlReady, TypeOK
  <2> QED
    BY <1>1, <1>2, <2>1, <2>2 DEF ControlReady, InUse, InUseIsClean, LiveControl,
       ConnectingIsDialing, ReconnectingWillRetry, CachedInteractiveIsLive, TypeOK
<1>3. CASE InteractiveReady(c)
  <2>1. TypeOK'
    BY <1>1, <1>3 DEF InteractiveReady, TypeOK, Settled
  <2>2. ConnectingIsDialing'
    BY <1>1, <1>3 DEF InteractiveReady, ConnectingIsDialing, Opening, Dialing, InPhase
  <2> QED
    BY <1>1, <1>3, <2>1, <2>2 DEF InteractiveReady, InUse, InUseIsClean, LiveControl,
       ReconnectingWillRetry, CachedInteractiveIsLive, TypeOK
<1> QED
  BY <1>2, <1>3

\* What a noticed loss ends in, whichever event brought it and whatever a failed
\* dial adds to it: no client is cached, and the state is 'error' or a retry.
LEMMA NoticedLoss ==
    ASSUME IndInv, TypeOK', ForgetClients, UNCHANGED <<intentional, closing, held>>,
           link'.state \in {"error", "reconnecting"},
           link'.state = "reconnecting" => link'.timer
    PROVE  IndInv'
BY NoneAssumption DEF IndInv, TypeOK, ForgetClients, InUse, InUseIsClean, LiveControl,
   ConnectingIsDialing, ReconnectingWillRetry, CachedInteractiveIsLive

\* An event ignored by handleConnectionLoss (the object is disconnecting, or was
\* never connected): the object is not in use, and is not left 'connecting'
\* without a dial if the client that failed was not one.
LEMMA IgnoredEvent ==
    ASSUME IndInv, TypeOK', ~LossNoticed, UNCHANGED <<link, intentional, closing, held>>,
           NEW c \in Client, c \notin Opening("control"),
           \A d \in Client \ {c} : client'[d] = client[d]
    PROVE  IndInv'
<1>1. ConnectingIsDialing'
  BY DEF IndInv, ConnectingIsDialing, Opening, Dialing, InPhase
<1> QED
  BY <1>1 DEF IndInv, LossNoticed, InUse, InUseIsClean, LiveControl,
     ReconnectingWillRetry, CachedInteractiveIsLive

LEMMA DialFailsStep ==
    ASSUME IndInv, NEW c \in Client, DialFails(c)
    PROVE  IndInv'
<1> USE DEF IndInv
<1> DEFINE cl == [client EXCEPT ![c].phase = "failed"]
<1>1. /\ cl \in [Client -> ClientRecord]
      /\ Ended(cl) \in [Client -> ClientRecord]
      /\ \A d \in Client \ {c} : cl[d] = client[d]
  <2>1. cl \in [Client -> ClientRecord]
    BY DEF TypeOK, ClientRecord, Phase
  <2> HIDE DEF cl
  <2>2. Ended(cl) \in [Client -> ClientRecord]
    BY <2>1, EndedFacts
  <2> QED
    BY <2>1, <2>2 DEF TypeOK, cl
<1>2. /\ AfterLoss \in LinkRecord
      /\ ~LossNoticed => AfterLoss = link
      /\ LossNoticed => /\ AfterLoss.state \in {"error", "reconnecting"}
                        /\ AfterLoss.state = "reconnecting" => AfterLoss.timer
  BY LossFacts
<1>3. LET r == AfterFailedConnect(AfterLoss, client[c].origin)
      IN  /\ r \in LinkRecord
          /\ r.state \in {"error", "reconnecting"}
          /\ r.state = "reconnecting" => r.timer
  <2>1. client[c].origin \in {"user", "timer"}
    BY DEF TypeOK, ClientRecord
  <2> QED
    BY <1>2, <2>1, FailedConnectFacts
<1>4. TypeOK'
  <2>1. client' \in [Client -> ClientRecord]
    BY <1>1 DEF DialFails
  <2>2. link' \in LinkRecord
    BY <1>2, <1>3 DEF DialFails
  <2> QED
    BY <2>1, <2>2 DEF DialFails, TypeOK, ForgetClients, Settled
<1>5. CASE LossNoticed
  BY <1>2, <1>3, <1>4, <1>5, NoticedLoss DEF DialFails
<1>6. CASE ~LossNoticed /\ client[c].kind = "interactive"
  <2>1. c \notin Opening("control")
    BY <1>6 DEF Opening
  <2> QED
    BY <1>1, <1>2, <1>4, <1>6, <2>1, IgnoredEvent DEF DialFails
<1>7. CASE ~LossNoticed /\ client[c].kind = "control"
  <2>1. /\ link'.state \in {"error", "reconnecting"}
        /\ link'.state = "reconnecting" => link'.timer
        /\ UNCHANGED <<control, interactive, intentional, closing, held>>
    BY <1>3, <1>7 DEF DialFails
  <2>2. InUseIsClean' /\ LiveControl' /\ ConnectingIsDialing' /\ ReconnectingWillRetry'
    BY <2>1, <1>7 DEF InUse, InUseIsClean, LiveControl, ConnectingIsDialing,
       ReconnectingWillRetry, LossNoticed
  <2>3. CachedInteractiveIsLive'
    BY <2>1, <1>7 DEF InUse, InUseIsClean, LossNoticed, CachedInteractiveIsLive
  <2> QED
    BY <1>4, <2>2, <2>3
<1> QED
  BY <1>5, <1>6, <1>7 DEF TypeOK, ClientRecord

\* 'error' and 'close' of a client that is no longer dialing.
LEMMA ClientEventSteps ==
    ASSUME IndInv, NEW c \in Client, ClientError(c) \/ ClientClose(c)
    PROVE  IndInv'
<1> USE DEF IndInv
<1>1. PICK cl \in [Client -> ClientRecord] :
        /\ \A d \in Client \ {c} : cl[d] = client[d]
        /\ IF LossNoticed
           THEN client' = Ended(cl) /\ ForgetClients
           ELSE client' = cl
  <2>1. CASE ClientError(c)
    <3>1. [client EXCEPT ![c].phase = "failed"] \in [Client -> ClientRecord]
      BY DEF TypeOK, ClientRecord, Phase
    <3> QED
      BY <2>1, <3>1 DEF ClientError, TypeOK
  <2>2. CASE ClientClose(c)
    <3>1. [client EXCEPT ![c] = FreeClient] \in [Client -> ClientRecord]
      BY DEF TypeOK, ClientRecord, Phase, FreeClient
    <3> QED
      BY <2>2, <3>1 DEF ClientClose, TypeOK
  <2> QED
    BY <2>1, <2>2
<1>2. /\ link' = AfterLoss
      /\ AfterLoss \in LinkRecord
      /\ ~LossNoticed => AfterLoss = link
      /\ LossNoticed => /\ AfterLoss.state \in {"error", "reconnecting"}
                        /\ AfterLoss.state = "reconnecting" => AfterLoss.timer
  BY LossFacts DEF ClientError, ClientClose
<1>3. UNCHANGED <<intentional, closing, held>> /\ c \notin Opening("control")
  BY DEF ClientError, ClientClose, Opening, Dialing, InPhase
<1>4. TypeOK'
  <2>1. client' \in [Client -> ClientRecord]
    BY <1>1, EndedFacts
  <2> QED
    BY <1>2, <2>1 DEF ClientError, ClientClose, TypeOK, ForgetClients
<1>5. CASE LossNoticed
  BY <1>1, <1>2, <1>3, <1>4, <1>5, NoticedLoss
<1>6. CASE ~LossNoticed
  BY <1>1, <1>2, <1>3, <1>4, <1>6, IgnoredEvent
<1> QED
  BY <1>5, <1>6

\* The user's disconnect: the object is no longer in use, now or until it returns.
LEMMA DisconnectSteps ==
    ASSUME IndInv, Disconnect \/ DisconnectReturns
    PROVE  IndInv'
<1> USE DEF IndInv
<1> DEFINE l == [link EXCEPT !.timer = FALSE]
<1>1. /\ l \in LinkRecord /\ l.state = link.state
      /\ [l EXCEPT !.state = "disconnected"] \in LinkRecord
      /\ [link EXCEPT !.state = "disconnected"] \in LinkRecord
  <2>1. link \in LinkRecord
    BY DEF TypeOK
  <2>2. l \in LinkRecord /\ l.state = link.state
    BY <2>1 DEF LinkRecord
  <2>3. \A k \in LinkRecord : [k EXCEPT !.state = "disconnected"] \in LinkRecord
    BY DEF LinkRecord, State
  <2> QED
    BY <2>1, <2>2, <2>3
<1> HIDE DEF l
<1>2. CASE Disconnect
  <2>0. \/ /\ link' = [l EXCEPT !.state = "disconnected"]
           /\ held' = FALSE /\ closing' = closing
        \/ /\ link' = l
           /\ held' = held /\ closing' = closing + 1
    BY <1>2 DEF Disconnect, Disconnected, l
  <2>1. link' \in LinkRecord /\ link'.state \in {link.state, "disconnected"}
    BY <1>1, <2>0 DEF LinkRecord
  <2>2. closing' \in Nat /\ ~InUse'
    BY <2>0 DEF InUse, TypeOK
  <2>3. /\ Ended(client) \in [Client -> ClientRecord]
        /\ \A c \in Client : /\ Ended(client)[c].kind = client[c].kind
                             /\ client[c].phase # "open" => Ended(client)[c] = client[c]
    BY EndedFacts DEF TypeOK
  <2>4. TypeOK'
    BY <1>2, <2>1, <2>2, <2>3 DEF Disconnect, ForgetClients, TypeOK
  <2>5. ConnectingIsDialing'
    BY <1>2, <2>1, <2>3 DEF Disconnect, ConnectingIsDialing, Opening, Dialing, InPhase
  <2>6. ReconnectingWillRetry'
    <3>1. link'.state = "disconnected" \/ closing' > 0
      BY <1>1, <2>0 DEF TypeOK, LinkRecord
    <3> QED
      BY <3>1 DEF ReconnectingWillRetry
  <2> QED
    BY <1>2, <2>2, <2>4, <2>5, <2>6 DEF Disconnect, InUseIsClean, LiveControl,
       CachedInteractiveIsLive
<1>3. CASE DisconnectReturns
  <2>1. link' \in LinkRecord /\ link'.state = "disconnected"
    BY <1>1, <1>3 DEF DisconnectReturns, Disconnected, TypeOK, LinkRecord
  <2>2. TypeOK'
    <3>1. closing' \in Nat
      BY <1>3 DEF DisconnectReturns, TypeOK
    <3> QED
      BY <1>3, <2>1, <3>1 DEF DisconnectReturns, TypeOK
  <2> QED
    BY <1>3, <2>1, <2>2 DEF DisconnectReturns, InUse, InUseIsClean, LiveControl,
       ConnectingIsDialing, ReconnectingWillRetry, CachedInteractiveIsLive
<1> QED
  BY <1>2, <1>3

LEMMA NextIndInv == IndInv /\ [Next]_vars => IndInv'
<1> SUFFICES ASSUME IndInv, [Next]_vars PROVE IndInv'
  OBVIOUS
<1>1. CASE UserStep
  <2>1. CASE UserConnect
    <3>1. link \in LinkRecord
      BY DEF IndInv, TypeOK
    <3> QED
      BY <2>1, <3>1, BeginConnectStep DEF UserConnect
  <2> QED
    BY <1>1, <2>1, DialGoesOn, SftpSteps, DisconnectSteps DEF UserStep
<1>2. CASE TimerFires
  BY <1>2, TimerStep
<1>3. CASE DisconnectReturns
  BY <1>3, DisconnectSteps
<1>4. ASSUME NEW c \in Client,
             DialStep(c) \/ ClientError(c) \/ ClientClose(c) \/ SftpStep(c)
      PROVE  IndInv'
  <2>1. CASE DialStep(c)
    BY <2>1, DialGoesOn, ConfigFailsStep, ReadySteps, DialFailsStep DEF DialStep
  <2> QED
    BY <1>4, <2>1, ClientEventSteps, SftpSteps
<1>5. CASE UNCHANGED vars
  BY <1>5 DEF vars, IndInv, TypeOK, InUse, InUseIsClean, LiveControl,
     ConnectingIsDialing, Opening, Dialing, InPhase, ReconnectingWillRetry,
     CachedInteractiveIsLive
<1> QED
  BY <1>1, <1>2, <1>3, <1>4, <1>5 DEF Next

LEMMA Invariance == Spec => []IndInv
<1>1. Init => IndInv
  BY InitIndInv
<1>2. IndInv /\ [Next]_vars => IndInv'
  BY NextIndInv
<1> QED
  BY <1>1, <1>2, PTL DEF Spec

-----------------------------------------------------------------------------
\* The variables of a connection object keep their types; in particular the number
\* of consecutive retries never exceeds MAX_RECONNECT_ATTEMPTS.
THEOREM TypeCorrect == Spec => []TypeOK
BY Invariance, PTL DEF IndInv

\* 'connected' means an open control client, for any number of clients and timers.
THEOREM ConnectedIsLiveHolds == Spec => []ConnectedIsLive
<1>1. IndInv => ConnectedIsLive
  BY DEF IndInv, InUseIsClean, LiveControl, ConnectedIsLive
<1> QED
  BY <1>1, Invariance, PTL

\* 'connecting' is never shown with no connect() under way.
THEOREM ConnectingIsPending == Spec => []ConnectingIsDialing
BY Invariance, PTL DEF IndInv

\* 'reconnecting' is never shown with no timer armed to retry, unless the user's own
\* disconnect is about to overwrite it.
THEOREM RetriesArePending == Spec => []ReconnectingWillRetry
BY Invariance, PTL DEF IndInv

\* The interactive client handed out from the cache is open.
THEOREM CachedInteractiveHolds == Spec => []CachedInteractiveIsLive
BY Invariance, PTL DEF IndInv
===============================================================================
