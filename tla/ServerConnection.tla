--------------------------- MODULE ServerConnection ---------------------------
(***************************************************************************)
(* One ServerConnection object of the main process                         *)
(* (src/app/src/main/ssh/ServerConnection.ts) together with the part of    *)
(* ConnectionManager that decides whether the object can still be reached. *)
(*                                                                         *)
(* JavaScript runs each callback to its end, so an action is one callback: *)
(* everything between two awaits, with the promise continuations that run  *)
(* before the next event.  What interleaves is the order of the events:    *)
(* calls of the user, timers, and the 'ready', 'error' and 'close' events  *)
(* of several ssh2 clients.                                                *)
(*                                                                         *)
(* A client slot is also the connect() or getInteractiveClient() call that *)
(* dials it.  Its phase runs                                               *)
(*   free -> config (buildConnectConfig) -> dialing -> verifying (waiting  *)
(*   for the user's answer on the host key) -> dialing -> open             *)
(*   -> failed ('error' emitted) or ending (end() called) -> free ('close')*)
(***************************************************************************)
EXTENDS Naturals, FiniteSets

CONSTANTS
    Client,          \* slots for ssh2 clients
    None,            \* the null of the code
    MaxAttempts,     \* MAX_RECONNECT_ATTEMPTS
    MaxOrphans,      \* bound: no dial succeeds above so many orphaned timers
    MaxClosing       \* bound: disconnect() calls waiting for closeClients

ASSUME NoneAssumption == None \notin Client
ASSUME BoundAssumption == /\ MaxAttempts \in Nat
                          /\ MaxOrphans \in Nat
                          /\ MaxClosing \in Nat

VARIABLES
    link,            \* state, reconnectAttempts and the reconnect timers
    client,          \* what each client slot is doing
    control,         \* controlClient
    interactive,     \* interactiveClient
    connecting,      \* interactiveConnecting: the client its promise dials
    sftp,            \* the client whose channel sftpClient wraps
    sftpCalls,       \* clients with a client.sftp() callback outstanding
    prompt,          \* pendingHostKey: the client whose verifier it answers
    known,           \* hostKeyStore holds the key this host presents
    intentional,     \* intentionalDisconnect
    closing,         \* disconnect() calls that await closeClients
    held             \* ConnectionManager.connections maps to this object

vars == <<link, client, control, interactive, connecting, sftp, sftpCalls,
          prompt, known, intentional, closing, held>>

State == {"disconnected", "connecting", "connected", "reconnecting", "error"}
Phase == {"free", "config", "dialing", "verifying", "open", "failed", "ending"}

\* origin "timer": connect() called by the reconnect timer, whose catch retries.
ClientRecord == [phase : Phase,
                 kind : {"control", "interactive"},
                 origin : {"user", "timer"}]

FreeClient == [phase |-> "free", kind |-> "control", origin |-> "user"]

NewClient(kind, origin) == [phase |-> "config", kind |-> kind, origin |-> origin]

\* timer: reconnectTimer holds an armed timer.  orphans: armed timers whose
\* handle scheduleReconnect overwrote, out of clearReconnectTimer's reach.
LinkRecord == [state : State, attempts : 0..MaxAttempts,
               timer : BOOLEAN, orphans : Nat]

InPhase(P) == {c \in Client : client[c].phase \in P}
Dialing == InPhase({"config", "dialing", "verifying"})
Opening(kind) == {c \in Dialing : client[c].kind = kind}

\* A slot can stand for a new client once nothing refers to the old one.
Available(c) ==
    /\ client[c].phase = "free"
    /\ c \notin {control, interactive, connecting, sftp, prompt}

(***************************************************************************)
(* scheduleReconnect, and what a lost connection does to the link record.  *)
(***************************************************************************)
\* (mutant) The cap on attempts is gone.
ScheduleForever(l) ==
    [state |-> "reconnecting", attempts |-> l.attempts + 1, timer |-> TRUE,
     orphans |-> l.orphans]

\* (mutant) The attempt is not counted.
ScheduleUncounted(l) ==
    [l EXCEPT !.state = "reconnecting", !.timer = TRUE]

Schedule(l) ==
    IF l.attempts >= MaxAttempts
    THEN [l EXCEPT !.state = "error"]
    ELSE [state |-> "reconnecting",
          attempts |-> l.attempts + 1,
          timer |-> TRUE,
          orphans |-> IF l.timer THEN l.orphans + 1 ELSE l.orphans]

\* The early returns of handleConnectionLoss.
LossNoticed == ~intentional /\ link.state # "disconnected"

AfterLoss == IF LossNoticed THEN Schedule(link) ELSE link

\* (mutant) connect() rethrows without setState('error').
FailedSilently(l, origin) == IF origin = "timer" THEN Schedule(l) ELSE l

\* The catch of connect(), then the catch of the timer callback.
AfterFailedConnect(l, origin) ==
    LET failed == [l EXCEPT !.state = "error"]
    IN  IF origin = "timer" THEN Schedule(failed) ELSE failed

\* closeClients: the clients in reach get end(); their 'close' comes later.
Ended(cl) ==
    [c \in Client |->
        IF c \in {control, interactive} /\ cl[c].phase = "open"
        THEN [cl[c] EXCEPT !.phase = "ending"]
        ELSE cl[c]]

\* (mutant) The interactive client survives the loss of the connection.
ForgetControl ==
    control' = None /\ sftp' = None /\ UNCHANGED <<interactive, connecting>>

ForgetClients ==
    /\ control' = None
    /\ interactive' = None
    /\ connecting' = None
    /\ sftp' = None

(***************************************************************************)
(* connect(): called by the user through ConnectionManager.connect, or by  *)
(* a reconnect timer.                                                      *)
(***************************************************************************)
\* (mutant) connect() also returns early while a retry is pending.
ReturnsWhenPending == link.state \in {"connected", "connecting", "reconnecting"}

ConnectReturns == link.state \in {"connected", "connecting"}

BeginConnect(c, origin, l) ==
    /\ Available(c)
    /\ intentional' = FALSE
    /\ link' = [l EXCEPT !.timer = FALSE, !.state = "connecting"]
    /\ client' = [client EXCEPT ![c] = NewClient("control", origin)]
    /\ UNCHANGED <<control, interactive, connecting, sftp, sftpCalls, prompt,
                   known, closing, held>>

UserConnect ==
    /\ held
    /\ ~ConnectReturns
    /\ \E c \in Client : BeginConnect(c, "user", link)

\* The timer in reconnectTimer, or an orphan, fires.
TimerFires ==
    \E l \in {[link EXCEPT !.timer = FALSE],
              [link EXCEPT !.orphans = IF @ > 0 THEN @ - 1 ELSE @]} :
        /\ l # link
        /\ IF ConnectReturns
           THEN link' = l /\ UNCHANGED <<client, control, interactive, connecting,
                    sftp, sftpCalls, prompt, known, intentional, closing, held>>
           ELSE \E c \in Client : BeginConnect(c, "timer", l)

(***************************************************************************)
(* getInteractiveClient: needs the object, never its state.                *)
(***************************************************************************)
OpenInteractive ==
    /\ held
    /\ interactive = None
    /\ connecting = None
    /\ \E c \in Client :
        /\ Available(c)
        /\ client' = [client EXCEPT ![c] = NewClient("interactive", "user")]
        /\ connecting' = c
    /\ UNCHANGED <<link, control, interactive, sftp, sftpCalls, prompt, known,
                   intentional, closing, held>>

\* What settling the dial of c leaves in interactiveConnecting: the finally
\* clears it, even when it already holds a younger promise.
Settled(c) == IF client[c].kind = "interactive" THEN None ELSE connecting

(***************************************************************************)
(* The dial: buildConnectConfig, host verifier, 'ready' or 'error'.        *)
(***************************************************************************)
ConfigReady(c) ==
    /\ client[c].phase = "config"
    /\ client' = [client EXCEPT ![c].phase = "dialing"]
    /\ UNCHANGED <<link, control, interactive, connecting, sftp, sftpCalls,
                   prompt, known, intentional, closing, held>>

\* buildConnectConfig throws: no client exists yet, so no event follows.
ConfigFails(c) ==
    /\ client[c].phase = "config"
    /\ client' = [client EXCEPT ![c] = FreeClient]
    /\ link' = IF client[c].kind = "control"
               THEN AfterFailedConnect(link, client[c].origin)
               ELSE link
    /\ connecting' = Settled(c)
    /\ UNCHANGED <<control, interactive, sftp, sftpCalls, prompt, known,
                   intentional, closing, held>>

\* promptHostKey overwrites whatever prompt is pending.
AskHostKey(c) ==
    /\ client[c].phase = "dialing"
    /\ ~known
    /\ client' = [client EXCEPT ![c].phase = "verifying"]
    /\ prompt' = c
    /\ UNCHANGED <<link, control, interactive, connecting, sftp, sftpCalls,
                   known, intentional, closing, held>>

AcceptHostKey ==
    /\ held
    /\ prompt # None
    /\ prompt' = None
    /\ known' = TRUE
    /\ client' = IF client[prompt].phase = "verifying"
                 THEN [client EXCEPT ![prompt].phase = "dialing"]
                 ELSE client
    /\ UNCHANGED <<link, control, interactive, connecting, sftp, sftpCalls,
                   intentional, closing, held>>

\* The verifier answers false, and the dial fails with an 'error' event.
RejectHostKey ==
    /\ held
    /\ prompt # None
    /\ prompt' = None
    /\ UNCHANGED <<link, client, control, interactive, connecting, sftp,
                   sftpCalls, known, intentional, closing, held>>

ControlReady(c) ==
    /\ client[c].phase = "dialing" /\ known /\ client[c].kind = "control"
    /\ link.orphans <= MaxOrphans
    /\ client' = [client EXCEPT ![c].phase = "open"]
    /\ control' = c
    /\ link' = [link EXCEPT !.attempts = 0, !.state = "connected"]
    /\ UNCHANGED <<interactive, connecting, sftp, sftpCalls, prompt, known,
                   intentional, closing, held>>

InteractiveReady(c) ==
    /\ client[c].phase = "dialing" /\ known /\ client[c].kind = "interactive"
    /\ client' = [client EXCEPT ![c].phase = "open"]
    /\ interactive' = c
    /\ connecting' = Settled(c)
    /\ UNCHANGED <<link, control, sftp, sftpCalls, prompt, known, intentional,
                   closing, held>>

\* 'error' before 'ready' (unreachable, denied, readyTimeout): on('error') runs
\* handleConnectionLoss, then the rejected dial settles its caller.
DialFails(c) ==
    /\ client[c].phase \in {"dialing", "verifying"}
    /\ link' = IF client[c].kind = "control"
               THEN AfterFailedConnect(AfterLoss, client[c].origin)
               ELSE AfterLoss
    /\ LET cl == [client EXCEPT ![c].phase = "failed"]
       IN  IF LossNoticed
           THEN client' = Ended(cl) /\ ForgetClients
           ELSE /\ client' = cl
                /\ connecting' = Settled(c)
                /\ UNCHANGED <<control, interactive, sftp>>
    /\ UNCHANGED <<sftpCalls, prompt, known, intentional, closing, held>>

(***************************************************************************)
(* Events of an established client.                                        *)
(***************************************************************************)
\* (mutant) The loss is left to the 'close' event.
ErrorUnnoticed(c) ==
    /\ client[c].phase \in {"open", "ending"}
    /\ client' = [client EXCEPT ![c].phase = "failed"]
    /\ UNCHANGED <<link, control, interactive, connecting, sftp, sftpCalls, prompt,
                   known, intentional, closing, held>>

ClientError(c) ==
    /\ client[c].phase \in {"open", "ending"}
    /\ link' = AfterLoss
    /\ LET cl == [client EXCEPT ![c].phase = "failed"]
       IN  IF LossNoticed
           THEN client' = Ended(cl) /\ ForgetClients
           ELSE client' = cl /\ UNCHANGED <<control, interactive, connecting, sftp>>
    /\ UNCHANGED <<sftpCalls, prompt, known, intentional, closing, held>>

\* 'close' of any client, current or not, counts as a loss of the connection.
ClientClose(c) ==
    /\ client[c].phase \in {"open", "failed", "ending"}
    /\ link' = AfterLoss
    /\ LET cl == [client EXCEPT ![c] = FreeClient]
       IN  IF LossNoticed
           THEN client' = Ended(cl) /\ ForgetClients
           ELSE /\ client' = cl
                /\ IF intentional
                   THEN UNCHANGED <<control, interactive, sftp>>
                   ELSE /\ control' = IF c = control THEN None ELSE control
                        /\ sftp' = IF c = control THEN None ELSE sftp
                        /\ interactive' = IF c = interactive THEN None ELSE interactive
                /\ UNCHANGED connecting
    /\ sftpCalls' = sftpCalls \ {c}
    /\ UNCHANGED <<prompt, known, intentional, closing, held>>

(***************************************************************************)
(* getSftp: the callback of client.sftp() fills the cache when it comes.   *)
(***************************************************************************)
RequestSftp ==
    /\ held
    /\ sftp = None
    /\ control # None /\ link.state = "connected"
    /\ client[control].phase = "open"
    /\ sftpCalls' = sftpCalls \cup {control}
    /\ UNCHANGED <<link, client, control, interactive, connecting, sftp, prompt,
                   known, intentional, closing, held>>

SftpReady(c) ==
    /\ c \in sftpCalls
    /\ client[c].phase \in {"open", "ending"}
    /\ sftp' = c
    /\ sftpCalls' = sftpCalls \ {c}
    /\ UNCHANGED <<link, client, control, interactive, connecting, prompt, known,
                   intentional, closing, held>>

SftpFails(c) ==
    /\ c \in sftpCalls
    /\ sftpCalls' = sftpCalls \ {c}
    /\ UNCHANGED <<link, client, control, interactive, connecting, sftp, prompt,
                   known, intentional, closing, held>>

(***************************************************************************)
(* disconnect(), called by ConnectionManager.disconnect, which drops the   *)
(* object from its map when the call returns.                              *)
(***************************************************************************)
Disconnected(l) == [l EXCEPT !.state = "disconnected"]

Disconnect ==
    /\ held
    /\ intentional' = TRUE
    /\ prompt' = None
    /\ client' = Ended(client)
    /\ ForgetClients
    /\ LET l == [link EXCEPT !.timer = FALSE]
       IN  IF {control, interactive} = {None}
           THEN /\ link' = Disconnected(l)
                /\ held' = FALSE
                /\ UNCHANGED closing
           ELSE /\ closing < MaxClosing
                /\ closing' = closing + 1
                /\ link' = l
                /\ UNCHANGED held
    /\ UNCHANGED <<sftpCalls, known>>

\* All clients closed, or two seconds passed.
DisconnectReturns ==
    /\ closing > 0
    /\ closing' = closing - 1
    /\ link' = Disconnected(link)
    /\ held' = FALSE
    /\ UNCHANGED <<client, control, interactive, connecting, sftp, sftpCalls,
                   prompt, known, intentional>>

-----------------------------------------------------------------------------
\* ConnectionManager.connect made the object and ran connect() to its first await.
Init ==
    /\ link = [state |-> "connecting", attempts |-> 0, timer |-> FALSE, orphans |-> 0]
    /\ \E c \in Client :
        client = [[d \in Client |-> FreeClient] EXCEPT ![c] = NewClient("control", "user")]
    /\ control = None /\ interactive = None /\ connecting = None
    /\ sftp = None /\ sftpCalls = {}
    /\ prompt = None /\ known \in BOOLEAN
    /\ intentional = FALSE /\ closing = 0 /\ held = TRUE

DialStep(c) ==
    \/ ConfigReady(c) \/ ConfigFails(c) \/ AskHostKey(c)
    \/ ControlReady(c) \/ InteractiveReady(c) \/ DialFails(c)

SftpStep(c) == SftpReady(c) \/ SftpFails(c)

UserStep ==
    \/ UserConnect \/ OpenInteractive \/ RequestSftp \/ Disconnect
    \/ AcceptHostKey \/ RejectHostKey

Next ==
    \/ UserStep
    \/ TimerFires
    \/ DisconnectReturns
    \/ \E c \in Client :
        DialStep(c) \/ ClientError(c) \/ ClientClose(c) \/ SftpStep(c)

Spec == Init /\ [][Next]_vars

\* Timers fire, a dial is answered (readyTimeout at the latest), a client that
\* failed or was ended closes, disconnect() returns within two seconds.  Nothing
\* obliges the user, the host or the SFTP server.
Fairness ==
    /\ SF_vars(TimerFires)
    /\ WF_vars(DisconnectReturns)
    /\ \A c \in Client :
        /\ WF_vars(DialStep(c))
        /\ WF_vars(client[c].phase \in {"failed", "ending"} /\ ClientClose(c))

FairSpec == Spec /\ Fairness

-----------------------------------------------------------------------------
(***************************************************************************)
(* Properties.                                                             *)
(***************************************************************************)
TypeOK ==
    /\ link \in LinkRecord
    /\ client \in [Client -> ClientRecord]
    /\ {control, interactive, connecting, sftp, prompt} \subseteq Client \cup {None}
    /\ sftpCalls \subseteq Client
    /\ known \in BOOLEAN /\ intentional \in BOOLEAN /\ held \in BOOLEAN
    /\ closing \in Nat

\* The user has not asked this object to disconnect: the manager holds it and no
\* disconnect() is under way.
InUse == held /\ closing = 0

\* "Connected - ready for tools and terminal": while the object is in use, state
\* 'connected' means controlClient is a client whose connection is open, whatever
\* late events of older clients, timers and failed dials came in between.
ConnectedIsLive ==
    InUse /\ link.state = "connected" =>
        /\ control \in Client
        /\ client[control].phase = "open"
        /\ client[control].kind = "control"

\* "Connecting - handshake in progress": the state shown is never 'connecting' when
\* no connect() is under way to leave it.
ConnectingIsDialing == link.state = "connecting" => Opening("control") # {}

\* "Reconnecting - restoring a dropped session": the state shown is never
\* 'reconnecting' without an armed timer that will call connect(), unless the user's
\* disconnect is about to overwrite it.
ReconnectingWillRetry ==
    link.state = "reconnecting" => link.timer \/ link.orphans > 0 \/ closing > 0

\* getInteractiveClient answers from its cache without looking at the state: while
\* the object is in use, the client it hands to a terminal or a log stream is open.
CachedInteractiveIsLive ==
    InUse /\ interactive # None =>
        client[interactive].phase = "open" /\ client[interactive].kind = "interactive"

\* connecting and reconnecting end: with every timer fired, every dial answered and
\* every close delivered, the retry loop reaches 'connected', or gives up.  (A client
\* leaked by the code keeps its slot, so the slots of an instance may run out.)
RetryLoopEnds ==
    []<>(\E c \in Client : Available(c)) =>
        (link.state \in {"connecting", "reconnecting"} ~>
            link.state \in {"connected", "error", "disconnected"})

(***************************************************************************)
(* What the documentation says of the states and the code does not keep.   *)
(***************************************************************************)
\* "Connected - ready for tools and terminal" (landing/src/docs/content.ts:227): the
\* state sent to the UI is 'connected' only if the tools, which go through the
\* manager's map, find an open control client.
ConnectedIsReady ==
    link.state = "connected" /\ closing = 0 =>
        held /\ control # None /\ client[control].phase = "open"
===============================================================================
