----------------------------- MODULE StatsPolling -----------------------------
(***************************************************************************)
(* Polling a server's statistics (StatsService.ts, LinuxStatsService.ts)   *)
(* for the views that subscribe (useStatsSubscription.ts).                 *)
(*                                                                         *)
(* The service keeps one state object per server.  A loss of the           *)
(* connection, or the last unsubscription, drops the object; a poll under  *)
(* way holds on to the one it began with.  Calls and state events travel   *)
(* between window and service in order.                                    *)
(***************************************************************************)
EXTENDS Null, Naturals, Sequences, FiniteSets

CONSTANTS
    View,          \* subscribers: mounted views
    Object,        \* slots for state objects
    MaxMessages    \* bound: messages under way, each direction

ASSUME StViewAssumption == IsFiniteSet(View)
ASSUME StNoneAssumption == None \notin Object /\ None \notin {"stats", "overview"}

VARIABLES
    stUp,          \* the connection is 'connected'
    stClosing,     \* disconnect(): "no", "torn" once the hooks ran, "closed"
    stBoot,        \* which start of the server the counters of /proc count from
    stListed,      \* servers: the object listed for this server
    stObject,      \* the state objects
    stView,        \* each view: unmounted, or the mode it subscribes with
    stSeen,        \* the connection state the window knows: its views are enabled
    stToMain,      \* subscribe and unsubscribe calls under way
    stToWindow,    \* connection:stateChanged events under way
    stMixed        \* rates were computed from samples of two starts (history)

stVars == <<stUp, stClosing, stBoot, stListed, stObject, stView, stSeen, stToMain,
            stToWindow, stMixed>>

Mode == {"stats", "overview"}
Interval(mode) == IF mode = "stats" THEN 2 ELSE 5
NoTimer == 0
NoSample == <<>>
NewObject == [subscribers |-> [v \in View |-> None], timer |-> NoTimer, previous |-> NoSample,
          polling |-> FALSE]
Gone == [polling |-> FALSE]

Subscribed(o) == {v \in View : stObject[o].subscribers[v] # None}

\* A state object with another subscription, timer or poll.
Watched(state, v, mode) == [state EXCEPT !.subscribers = [state.subscribers EXCEPT ![v] = mode]]
Paced(state, timer) == [state EXCEPT !.timer = timer]
Polling(state, is) == [state EXCEPT !.polling = is]
Sampled(state) == [state EXCEPT !.polling = FALSE, !.previous = <<stBoot>>]

\* clearServer: the timer stops and the object is no longer listed; the slot is free
\* unless a poll still holds the object.
DroppedObject(object, o) ==
    [object EXCEPT ![o] = IF object[o].polling THEN Paced(object[o], NoTimer) ELSE Gone]

\* reschedule: the fastest mode decides.
Rescheduled(state) ==
    LET modes == {state.subscribers[v] : v \in View} \ {None}
    IN IF modes = {} THEN state
       ELSE Paced(state, IF "stats" \in modes THEN Interval("stats") ELSE Interval("overview"))

(***************************************************************************)
(* The views: the effect subscribes while the view is mounted and the      *)
(* server is connected, and unsubscribes when that ends.                   *)
(***************************************************************************)
Call(op, v, mode) == [op |-> op, view |-> v, mode |-> mode]
Room == Len(stToMain) < MaxMessages

\* What the effect of a mounted view calls when the window learns of a connection state.
EffectCall(v, connected) ==
    IF connected THEN Call("subscribe", v, stView[v]) ELSE Call("unsubscribe", v, None)

StMounts(v, mode) ==
    /\ stView[v] = None /\ Room
    /\ stView' = [stView EXCEPT ![v] = mode]
    /\ stToMain' = IF stSeen THEN Append(stToMain, Call("subscribe", v, mode)) ELSE stToMain
    /\ UNCHANGED <<stUp, stClosing, stBoot, stListed, stObject, stSeen, stToWindow, stMixed>>

StUnmounts(v) ==
    /\ stView[v] # None /\ Room
    /\ stView' = [stView EXCEPT ![v] = None]
    /\ stToMain' = IF stSeen THEN Append(stToMain, Call("unsubscribe", v, None)) ELSE stToMain
    /\ UNCHANGED <<stUp, stClosing, stBoot, stListed, stObject, stSeen, stToWindow, stMixed>>

\* A new connection state runs the effects of the mounted views.
StWindowLearns ==
    /\ stToWindow # <<>> /\ Room
    /\ stSeen' = Head(stToWindow) /\ stToWindow' = Tail(stToWindow)
    /\ LET mounted == {v \in View : stView[v] # None}
       IN IF stSeen' = stSeen THEN UNCHANGED stToMain
          ELSE \E order \in [1..Cardinality(mounted) -> mounted] :
                   /\ \A i, j \in DOMAIN order : order[i] = order[j] => i = j
                   /\ stToMain' = stToMain \o [i \in DOMAIN order |-> EffectCall(order[i], Head(stToWindow))]
    /\ UNCHANGED <<stUp, stClosing, stBoot, stListed, stObject, stView, stMixed>>

(***************************************************************************)
(* subscribe, unsubscribe, getInfo.                                        *)
(***************************************************************************)
\* subscribe polls at once, unless a poll is under way.
Subscribes(o, object, call) ==
    /\ stListed' = o
    /\ stObject' = [object EXCEPT ![o] =
           Polling(Rescheduled(Watched(object[o], call.view, call.mode)), TRUE)]

StSubscribed ==
    /\ stToMain # <<>> /\ Head(stToMain).op = "subscribe" /\ stToMain' = Tail(stToMain)
    /\ IF ~stUp THEN UNCHANGED <<stListed, stObject>>
       ELSE IF stListed # None THEN Subscribes(stListed, stObject, Head(stToMain))
       ELSE \E o \in Object : stObject[o] = Gone /\
                Subscribes(o, [stObject EXCEPT ![o] = NewObject], Head(stToMain))
    /\ UNCHANGED <<stUp, stClosing, stBoot, stView, stSeen, stToWindow, stMixed>>

\* (mutant) The last unsubscription drops the object and leaves its timer.
StUnsubscribedTicking ==
    /\ stToMain # <<>> /\ Head(stToMain).op = "unsubscribe" /\ stToMain' = Tail(stToMain)
    /\ IF stListed = None THEN UNCHANGED <<stListed, stObject>>
       ELSE LET left == Watched(stObject[stListed], Head(stToMain).view, None)
            IN /\ stListed' = IF \A v \in View : left.subscribers[v] = None THEN None
                              ELSE stListed
               /\ stObject' = [stObject EXCEPT ![stListed] = left]
    /\ UNCHANGED <<stUp, stClosing, stBoot, stView, stSeen, stToWindow, stMixed>>

StUnsubscribed ==
    /\ stToMain # <<>> /\ Head(stToMain).op = "unsubscribe" /\ stToMain' = Tail(stToMain)
    /\ IF stListed = None THEN UNCHANGED <<stListed, stObject>>
       ELSE LET left == Watched(stObject[stListed], Head(stToMain).view, None)
            IN IF \A v \in View : left.subscribers[v] = None
               THEN /\ stListed' = None
                    /\ stObject' = DroppedObject([stObject EXCEPT ![stListed] = left], stListed)
               ELSE /\ stObject' = [stObject EXCEPT ![stListed] = Rescheduled(left)]
                    /\ UNCHANGED stListed
    /\ UNCHANGED <<stUp, stClosing, stBoot, stView, stSeen, stToWindow, stMixed>>

(***************************************************************************)
(* poll.                                                                   *)
(***************************************************************************)
\* The interval ends.  Without a connection the object goes.
StTicks(o) ==
    /\ stObject[o] # Gone /\ stObject[o].timer # NoTimer /\ o = stListed /\ ~stObject[o].polling
    /\ IF stUp
       THEN stObject' = [stObject EXCEPT ![o] = Polling(stObject[o], TRUE)] /\ UNCHANGED stListed
       ELSE stListed' = None /\ stObject' = DroppedObject(stObject, o)
    /\ UNCHANGED <<stUp, stClosing, stBoot, stView, stSeen, stToMain, stToWindow, stMixed>>

Polled(o) == [stObject EXCEPT ![o] = IF o = stListed THEN Polling(stObject[o], FALSE) ELSE Gone]

\* A sample is read, compared with the one before and shown.
StPolled(o) ==
    /\ stObject[o].polling /\ stUp
    /\ stMixed' = (stMixed \/ stObject[o].previous \notin {NoSample, <<stBoot>>})
    /\ stObject' = IF o = stListed
                   THEN [stObject EXCEPT ![o] = Sampled(stObject[o])] ELSE Polled(o)
    /\ UNCHANGED <<stUp, stClosing, stBoot, stListed, stView, stSeen, stToMain, stToWindow>>

\* A failed poll is ignored: the next interval tries again.
StPollFails(o) ==
    /\ stObject[o].polling
    /\ stObject' = Polled(o)
    /\ UNCHANGED <<stUp, stClosing, stBoot, stListed, stView, stSeen, stToMain, stToWindow,
                   stMixed>>

(***************************************************************************)
(* The server and the connection.                                          *)
(***************************************************************************)
Cleared ==
    /\ stListed' = None
    /\ stObject' = IF stListed = None THEN stObject ELSE DroppedObject(stObject, stListed)

\* A loss: its teardown hook is clearServer.
StLost ==
    /\ stUp /\ stClosing = "no" /\ Len(stToWindow) < MaxMessages
    /\ stUp' = FALSE /\ stToWindow' = Append(stToWindow, FALSE)
    /\ Cleared
    /\ UNCHANGED <<stClosing, stBoot, stView, stSeen, stToMain, stMixed>>

\* disconnect() runs the hooks while the connection is still 'connected', waits for
\* all of them, and only then closes it.
StTearsDown ==
    /\ stUp /\ stClosing = "no" /\ stClosing' = "torn"
    /\ Cleared
    /\ UNCHANGED <<stUp, stBoot, stView, stSeen, stToMain, stToWindow, stMixed>>

StCloses ==
    /\ stClosing = "torn" /\ stClosing' = "closed" /\ Len(stToWindow) < MaxMessages
    /\ stUp' = FALSE /\ stToWindow' = Append(stToWindow, FALSE)
    /\ UNCHANGED <<stBoot, stListed, stObject, stView, stSeen, stToMain, stMixed>>

\* The retries after a loss, or the user's connect, a call after all earlier ones.  The
\* server may have been started anew in between.
StReconnects(reboot) ==
    /\ ~stUp /\ stClosing' = "no"
    /\ stClosing = "closed" => ~stSeen /\ stToWindow = <<>> /\ stToMain = <<>>
    /\ Len(stToWindow) < MaxMessages
    /\ \A o \in Object : ~stObject[o].polling
    /\ stUp' = TRUE /\ stToWindow' = Append(stToWindow, TRUE)
    /\ stBoot' = IF reboot THEN 1 - stBoot ELSE stBoot
    /\ UNCHANGED <<stListed, stObject, stView, stSeen, stToMain, stMixed>>

(***************************************************************************)
StInit ==
    /\ stUp = FALSE /\ stClosing = "no" /\ stBoot = 0
    /\ stListed = None /\ stObject = [o \in Object |-> Gone]
    /\ stView = [v \in View |-> None] /\ stSeen = FALSE
    /\ stToMain = <<>> /\ stToWindow = <<>> /\ stMixed = FALSE

StNext ==
    \/ StWindowLearns \/ StSubscribed \/ StUnsubscribed \/ StLost
    \/ StTearsDown \/ StCloses
    \/ \E v \in View : StUnmounts(v) \/ \E mode \in Mode : StMounts(v, mode)
    \/ \E o \in Object : StTicks(o) \/ StPolled(o) \/ StPollFails(o)
    \/ \E reboot \in BOOLEAN : StReconnects(reboot)

(***************************************************************************)
(* What the variables hold.                                                *)
(***************************************************************************)
StObjectRecord ==
    [subscribers : [View -> Mode \cup {None}], timer : {NoTimer} \cup {Interval(m) : m \in Mode},
     previous : {NoSample, <<0>>, <<1>>}, polling : BOOLEAN]
StCallRecord ==
    {Call("subscribe", v, mode) : v \in View, mode \in Mode}
        \cup {Call("unsubscribe", v, None) : v \in View}

(***************************************************************************)
(* Properties.                                                             *)
(***************************************************************************)
StTypeOK ==
    /\ stUp \in BOOLEAN /\ stClosing \in {"no", "torn", "closed"} /\ stSeen \in BOOLEAN
    /\ stListed \in Object \cup {None}
    /\ stView \in [View -> Mode \cup {None}]
    /\ stObject \in [Object -> StObjectRecord \cup {Gone}]
    /\ stToMain \in Seq(StCallRecord) /\ stToWindow \in Seq(BOOLEAN)
    /\ stBoot \in {0, 1} /\ stMixed \in BOOLEAN

\* A timer runs exactly for the listed object, at the pace of its fastest view: none
\* goes on for a server that is gone or that nobody watches.
StTimerFits ==
    \A o \in Object : stObject[o] # Gone =>
        IF o = stListed
        THEN /\ Subscribed(o) # {}
             /\ stObject[o].timer = IF \E v \in View : stObject[o].subscribers[v] = "stats"
                                    THEN Interval("stats") ELSE Interval("overview")
        ELSE stObject[o].timer = NoTimer

\* With nothing under way, a view in front of a connected server is subscribed with
\* its mode, also after losses and fast remounts.
StViewsAreServed ==
    stUp /\ stClosing = "no" /\ stToMain = <<>> /\ stToWindow = <<>> =>
        \A v \in View : stView[v] # None =>
            stListed # None /\ stObject[stListed].subscribers[v] = stView[v]

\* CPU and network rates compare samples of one start of the server: counters that
\* began anew are never subtracted from older ones.
StRatesAreSane == ~stMixed
===============================================================================
