---------------------------- MODULE TerminalSessions ----------------------------
(***************************************************************************)
(* One terminal tab: TerminalService.ts of the main process, and in the    *)
(* renderer TerminalView.tsx, the registry of terminal instances and the   *)
(* store of the tabs.                                                      *)
(*                                                                         *)
(* A tab has a session id of its own, so tabs share nothing; the main      *)
(* process keeps at most one stream under the key of the tab.  open()      *)
(* looks at the key, awaits a client and a channel, and then sets the key. *)
(* The view opens the shell in a loop that its effect cancels and starts   *)
(* again whenever the tab is shown, hidden, mounted, connected or lost.    *)
(* Calls reach the main process when they are made; answers and events     *)
(* come back in order, through inbox.                                      *)
(***************************************************************************)
EXTENDS Naturals, Sequences

CONSTANTS
    Loop,        \* slots for runs of openSession
    Channel,     \* slots for the channels open() asks for
    Attempts,    \* OPEN_MAX_ATTEMPTS
    None         \* the undefined of the code

ASSUME AttemptsAssumption == Attempts \in Nat \ {0}
ASSUME NoneAssumption == None \notin Channel \cup Loop

VARIABLES
    tab,         \* in the store: "shown", "ended", or "closed" for good
    view,        \* TerminalView: its props and its local state
    pty,         \* ptyOpened of the instance, which outlives the view
    loop,        \* the runs of openSession
    stored,      \* sessions.get(key)
    channel,     \* the channels of the session
    inbox,       \* answers and exit events on their way to the renderer
    link,        \* ConnectionManager's connection: "gone", "up", or "down" after a teardown
    missed       \* (history variable) an exit event came while no view listened

main == <<stored, channel>>
vars == <<tab, view, pty, loop, stored, channel, inbox, link, missed>>

ViewRecord == [mounted : BOOLEAN, active : BOOLEAN, connected : BOOLEAN,
               ended : BOOLEAN, error : BOOLEAN]

\* A cancelled run matters only while its call is under way.
LoopRecord == {r \in [phase : {"free", "measuring", "calling"}, attempt : 0 .. Attempts,
                      cancelled : BOOLEAN] : r.cancelled => r.phase = "calling"}
NoLoop == [phase |-> "free", attempt |-> 0, cancelled |-> FALSE]

ChannelRecord == [phase : {"free", "opening", "open", "ending"}, loop : Loop \cup {None}]
NoChannel == [phase |-> "free", loop |-> None]

Opened(l) == [kind |-> "opened", loop |-> l]
Failed(l) == [kind |-> "failed", loop |-> l]
Exit == [kind |-> "exit", loop |-> None]
Message == [kind : {"opened", "failed"}, loop : Loop] \cup {Exit}

(***************************************************************************)
(* The effect that opens the shell.                                        *)
(***************************************************************************)
\* The condition under which it does, for a view v and a pty p.
Eligible(v, p) == v.mounted /\ v.connected /\ v.active /\ ~v.ended /\ ~p

\* (mutant) The cleanup does not cancel.
Uncancelled == loop

Cancelled == [l \in Loop |-> IF loop[l].phase = "calling"
                             THEN [loop[l] EXCEPT !.cancelled = TRUE]
                             ELSE NoLoop]

\* The effect runs again: the run of before is cancelled, and a new one starts.
Rerun(v, p) ==
    IF Eligible(v, p)
    THEN /\ view' = [v EXCEPT !.error = FALSE]
         /\ \E l \in Loop :
              /\ Cancelled[l].phase = "free"
              /\ loop' = [Cancelled EXCEPT
                    ![l] = [phase |-> "measuring", attempt |-> 1, cancelled |-> FALSE]]
    ELSE view' = v /\ loop' = Cancelled

\* (mutant) The last attempt fails without a word.
GivesUpSilently(l) ==
    /\ loop' = [loop EXCEPT ![l] = IF @.attempt < Attempts
                                   THEN [@ EXCEPT !.phase = "measuring", !.attempt = @ + 1]
                                   ELSE NoLoop]
    /\ UNCHANGED view

\* (mutant) One attempt too many.
RetryOnceMore(l) ==
    IF loop[l].attempt <= Attempts
    THEN /\ loop' = [loop EXCEPT ![l].phase = "measuring", ![l].attempt = @ + 1]
         /\ UNCHANGED view
    ELSE /\ loop' = [loop EXCEPT ![l] = NoLoop]
         /\ view' = [view EXCEPT !.error = TRUE]

\* The attempt of run l failed: wait and try again, or show the error.
Retry(l) ==
    IF loop[l].attempt < Attempts
    THEN /\ loop' = [loop EXCEPT ![l].phase = "measuring", ![l].attempt = @ + 1]
         /\ UNCHANGED view
    ELSE /\ loop' = [loop EXCEPT ![l] = NoLoop]
         /\ view' = [view EXCEPT !.error = TRUE]

(***************************************************************************)
(* TerminalService.                                                        *)
(***************************************************************************)
\* open(): nothing to do when the key is set; otherwise a client (dialed if there is
\* none) and a channel are awaited.
MainOpen(l) ==
    IF stored # None
    THEN inbox' = Append(inbox, Opened(l)) /\ UNCHANGED channel
    ELSE IF link = "gone"
    THEN inbox' = Append(inbox, Failed(l)) /\ UNCHANGED channel
    ELSE /\ \E c \in Channel :
              /\ channel[c].phase = "free"
              /\ channel' = [channel EXCEPT ![c] = [phase |-> "opening", loop |-> l]]
         /\ UNCHANGED inbox

\* close(): the stream under the key, if there is one.
MainClose ==
    /\ stored' = None
    /\ channel' = IF stored = None THEN channel
                  ELSE [channel EXCEPT ![stored].phase = "ending"]

OpenSucceeds(c) ==
    /\ channel[c].phase = "opening"
    /\ channel' = [channel EXCEPT ![c].phase = "open"]
    /\ stored' = c
    /\ inbox' = Append(inbox, Opened(channel[c].loop))
    /\ UNCHANGED <<tab, view, pty, loop, link, missed>>

OpenFails(c) ==
    /\ channel[c].phase = "opening"
    /\ channel' = [channel EXCEPT ![c] = NoChannel]
    /\ inbox' = Append(inbox, Failed(channel[c].loop))
    /\ UNCHANGED <<tab, view, pty, loop, stored, link, missed>>

\* (mutant) The handler forgets to delete the key.
ClosedButKept(c) ==
    /\ channel[c].phase \in {"open", "ending"}
    /\ channel' = [channel EXCEPT ![c] = NoChannel]
    /\ inbox' = Append(inbox, Exit)
    /\ UNCHANGED <<tab, view, pty, loop, stored, link, missed>>

\* The shell exits, the stream was ended, or its client was lost.  The handler deletes
\* the key whatever it holds.
Closed(c) ==
    /\ channel[c].phase \in {"open", "ending"}
    /\ channel' = [channel EXCEPT ![c] = NoChannel]
    /\ stored' = None
    /\ inbox' = Append(inbox, Exit)
    /\ UNCHANGED <<tab, view, pty, loop, link, missed>>

(***************************************************************************)
(* The run of the loop.                                                    *)
(***************************************************************************)
\* The terminal has a size: call open, unless the shell is open already.
Call(l) ==
    /\ loop[l].phase = "measuring"
    /\ IF pty
       THEN loop' = [loop EXCEPT ![l] = NoLoop] /\ UNCHANGED <<channel, inbox>>
       ELSE loop' = [loop EXCEPT ![l].phase = "calling"] /\ MainOpen(l)
    /\ UNCHANGED <<tab, view, pty, stored, link, missed>>

NoSize(l) ==
    /\ loop[l].phase = "measuring"
    /\ IF pty
       THEN loop' = [loop EXCEPT ![l] = NoLoop] /\ UNCHANGED view
       ELSE Retry(l)
    /\ UNCHANGED <<tab, pty, stored, channel, inbox, link, missed>>

\* The shell is open: a cancelled run closes what the key holds.
HasShell(l) ==
    IF loop[l].cancelled
    THEN MainClose /\ UNCHANGED <<view, pty>>
    ELSE /\ pty' = TRUE
         /\ view' = [view EXCEPT !.error = FALSE]
         /\ UNCHANGED main

ReceiveOpened ==
    /\ inbox # <<>> /\ Head(inbox).kind = "opened"
    /\ LET l == Head(inbox).loop
       IN  HasShell(l) /\ loop' = [loop EXCEPT ![l] = NoLoop]
    /\ inbox' = Tail(inbox)
    /\ UNCHANGED <<tab, link, missed>>

ReceiveFailed ==
    /\ inbox # <<>> /\ Head(inbox).kind = "failed"
    /\ LET l == Head(inbox).loop
       IN  IF loop[l].cancelled \/ pty
           THEN loop' = [loop EXCEPT ![l] = NoLoop] /\ UNCHANGED view
           ELSE Retry(l)
    /\ inbox' = Tail(inbox)
    /\ UNCHANGED <<tab, pty, stored, channel, link, missed>>

\* (mutant) Only the active tab listens.
HearExitWhenActive ==
    IF view.mounted /\ view.active
    THEN /\ tab' = "ended"
         /\ IF view.ended THEN UNCHANGED <<view, loop>>
                          ELSE Rerun([view EXCEPT !.ended = TRUE], pty)
         /\ UNCHANGED missed
    ELSE missed' = (missed \/ (pty /\ ~view.mounted)) /\ UNCHANGED <<tab, view, loop>>

\* An exit event ends the tab if its view is there to hear it.
HearExit ==
    IF view.mounted
    THEN /\ tab' = "ended"
         /\ IF view.ended THEN UNCHANGED <<view, loop>>
                          ELSE Rerun([view EXCEPT !.ended = TRUE], pty)
         /\ UNCHANGED missed
    ELSE missed' = (missed \/ pty) /\ UNCHANGED <<tab, view, loop>>

ReceiveExit ==
    /\ inbox # <<>> /\ Head(inbox).kind = "exit"
    /\ HearExit
    /\ inbox' = Tail(inbox)
    /\ UNCHANGED <<pty, stored, channel, link>>

Receive == ReceiveOpened \/ ReceiveFailed \/ ReceiveExit

\* Output of any stream of the session clears the error.
Output(c) ==
    /\ channel[c].phase \in {"open", "ending"}
    /\ view.mounted /\ view.error
    /\ view' = [view EXCEPT !.error = FALSE]
    /\ UNCHANGED <<tab, pty, loop, stored, channel, inbox, link, missed>>

(***************************************************************************)
(* The user, and the state of the connection as the view is told.          *)
(***************************************************************************)
SelectTab ==
    /\ view.mounted
    /\ Rerun([view EXCEPT !.active = ~@], pty)
    /\ UNCHANGED <<tab, pty, stored, channel, inbox, link, missed>>

SeeLink ==
    /\ view.mounted
    /\ view.connected # (link = "up")
    /\ Rerun([view EXCEPT !.connected = ~@], pty)
    /\ UNCHANGED <<tab, pty, stored, channel, inbox, link, missed>>

\* The user turns to another server, or the panel moves within the layout.
Unmount ==
    /\ view.mounted
    /\ Rerun([view EXCEPT !.mounted = FALSE, !.error = FALSE], pty)
    /\ UNCHANGED <<tab, pty, stored, channel, inbox, link, missed>>

Mount ==
    /\ ~view.mounted /\ tab # "closed"
    /\ Rerun([view EXCEPT !.mounted = TRUE, !.ended = FALSE, !.connected = link = "up"], pty)
    /\ UNCHANGED <<tab, pty, stored, channel, inbox, link, missed>>

\* closeTab, and closeAllForPanel for each of its tabs.
CloseTab ==
    /\ tab # "closed"
    /\ MainClose
    /\ tab' = "closed"
    /\ pty' = FALSE
    /\ Rerun([view EXCEPT !.mounted = FALSE, !.error = FALSE], FALSE)
    /\ UNCHANGED <<inbox, link, missed>>

(***************************************************************************)
(* The connection.                                                         *)
(***************************************************************************)
Connect ==
    /\ link # "up" /\ link' = "up"
    /\ UNCHANGED <<tab, view, pty, loop, stored, channel, inbox, missed>>

\* connectionLost, or the first half of ConnectionManager.disconnect: the key is
\* deleted, and the streams end, by end() or with their client.
Teardown ==
    /\ link # "gone" /\ link' = "down"
    /\ stored' = None
    /\ channel' = [c \in Channel |-> IF channel[c].phase = "open"
                                     THEN [channel[c] EXCEPT !.phase = "ending"]
                                     ELSE channel[c]]
    /\ UNCHANGED <<tab, view, pty, loop, inbox, missed>>

\* The second half.
Drop ==
    /\ link = "down" /\ link' = "gone"
    /\ UNCHANGED <<tab, view, pty, loop, stored, channel, inbox, missed>>

-----------------------------------------------------------------------------
\* addTab, from a panel that is shown and connected.
Init ==
    /\ tab = "shown" /\ pty = FALSE
    /\ view = [mounted |-> TRUE, active |-> TRUE, connected |-> TRUE,
               ended |-> FALSE, error |-> FALSE]
    /\ \E l \in Loop :
        loop = [m \in Loop |-> IF m = l
                               THEN [phase |-> "measuring", attempt |-> 1, cancelled |-> FALSE]
                               ELSE NoLoop]
    /\ stored = None /\ channel = [c \in Channel |-> NoChannel]
    /\ inbox = <<>> /\ link = "up" /\ missed = FALSE

Next ==
    \/ \E l \in Loop : Call(l) \/ NoSize(l)
    \/ \E c \in Channel : OpenSucceeds(c) \/ OpenFails(c) \/ Closed(c) \/ Output(c)
    \/ Receive
    \/ SelectTab \/ SeeLink \/ Unmount \/ Mount \/ CloseTab
    \/ Connect \/ Teardown \/ Drop

Spec == Init /\ [][Next]_vars

\* waitForDimensions and the waits between attempts end by a timer, a channel that was
\* asked for opens or fails, and messages arrive.
Fairness ==
    /\ \A l \in Loop : WF_vars(Call(l) \/ NoSize(l))
    /\ \A c \in Channel : WF_vars(OpenSucceeds(c) \/ OpenFails(c))
    /\ WF_vars(Receive)

FairSpec == Spec /\ Fairness

-----------------------------------------------------------------------------
(***************************************************************************)
(* Properties.                                                             *)
(***************************************************************************)
TypeOK ==
    /\ tab \in {"shown", "ended", "closed"}
    /\ view \in ViewRecord
    /\ pty \in BOOLEAN /\ missed \in BOOLEAN
    /\ loop \in [Loop -> LoopRecord]
    /\ stored \in Channel \cup {None}
    /\ channel \in [Channel -> ChannelRecord]
    /\ inbox \in Seq(Message)
    /\ link \in {"gone", "up", "down"}

\* What write, resize and close find under the key is a stream that has neither been
\* ended nor closed, whichever opens, closes and teardowns overlap (sessions.delete in
\* close, closeAllForServer and the close handler).
StoredIsLive == stored # None => channel[stored].phase = "open"

Running(l) == loop[l].phase # "free" /\ ~loop[l].cancelled

\* At most one run of openSession goes on, and only for a tab that is shown, connected,
\* not ended and without a shell: a shell is asked for only where one is wanted (the
\* cleanup of the effect, and the checks of cancelled after each await).
OneOpener ==
    \A l \in Loop : Running(l) =>
        /\ Eligible(view, pty)
        /\ \A m \in Loop : Running(m) => l = m

\* A tab taken for open, and not marked as ended, has a stream, or the news of its end
\* is on the way, or it came while the tab had no view (markPtyOpened, terminal:exit).
OpenedTabHasShell ==
    pty /\ tab = "shown" =>
        \/ missed
        \/ \E c \in Channel : channel[c].phase \in {"open", "ending"}
        \/ \E k \in DOMAIN inbox : inbox[k] = Exit

\* A run of openSession that is not cancelled ends with a shell or with an error on
\* display, however its attempts go (the retries), unless the user or the connection
\* turns away first, or the instance has no slot left for a channel.
RunsSettle ==
    []<>(\E c \in Channel : channel[c].phase = "free") =>
        \A l \in Loop : Running(l) ~> (pty \/ view.error \/ ~Eligible(view, pty))
===============================================================================
