------------------------ MODULE TerminalSessionsProofs ------------------------
(***************************************************************************)
(* Proofs about TerminalSessions, for any number of loop slots and         *)
(* channels and any number of attempts.  The properties speak of the tab   *)
(* and of what is stored; what makes them inductive is where the answer to *)
(* each call is (Awaited), and that an answer "opened" never comes without *)
(* the shell or, behind it, the news of its end (OpenedIsBacked).          *)
(***************************************************************************)
EXTENDS TerminalSessions, TLAPS

ShellLeft == \E c \in Channel : channel[c].phase \in {"open", "ending"}

\* A call under way has one answer at most: a channel that is opening, or a message.
Awaited ==
    /\ \A c \in Channel : channel[c].phase = "opening" =>
         /\ channel[c].loop \in Loop
         /\ loop[channel[c].loop].phase = "calling"
         /\ \A d \in Channel :
              channel[d].phase = "opening" /\ channel[d].loop = channel[c].loop => c = d
    /\ \A k \in DOMAIN inbox : inbox[k] # Exit =>
         /\ loop[inbox[k].loop].phase = "calling"
         /\ \A c \in Channel : channel[c].phase = "opening" => channel[c].loop # inbox[k].loop
         /\ \A j \in DOMAIN inbox : inbox[j].loop = inbox[k].loop => j = k

\* Behind an answer "opened" there is a channel, or an exit event that follows it.
OpenedIsBacked ==
    \A k \in DOMAIN inbox : inbox[k].kind = "opened" =>
        \/ ShellLeft
        \/ \E j \in DOMAIN inbox : j > k /\ inbox[j] = Exit

IndInv ==
    /\ TypeOK
    /\ StoredIsLive
    /\ OneOpener
    /\ Awaited
    /\ OpenedIsBacked
    /\ OpenedTabHasShell

-----------------------------------------------------------------------------
(***************************************************************************)
(* Sequences of messages.                                                  *)
(***************************************************************************)
\* What Append adds is last, and everything else stays where it was.
LEMMA AppendFacts ==
    ASSUME NEW q \in Seq(Message), NEW w \in Message
    PROVE  /\ Append(q, w) \in Seq(Message)
           /\ DOMAIN q \subseteq Nat
           /\ DOMAIN Append(q, w) = DOMAIN q \cup {Len(q) + 1}
           /\ \A k \in DOMAIN q : k < Len(q) + 1 /\ Append(q, w)[k] = q[k]
           /\ Append(q, w)[Len(q) + 1] = w
OBVIOUS

\* Tail moves every message but the first one place forward.
LEMMA TailFacts ==
    ASSUME NEW q \in Seq(Message), q # <<>>
    PROVE  /\ Tail(q) \in Seq(Message)
           /\ Head(q) \in Message /\ Head(q) = q[1] /\ 1 \in DOMAIN q
           /\ DOMAIN q \subseteq Nat
           /\ \A k \in DOMAIN Tail(q) :
                k + 1 \in DOMAIN q /\ k + 1 # 1 /\ Tail(q)[k] = q[k + 1]
           /\ \A k \in DOMAIN q : k # 1 =>
                k - 1 \in DOMAIN Tail(q) /\ Tail(q)[k - 1] = q[k]
OBVIOUS

\* A message is an exit event or the answer to a run.
LEMMA MessageFacts ==
    /\ Exit \in Message /\ Exit.kind = "exit"
    /\ \A l \in Loop : /\ Opened(l) \in Message /\ Opened(l).kind = "opened"
                       /\ Opened(l).loop = l /\ Opened(l) # Exit
                       /\ Failed(l) \in Message /\ Failed(l).kind = "failed"
                       /\ Failed(l).loop = l /\ Failed(l) # Exit
    /\ \A w \in Message : w # Exit => w.loop \in Loop /\ w.kind \in {"opened", "failed"}
BY DEF Message, Exit, Opened, Failed

-----------------------------------------------------------------------------
(***************************************************************************)
(* What a step must leave alone to keep the last three parts.              *)
(***************************************************************************)
\* No answer came or went.
LEMMA AwaitedSame ==
    ASSUME IndInv, UNCHANGED inbox,
           \A l \in Loop : loop[l].phase = "calling" => loop'[l].phase = "calling",
           \A c \in Channel : channel'[c].phase = "opening" => channel'[c] = channel[c]
    PROVE  Awaited'
<1>1. \A k \in DOMAIN inbox : inbox[k] \in Message
  BY DEF IndInv, TypeOK
<1> QED
  BY <1>1, MessageFacts DEF IndInv, Awaited, Exit

\* The first message was taken; the run it answers may do what it likes.
LEMMA AwaitedTail ==
    ASSUME IndInv, inbox # <<>>, inbox' = Tail(inbox),
           \A l \in Loop : l # Head(inbox).loop /\ loop[l].phase = "calling"
                => loop'[l].phase = "calling",
           \A c \in Channel : channel'[c].phase = "opening" => channel'[c] = channel[c]
    PROVE  Awaited'
<1>1. inbox \in Seq(Message)
  BY DEF IndInv, TypeOK
<1>2. \A k \in DOMAIN inbox : inbox[k] \in Message
  BY <1>1
<1>3. ASSUME NEW c \in Channel, channel'[c].phase = "opening"
      PROVE  /\ channel'[c].loop \in Loop
             /\ loop'[channel'[c].loop].phase = "calling"
             /\ \A d \in Channel : channel'[d].phase = "opening"
                    /\ channel'[d].loop = channel'[c].loop => c = d
  <2>1. channel[c].phase = "opening" /\ channel'[c].loop = channel[c].loop
    BY <1>3
  <2>2. channel[c].loop # Head(inbox).loop
    BY <2>1, <1>1, <1>2, TailFacts, MessageFacts, NoneAssumption DEF IndInv, Awaited, Exit
  <2> QED
    BY <1>3, <2>1, <2>2 DEF IndInv, Awaited
<1>4. ASSUME NEW k \in DOMAIN Tail(inbox), Tail(inbox)[k] # Exit
      PROVE  /\ loop'[Tail(inbox)[k].loop].phase = "calling"
             /\ \A c \in Channel : channel'[c].phase = "opening"
                    => channel'[c].loop # Tail(inbox)[k].loop
             /\ \A j \in DOMAIN Tail(inbox) :
                    Tail(inbox)[j].loop = Tail(inbox)[k].loop => j = k
  <2>1. /\ k + 1 \in DOMAIN inbox /\ k + 1 # 1 /\ Tail(inbox)[k] = inbox[k + 1]
        /\ DOMAIN inbox \subseteq Nat /\ Head(inbox) = inbox[1] /\ 1 \in DOMAIN inbox
        /\ \A j \in DOMAIN Tail(inbox) : j + 1 \in DOMAIN inbox /\ Tail(inbox)[j] = inbox[j + 1]
    BY <1>1, TailFacts
  <2>2. inbox[k + 1] # Exit /\ inbox[k + 1].loop \in Loop
    BY <2>1, <1>2, <1>4, MessageFacts
  <2>3. inbox[k + 1].loop # Head(inbox).loop
    BY <2>1, <2>2 DEF IndInv, Awaited
  <2>4. \A j \in DOMAIN Tail(inbox) : j \in Nat
    BY <1>1
  <2> QED
    BY <2>1, <2>2, <2>3, <2>4 DEF IndInv, Awaited
<1> QED
  BY <1>3, <1>4 DEF Awaited

\* A message was added: an exit event, or the one answer of a run.
LEMMA AwaitedAppend ==
    ASSUME IndInv, NEW w \in Message, inbox' = Append(inbox, w),
           \A l \in Loop : loop[l].phase = "calling" => loop'[l].phase = "calling",
           \A c \in Channel : channel'[c].phase = "opening" => channel'[c] = channel[c],
           w # Exit =>
             /\ loop'[w.loop].phase = "calling"
             /\ \A c \in Channel : channel'[c].phase = "opening" => channel'[c].loop # w.loop
             /\ \A k \in DOMAIN inbox : inbox[k].loop # w.loop
    PROVE  Awaited'
<1>1. inbox \in Seq(Message)
  BY DEF IndInv, TypeOK
<1>2. \A k \in DOMAIN inbox : inbox[k] \in Message
  BY <1>1
<1>3. \A c \in Channel : channel'[c].phase = "opening" =>
         /\ channel'[c].loop \in Loop
         /\ loop'[channel'[c].loop].phase = "calling"
         /\ \A d \in Channel : channel'[d].phase = "opening"
                /\ channel'[d].loop = channel'[c].loop => c = d
  BY DEF IndInv, Awaited
<1> DEFINE new == Append(inbox, w)
           last == Len(inbox) + 1
<1>4. /\ DOMAIN new = DOMAIN inbox \cup {last}
      /\ new[last] = w
      /\ \A k \in DOMAIN inbox : new[k] = inbox[k]
  BY <1>1, AppendFacts
<1> HIDE DEF new, last
<1>5. ASSUME NEW k \in DOMAIN new, new[k] # Exit
      PROVE  /\ loop'[new[k].loop].phase = "calling"
             /\ \A c \in Channel : channel'[c].phase = "opening" => channel'[c].loop # new[k].loop
             /\ \A j \in DOMAIN new : new[j].loop = new[k].loop => j = k
  <2>1. CASE k = last
    BY <2>1, <1>4, <1>5
  <2>2. CASE k \in DOMAIN inbox
    <3>1. inbox[k] # Exit /\ new[k] = inbox[k] /\ inbox[k].loop \in Loop
      BY <2>2, <1>2, <1>4, <1>5, MessageFacts
    <3>2. w.loop # inbox[k].loop
      BY <3>1, <2>2, NoneAssumption DEF Exit
    <3> QED
      BY <2>2, <3>1, <3>2, <1>4 DEF IndInv, Awaited
  <2> QED
    BY <2>1, <2>2, <1>4
<1>6. inbox' = new
  BY DEF new
<1> QED
  BY <1>3, <1>5, <1>6 DEF Awaited

\* The inbox grew or lost its first message, and channels that were left still are.
LEMMA BackedKept ==
    ASSUME IndInv, ShellLeft => ShellLeft',
           \/ UNCHANGED inbox
           \/ inbox # <<>> /\ inbox' = Tail(inbox)
           \/ \E w \in Message : inbox' = Append(inbox, w) /\ (w.kind = "opened" => ShellLeft')
    PROVE  OpenedIsBacked'
<1>1. inbox \in Seq(Message)
  BY DEF IndInv, TypeOK
<1>2. CASE UNCHANGED inbox
  BY <1>2 DEF IndInv, OpenedIsBacked
<1>3. CASE inbox # <<>> /\ inbox' = Tail(inbox)
  <2>1. ASSUME NEW k \in DOMAIN Tail(inbox), Tail(inbox)[k].kind = "opened", ~ShellLeft'
        PROVE  \E j \in DOMAIN Tail(inbox) : j > k /\ Tail(inbox)[j] = Exit
    <3>1. k \in Nat /\ k > 0 /\ k + 1 \in DOMAIN inbox /\ Tail(inbox)[k] = inbox[k + 1]
      BY <1>1, <1>3, TailFacts
    <3>2. PICK j \in DOMAIN inbox : j > k + 1 /\ inbox[j] = Exit
      BY <2>1, <3>1 DEF IndInv, OpenedIsBacked
    <3>3. j - 1 \in DOMAIN Tail(inbox) /\ Tail(inbox)[j - 1] = inbox[j] /\ j - 1 > k
      BY <1>1, <1>3, <3>1, <3>2, TailFacts
    <3> QED
      BY <3>2, <3>3
  <2> QED
    BY <1>3, <2>1 DEF OpenedIsBacked
<1>4. ASSUME NEW w \in Message, inbox' = Append(inbox, w), w.kind = "opened" => ShellLeft'
      PROVE  OpenedIsBacked'
  <2>1. ASSUME NEW k \in DOMAIN Append(inbox, w), Append(inbox, w)[k].kind = "opened",
               ~ShellLeft'
        PROVE  \E j \in DOMAIN Append(inbox, w) : j > k /\ Append(inbox, w)[j] = Exit
    <3>1. k \in DOMAIN inbox /\ Append(inbox, w)[k] = inbox[k]
      BY <1>1, <1>4, <2>1, AppendFacts
    <3>2. PICK j \in DOMAIN inbox : j > k /\ inbox[j] = Exit
      BY <2>1, <3>1 DEF IndInv, OpenedIsBacked
    <3> QED
      BY <1>1, <3>2, AppendFacts
  <2> QED
    BY <1>4, <2>1 DEF OpenedIsBacked
<1> QED
  BY <1>2, <1>3, <1>4

\* The tab did not become open, and nothing that backs it was lost.
LEMMA TabKept ==
    ASSUME IndInv, ShellLeft => ShellLeft', pty' => pty, missed => missed',
           tab' = "shown" => tab = "shown",
           \A k \in DOMAIN inbox : inbox[k] = Exit =>
                \E j \in DOMAIN inbox' : inbox'[j] = Exit
    PROVE  OpenedTabHasShell'
BY DEF IndInv, OpenedTabHasShell, ShellLeft

-----------------------------------------------------------------------------
(***************************************************************************)
(* The effect and the loop.                                                *)
(***************************************************************************)
OneRuns(v, p, lp) ==
    \A l \in Loop : lp[l].phase # "free" /\ ~lp[l].cancelled =>
        /\ Eligible(v, p)
        /\ \A m \in Loop : lp[m].phase # "free" /\ ~lp[m].cancelled => l = m

LEMMA CancelledFacts ==
    ASSUME IndInv
    PROVE  /\ Cancelled \in [Loop -> LoopRecord]
           /\ \A l \in Loop : Cancelled[l].phase # "free" => Cancelled[l].cancelled
           /\ \A l \in Loop : loop[l].phase = "calling" => Cancelled[l].phase = "calling"
<1>1. loop \in [Loop -> LoopRecord]
  BY DEF IndInv, TypeOK
<1>2. NoLoop \in LoopRecord /\ NoLoop.phase = "free"
  BY AttemptsAssumption DEF NoLoop, LoopRecord
<1>3. ASSUME NEW l \in Loop
      PROVE  /\ Cancelled[l] \in LoopRecord
             /\ Cancelled[l].phase # "free" => Cancelled[l].cancelled
             /\ loop[l].phase = "calling" => Cancelled[l].phase = "calling"
  <2>1. CASE loop[l].phase = "calling"
    <3>1. Cancelled[l] = [loop[l] EXCEPT !.cancelled = TRUE]
      BY <2>1 DEF Cancelled
    <3> QED
      BY <2>1, <3>1, <1>1 DEF LoopRecord
  <2>2. CASE loop[l].phase # "calling"
    <3>1. Cancelled[l] = NoLoop
      BY <2>2 DEF Cancelled
    <3> QED
      BY <2>2, <3>1, <1>2
  <2> QED
    BY <2>1, <2>2
<1> QED
  BY <1>3 DEF Cancelled

\* Whatever makes the effect run again, one run is left at most, and calls under way
\* stay under way.
LEMMA RerunFacts ==
    ASSUME IndInv, NEW v \in ViewRecord, NEW p \in BOOLEAN, Rerun(v, p)
    PROVE  /\ view' \in ViewRecord
           /\ loop' \in [Loop -> LoopRecord]
           /\ OneRuns(view', p, loop')
           /\ \A l \in Loop : loop[l].phase = "calling" => loop'[l].phase = "calling"
<1>1. CASE Eligible(v, p)
  <2> DEFINE fresh == [phase |-> "measuring", attempt |-> 1, cancelled |-> FALSE]
  <2>1. PICK l \in Loop : Cancelled[l].phase = "free" /\ loop' = [Cancelled EXCEPT ![l] = fresh]
    BY <1>1 DEF Rerun
  <2>2. view' = [v EXCEPT !.error = FALSE]
    BY <1>1 DEF Rerun
  <2>3. view' \in ViewRecord /\ Eligible(view', p)
    BY <1>1, <2>2 DEF ViewRecord, Eligible
  <2>4. fresh \in LoopRecord
    BY AttemptsAssumption DEF LoopRecord
  <2> HIDE DEF fresh
  <2>5. loop' \in [Loop -> LoopRecord] /\ loop'[l] = fresh
        /\ \A m \in Loop : m # l => loop'[m] = Cancelled[m]
    BY <2>1, <2>4, CancelledFacts
  <2> QED
    BY <2>1, <2>3, <2>5, CancelledFacts DEF OneRuns
<1>2. CASE ~Eligible(v, p)
  BY <1>2, CancelledFacts DEF Rerun, OneRuns
<1> QED
  BY <1>1, <1>2

\* Another attempt, or the error and the end of the run.
LEMMA RetryFacts ==
    ASSUME IndInv, NEW l \in Loop, Running(l), Retry(l)
    PROVE  /\ view' \in ViewRecord
           /\ loop' \in [Loop -> LoopRecord]
           /\ OneRuns(view', pty, loop')
           /\ \A m \in Loop : m # l => loop'[m] = loop[m]
<1>1. /\ loop \in [Loop -> LoopRecord] /\ view \in ViewRecord
      /\ OneRuns(view, pty, loop)
  BY DEF IndInv, TypeOK, OneOpener, OneRuns, Running
<1>2. CASE loop[l].attempt < Attempts
  <2> DEFINE next == [loop[l] EXCEPT !.phase = "measuring", !.attempt = @ + 1]
  <2>1. loop' = [loop EXCEPT ![l] = next] /\ UNCHANGED view
    BY <1>1, <1>2 DEF Retry
  <2>2. next \in LoopRecord /\ ~next.cancelled
    <3>1. loop[l] \in LoopRecord
      BY <1>1
    <3>2. loop[l].attempt + 1 \in 0 .. Attempts
      BY <3>1, <1>2, AttemptsAssumption DEF LoopRecord
    <3> QED
      BY <3>1, <3>2 DEF LoopRecord, Running
  <2> HIDE DEF next
  <2> QED
    BY <1>1, <2>1, <2>2 DEF OneRuns, Running
<1>3. CASE ~(loop[l].attempt < Attempts)
  <2>1. loop' = [loop EXCEPT ![l] = NoLoop] /\ view' = [view EXCEPT !.error = TRUE]
    BY <1>3 DEF Retry
  <2>2. NoLoop \in LoopRecord /\ NoLoop.phase = "free"
    BY AttemptsAssumption DEF NoLoop, LoopRecord
  <2>3. view' \in ViewRecord /\ Eligible(view', pty) = Eligible(view, pty)
    BY <1>1, <2>1 DEF ViewRecord, Eligible
  <2> QED
    BY <1>1, <2>1, <2>2, <2>3 DEF OneRuns, Running
<1> QED
  BY <1>2, <1>3

\* A run ends.
LEMMA FreedFacts ==
    ASSUME IndInv, NEW l \in Loop, loop' = [loop EXCEPT ![l] = NoLoop]
    PROVE  /\ loop' \in [Loop -> LoopRecord]
           /\ loop'[l].phase = "free"
           /\ \A m \in Loop : m # l => loop'[m] = loop[m]
<1>1. NoLoop \in LoopRecord /\ NoLoop.phase = "free"
  BY AttemptsAssumption DEF NoLoop, LoopRecord
<1> QED
  BY <1>1 DEF IndInv, TypeOK

LEMMA OneRunsIsOneOpener == OneRuns(view, pty, loop)' <=> OneOpener'
BY DEF OneRuns, OneOpener, Running, Eligible

\* close() ends the stream under the key and touches no other channel.
LEMMA MainCloseFacts ==
    ASSUME IndInv, MainClose
    PROVE  /\ stored' = None
           /\ channel' \in [Channel -> ChannelRecord]
           /\ \A c \in Channel : channel'[c].phase = "opening" => channel'[c] = channel[c]
           /\ ShellLeft => ShellLeft'
<1>1. channel \in [Channel -> ChannelRecord] /\ stored \in Channel \cup {None}
  BY DEF IndInv, TypeOK
<1>2. CASE stored = None
  BY <1>1, <1>2 DEF MainClose, ShellLeft
<1>3. CASE stored # None
  <2> DEFINE ended == [channel[stored] EXCEPT !.phase = "ending"]
  <2>1. stored \in Channel /\ channel[stored].phase = "open"
    BY <1>1, <1>3 DEF IndInv, StoredIsLive
  <2>2. channel' = [channel EXCEPT ![stored] = ended] /\ stored' = None
    BY <1>3 DEF MainClose
  <2>3. ended \in ChannelRecord /\ ended.phase = "ending"
    BY <1>1, <2>1 DEF ChannelRecord
  <2> HIDE DEF ended
  <2> QED
    BY <1>1, <2>1, <2>2, <2>3 DEF ShellLeft
<1> QED
  BY <1>2, <1>3

-----------------------------------------------------------------------------
(***************************************************************************)
(* The main process.                                                       *)
(***************************************************************************)
LEMMA OpenSucceedsInv ==
    ASSUME IndInv, NEW c \in Channel, OpenSucceeds(c)
    PROVE  IndInv'
<1> DEFINE l == channel[c].loop
           open == [channel[c] EXCEPT !.phase = "open"]
<1>1. /\ channel \in [Channel -> ChannelRecord] /\ inbox \in Seq(Message)
      /\ channel[c].phase = "opening" /\ l \in Loop
      /\ channel' = [channel EXCEPT ![c] = open]
      /\ stored' = c /\ inbox' = Append(inbox, Opened(l))
      /\ UNCHANGED <<tab, view, pty, loop, link, missed>>
  BY DEF IndInv, TypeOK, Awaited, OpenSucceeds
<1>2. open \in ChannelRecord /\ open.phase = "open"
  BY <1>1 DEF ChannelRecord
<1>3. /\ channel' \in [Channel -> ChannelRecord] /\ channel'[c].phase = "open"
      /\ \A d \in Channel : channel'[d].phase = "opening" =>
            channel'[d] = channel[d] /\ d # c
  BY <1>1, <1>2
<1>4. TypeOK'
  BY <1>1, <1>3, MessageFacts, AppendFacts DEF IndInv, TypeOK
<1>5. StoredIsLive'
  BY <1>1, <1>3 DEF StoredIsLive
<1>6. OneOpener'
  BY <1>1 DEF IndInv, OneOpener, Running, Eligible
<1>7. Awaited'
  <2>1. \A d \in Channel : channel'[d].phase = "opening" => channel'[d].loop # l
    BY <1>1, <1>3 DEF IndInv, Awaited
  <2>2. \A k \in DOMAIN inbox : inbox[k].loop # l
    <3>1. \A k \in DOMAIN inbox : inbox[k] = Exit => inbox[k].loop # l
      BY <1>1, NoneAssumption DEF Exit
    <3> QED
      BY <1>1, <3>1 DEF IndInv, Awaited
  <2>3. loop'[l].phase = "calling"
    BY <1>1 DEF IndInv, Awaited
  <2> QED
    BY <1>1, <1>3, <2>1, <2>2, <2>3, MessageFacts, AwaitedAppend
<1>8. ShellLeft'
  BY <1>3 DEF ShellLeft
<1>9. OpenedIsBacked'
  BY <1>1, <1>8, MessageFacts, BackedKept
<1>10. OpenedTabHasShell'
  BY <1>8 DEF OpenedTabHasShell, ShellLeft
<1> QED
  BY <1>4, <1>5, <1>6, <1>7, <1>9, <1>10 DEF IndInv

\* What an exit event in the inbox, and its absence, means after Append.
LEMMA ExitsKept ==
    ASSUME IndInv, NEW w \in Message, inbox' = Append(inbox, w)
    PROVE  \A k \in DOMAIN inbox : inbox[k] = Exit =>
                \E j \in DOMAIN inbox' : inbox'[j] = Exit
<1>1. inbox \in Seq(Message)
  BY DEF IndInv, TypeOK
<1> QED
  BY <1>1, AppendFacts

LEMMA OpenFailsInv ==
    ASSUME IndInv, NEW c \in Channel, OpenFails(c)
    PROVE  IndInv'
<1> DEFINE l == channel[c].loop
<1>1. /\ channel \in [Channel -> ChannelRecord] /\ inbox \in Seq(Message)
      /\ channel[c].phase = "opening" /\ l \in Loop
      /\ channel' = [channel EXCEPT ![c] = NoChannel]
      /\ inbox' = Append(inbox, Failed(l))
      /\ UNCHANGED <<tab, view, pty, loop, stored, link, missed>>
  BY DEF IndInv, TypeOK, Awaited, OpenFails
<1>2. NoChannel \in ChannelRecord /\ NoChannel.phase = "free"
  BY DEF NoChannel, ChannelRecord
<1>3. /\ channel' \in [Channel -> ChannelRecord] /\ channel'[c].phase = "free"
      /\ \A d \in Channel : d # c => channel'[d] = channel[d]
  BY <1>1, <1>2
<1>4. TypeOK'
  BY <1>1, <1>3, MessageFacts, AppendFacts DEF IndInv, TypeOK
<1>5. StoredIsLive'
  BY <1>1, <1>3 DEF IndInv, TypeOK, StoredIsLive
<1>6. OneOpener'
  BY <1>1 DEF IndInv, OneOpener, Running, Eligible
<1>7. Awaited'
  <2>1. \A d \in Channel : channel'[d].phase = "opening" =>
           channel'[d] = channel[d] /\ channel'[d].loop # l
    BY <1>1, <1>3 DEF IndInv, Awaited
  <2>2. \A k \in DOMAIN inbox : inbox[k].loop # l
    <3>1. \A k \in DOMAIN inbox : inbox[k] = Exit => inbox[k].loop # l
      BY <1>1, NoneAssumption DEF Exit
    <3> QED
      BY <1>1, <3>1 DEF IndInv, Awaited
  <2>3. loop'[l].phase = "calling"
    BY <1>1 DEF IndInv, Awaited
  <2> QED
    BY <1>1, <2>1, <2>2, <2>3, MessageFacts, AwaitedAppend
<1>8. ShellLeft => ShellLeft'
  BY <1>1, <1>3 DEF ShellLeft
<1>9. OpenedIsBacked'
  BY <1>1, <1>8, MessageFacts, BackedKept
<1>10. OpenedTabHasShell'
  BY <1>1, <1>8, MessageFacts, ExitsKept, TabKept
<1> QED
  BY <1>4, <1>5, <1>6, <1>7, <1>9, <1>10 DEF IndInv

LEMMA ClosedInv ==
    ASSUME IndInv, NEW c \in Channel, Closed(c)
    PROVE  IndInv'
<1>1. /\ channel \in [Channel -> ChannelRecord] /\ inbox \in Seq(Message)
      /\ channel[c].phase # "opening"
      /\ channel' = [channel EXCEPT ![c] = NoChannel]
      /\ stored' = None /\ inbox' = Append(inbox, Exit)
      /\ UNCHANGED <<tab, view, pty, loop, link, missed>>
  BY DEF IndInv, TypeOK, Closed
<1>2. NoChannel \in ChannelRecord /\ NoChannel.phase = "free"
  BY DEF NoChannel, ChannelRecord
<1>3. /\ channel' \in [Channel -> ChannelRecord]
      /\ \A d \in Channel : channel'[d].phase = "opening" => channel'[d] = channel[d]
  BY <1>1, <1>2
<1>4. /\ DOMAIN inbox' = DOMAIN inbox \cup {Len(inbox) + 1}
      /\ inbox' \in Seq(Message) /\ inbox'[Len(inbox) + 1] = Exit
      /\ \A k \in DOMAIN inbox : k < Len(inbox) + 1 /\ inbox'[k] = inbox[k]
  BY <1>1, MessageFacts, AppendFacts
<1>5. TypeOK'
  BY <1>1, <1>3, <1>4 DEF IndInv, TypeOK
<1>6. StoredIsLive'
  BY <1>1 DEF StoredIsLive
<1>7. OneOpener'
  BY <1>1 DEF IndInv, OneOpener, Running, Eligible
<1>8. Awaited'
  BY <1>1, <1>3, MessageFacts, AwaitedAppend
<1>9. OpenedIsBacked'
  BY <1>4, MessageFacts DEF OpenedIsBacked
<1>10. OpenedTabHasShell'
  BY <1>4 DEF OpenedTabHasShell
<1> QED
  BY <1>5, <1>6, <1>7, <1>8, <1>9, <1>10 DEF IndInv

LEMMA TeardownInv ==
    ASSUME IndInv, Teardown
    PROVE  IndInv'
<1>1. /\ channel \in [Channel -> ChannelRecord]
      /\ stored' = None /\ link' = "down"
      /\ UNCHANGED <<tab, view, pty, loop, inbox, missed>>
  BY DEF IndInv, TypeOK, Teardown
<1>2. ASSUME NEW c \in Channel
      PROVE  /\ channel'[c] \in ChannelRecord
             /\ channel'[c].phase = "opening" => channel'[c] = channel[c]
             /\ channel[c].phase \in {"open", "ending"} => channel'[c].phase \in {"open", "ending"}
  <2>1. channel'[c] = IF channel[c].phase = "open"
                      THEN [channel[c] EXCEPT !.phase = "ending"] ELSE channel[c]
    BY DEF Teardown
  <2> QED
    BY <1>1, <2>1 DEF ChannelRecord
<1>3. channel' \in [Channel -> ChannelRecord]
  BY <1>2 DEF Teardown
<1>4. ShellLeft => ShellLeft'
  BY <1>2 DEF ShellLeft
<1>5. TypeOK'
  BY <1>1, <1>3 DEF IndInv, TypeOK
<1>6. StoredIsLive'
  BY <1>1 DEF StoredIsLive
<1>7. OneOpener'
  BY <1>1 DEF IndInv, OneOpener, Running, Eligible
<1>8. Awaited'
  BY <1>1, <1>2, AwaitedSame
<1>9. OpenedIsBacked'
  BY <1>1, <1>4, BackedKept
<1>10. OpenedTabHasShell'
  BY <1>1, <1>4, TabKept
<1> QED
  BY <1>5, <1>6, <1>7, <1>8, <1>9, <1>10 DEF IndInv

-----------------------------------------------------------------------------
(***************************************************************************)
(* The view.                                                               *)
(***************************************************************************)
LEMMA CallInv ==
    ASSUME IndInv, NEW l \in Loop, Call(l)
    PROVE  IndInv'
<1>1. /\ loop \in [Loop -> LoopRecord] /\ channel \in [Channel -> ChannelRecord]
      /\ inbox \in Seq(Message) /\ stored \in Channel \cup {None}
      /\ loop[l].phase = "measuring"
      /\ UNCHANGED <<tab, view, pty, stored, link, missed>>
  BY DEF IndInv, TypeOK, Call
<1>2. CASE pty
  <2>1. loop' = [loop EXCEPT ![l] = NoLoop] /\ UNCHANGED <<channel, inbox>>
    BY <1>2 DEF Call
  <2>2. TypeOK' /\ StoredIsLive' /\ OneOpener'
    BY <1>1, <2>1, FreedFacts DEF IndInv, TypeOK, StoredIsLive, OneOpener, Running, Eligible
  <2>3. ShellLeft => ShellLeft'
    BY <2>1 DEF ShellLeft
  <2>4. Awaited'
    BY <1>1, <2>1, FreedFacts, AwaitedSame
  <2>5. OpenedIsBacked' /\ OpenedTabHasShell'
    BY <1>1, <2>1, <2>3, BackedKept, TabKept
  <2> QED
    BY <2>2, <2>4, <2>5 DEF IndInv
<1>3. CASE ~pty
  <2> DEFINE calls == [loop[l] EXCEPT !.phase = "calling"]
  <2>1. loop' = [loop EXCEPT ![l] = calls] /\ MainOpen(l)
    BY <1>3 DEF Call
  <2>2. calls \in LoopRecord /\ calls.phase = "calling" /\ calls.cancelled = loop[l].cancelled
    BY <1>1 DEF LoopRecord
  <2> HIDE DEF calls
  <2>3. /\ loop' \in [Loop -> LoopRecord] /\ loop'[l].phase = "calling"
        /\ loop'[l].cancelled = loop[l].cancelled
        /\ \A m \in Loop : m # l => loop'[m] = loop[m]
    BY <1>1, <2>1, <2>2
  <2>4. OneOpener'
    BY <1>1, <2>3 DEF IndInv, OneOpener, Running, Eligible
  <2>5. /\ \A c \in Channel : channel[c].phase = "opening" => channel[c].loop # l
        /\ \A k \in DOMAIN inbox : inbox[k].loop # l
    <3>1. \A k \in DOMAIN inbox : inbox[k] = Exit => inbox[k].loop # l
      BY NoneAssumption DEF Exit
    <3> QED
      BY <1>1, <3>1 DEF IndInv, Awaited
  <2>6. ASSUME NEW w \in {Opened(l), Failed(l)}, inbox' = Append(inbox, w), UNCHANGED channel,
               w = Opened(l) => stored # None
        PROVE  IndInv'
    <3>1. w \in Message /\ w # Exit /\ w.loop = l /\ (w.kind = "opened" => w = Opened(l))
      BY MessageFacts
    <3>2. TypeOK' /\ StoredIsLive'
      BY <1>1, <2>3, <2>6, <3>1, AppendFacts DEF IndInv, TypeOK, StoredIsLive
    <3>3. Awaited'
      BY <1>1, <2>3, <2>5, <2>6, <3>1, AwaitedAppend
    <3>4. (ShellLeft => ShellLeft') /\ (stored # None => ShellLeft')
      BY <1>1, <2>6 DEF IndInv, StoredIsLive, ShellLeft
    <3>5. OpenedIsBacked' /\ OpenedTabHasShell'
      BY <1>1, <2>6, <3>1, <3>4, BackedKept, ExitsKept, TabKept
    <3> QED
      BY <2>4, <3>2, <3>3, <3>5 DEF IndInv
  <2>7. ASSUME NEW c \in Channel, channel[c].phase = "free", UNCHANGED inbox, stored = None,
               channel' = [channel EXCEPT ![c] = [phase |-> "opening", loop |-> l]]
        PROVE  IndInv'
    <3>1. [phase |-> "opening", loop |-> l] \in ChannelRecord
      BY DEF ChannelRecord
    <3>2. /\ channel' \in [Channel -> ChannelRecord]
          /\ channel'[c].phase = "opening" /\ channel'[c].loop = l
          /\ \A d \in Channel : d # c => channel'[d] = channel[d]
      BY <1>1, <2>7, <3>1
    <3>3. TypeOK' /\ StoredIsLive'
      BY <1>1, <2>3, <2>7, <3>2 DEF IndInv, TypeOK, StoredIsLive
    <3>4. Awaited'
      <4>1. \A m \in Loop : loop[m].phase = "calling" => m # l /\ loop'[m].phase = "calling"
        BY <1>1, <2>3
      <4>2. \A d \in Channel : channel'[d].phase = "opening" =>
               /\ channel'[d].loop \in Loop
               /\ loop'[channel'[d].loop].phase = "calling"
               /\ \A e \in Channel : channel'[e].phase = "opening"
                      /\ channel'[e].loop = channel'[d].loop => d = e
        BY <2>3, <2>5, <3>2, <4>1 DEF IndInv, Awaited
      <4>3. ASSUME NEW k \in DOMAIN inbox, inbox[k] # Exit
            PROVE  /\ loop'[inbox[k].loop].phase = "calling"
                   /\ \A d \in Channel : channel'[d].phase = "opening"
                          => channel'[d].loop # inbox[k].loop
        <5>1. inbox[k].loop \in Loop
          BY <1>1, <4>3, MessageFacts
        <5> QED
          BY <2>5, <3>2, <4>1, <4>3, <5>1 DEF IndInv, Awaited
      <4> QED
        BY <2>7, <4>2, <4>3 DEF IndInv, Awaited
    <3>5. ShellLeft => ShellLeft'
      BY <2>7, <3>2 DEF ShellLeft
    <3>6. OpenedIsBacked' /\ OpenedTabHasShell'
      BY <1>1, <2>7, <3>5, BackedKept, TabKept
    <3> QED
      BY <2>4, <3>3, <3>4, <3>6 DEF IndInv
  <2>8. Opened(l) # Failed(l)
    BY DEF Opened, Failed
  <2>9. CASE stored # None
    BY <2>1, <2>6, <2>9 DEF MainOpen
  <2>10. CASE stored = None /\ link = "gone"
    BY <2>1, <2>6, <2>8, <2>10 DEF MainOpen
  <2>11. CASE stored = None /\ link # "gone"
    BY <2>1, <2>7, <2>11 DEF MainOpen
  <2> QED
    BY <2>9, <2>10, <2>11
<1> QED
  BY <1>2, <1>3

\* Steps of the view that leave the main process and the inbox alone.
LEMMA ViewOnlyInv ==
    ASSUME IndInv, UNCHANGED <<pty, stored, channel, inbox, link, missed>>,
           tab' \in {"shown", "ended", "closed"}, tab' = "shown" => tab = "shown",
           view' \in ViewRecord, loop' \in [Loop -> LoopRecord], OneRuns(view', pty, loop'),
           \A m \in Loop : loop[m].phase = "calling" => loop'[m].phase = "calling"
    PROVE  IndInv'
<1>1. TypeOK' /\ StoredIsLive'
  BY DEF IndInv, TypeOK, StoredIsLive
<1>2. OneOpener'
  BY OneRunsIsOneOpener DEF OneRuns, Eligible, OneOpener, Running
<1>3. ShellLeft => ShellLeft'
  BY DEF ShellLeft
<1>4. Awaited'
  BY AwaitedSame
<1>5. OpenedIsBacked' /\ OpenedTabHasShell'
  BY <1>3, BackedKept, TabKept
<1> QED
  BY <1>1, <1>2, <1>4, <1>5 DEF IndInv

LEMMA NoSizeInv ==
    ASSUME IndInv, NEW l \in Loop, NoSize(l)
    PROVE  IndInv'
<1>1. /\ loop[l].phase = "measuring" /\ view \in ViewRecord /\ pty \in BOOLEAN
      /\ tab \in {"shown", "ended", "closed"} /\ OneRuns(view, pty, loop)
      /\ UNCHANGED <<tab, pty, stored, channel, inbox, link, missed>>
  BY DEF IndInv, TypeOK, NoSize, OneOpener, OneRuns, Running
<1>2. CASE pty
  <2>1. loop' = [loop EXCEPT ![l] = NoLoop] /\ UNCHANGED view
    BY <1>2 DEF NoSize
  <2>2. OneRuns(view', pty, loop')
    BY <1>1, <2>1, FreedFacts DEF OneRuns
  <2> QED
    BY <1>1, <2>1, <2>2, FreedFacts, ViewOnlyInv
<1>3. CASE ~pty
  <2>1. Retry(l)
    BY <1>3 DEF NoSize
  <2>2. Running(l)
    BY <1>1 DEF IndInv, TypeOK, LoopRecord, Running
  <2> QED
    BY <1>1, <2>1, <2>2, RetryFacts, ViewOnlyInv
<1> QED
  BY <1>2, <1>3

\* Taking an answer from the inbox leaves the exit events in it.
LEMMA ExitsStay ==
    ASSUME IndInv, inbox # <<>>, Head(inbox) # Exit, inbox' = Tail(inbox)
    PROVE  \A k \in DOMAIN inbox : inbox[k] = Exit =>
                \E j \in DOMAIN inbox' : inbox'[j] = Exit
<1>1. inbox \in Seq(Message)
  BY DEF IndInv, TypeOK
<1>2. ASSUME NEW k \in DOMAIN inbox, inbox[k] = Exit
      PROVE  k - 1 \in DOMAIN Tail(inbox) /\ Tail(inbox)[k - 1] = Exit
  BY <1>1, <1>2, TailFacts
<1> QED
  BY <1>2

LEMMA ReceiveOpenedInv ==
    ASSUME IndInv, ReceiveOpened
    PROVE  IndInv'
<1> DEFINE l == Head(inbox).loop
<1>1. /\ inbox \in Seq(Message) /\ inbox # <<>> /\ Head(inbox).kind = "opened"
      /\ pty \in BOOLEAN /\ view \in ViewRecord /\ stored \in Channel \cup {None}
      /\ channel \in [Channel -> ChannelRecord]
      /\ HasShell(l) /\ loop' = [loop EXCEPT ![l] = NoLoop]
      /\ inbox' = Tail(inbox) /\ UNCHANGED <<tab, link, missed>>
  BY DEF IndInv, TypeOK, ReceiveOpened
<1>2. Head(inbox) # Exit /\ l \in Loop /\ 1 \in DOMAIN inbox /\ Head(inbox) = inbox[1]
      /\ inbox' \in Seq(Message)
  BY <1>1, MessageFacts, TailFacts
<1>3. loop[l].phase = "calling"
  BY <1>2 DEF IndInv, Awaited
<1>4. /\ stored' = None \/ UNCHANGED main
      /\ channel' \in [Channel -> ChannelRecord]
      /\ \A c \in Channel : channel'[c].phase = "opening" => channel'[c] = channel[c]
      /\ ShellLeft => ShellLeft'
      /\ stored' # None => UNCHANGED <<stored, channel>>
  <2>1. CASE loop[l].cancelled
    BY <1>1, <2>1, MainCloseFacts DEF HasShell
  <2>2. CASE ~loop[l].cancelled
    BY <1>1, <2>2 DEF HasShell, main, ShellLeft
  <2> QED
    BY <2>1, <2>2
<1>5. Awaited'
  BY <1>1, <1>2, <1>4, FreedFacts, AwaitedTail
<1>6. OpenedIsBacked'
  BY <1>1, <1>4, BackedKept
<1>7. \A k \in DOMAIN inbox : inbox[k] = Exit => \E j \in DOMAIN inbox' : inbox'[j] = Exit
  BY <1>1, <1>2, ExitsStay
<1>8. StoredIsLive' /\ stored' \in Channel \cup {None}
  BY <1>1, <1>4 DEF IndInv, StoredIsLive
<1>9. CASE loop[l].cancelled
  <2>1. UNCHANGED <<view, pty>>
    BY <1>1, <1>9 DEF HasShell
  <2>2. TypeOK'
    BY <1>1, <1>2, <1>4, <1>8, <2>1, FreedFacts DEF IndInv, TypeOK
  <2>3. OneOpener'
    BY <1>1, <1>2, <2>1, FreedFacts DEF IndInv, OneOpener, Running, Eligible
  <2>4. OpenedTabHasShell'
    BY <1>1, <1>4, <1>7, <2>1, TabKept
  <2> QED
    BY <1>5, <1>6, <1>8, <2>2, <2>3, <2>4 DEF IndInv
<1>10. CASE ~loop[l].cancelled
  <2>1. pty' = TRUE /\ view' = [view EXCEPT !.error = FALSE] /\ UNCHANGED <<stored, channel>>
    BY <1>1, <1>10 DEF HasShell, main
  <2>2. TypeOK'
    <3>1. view' \in ViewRecord
      BY <1>1, <2>1 DEF ViewRecord
    <3> QED
      BY <1>1, <1>2, <1>4, <1>8, <2>1, <3>1, FreedFacts DEF IndInv, TypeOK
  <2>3. OneOpener'
    <3>1. \A m \in Loop : Running(m) => m = l
      BY <1>2, <1>3, <1>10 DEF IndInv, OneOpener, Running
    <3> QED
      BY <1>1, <1>2, <3>1, FreedFacts DEF OneOpener, Running
  <2>4. ShellLeft \/ \E k \in DOMAIN inbox : inbox[k] = Exit
    BY <1>1, <1>2 DEF IndInv, OpenedIsBacked
  <2>5. OpenedTabHasShell'
    BY <1>4, <1>7, <2>4 DEF OpenedTabHasShell, ShellLeft
  <2> QED
    BY <1>5, <1>6, <1>8, <2>2, <2>3, <2>5 DEF IndInv
<1> QED
  BY <1>9, <1>10

LEMMA ReceiveFailedInv ==
    ASSUME IndInv, ReceiveFailed
    PROVE  IndInv'
<1> DEFINE l == Head(inbox).loop
<1>1. /\ inbox \in Seq(Message) /\ inbox # <<>> /\ Head(inbox).kind = "failed"
      /\ view \in ViewRecord /\ loop \in [Loop -> LoopRecord]
      /\ inbox' = Tail(inbox) /\ UNCHANGED <<tab, pty, stored, channel, link, missed>>
  BY DEF IndInv, TypeOK, ReceiveFailed
<1>2. Head(inbox) # Exit /\ l \in Loop /\ 1 \in DOMAIN inbox /\ Head(inbox) = inbox[1]
      /\ inbox' \in Seq(Message)
  BY <1>1, MessageFacts, TailFacts
<1>3. loop[l].phase = "calling"
  BY <1>2 DEF IndInv, Awaited
<1>4. /\ view' \in ViewRecord /\ loop' \in [Loop -> LoopRecord]
      /\ OneRuns(view', pty, loop')
      /\ \A m \in Loop : m # l => loop'[m] = loop[m]
  <2>1. CASE loop[l].cancelled \/ pty
    <3>1. loop' = [loop EXCEPT ![l] = NoLoop] /\ UNCHANGED view
      BY <2>1 DEF ReceiveFailed
    <3>2. OneRuns(view, pty, loop)
      BY DEF IndInv, OneOpener, OneRuns, Running
    <3> QED
      BY <1>1, <1>2, <3>1, <3>2, FreedFacts DEF OneRuns
  <2>2. CASE ~(loop[l].cancelled \/ pty)
    <3>1. Retry(l) /\ Running(l)
      BY <1>3, <2>2 DEF ReceiveFailed, Running
    <3> QED
      BY <1>2, <3>1, RetryFacts
  <2> QED
    BY <2>1, <2>2
<1>5. TypeOK' /\ StoredIsLive'
  BY <1>1, <1>2, <1>4 DEF IndInv, TypeOK, StoredIsLive
<1>6. OneOpener'
  BY <1>1, <1>4 DEF OneRuns, OneOpener, Running
<1>7. Awaited'
  BY <1>1, <1>4, AwaitedTail
<1>8. ShellLeft => ShellLeft'
  BY <1>1 DEF ShellLeft
<1>9. \A k \in DOMAIN inbox : inbox[k] = Exit => \E j \in DOMAIN inbox' : inbox'[j] = Exit
  BY <1>1, <1>2, ExitsStay
<1>10. OpenedIsBacked' /\ OpenedTabHasShell'
  BY <1>1, <1>8, <1>9, BackedKept, TabKept
<1> QED
  BY <1>5, <1>6, <1>7, <1>10 DEF IndInv

LEMMA ReceiveExitInv ==
    ASSUME IndInv, ReceiveExit
    PROVE  IndInv'
<1>1. /\ inbox \in Seq(Message) /\ inbox # <<>> /\ Head(inbox).kind = "exit"
      /\ view \in ViewRecord /\ loop \in [Loop -> LoopRecord] /\ pty \in BOOLEAN
      /\ HearExit /\ inbox' = Tail(inbox) /\ UNCHANGED <<pty, stored, channel, link>>
  BY DEF IndInv, TypeOK, ReceiveExit
<1>2. inbox' \in Seq(Message)
  BY <1>1, TailFacts
<1>3. OneRuns(view, pty, loop)
  BY DEF IndInv, OneOpener, OneRuns, Running
<1>4. /\ view' \in ViewRecord /\ loop' \in [Loop -> LoopRecord]
      /\ OneRuns(view', pty, loop')
      /\ \A m \in Loop : loop[m].phase = "calling" => loop'[m].phase = "calling"
  <2>1. CASE view.mounted /\ ~view.ended
    <3> DEFINE v == [view EXCEPT !.ended = TRUE]
    <3>1. Rerun(v, pty)
      BY <1>1, <2>1 DEF HearExit
    <3>2. v \in ViewRecord
      BY <1>1 DEF ViewRecord
    <3> HIDE DEF v
    <3> QED
      BY <1>1, <3>1, <3>2, RerunFacts
  <2>2. CASE ~(view.mounted /\ ~view.ended)
    <3>1. UNCHANGED <<view, loop>>
      BY <1>1, <2>2 DEF HearExit
    <3> QED
      BY <1>1, <1>3, <3>1
  <2> QED
    BY <2>1, <2>2
<1>5. TypeOK' /\ StoredIsLive'
  <2>1. tab' \in {"shown", "ended", "closed"} /\ missed' \in BOOLEAN
    BY <1>1 DEF HearExit, IndInv, TypeOK
  <2> QED
    BY <1>1, <1>2, <1>4, <2>1 DEF IndInv, TypeOK, StoredIsLive
<1>6. OneOpener'
  BY <1>1, <1>4 DEF OneRuns, OneOpener, Running
<1>7. Awaited'
  BY <1>1, <1>4, AwaitedTail
<1>8. OpenedIsBacked'
  BY <1>1, BackedKept DEF ShellLeft
<1>9. OpenedTabHasShell'
  <2>1. CASE view.mounted
    BY <1>1, <2>1 DEF HearExit, OpenedTabHasShell
  <2>2. CASE ~view.mounted
    BY <1>1, <2>2 DEF HearExit, OpenedTabHasShell
  <2> QED
    BY <2>1, <2>2
<1> QED
  BY <1>5, <1>6, <1>7, <1>8, <1>9 DEF IndInv

-----------------------------------------------------------------------------
(***************************************************************************)
(* The user and the connection.                                            *)
(***************************************************************************)
\* The effect ran again, for a new prop or state of the view.
LEMMA RerunInv ==
    ASSUME IndInv, NEW v \in ViewRecord, Rerun(v, pty),
           UNCHANGED <<tab, pty, stored, channel, inbox, link, missed>>
    PROVE  IndInv'
<1>1. tab \in {"shown", "ended", "closed"} /\ pty \in BOOLEAN
  BY DEF IndInv, TypeOK
<1> QED
  BY <1>1, RerunFacts, ViewOnlyInv

LEMMA UserInv ==
    ASSUME IndInv, SelectTab \/ SeeLink \/ Unmount \/ Mount
    PROVE  IndInv'
<1>1. view \in ViewRecord
  BY DEF IndInv, TypeOK
<1>2. CASE SelectTab
  <2>1. [view EXCEPT !.active = ~@] \in ViewRecord
    BY <1>1 DEF ViewRecord
  <2> QED
    BY <1>2, <2>1, RerunInv DEF SelectTab
<1>3. CASE SeeLink
  <2>1. [view EXCEPT !.connected = ~@] \in ViewRecord
    BY <1>1 DEF ViewRecord
  <2> QED
    BY <1>3, <2>1, RerunInv DEF SeeLink
<1>4. CASE Unmount
  <2>1. [view EXCEPT !.mounted = FALSE, !.error = FALSE] \in ViewRecord
    BY <1>1 DEF ViewRecord
  <2> QED
    BY <1>4, <2>1, RerunInv DEF Unmount
<1>5. CASE Mount
  <2>1. [view EXCEPT !.mounted = TRUE, !.ended = FALSE, !.connected = link = "up"]
            \in ViewRecord
    BY <1>1 DEF ViewRecord
  <2> QED
    BY <1>5, <2>1, RerunInv DEF Mount
<1> QED
  BY <1>2, <1>3, <1>4, <1>5

LEMMA CloseTabInv ==
    ASSUME IndInv, CloseTab
    PROVE  IndInv'
<1> DEFINE v == [view EXCEPT !.mounted = FALSE, !.error = FALSE]
<1>1. /\ MainClose /\ tab' = "closed" /\ pty' = FALSE /\ Rerun(v, FALSE)
      /\ UNCHANGED <<inbox, link, missed>>
  BY DEF CloseTab
<1>2. v \in ViewRecord
  BY DEF IndInv, TypeOK, ViewRecord
<1> HIDE DEF v
<1>3. /\ view' \in ViewRecord /\ loop' \in [Loop -> LoopRecord]
      /\ OneRuns(view', FALSE, loop')
      /\ \A m \in Loop : loop[m].phase = "calling" => loop'[m].phase = "calling"
  BY <1>1, <1>2, RerunFacts
<1>4. TypeOK' /\ StoredIsLive'
  BY <1>1, <1>3, MainCloseFacts DEF IndInv, TypeOK, StoredIsLive
<1>5. OneOpener'
  BY <1>1, <1>3 DEF OneRuns, OneOpener, Running
<1>6. Awaited'
  BY <1>1, <1>3, MainCloseFacts, AwaitedSame
<1>7. OpenedIsBacked'
  BY <1>1, MainCloseFacts, BackedKept
<1>8. OpenedTabHasShell'
  BY <1>1 DEF OpenedTabHasShell
<1> QED
  BY <1>4, <1>5, <1>6, <1>7, <1>8 DEF IndInv

LEMMA OutputInv ==
    ASSUME IndInv, NEW c \in Channel, Output(c)
    PROVE  IndInv'
<1>1. /\ view \in ViewRecord /\ loop \in [Loop -> LoopRecord]
      /\ tab \in {"shown", "ended", "closed"} /\ OneRuns(view, pty, loop)
      /\ view' = [view EXCEPT !.error = FALSE]
      /\ UNCHANGED <<tab, pty, loop, stored, channel, inbox, link, missed>>
  BY DEF IndInv, TypeOK, OneOpener, OneRuns, Running, Output
<1>2. view' \in ViewRecord /\ Eligible(view', pty) = Eligible(view, pty)
  BY <1>1 DEF ViewRecord, Eligible
<1>3. OneRuns(view', pty, loop')
  BY <1>1, <1>2 DEF OneRuns
<1> QED
  BY <1>1, <1>2, <1>3, ViewOnlyInv

\* Connect and Drop change the connection only; nothing here looks at it.
LEMMA LinkInv ==
    ASSUME IndInv, UNCHANGED <<tab, view, pty, loop, stored, channel, inbox, missed>>,
           link' \in {"gone", "up", "down"}
    PROVE  IndInv'
<1>1. TypeOK' /\ StoredIsLive' /\ OneOpener'
  BY DEF IndInv, TypeOK, StoredIsLive, OneOpener, Running, Eligible
<1>2. Awaited'
  BY DEF IndInv, Awaited
<1>3. OpenedIsBacked' /\ OpenedTabHasShell'
  BY DEF IndInv, OpenedIsBacked, OpenedTabHasShell, ShellLeft
<1> QED
  BY <1>1, <1>2, <1>3 DEF IndInv

-----------------------------------------------------------------------------
(***************************************************************************)
(* The theorems.                                                           *)
(***************************************************************************)
LEMMA InitInv == Init => IndInv
<1> SUFFICES ASSUME Init PROVE IndInv
  OBVIOUS
<1> DEFINE first == [phase |-> "measuring", attempt |-> 1, cancelled |-> FALSE]
<1>1. PICK l \in Loop : loop = [m \in Loop |-> IF m = l THEN first ELSE NoLoop]
  BY DEF Init
<1>2. /\ first \in LoopRecord /\ NoLoop \in LoopRecord /\ NoLoop.phase = "free"
      /\ NoChannel \in ChannelRecord /\ NoChannel.phase = "free"
  BY AttemptsAssumption DEF LoopRecord, NoLoop, ChannelRecord, NoChannel
<1> HIDE DEF first
<1>3. loop \in [Loop -> LoopRecord] /\ \A m \in Loop : m # l => loop[m].phase = "free"
  BY <1>1, <1>2
<1>4. TypeOK
  <2>1. view \in ViewRecord
    BY DEF Init, ViewRecord
  <2>2. channel \in [Channel -> ChannelRecord]
    BY <1>2 DEF Init
  <2>3. inbox \in Seq(Message)
    BY DEF Init
  <2>4. /\ tab \in {"shown", "ended", "closed"} /\ pty \in BOOLEAN /\ missed \in BOOLEAN
        /\ stored \in Channel \cup {None} /\ link \in {"gone", "up", "down"}
    BY DEF Init
  <2> QED
    BY <1>3, <2>1, <2>2, <2>3, <2>4 DEF TypeOK
<1>5. StoredIsLive /\ OpenedTabHasShell
  BY DEF Init, StoredIsLive, OpenedTabHasShell
<1>6. OneOpener
  BY <1>3 DEF Init, OneOpener, Running, Eligible
<1>7. DOMAIN inbox = {} /\ \A c \in Channel : channel[c].phase = "free"
  BY <1>2 DEF Init
<1>8. Awaited /\ OpenedIsBacked
  BY <1>7 DEF Awaited, OpenedIsBacked
<1> QED
  BY <1>4, <1>5, <1>6, <1>8 DEF IndInv

LEMMA StepInv == IndInv /\ [Next]_vars => IndInv'
<1> SUFFICES ASSUME IndInv, [Next]_vars
             PROVE  IndInv'
  OBVIOUS
<1>1. ASSUME NEW l \in Loop, Call(l) \/ NoSize(l)
      PROVE  IndInv'
  BY <1>1, CallInv, NoSizeInv
<1>2. ASSUME NEW c \in Channel, OpenSucceeds(c) \/ OpenFails(c) \/ Closed(c) \/ Output(c)
      PROVE  IndInv'
  BY <1>2, OpenSucceedsInv, OpenFailsInv, ClosedInv, OutputInv
<1>3. CASE Receive
  BY <1>3, ReceiveOpenedInv, ReceiveFailedInv, ReceiveExitInv DEF Receive
<1>4. CASE SelectTab \/ SeeLink \/ Unmount \/ Mount \/ CloseTab
  BY <1>4, UserInv, CloseTabInv
<1>5. CASE Teardown
  BY <1>5, TeardownInv
<1>6. CASE Connect \/ Drop
  BY <1>6, LinkInv DEF Connect, Drop
<1>7. CASE UNCHANGED vars
  <2>1. link' \in {"gone", "up", "down"}
    BY <1>7 DEF vars, IndInv, TypeOK
  <2> QED
    BY <1>7, <2>1, LinkInv DEF vars
<1> QED
  BY <1>1, <1>2, <1>3, <1>4, <1>5, <1>6, <1>7 DEF Next

\* The inductive invariant holds in every state.
THEOREM Invariance == Spec => []IndInv
<1>1. Init => IndInv
  BY InitInv
<1>2. IndInv /\ [Next]_vars => IndInv'
  BY StepInv
<1> QED
  BY <1>1, <1>2, PTL DEF Spec

\* The variables keep their types: a run makes at most OPEN_MAX_ATTEMPTS attempts, and
\* only one whose call is under way is still cancelled.
THEOREM TerminalTypeCorrect == Spec => []TypeOK
<1>1. IndInv => TypeOK
  BY DEF IndInv
<1> QED
  BY <1>1, Invariance, PTL

\* What write, resize and close find under the key is an open stream, however opens,
\* closes, exits and teardowns overlap.
THEOREM StoredStreamsAreLive == Spec => []StoredIsLive
<1>1. IndInv => StoredIsLive
  BY DEF IndInv
<1> QED
  BY <1>1, Invariance, PTL

\* At most one run of openSession goes on, for a tab that wants a shell.
THEOREM OneOpenerHolds == Spec => []OneOpener
<1>1. IndInv => OneOpener
  BY DEF IndInv
<1> QED
  BY <1>1, Invariance, PTL

\* A tab taken for open has a shell, or the news of its end is on the way or was missed.
THEOREM OpenTabsHaveShells == Spec => []OpenedTabHasShell
<1>1. IndInv => OpenedTabHasShell
  BY DEF IndInv
<1> QED
  BY <1>1, Invariance, PTL
===============================================================================
