------------------------------ MODULE LogService ------------------------------
(***************************************************************************)
(* The log stream of one server: LogService.ts of the main process and the *)
(* useLogs hook that drives it from the Logs tool.                         *)
(*                                                                         *)
(* start, stop and setFilters run to their first await at once; a spawn    *)
(* then waits for a client and a channel while other calls replace its     *)
(* session or its stream.  streamGeneration tells a channel whether it is  *)
(* still wanted.  The code only ever compares it with the generation the   *)
(* spawn took, so a channel carries the result (valid): to increase the    *)
(* generation of a session is to make its channels invalid.                *)
(*                                                                         *)
(* Entries are told apart by the query that produced them.  The channels   *)
(* between the two processes are ordered, so a status or a batch counts as *)
(* shown when it is sent.                                                  *)
(***************************************************************************)
CONSTANTS
    Session,     \* slots for ServerLogSession objects
    Channel,     \* slots for spawns and the channels they open
    Query,       \* filters the user can choose
    Recent,      \* those whose mode is 'recent'; the others follow the journal
    None         \* the null of the code

ASSUME RecentAssumption == Recent \subseteq Query
ASSUME NoneAssumption == None \notin Session \cup Channel

VARIABLES
    current,     \* sessions.get(serverId)
    session,     \* the fields of each session object
    channel,     \* what each spawn or channel is doing
    link,        \* ConnectionManager's connection: "gone", "up", or "down" after a teardown
    tool         \* what the Logs tool knows and shows

vars == <<current, session, channel, link, tool>>

Status == {"idle", "streaming", "unavailable", "error"}

SessionRecord == [status : Status, stream : Channel \cup {None}, query : Query,
                  pending : SUBSET Query]

\* by: the call that spawned the channel and continues once it is open.
\* "restart" is the start that setFilters makes for want of a session.
ChannelRecord == [phase : {"free", "opening", "open", "closing"},
                  session : Session \cup {None}, query : Query \cup {None},
                  valid : BOOLEAN, by : {"start", "restart", "setFilters"}]

FreeChannel == [phase |-> "free", session |-> None, query |-> None, valid |-> FALSE,
                by |-> "start"]

ToolRecord == [connected : BOOLEAN, status : Status, query : Query,
               entries : SUBSET Query]

\* A slot can stand for a new object once nothing refers to the old one.
Unused(s) ==
    /\ s # current
    /\ \A c \in Channel : channel[c].session # s

(***************************************************************************)
(* stopStream and spawnStream.                                             *)
(***************************************************************************)
\* (mutant) stopStream without the increment of streamGeneration.
StoppedButWanted(ch, s) ==
    [c \in Channel |->
        IF c = session[s].stream THEN [ch[c] EXCEPT !.phase = "closing"] ELSE ch[c]]

Stopped(ch, s) ==
    [c \in Channel |->
        [ch[c] EXCEPT !.valid = @ /\ ch[c].session # s,
                      !.phase = IF c = session[s].stream THEN "closing" ELSE @]]

\* Without a connection spawnStream throws before it asks for a channel.
Spawned(ch, s, query, by) ==
    IF link # "gone"
    THEN {[ch EXCEPT ![c] = [phase |-> "opening", session |-> s, query |-> query,
                             valid |-> TRUE, by |-> by]] :
             c \in {free \in Channel : channel[free].phase = "free"}}
    ELSE {ch}

(***************************************************************************)
(* stop, start and setFilters, on the tool record l.                       *)
(***************************************************************************)
Torn == [session EXCEPT ![current].stream = None, ![current].pending = {},
                        ![current].status = "idle"]

StopFrom(l) ==
    IF current = None
    THEN tool' = l /\ UNCHANGED <<current, session, channel>>
    ELSE /\ channel' = Stopped(channel, current)
         /\ session' = Torn
         /\ current' = None
         /\ tool' = [l EXCEPT !.status = "idle"]

StartFrom(l, query, by) ==
    \E s \in Session :
        /\ Unused(s)
        /\ current' = s
        /\ session' = [IF current = None THEN session ELSE Torn EXCEPT
                          ![s] = [status |-> "streaming", stream |-> None,
                                  query |-> query, pending |-> {}]]
        /\ channel' \in Spawned(IF current = None THEN channel
                                ELSE Stopped(channel, current), s, query, by)
        /\ tool' = [l EXCEPT !.entries = {}, !.status = "streaming"]

\* (mutant) setFilters keeps the entries that wait for the batch timer.
RefilterKeepingPending(query) ==
    /\ session' = [session EXCEPT ![current].query = query,
                                  ![current].stream = None]
    /\ channel' \in Spawned(Stopped(channel, current), current, query, "setFilters")

Refilter(query) ==
    /\ session' = [session EXCEPT ![current].query = query,
                                  ![current].pending = {},
                                  ![current].stream = None]
    /\ channel' \in Spawned(Stopped(channel, current), current, query, "setFilters")

(***************************************************************************)
(* The hook: useEffect on isConnected, setQuery and refresh.               *)
(***************************************************************************)
\* The tool learns that the server is connected, and starts the stream.
SeeConnected ==
    /\ ~tool.connected /\ link = "up"
    /\ StartFrom([tool EXCEPT !.connected = TRUE], tool.query, "start")
    /\ UNCHANGED link

\* The tool learns that it no longer is.
SeeLost ==
    /\ tool.connected /\ link # "up"
    /\ StopFrom([tool EXCEPT !.connected = FALSE])
    /\ UNCHANGED link

\* The tool is left and opened again: the effects call logs.stop, and start a
\* new stream when the server is still connected.
Reopen ==
    /\ \E query \in Query :
        LET new == [tool EXCEPT !.status = "idle", !.query = query, !.entries = {}]
        IN  IF tool.connected THEN StartFrom(new, query, "start") ELSE StopFrom(new)
    /\ UNCHANGED link

\* setQuery and refresh; the rejection of logs.setFilters is not caught.
ChooseQuery(query) ==
    /\ LET l == [tool EXCEPT !.query = query, !.entries = {}]
       IN  IF ~tool.connected
           THEN tool' = l /\ UNCHANGED <<current, session, channel>>
           ELSE IF current = None
           THEN StartFrom(l, query, "restart")
           ELSE tool' = l /\ Refilter(query) /\ UNCHANGED current
    /\ UNCHANGED link

(***************************************************************************)
(* A spawn settles.  It may wait for a client that is dialed while the     *)
(* connection goes away, so it can succeed at any time.                    *)
(***************************************************************************)
\* (mutant) The check of streamGeneration after the await is gone.
AlwaysWanted(c) == TRUE

Wanted(c) == channel[c].valid

\* (mutant) setFilters does not set the status after its await.
OpenSilently(c) ==
    /\ channel[c].phase = "opening"
    /\ channel' = [channel EXCEPT ![c].phase = IF Wanted(c) THEN "open" ELSE "closing"]
    /\ session' = IF Wanted(c) THEN [session EXCEPT ![channel[c].session].stream = c]
                  ELSE session
    /\ UNCHANGED <<current, link, tool>>

OpenSucceeds(c) ==
    /\ channel[c].phase = "opening"
    /\ channel' = [channel EXCEPT ![c].phase = IF Wanted(c) THEN "open" ELSE "closing"]
    /\ LET s == channel[c].session
           opened == IF Wanted(c) THEN [session EXCEPT ![s].stream = c] ELSE session
       IN  IF channel[c].by = "setFilters"
           THEN /\ session' = [opened EXCEPT ![s].status = "streaming"]
                /\ tool' = [tool EXCEPT !.status = "streaming"]
           ELSE session' = opened /\ UNCHANGED tool
    /\ UNCHANGED <<current, link>>

OpenFails(c) ==
    /\ channel[c].phase = "opening"
    /\ channel' = [channel EXCEPT ![c] = FreeChannel]
    /\ tool' = IF channel[c].by = "start" THEN [tool EXCEPT !.status = "error"] ELSE tool
    /\ UNCHANGED <<current, session, link>>

(***************************************************************************)
(* Events of an open channel, and the batch timer.                         *)
(***************************************************************************)
Data(c) ==
    /\ channel[c].phase \in {"open", "closing"}
    /\ channel[c].valid
    /\ session' = [session EXCEPT ![channel[c].session].pending = @ \cup {channel[c].query}]
    /\ UNCHANGED <<current, channel, link, tool>>

Flush(s) ==
    /\ s = current
    /\ session[s].pending # {}
    /\ tool' = [tool EXCEPT !.entries = @ \cup session[s].pending]
    /\ session' = [session EXCEPT ![s].pending = {}]
    /\ UNCHANGED <<current, channel, link>>

\* The status after the 'close' of the stream of s: journalctl may have been
\* refused, have failed, or have exited with code 0 or none.
AfterClose(s) ==
    IF session[s].status = "idle" THEN {"idle"}
    ELSE {"unavailable", "error",
          IF session[s].query \in Recent THEN "idle"
          ELSE IF session[s].status = "streaming" THEN "error"
          ELSE session[s].status}

Closed(c) ==
    /\ channel[c].phase \in {"open", "closing"}
    /\ channel' = [channel EXCEPT ![c] = FreeChannel]
    /\ IF channel[c].valid
       THEN LET s == channel[c].session
            IN  \E status \in AfterClose(s) :
                /\ session' = [session EXCEPT ![s].stream = None, ![s].pending = {},
                                              ![s].status = status]
                /\ tool' = [tool EXCEPT !.entries = @ \cup session[s].pending,
                                        !.status = IF status = "idle" /\ session[s].status = "idle"
                                                   THEN @ ELSE status]
       ELSE UNCHANGED <<session, tool>>
    /\ UNCHANGED <<current, link>>

(***************************************************************************)
(* The connection, as LogService sees it.                                  *)
(***************************************************************************)
Connect ==
    /\ link # "up" /\ link' = "up"
    /\ UNCHANGED <<current, session, channel, tool>>

\* connectionLost, or the first half of ConnectionManager.disconnect.
Teardown == link # "gone" /\ link' = "down" /\ StopFrom(tool)

\* The second half: the object leaves the map.
Drop ==
    /\ link = "down" /\ link' = "gone"
    /\ UNCHANGED <<current, session, channel, tool>>

(***************************************************************************)
(* Specification.                                                          *)
(***************************************************************************)
Init ==
    /\ current = None
    /\ \E query \in Query :
        /\ session = [s \in Session |-> [status |-> "idle", stream |-> None,
                                         query |-> query, pending |-> {}]]
        /\ channel = [c \in Channel |-> FreeChannel]
        /\ tool = [connected |-> FALSE, status |-> "idle", query |-> query, entries |-> {}]
    /\ link = "gone"

Next ==
    \/ SeeConnected
    \/ SeeLost
    \/ Reopen
    \/ \E query \in Query : ChooseQuery(query)
    \/ \E c \in Channel : OpenSucceeds(c) \/ OpenFails(c) \/ Data(c) \/ Closed(c)
    \/ \E s \in Session : Flush(s)
    \/ Connect
    \/ Teardown
    \/ Drop

Spec == Init /\ [][Next]_vars

(***************************************************************************)
(* Properties.                                                             *)
(***************************************************************************)
\* Every variable keeps its type, and a wanted channel belongs to a session
\* that no later call has replaced.
TypeOK ==
    /\ current \in Session \cup {None}
    /\ session \in [Session -> SessionRecord]
    /\ channel \in [Channel -> ChannelRecord]
    /\ link \in {"gone", "up", "down"}
    /\ tool \in ToolRecord
    /\ \A c \in Channel : channel[c].valid => channel[c].session = current

\* No journalctl is left running behind the user's back: a channel that is
\* open and has not been told to close is the stream of the server's session
\* (stopStream, and the check of streamGeneration after the await).
NoOrphanChannel ==
    \A c \in Channel :
        channel[c].phase = "open" => current # None /\ session[current].stream = c

\* The entries on display answer the query on display, whatever channels of
\* earlier queries are still open or opening (setFilters, start, stop).
EntriesMatchQuery == tool.entries \subseteq {tool.query}

\* A session with an open stream is streaming: no channel it has given up can
\* report an end to it (the check of streamGeneration in the close handler).
OpenStreamIsStreaming ==
    current # None =>
        LET c == session[current].stream
        IN  c # None /\ channel[c].phase = "open" => session[current].status = "streaming"
===============================================================================
