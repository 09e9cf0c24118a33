--------------------------- MODULE LogServiceProofs ---------------------------
(***************************************************************************)
(* Safety of the log streams for any number of sessions, channels and      *)
(* queries.  The strengthening says what streamGeneration achieves: at     *)
(* most one channel is wanted, it belongs to the session the server has    *)
(* and asks for the query on display (Wanting), and the session's stream   *)
(* is that channel once it is open (Streaming).                            *)
(***************************************************************************)
EXTENDS LogService, TLAPS

Wanting ==
    /\ \A c, d \in Channel : channel[c].valid /\ channel[d].valid => c = d
    /\ \A c \in Channel : channel[c].valid =>
         /\ channel[c].phase \in {"opening", "open"}
         /\ channel[c].session \in Session
         /\ channel[c].query = tool.query
         /\ channel[c].phase = "opening" /\ channel[c].by # "setFilters" =>
              session[current].status = "streaming"

Streaming ==
    /\ \A c \in Channel : channel[c].phase = "open" => channel[c].valid
    /\ current # None =>
         /\ tool.connected
         /\ session[current].query = tool.query
         /\ session[current].pending \subseteq {tool.query}
         /\ session[current].stream # None =>
              channel[session[current].stream].phase = "open"

IndInv ==
    /\ TypeOK
    /\ Wanting
    /\ Streaming
    /\ NoOrphanChannel
    /\ EntriesMatchQuery
    /\ OpenStreamIsStreaming

\* No channel of ch is open or wanted.
Quiet(ch) ==
    /\ ch \in [Channel -> ChannelRecord]
    /\ \A c \in Channel : ~ch[c].valid /\ ch[c].phase # "open"

Caller == {"start", "restart", "setFilters"}

-----------------------------------------------------------------------------
(***************************************************************************)
(* stopStream and spawnStream.                                             *)
(***************************************************************************)
\* Without a session nothing is wanted.
LEMMA NoSessionIsQuiet ==
    ASSUME IndInv, current = None
    PROVE  Quiet(channel)
BY NoneAssumption DEF IndInv, TypeOK, Wanting, Streaming, Quiet

\* stopStream leaves nothing open and nothing wanted.
LEMMA StoppedIsQuiet ==
    ASSUME IndInv, current # None
    PROVE  Quiet(Stopped(channel, current))
<1> DEFINE ch == Stopped(channel, current)
<1>1. channel \in [Channel -> ChannelRecord]
  BY DEF IndInv, TypeOK
<1>2. ASSUME NEW c \in Channel
      PROVE  ch[c] \in ChannelRecord /\ ~ch[c].valid /\ ch[c].phase # "open"
  <2>1. /\ ch[c].valid = (channel[c].valid /\ channel[c].session # current)
        /\ ch[c].phase = IF c = session[current].stream THEN "closing" ELSE channel[c].phase
        /\ ch[c] \in ChannelRecord
    BY <1>1 DEF Stopped, ChannelRecord
  <2>2. channel[c].valid => channel[c].session = current
    BY DEF IndInv, TypeOK
  <2>3. channel[c].phase = "open" => c = session[current].stream
    BY DEF IndInv, NoOrphanChannel
  <2> QED
    BY <2>1, <2>2, <2>3
<1>3. ch \in [Channel -> ChannelRecord]
  BY <1>2 DEF Stopped
<1> QED
  BY <1>2, <1>3 DEF Quiet

\* spawnStream adds at most one wanted channel, which is not open yet.
LEMMA SpawnedFacts ==
    ASSUME NEW ch, Quiet(ch), NEW s \in Session, NEW query \in Query, NEW by \in Caller,
           NEW new \in Spawned(ch, s, query, by)
    PROVE  /\ new \in [Channel -> ChannelRecord]
           /\ \A c \in Channel : new[c].phase # "open"
           /\ \A c \in Channel : new[c].valid =>
                new[c].phase = "opening" /\ new[c].session = s /\ new[c].query = query
                /\ new[c].by = by
           /\ \A c, d \in Channel : new[c].valid /\ new[d].valid => c = d
<1> DEFINE spawn == [phase |-> "opening", session |-> s, query |-> query,
                     valid |-> TRUE, by |-> by]
<1>1. CASE new = ch
  BY <1>1 DEF Quiet
<1>2. ASSUME NEW c \in Channel, new = [ch EXCEPT ![c] = spawn]
      PROVE  /\ new \in [Channel -> ChannelRecord]
             /\ new[c] = spawn
             /\ \A d \in Channel : d # c => ~new[d].valid /\ new[d].phase # "open"
  <2>1. spawn \in ChannelRecord
    BY DEF ChannelRecord, Caller
  <2> HIDE DEF spawn
  <2> QED
    BY <1>2, <2>1 DEF Quiet
<1>3. CASE \E c \in Channel : new = [ch EXCEPT ![c] = spawn]
  <2>1. PICK c \in Channel : new = [ch EXCEPT ![c] = spawn]
    BY <1>3
  <2>2. /\ new \in [Channel -> ChannelRecord]
        /\ new[c] = spawn
        /\ \A d \in Channel : d # c => ~new[d].valid /\ new[d].phase # "open"
    BY <1>2, <2>1
  <2>3. /\ spawn.phase = "opening" /\ spawn.session = s /\ spawn.query = query
        /\ spawn.by = by /\ spawn.valid
    OBVIOUS
  <2> HIDE DEF spawn
  <2> QED
    BY <2>2, <2>3
<1> QED
  BY <1>1, <1>3 DEF Spawned

\* The session of a stop is torn down, the others keep their fields.
LEMMA TornFacts ==
    ASSUME IndInv, current # None
    PROVE  Torn \in [Session -> SessionRecord]
<1>1. session \in [Session -> SessionRecord]
  BY DEF IndInv, TypeOK
<1> QED
  BY <1>1 DEF Torn, SessionRecord, Status

-----------------------------------------------------------------------------
(***************************************************************************)
(* stop, start and setFilters.                                             *)
(***************************************************************************)
LEMMA StopFromInv ==
    ASSUME IndInv, NEW l \in ToolRecord, l.entries \subseteq {l.query}, StopFrom(l),
           link' \in {"gone", "up", "down"}
    PROVE  IndInv'
<1>1. /\ current' = None /\ Quiet(channel') /\ session' \in [Session -> SessionRecord]
      /\ tool' \in ToolRecord /\ tool'.entries \subseteq {tool'.query}
  <2>1. CASE current = None
    <3>1. session \in [Session -> SessionRecord]
      BY DEF IndInv, TypeOK
    <3> QED
      BY <2>1, <3>1, NoSessionIsQuiet DEF StopFrom
  <2>2. CASE current # None
    <3>1. tool' = [l EXCEPT !.status = "idle"]
      BY <2>2 DEF StopFrom
    <3>2. tool' \in ToolRecord /\ tool'.entries = l.entries /\ tool'.query = l.query
      BY <3>1 DEF ToolRecord, Status
    <3> QED
      BY <2>2, <3>2, StoppedIsQuiet, TornFacts DEF StopFrom
  <2> QED
    BY <2>1, <2>2
<1>2. TypeOK'
  BY <1>1 DEF TypeOK, Quiet
<1>3. Wanting' /\ Streaming' /\ NoOrphanChannel' /\ OpenStreamIsStreaming'
  BY <1>1 DEF Wanting, Streaming, NoOrphanChannel, OpenStreamIsStreaming, Quiet
<1>4. EntriesMatchQuery'
  BY <1>1 DEF EntriesMatchQuery
<1> QED
  BY <1>2, <1>3, <1>4 DEF IndInv

LEMMA StartFromInv ==
    ASSUME IndInv, NEW l \in ToolRecord, l.connected, NEW by \in Caller,
           StartFrom(l, l.query, by), link' \in {"gone", "up", "down"}
    PROVE  IndInv'
<1> DEFINE fresh == [status |-> "streaming", stream |-> None, query |-> l.query,
                     pending |-> {}]
<1>1. l.query \in Query
  BY DEF ToolRecord
<1>2. PICK s \in Session :
        /\ current' = s
        /\ session' = [IF current = None THEN session ELSE Torn EXCEPT ![s] = fresh]
        /\ channel' \in Spawned(IF current = None THEN channel
                                ELSE Stopped(channel, current), s, l.query, by)
        /\ tool' = [l EXCEPT !.entries = {}, !.status = "streaming"]
  BY DEF StartFrom
<1>3. /\ channel' \in [Channel -> ChannelRecord]
      /\ \A c \in Channel : channel'[c].phase # "open"
      /\ \A c \in Channel : channel'[c].valid =>
           channel'[c].phase = "opening" /\ channel'[c].session = s
           /\ channel'[c].query = l.query /\ channel'[c].by = by
      /\ \A c, d \in Channel : channel'[c].valid /\ channel'[d].valid => c = d
  <2>1. CASE current = None
    BY <1>1, <1>2, <2>1, NoSessionIsQuiet, SpawnedFacts
  <2>2. CASE current # None
    BY <1>1, <1>2, <2>2, StoppedIsQuiet, SpawnedFacts
  <2> QED
    BY <2>1, <2>2
<1>4. /\ session' \in [Session -> SessionRecord] /\ session'[s] = fresh
  <2>1. fresh \in SessionRecord
    BY <1>1 DEF SessionRecord, Status
  <2>2. session \in [Session -> SessionRecord]
    BY DEF IndInv, TypeOK
  <2>3. current # None => Torn \in [Session -> SessionRecord]
    BY TornFacts
  <2> HIDE DEF fresh
  <2> QED
    BY <1>2, <2>1, <2>2, <2>3
<1>5. /\ tool' \in ToolRecord /\ tool'.connected /\ tool'.query = l.query
      /\ tool'.entries = {}
  BY <1>2 DEF ToolRecord, Status
<1>6. /\ session'[s].status = "streaming" /\ session'[s].stream = None
      /\ session'[s].query = l.query /\ session'[s].pending = {}
  BY <1>4
<1>7. s # None /\ current' = s
  BY <1>2, NoneAssumption
<1> HIDE DEF fresh
<1>8. TypeOK'
  BY <1>3, <1>4, <1>5, <1>7 DEF TypeOK
<1>9. Wanting'
  BY <1>3, <1>5, <1>6, <1>7 DEF Wanting
<1>10. Streaming' /\ NoOrphanChannel' /\ EntriesMatchQuery' /\ OpenStreamIsStreaming'
  BY <1>3, <1>5, <1>6, <1>7
     DEF Streaming, NoOrphanChannel, EntriesMatchQuery, OpenStreamIsStreaming
<1> QED
  BY <1>8, <1>9, <1>10 DEF IndInv

LEMMA RefilterInv ==
    ASSUME IndInv, current # None, NEW query \in Query, Refilter(query),
           tool' = [tool EXCEPT !.query = query, !.entries = {}],
           UNCHANGED <<current, link>>
    PROVE  IndInv'
<1>1. /\ session \in [Session -> SessionRecord] /\ tool \in ToolRecord
      /\ current \in Session /\ tool.connected /\ current # None
  BY DEF IndInv, TypeOK, Streaming
<1>2. /\ channel' \in [Channel -> ChannelRecord]
      /\ \A c \in Channel : channel'[c].phase # "open"
      /\ \A c \in Channel : channel'[c].valid =>
           channel'[c].phase = "opening" /\ channel'[c].session = current
           /\ channel'[c].query = query /\ channel'[c].by = "setFilters"
      /\ \A c, d \in Channel : channel'[c].valid /\ channel'[d].valid => c = d
  BY <1>1, StoppedIsQuiet, SpawnedFacts DEF Refilter, Caller
<1>3. /\ session' \in [Session -> SessionRecord]
      /\ session'[current].query = query /\ session'[current].pending = {}
      /\ session'[current].stream = None
  BY <1>1 DEF Refilter, SessionRecord
<1>4. /\ tool' \in ToolRecord /\ tool'.connected /\ tool'.query = query
      /\ tool'.entries = {}
  BY <1>1 DEF ToolRecord
<1>5. TypeOK'
  BY <1>2, <1>3, <1>4 DEF IndInv, TypeOK
<1>6. Wanting'
  BY <1>1, <1>2, <1>4 DEF Wanting
<1>7. Streaming' /\ NoOrphanChannel' /\ EntriesMatchQuery' /\ OpenStreamIsStreaming'
  BY <1>1, <1>2, <1>3, <1>4
     DEF Streaming, NoOrphanChannel, EntriesMatchQuery, OpenStreamIsStreaming
<1> QED
  BY <1>5, <1>6, <1>7 DEF IndInv

-----------------------------------------------------------------------------
(***************************************************************************)
(* The hook.                                                               *)
(***************************************************************************)
LEMMA SeeConnectedInv ==
    ASSUME IndInv, SeeConnected
    PROVE  IndInv'
<1> DEFINE l == [tool EXCEPT !.connected = TRUE]
<1>1. l \in ToolRecord /\ l.connected /\ l.query = tool.query
  BY DEF IndInv, TypeOK, ToolRecord
<1>2. link' \in {"gone", "up", "down"}
  BY DEF IndInv, TypeOK, SeeConnected
<1>3. StartFrom(l, l.query, "start")
  BY <1>1 DEF SeeConnected
<1> QED
  BY <1>1, <1>2, <1>3, StartFromInv DEF Caller

LEMMA SeeLostInv ==
    ASSUME IndInv, SeeLost
    PROVE  IndInv'
<1> DEFINE l == [tool EXCEPT !.connected = FALSE]
<1>1. l \in ToolRecord /\ l.query = tool.query /\ l.entries = tool.entries
  BY DEF IndInv, TypeOK, ToolRecord
<1>2. link' \in {"gone", "up", "down"} /\ l.entries \subseteq {l.query}
  BY <1>1 DEF IndInv, TypeOK, EntriesMatchQuery, SeeLost
<1> QED
  BY <1>1, <1>2, StopFromInv DEF SeeLost

LEMMA ReopenInv ==
    ASSUME IndInv, Reopen
    PROVE  IndInv'
<1>1. PICK query \in Query :
        LET new == [tool EXCEPT !.status = "idle", !.query = query, !.entries = {}]
        IN  IF tool.connected THEN StartFrom(new, query, "start") ELSE StopFrom(new)
  BY DEF Reopen
<1> DEFINE l == [tool EXCEPT !.status = "idle", !.query = query, !.entries = {}]
<1>2. /\ l \in ToolRecord /\ l.query = query /\ l.entries = {}
      /\ l.connected = tool.connected
  BY DEF IndInv, TypeOK, ToolRecord, Status
<1>3. link' \in {"gone", "up", "down"}
  BY DEF IndInv, TypeOK, Reopen
<1>4. CASE tool.connected
  <2>1. StartFrom(l, l.query, "start")
    BY <1>1, <1>2, <1>4
  <2> QED
    BY <1>2, <1>3, <1>4, <2>1, StartFromInv DEF Caller
<1>5. CASE ~tool.connected
  BY <1>1, <1>2, <1>3, <1>5, StopFromInv
<1> QED
  BY <1>4, <1>5

LEMMA ChooseQueryInv ==
    ASSUME IndInv, NEW query \in Query, ChooseQuery(query)
    PROVE  IndInv'
<1> DEFINE l == [tool EXCEPT !.query = query, !.entries = {}]
<1>1. /\ l \in ToolRecord /\ l.query = query /\ l.entries = {}
      /\ l.connected = tool.connected
  BY DEF IndInv, TypeOK, ToolRecord
<1>2. link' \in {"gone", "up", "down"} /\ link' = link
  BY DEF IndInv, TypeOK, ChooseQuery
<1>3. CASE ~tool.connected
  <2>1. tool' = l /\ UNCHANGED <<current, session, channel>>
    BY <1>3 DEF ChooseQuery
  <2>2. current = None
    BY <1>3 DEF IndInv, Streaming
  <2>3. StopFrom(l)
    BY <2>1, <2>2 DEF StopFrom
  <2> QED
    BY <1>1, <1>2, <2>3, StopFromInv
<1>4. CASE tool.connected /\ current = None
  <2>1. StartFrom(l, l.query, "restart")
    BY <1>1, <1>4 DEF ChooseQuery
  <2> QED
    BY <1>1, <1>2, <1>4, <2>1, StartFromInv DEF Caller
<1>5. CASE tool.connected /\ current # None
  BY <1>2, <1>5, RefilterInv DEF ChooseQuery
<1> QED
  BY <1>3, <1>4, <1>5

-----------------------------------------------------------------------------
(***************************************************************************)
(* The channels.                                                           *)
(***************************************************************************)
\* A wanted channel belongs to the session the server has.
LEMMA WantedFacts ==
    ASSUME IndInv, NEW c \in Channel, channel[c].valid
    PROVE  /\ current \in Session /\ current # None /\ channel[c].session = current
           /\ channel[c].query = tool.query /\ channel[c].phase \in {"opening", "open"}
           /\ \A d \in Channel : channel[d].valid => d = c
BY NoneAssumption DEF IndInv, TypeOK, Wanting

LEMMA OpenSucceedsInv ==
    ASSUME IndInv, NEW c \in Channel, OpenSucceeds(c)
    PROVE  IndInv'
<1> DEFINE s == channel[c].session
<1>1. /\ channel \in [Channel -> ChannelRecord] /\ session \in [Session -> SessionRecord]
      /\ tool \in ToolRecord /\ channel[c].phase = "opening"
      /\ UNCHANGED <<current, link>>
  BY DEF IndInv, TypeOK, OpenSucceeds
<1>2. channel' = [channel EXCEPT ![c].phase = IF channel[c].valid THEN "open" ELSE "closing"]
  BY DEF OpenSucceeds, Wanted
<1>3. /\ channel' \in [Channel -> ChannelRecord]
      /\ \A d \in Channel : d # c => channel'[d] = channel[d]
      /\ channel'[c].valid = channel[c].valid /\ channel'[c].session = channel[c].session
      /\ channel'[c].query = channel[c].query /\ channel'[c].by = channel[c].by
      /\ channel'[c].phase = IF channel[c].valid THEN "open" ELSE "closing"
  BY <1>1, <1>2 DEF ChannelRecord
<1>4. /\ tool' \in ToolRecord /\ tool'.query = tool.query /\ tool'.entries = tool.entries
      /\ tool'.connected = tool.connected
  BY <1>1 DEF OpenSucceeds, ToolRecord, Status
<1> DEFINE opened == IF channel[c].valid THEN [session EXCEPT ![s].stream = c] ELSE session
<1>5. session' = IF channel[c].by = "setFilters" THEN [opened EXCEPT ![s].status = "streaming"]
                                                 ELSE opened
  BY DEF OpenSucceeds, Wanted
<1>6. /\ session' \in [Session -> SessionRecord]
      /\ \A r \in Session :
           /\ session'[r].query = session[r].query
           /\ session'[r].pending = session[r].pending
           /\ session'[r].stream = IF r = s /\ channel[c].valid THEN c ELSE session[r].stream
           /\ session'[r].status = IF r = s /\ channel[c].by = "setFilters"
                                   THEN "streaming" ELSE session[r].status
  <2>1. /\ opened \in [Session -> SessionRecord]
        /\ \A r \in Session :
             /\ opened[r].query = session[r].query
             /\ opened[r].pending = session[r].pending
             /\ opened[r].stream = IF r = s /\ channel[c].valid THEN c ELSE session[r].stream
             /\ opened[r].status = session[r].status
    BY <1>1 DEF SessionRecord
  <2> HIDE DEF opened
  <2> HIDE DEF s
  <2>2. CASE channel[c].by = "setFilters"
    <3>1. session' = [opened EXCEPT ![s].status = "streaming"]
      BY <1>5, <2>2
    <3>2. session' \in [Session -> SessionRecord]
      BY <2>1, <3>1 DEF SessionRecord, Status
    <3>3. \A r \in Session :
            /\ session'[r].query = opened[r].query
            /\ session'[r].pending = opened[r].pending
            /\ session'[r].stream = opened[r].stream
            /\ session'[r].status = IF r = s THEN "streaming" ELSE opened[r].status
      BY <2>1, <3>1 DEF SessionRecord
    <3> QED
      BY <2>1, <2>2, <3>2, <3>3
  <2>3. CASE channel[c].by # "setFilters"
    BY <1>5, <2>1, <2>3
  <2> QED
    BY <2>2, <2>3
<1> HIDE DEF opened
<1>7. TypeOK'
  BY <1>1, <1>3, <1>4, <1>6 DEF IndInv, TypeOK
<1>8. EntriesMatchQuery'
  BY <1>4 DEF IndInv, EntriesMatchQuery
<1>9. CASE channel[c].valid
  <2>1. /\ current \in Session /\ current # None /\ s = current
        /\ \A d \in Channel : channel[d].valid => d = c
    BY <1>9, WantedFacts
  <2>2. session'[current].stream = c /\ session'[current].status = "streaming"
    BY <1>1, <1>6, <1>9, <2>1 DEF IndInv, Wanting
  <2>3. \A d \in Channel : d # c => channel'[d].phase # "open" /\ ~channel'[d].valid
    BY <1>3, <2>1 DEF IndInv, Streaming
  <2>4. Wanting'
    BY <1>1, <1>3, <1>4, <1>9, <2>1, <2>2, <2>3 DEF IndInv, Wanting
  <2>5. Streaming'
    <3>1. \A d \in Channel : channel'[d].phase = "open" => channel'[d].valid
      BY <1>3, <1>9, <2>3
    <3>2. /\ tool'.connected /\ session'[current].query = tool'.query
          /\ session'[current].pending \subseteq {tool'.query}
      BY <1>4, <1>6, <2>1 DEF IndInv, Streaming
    <3>3. channel'[c].phase = "open"
      BY <1>3, <1>9
    <3> QED
      BY <1>1, <2>2, <3>1, <3>2, <3>3 DEF Streaming
  <2>6. NoOrphanChannel' /\ OpenStreamIsStreaming'
    BY <1>1, <1>3, <2>1, <2>2, <2>3 DEF NoOrphanChannel, OpenStreamIsStreaming
  <2> QED
    BY <1>7, <1>8, <2>4, <2>5, <2>6 DEF IndInv
<1>10. CASE ~channel[c].valid
  <2>1. current \in Session \cup {None}
    BY DEF IndInv, TypeOK
  <2>2. \A d \in Channel :
          /\ channel'[d].valid => channel'[d] = channel[d] /\ d # c
          /\ channel'[d].phase = "open" <=> channel[d].phase = "open"
    BY <1>1, <1>3, <1>10
  <2>3. current # None =>
          /\ session'[current].query = session[current].query
          /\ session'[current].pending = session[current].pending
          /\ session'[current].stream = session[current].stream
          /\ session'[current].status \in {"streaming", session[current].status}
    BY <1>6, <1>10, <2>1
  <2>4. \A d \in Channel : channel[d].valid => current # None
    BY WantedFacts
  <2>5. Wanting'
    BY <1>1, <1>3, <1>4, <2>2, <2>3, <2>4 DEF IndInv, Wanting
  <2>6. current # None => session[current].stream \in Channel \cup {None}
    BY <1>1, <2>1 DEF SessionRecord
  <2>7. Streaming'
    BY <1>1, <1>3, <1>4, <1>10, <2>2, <2>3, <2>6 DEF IndInv, Streaming
  <2>8. NoOrphanChannel' /\ OpenStreamIsStreaming'
    BY <1>1, <2>2, <2>3, <2>6 DEF IndInv, NoOrphanChannel, OpenStreamIsStreaming
  <2> QED
    BY <1>7, <1>8, <2>5, <2>7, <2>8 DEF IndInv
<1> QED
  BY <1>9, <1>10

\* A freed channel leaves the others as they are.
LEMMA FreedFacts ==
    ASSUME IndInv, NEW c \in Channel, channel' = [channel EXCEPT ![c] = FreeChannel]
    PROVE  /\ channel' \in [Channel -> ChannelRecord]
           /\ ~channel'[c].valid /\ channel'[c].phase = "free" /\ channel'[c].session = None
           /\ \A d \in Channel : d # c => channel'[d] = channel[d]
<1>1. channel \in [Channel -> ChannelRecord]
  BY DEF IndInv, TypeOK
<1>2. FreeChannel \in ChannelRecord /\ ~FreeChannel.valid /\ FreeChannel.phase = "free"
      /\ FreeChannel.session = None
  BY DEF FreeChannel, ChannelRecord
<1> QED
  BY <1>1, <1>2

LEMMA OpenFailsInv ==
    ASSUME IndInv, NEW c \in Channel, OpenFails(c)
    PROVE  IndInv'
<1>1. /\ channel' \in [Channel -> ChannelRecord]
      /\ ~channel'[c].valid /\ channel'[c].phase = "free" /\ channel'[c].session = None
      /\ \A d \in Channel : d # c => channel'[d] = channel[d]
  BY FreedFacts DEF OpenFails
<1>2. /\ tool' \in ToolRecord /\ tool'.query = tool.query /\ tool'.entries = tool.entries
      /\ tool'.connected = tool.connected
  BY DEF IndInv, TypeOK, OpenFails, ToolRecord, Status
<1>3. channel[c].phase = "opening" /\ UNCHANGED <<current, session, link>>
  BY DEF OpenFails
<1>4. /\ current \in Session \cup {None}
      /\ current # None => session[current].stream \in Channel \cup {None}
  BY DEF IndInv, TypeOK, SessionRecord
<1>5. TypeOK'
  BY <1>1, <1>2, <1>3 DEF IndInv, TypeOK
<1>6. Wanting'
  BY <1>1, <1>2, <1>3 DEF IndInv, Wanting
<1>7. Streaming'
  BY <1>1, <1>2, <1>3, <1>4 DEF IndInv, Streaming
<1>8. NoOrphanChannel' /\ OpenStreamIsStreaming' /\ EntriesMatchQuery'
  BY <1>1, <1>2, <1>3, <1>4
     DEF IndInv, NoOrphanChannel, OpenStreamIsStreaming, EntriesMatchQuery
<1> QED
  BY <1>5, <1>6, <1>7, <1>8 DEF IndInv

LEMMA DataInv ==
    ASSUME IndInv, NEW c \in Channel, Data(c)
    PROVE  IndInv'
<1>1. /\ session \in [Session -> SessionRecord]
      /\ UNCHANGED <<current, channel, link, tool>>
      /\ session' = [session EXCEPT ![current].pending = @ \cup {tool.query}]
      /\ current \in Session /\ tool.query \in Query
  BY WantedFacts DEF IndInv, TypeOK, Data, ToolRecord
<1>2. /\ session' \in [Session -> SessionRecord]
      /\ session'[current].query = session[current].query
      /\ session'[current].pending = session[current].pending \cup {tool.query}
      /\ session'[current].stream = session[current].stream
      /\ session'[current].status = session[current].status
  BY <1>1 DEF SessionRecord
<1>3. TypeOK'
  BY <1>1, <1>2 DEF IndInv, TypeOK
<1>4. Wanting' /\ Streaming'
  BY <1>1, <1>2 DEF IndInv, Wanting, Streaming
<1>5. NoOrphanChannel' /\ OpenStreamIsStreaming' /\ EntriesMatchQuery'
  BY <1>1, <1>2 DEF IndInv, NoOrphanChannel, OpenStreamIsStreaming, EntriesMatchQuery
<1> QED
  BY <1>3, <1>4, <1>5 DEF IndInv

LEMMA FlushInv ==
    ASSUME IndInv, NEW s \in Session, Flush(s)
    PROVE  IndInv'
<1>1. /\ session \in [Session -> SessionRecord] /\ tool \in ToolRecord
      /\ UNCHANGED <<current, channel, link>>
      /\ session' = [session EXCEPT ![s].pending = {}]
      /\ tool' = [tool EXCEPT !.entries = @ \cup session[s].pending]
      /\ current = s /\ s # None
  BY NoneAssumption DEF IndInv, TypeOK, Flush
<1>2. /\ session' \in [Session -> SessionRecord]
      /\ session'[s].query = session[s].query
      /\ session'[s].pending = {}
      /\ session'[s].stream = session[s].stream
      /\ session'[s].status = session[s].status
  BY <1>1 DEF SessionRecord
<1>3. session[s].pending \subseteq {tool.query} /\ session[s].pending \subseteq Query
  BY <1>1 DEF IndInv, Streaming, SessionRecord
<1>4. /\ tool' \in ToolRecord /\ tool'.query = tool.query
      /\ tool'.connected = tool.connected
      /\ tool'.entries = tool.entries \cup session[s].pending
  BY <1>1, <1>3 DEF ToolRecord
<1>5. TypeOK'
  BY <1>1, <1>2, <1>4 DEF IndInv, TypeOK
<1>6. Wanting' /\ Streaming'
  BY <1>1, <1>2, <1>4 DEF IndInv, Wanting, Streaming
<1>7. NoOrphanChannel' /\ OpenStreamIsStreaming' /\ EntriesMatchQuery'
  BY <1>1, <1>2, <1>3, <1>4
     DEF IndInv, NoOrphanChannel, OpenStreamIsStreaming, EntriesMatchQuery
<1> QED
  BY <1>5, <1>6, <1>7 DEF IndInv

LEMMA ClosedInv ==
    ASSUME IndInv, NEW c \in Channel, Closed(c)
    PROVE  IndInv'
<1>1. /\ channel' \in [Channel -> ChannelRecord]
      /\ ~channel'[c].valid /\ channel'[c].phase = "free" /\ channel'[c].session = None
      /\ \A d \in Channel : d # c => channel'[d] = channel[d]
  BY FreedFacts DEF Closed
<1>2. /\ session \in [Session -> SessionRecord] /\ tool \in ToolRecord
      /\ UNCHANGED <<current, link>> /\ current \in Session \cup {None}
      /\ channel[c].phase \in {"open", "closing"}
  BY DEF IndInv, TypeOK, Closed
<1>3. CASE channel[c].valid
  <2>1. /\ current \in Session /\ current # None /\ channel[c].session = current
        /\ \A d \in Channel : channel[d].valid => d = c
    BY <1>3, WantedFacts
  <2>2. PICK status \in AfterClose(current) :
          /\ session' = [session EXCEPT ![current].stream = None,
                                        ![current].pending = {},
                                        ![current].status = status]
          /\ tool' = [tool EXCEPT !.entries = @ \cup session[current].pending,
                                  !.status = IF status = "idle"
                                                /\ session[current].status = "idle"
                                             THEN @ ELSE status]
    BY <1>3, <2>1 DEF Closed
  <2>3. status \in Status
    BY <1>2, <2>1 DEF AfterClose, Status, SessionRecord
  <2>4. /\ session' \in [Session -> SessionRecord]
        /\ session'[current].query = session[current].query
        /\ session'[current].pending = {}
        /\ session'[current].stream = None
    <3> DEFINE closed == [session[current] EXCEPT !.stream = None, !.pending = {},
                                                  !.status = status]
    <3>1. closed \in SessionRecord
      BY <1>2, <2>1, <2>3 DEF SessionRecord
    <3>2. closed.query = session[current].query /\ closed.pending = {}
          /\ closed.stream = None
      BY <1>2, <2>1 DEF SessionRecord
    <3>3. session' = [session EXCEPT ![current] = closed]
      BY <1>2, <2>1, <2>2 DEF SessionRecord
    <3> HIDE DEF closed
    <3> QED
      BY <1>2, <2>1, <3>1, <3>2, <3>3
  <2>5. session[current].pending \subseteq {tool.query}
        /\ session[current].pending \subseteq Query
    BY <1>2, <2>1 DEF IndInv, Streaming, SessionRecord
  <2>6. /\ tool' \in ToolRecord /\ tool'.query = tool.query
        /\ tool'.connected = tool.connected
        /\ tool'.entries = tool.entries \cup session[current].pending
    BY <1>2, <2>2, <2>3, <2>5 DEF ToolRecord
  <2>7. \A d \in Channel : ~channel'[d].valid /\ channel'[d].phase # "open"
    BY <1>1, <2>1 DEF IndInv, Streaming
  <2>8. TypeOK'
    BY <1>1, <1>2, <2>4, <2>6, <2>7 DEF IndInv, TypeOK
  <2>9. Wanting' /\ Streaming'
    BY <1>2, <2>1, <2>4, <2>6, <2>7 DEF IndInv, Wanting, Streaming
  <2>10. NoOrphanChannel' /\ OpenStreamIsStreaming' /\ EntriesMatchQuery'
    BY <1>2, <2>1, <2>4, <2>5, <2>6, <2>7
       DEF IndInv, NoOrphanChannel, OpenStreamIsStreaming, EntriesMatchQuery
  <2> QED
    BY <2>8, <2>9, <2>10 DEF IndInv
<1>4. CASE ~channel[c].valid
  <2>1. UNCHANGED <<session, tool>>
    BY <1>4 DEF Closed
  <2>2. channel[c].phase # "open"
    BY <1>4 DEF IndInv, Streaming
  <2>3. current # None => session[current].stream \in Channel \cup {None}
    BY <1>2 DEF SessionRecord
  <2>4. TypeOK'
    BY <1>1, <1>2, <2>1 DEF IndInv, TypeOK
  <2>5. Wanting'
    BY <1>1, <1>2, <2>1 DEF IndInv, Wanting
  <2>6. Streaming'
    BY <1>1, <1>2, <2>1, <2>2, <2>3 DEF IndInv, Streaming
  <2>7. NoOrphanChannel' /\ OpenStreamIsStreaming' /\ EntriesMatchQuery'
    BY <1>1, <1>2, <2>1, <2>2, <2>3
       DEF IndInv, NoOrphanChannel, OpenStreamIsStreaming, EntriesMatchQuery
  <2> QED
    BY <2>4, <2>5, <2>6, <2>7 DEF IndInv
<1> QED
  BY <1>3, <1>4

LEMMA TeardownInv ==
    ASSUME IndInv, Teardown
    PROVE  IndInv'
<1>1. tool \in ToolRecord /\ tool.entries \subseteq {tool.query}
  BY DEF IndInv, TypeOK, EntriesMatchQuery
<1>2. StopFrom(tool) /\ link' \in {"gone", "up", "down"}
  BY DEF Teardown
<1> QED
  BY <1>1, <1>2, StopFromInv

-----------------------------------------------------------------------------
LEMMA InitInv == Init => IndInv
<1> SUFFICES ASSUME Init
             PROVE  IndInv
  OBVIOUS
<1>1. PICK query \in Query :
        /\ session = [s \in Session |-> [status |-> "idle", stream |-> None,
                                         query |-> query, pending |-> {}]]
        /\ channel = [c \in Channel |-> FreeChannel]
        /\ tool = [connected |-> FALSE, status |-> "idle", query |-> query, entries |-> {}]
  BY DEF Init
<1>2. current = None /\ link = "gone"
  BY DEF Init
<1>3. FreeChannel \in ChannelRecord /\ ~FreeChannel.valid /\ FreeChannel.phase = "free"
  BY DEF FreeChannel, ChannelRecord
<1>4. Quiet(channel)
  BY <1>1, <1>3 DEF Quiet
<1>5. session \in [Session -> SessionRecord] /\ tool \in ToolRecord /\ tool.entries = {}
  BY <1>1 DEF SessionRecord, ToolRecord, Status
<1>6. TypeOK
  BY <1>2, <1>4, <1>5 DEF TypeOK, Quiet
<1>7. Wanting /\ Streaming
  BY <1>2, <1>4 DEF Wanting, Streaming, Quiet
<1>8. NoOrphanChannel /\ OpenStreamIsStreaming /\ EntriesMatchQuery
  BY <1>2, <1>4, <1>5 DEF NoOrphanChannel, OpenStreamIsStreaming, EntriesMatchQuery, Quiet
<1> QED
  BY <1>6, <1>7, <1>8 DEF IndInv

LEMMA StepInv == IndInv /\ [Next]_vars => IndInv'
<1> SUFFICES ASSUME IndInv, [Next]_vars
             PROVE  IndInv'
  OBVIOUS
<1>1. CASE SeeConnected
  BY <1>1, SeeConnectedInv
<1>2. CASE SeeLost
  BY <1>2, SeeLostInv
<1>3. CASE Reopen
  BY <1>3, ReopenInv
<1>4. ASSUME NEW query \in Query, ChooseQuery(query)
      PROVE  IndInv'
  BY <1>4, ChooseQueryInv
<1>5. ASSUME NEW c \in Channel, OpenSucceeds(c) \/ OpenFails(c) \/ Data(c) \/ Closed(c)
      PROVE  IndInv'
  BY <1>5, OpenSucceedsInv, OpenFailsInv, DataInv, ClosedInv
<1>6. ASSUME NEW s \in Session, Flush(s)
      PROVE  IndInv'
  BY <1>6, FlushInv
<1>7. CASE Teardown
  BY <1>7, TeardownInv
<1>8. CASE Connect \/ Drop
  BY <1>8 DEF Connect, Drop, IndInv, TypeOK, Wanting, Streaming, NoOrphanChannel,
     EntriesMatchQuery, OpenStreamIsStreaming
<1>9. CASE UNCHANGED vars
  BY <1>9 DEF vars, IndInv, TypeOK, Wanting, Streaming, NoOrphanChannel,
     EntriesMatchQuery, OpenStreamIsStreaming
<1> QED
  BY <1>1, <1>2, <1>3, <1>4, <1>5, <1>6, <1>7, <1>8, <1>9 DEF Next

-----------------------------------------------------------------------------
\* The inductive invariant holds in every state.
THEOREM Invariance == Spec => []IndInv
<1>1. Init => IndInv
  BY InitInv
<1>2. IndInv /\ [Next]_vars => IndInv'
  BY StepInv
<1> QED
  BY <1>1, <1>2, PTL DEF Spec

\* The variables keep their types, and a wanted channel belongs to the session the
\* server has.
THEOREM LogTypeCorrect == Spec => []TypeOK
<1>1. IndInv => TypeOK
  BY DEF IndInv
<1> QED
  BY <1>1, Invariance, PTL

\* However start, stop, setFilters, teardowns and slow spawns overlap, no journalctl
\* stays open that the server's session does not know.
THEOREM NoOrphans == Spec => []NoOrphanChannel
<1>1. IndInv => NoOrphanChannel
  BY DEF IndInv
<1> QED
  BY <1>1, Invariance, PTL

\* The entries on display answer the query on display.
THEOREM EntriesAnswerQuery == Spec => []EntriesMatchQuery
<1>1. IndInv => EntriesMatchQuery
  BY DEF IndInv
<1> QED
  BY <1>1, Invariance, PTL

\* A session whose stream is open is shown as streaming.
THEOREM OpenIsStreaming == Spec => []OpenStreamIsStreaming
<1>1. IndInv => OpenStreamIsStreaming
  BY DEF IndInv
<1> QED
  BY <1>1, Invariance, PTL
===============================================================================
