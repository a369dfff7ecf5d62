------------------------- MODULE KafkaStreamsProofs -------------------------
(***************************************************************************)
(* Proofs about KafkaStreams, for any number of graphs, topics, sessions   *)
(* and streams.  RegistryInv is inductive; the step proof goes action by   *)
(* action.                                                                 *)
(***************************************************************************)
EXTENDS KafkaStreams, SequenceTheorems, TLAPS

\* Most steps are set reasoning; those with arithmetic name SMT.
USE ZenonT(60)

\* Where a consumer is when it has not unregistered its stream, and when it has.
LEMMA ConsumerStates ==
  /\ "running" \in Unfinished /\ "polling" \in Unfinished
  /\ "ending" \in Unfinished /\ "blocked" \in Unfinished
  /\ "none" \notin Unfinished /\ "unregistered" \notin Unfinished /\ "ended" \notin Unfinished
  /\ InLoop \subseteq Unfinished
BY DEF Unfinished, InLoop

\* The registry starts empty and satisfies the invariant.
LEMMA RegistryInit == Init => RegistryInv
<1> SUFFICES ASSUME Init PROVE RegistryInv
  OBVIOUS
<1>1. TypeOK
  BY SMTT(30), StreamAssumption DEF Init, TypeOK, Idle, Steps, Stream, Created
<1>2. Created = {}
  BY SMTT(30) DEF Init, Created
<1> QED
  BY <1>1, <1>2 DEF Init, RegistryInv, EntriesOwned, NoDeadEntries, StopsRecorded, AddedOnce,
     LiveRegistered, Idle, AddSteps

\* Streams are numbered in the order of creation, and each has a graph.
LEMMA CreatedFacts ==
  ASSUME TypeOK
  PROVE  /\ Created = 1 .. Len(made) /\ Created \subseteq Stream /\ None \notin Created
         /\ \A s \in Created : made[s].graph \in Graphs /\ made[s].topic \in Topics
<1>1. Len(made) \in Nat /\ DOMAIN made = 1 .. Len(made)
  BY SMTT(30) DEF TypeOK
<1>2. \A s \in 1 .. Len(made) : made[s] \in [graph : Graphs, topic : Topics]
  BY ElementOfSeq DEF TypeOK
<1>3. MaxStreams \in Nat /\ Len(made) <= MaxStreams
  BY StreamAssumption DEF TypeOK
<1>4. Created = 1 .. Len(made)
  BY <1>1 DEF Created
<1>5. Created \subseteq Stream
  BY SMTT(30), <1>1, <1>3, <1>4 DEF Stream
<1>6. None \notin Created
  BY <1>5, StreamAssumption DEF Stream
<1>7. \A s \in Created : made[s].graph \in Graphs /\ made[s].topic \in Topics
  BY <1>2, <1>4
<1> QED
  BY <1>4, <1>5, <1>6, <1>7

\* What every step but a registration does to the streams being added: some
\* may be finished, none is new.
AddsShrink ==
  \A j \in Sessions :
    command'[j].step \in AddSteps =>
      command[j].step \in AddSteps /\ command'[j].stream = command[j].stream

\* A step that adds no stream makes no stream live.
LEMMA LiveShrinks ==
  ASSUME AddsShrink, NEW s, Live(s)', consumer'[s] \in Unfinished => Live(s)
  PROVE  Live(s)
BY DEF Live, AddsShrink

\* A step that adds no stream and starts none still being added keeps AddedOnce.
LEMMA AddedOnceKept ==
  ASSUME AddedOnce, AddsShrink,
         \A j \in Sessions : command'[j].step \in AddSteps =>
           consumer'[command'[j].stream] = consumer[command'[j].stream]
  PROVE  AddedOnce'
BY SMTT(30) DEF AddedOnce, AddsShrink

\* Registering a stream: the new entry is the only one of its graph, and the
\* graph had no live stream, or its entry would have refused the new one.
LEMMA RegisterKeeps ==
  ASSUME RegistryInv, NEW k \in Sessions, NEW g \in Graphs, NEW t \in Topics, RegisterStream(k, g, t)
  PROVE  RegistryInv'
<1> DEFINE n == Len(made) + 1
<1>0. /\ Created \subseteq Stream /\ None \notin Created
      /\ \A s \in Created : made[s].graph \in Graphs /\ made[s].topic \in Topics
  BY CreatedFacts DEF RegistryInv
<1> USE <1>0 DEF RegistryInv, RegisterStream
<1>1. n \in Stream /\ n # None /\ n \notin Created /\ Created \subseteq Stream /\ Created' = Created \cup {n}
  BY SMTT(30), StreamAssumption DEF TypeOK, Stream, Created
<1>2. made'[n] = [graph |-> g, topic |-> t] /\ \A s \in Created : made'[s] = made[s]
  BY SMTT(30), AppendProperties, CreatedFacts DEF TypeOK
<1>3. TypeOK'
  <2>1. made' \in Seq([graph : Graphs, topic : Topics]) /\ Len(made') <= MaxStreams
    BY SMTT(30), AppendProperties, StreamAssumption DEF TypeOK
  <2>2. command' \in [Sessions -> [step : Steps, stream : Stream \cup {None}]]
    BY <1>1 DEF TypeOK, Doing, Steps
  <2>3. \A j \in Sessions : command'[j].step # "idle" => command'[j].stream \in Created'
    BY <1>1 DEF TypeOK, Doing
  <2> QED
    BY <1>1, <2>1, <2>2, <2>3 DEF TypeOK
<1>4. consumer[n] = "none"
  BY <1>1 DEF EntriesOwned
<1>5. EntriesOwned'
  <2>1. \A s \in Stream : consumer'[s] # "none" => s \in Created'
    BY <1>1 DEF EntriesOwned
  <2>2. \A h \in Graphs : activeStreams'[h] # None =>
          activeStreams'[h] \in Created' /\ made'[activeStreams'[h]].graph = h
    <3> SUFFICES ASSUME NEW h \in Graphs, activeStreams'[h] # None
                 PROVE  activeStreams'[h] \in Created' /\ made'[activeStreams'[h]].graph = h
      OBVIOUS
    <3>1. CASE h = g
      BY SMTT(30), <1>1, <1>2, <3>1 DEF TypeOK
    <3>2. CASE h # g
      <4>1. activeStreams'[h] = activeStreams[h]
        BY <3>2 DEF TypeOK
      <4>2. activeStreams[h] \in Created /\ made[activeStreams[h]].graph = h
        BY <4>1 DEF EntriesOwned
      <4>3. made'[activeStreams[h]] = made[activeStreams[h]]
        BY <1>2, <4>2
      <4>4. activeStreams[h] \in Created'
        BY <1>1, <4>2
      <4>5. made'[activeStreams'[h]].graph = h
        BY <4>1, <4>2, <4>3, Zenon
      <4> QED
        BY <4>1, <4>4, <4>5, Zenon
    <3> QED
      BY <3>1, <3>2
  <2> QED
    BY <2>1, <2>2 DEF EntriesOwned
<1>6. NoDeadEntries'
  BY <1>1, <1>4 DEF NoDeadEntries, TypeOK
<1>7. StopsRecorded'
  BY <1>1, <1>2 DEF StopsRecorded, TypeOK, Doing, Idle
<1>8. LiveRegistered'
  <2> SUFFICES ASSUME NEW s \in Created', Live(s)', made'[s].graph \notin stopped
               PROVE  activeStreams'[made'[s].graph] = s
    BY DEF LiveRegistered
  <2>1. CASE s = n
    BY SMTT(30), <2>1, <1>2 DEF TypeOK
  <2>2. CASE s \in Created
    <3>1. s # n
      BY <2>2, <1>1
    <3>2. Live(s)
      BY <3>1 DEF Live, TypeOK, Doing
    <3>3. activeStreams[made[s].graph] = s /\ made[s].graph \in Graphs /\ s # None
      BY <3>2, <2>2, <1>1, <1>2, StreamAssumption DEF LiveRegistered, TypeOK, Stream
    <3> QED
      BY <3>3, <2>2, <1>2 DEF TypeOK
  <2> QED
    BY <2>1, <2>2, <1>1
<1>9. AddedOnce'
  <2>1. \A j \in Sessions \ {k} : command'[j] = command[j]
    BY DEF TypeOK
  <2>2. command'[k].stream = n /\ consumer' = consumer
    BY DEF TypeOK, Doing
  <2>3. \A j \in Sessions : command[j].step \in AddSteps => command[j].stream # n
    BY <1>1 DEF TypeOK, AddSteps
  <2> QED
    BY SMTT(30), <1>4, <2>1, <2>2, <2>3 DEF AddedOnce
<1> QED
  BY <1>3, <1>5, <1>6, <1>7, <1>8, <1>9

\* The steps of a command that touch neither the entries nor the consumers.
LEMMA CommandKeeps ==
  ASSUME RegistryInv, NEW k \in Sessions,
         \/ GetStreamByGraphId(k) \/ MarkStreaming(k) \/ Unsubscribe(k) \/ SignalStreamStop(k)
         \/ \E t \in Topics, s \in Created : GetStreamsByTopic(k, t, s)
  PROVE  RegistryInv'
<1>0. /\ Created \subseteq Stream /\ None \notin Created /\ Created' = Created
      /\ \A s \in Created : made[s].graph \in Graphs /\ made[s].topic \in Topics
  BY CreatedFacts DEF RegistryInv, Created, GetStreamByGraphId, MarkStreaming, Unsubscribe, SignalStreamStop,
     GetStreamsByTopic
<1> USE <1>0 DEF RegistryInv
<1>1. made' = made /\ activeStreams' = activeStreams /\ consumer' = consumer /\ stopped \subseteq stopped'
  BY DEF GetStreamByGraphId, MarkStreaming, Unsubscribe, SignalStreamStop, GetStreamsByTopic
<1>2. Created \subseteq Stream
  BY DEF TypeOK, Stream
<1>3. TypeOK'
  <2>1. CASE GetStreamByGraphId(k)
    BY <1>2, <2>1 DEF TypeOK, GetStreamByGraphId, Doing, Steps
  <2>2. CASE MarkStreaming(k)
    BY <1>2, <2>2 DEF TypeOK, MarkStreaming, Doing, Steps
  <2>3. CASE Unsubscribe(k)
    BY <1>2, <2>3 DEF TypeOK, Unsubscribe, Doing, Steps
  <2>4. CASE SignalStreamStop(k)
    <3> DEFINE m == activeStreams[made[command[k].stream].graph]
    <3>1. command[k].stream \in Created /\ made[command[k].stream].graph \in Graphs
      BY <2>4 DEF SignalStreamStop, TypeOK
    <3>2. CASE m = None
      <4>1. /\ command' = [command EXCEPT ![k] = Idle]
            /\ UNCHANGED <<made, activeStreams, stopFlags, flagOf, consumer, unsubscribed, status, stopped>>
        BY <2>4, <3>2 DEF SignalStreamStop
      <4> QED
        BY <4>1 DEF TypeOK, Idle, Steps
    <3>3. CASE m # None
      <4>1. /\ command' = [command EXCEPT ![k] = Doing("signalled", command[k].stream)]
            /\ stopFlags' = stopFlags \cup {m}
            /\ stopped' = stopped \cup {made[command[k].stream].graph}
            /\ UNCHANGED <<made, activeStreams, flagOf, consumer, unsubscribed, status>>
        BY <2>4, <3>3 DEF SignalStreamStop
      <4>2. m \in Stream
        BY <3>1, <3>3 DEF TypeOK
      <4> QED
        BY <3>1, <4>1, <4>2 DEF TypeOK, Doing, Steps
    <3> QED
      BY <3>2, <3>3
  <2>5. CASE \E t \in Topics, s \in Created : GetStreamsByTopic(k, t, s)
    <3>1. PICK t \in Topics, u \in Created : GetStreamsByTopic(k, t, u)
      BY <2>5
    <3> QED
      BY <3>1 DEF TypeOK, GetStreamsByTopic, Doing, Steps
  <2> QED
    BY <2>1, <2>2, <2>3, <2>4, <2>5
<1>4. EntriesOwned' /\ NoDeadEntries'
  BY <1>1 DEF EntriesOwned, NoDeadEntries
<1>5. StopsRecorded'
  <2>1. CASE GetStreamByGraphId(k)
    <3> DEFINE s == command[k].stream
    <3>1. s \in Created /\ made[s].graph \in Graphs /\ s # None
      BY <1>2, <2>1, StreamAssumption DEF TypeOK, GetStreamByGraphId, Stream
    <3>2. activeStreams[made[s].graph] = None => made[s].graph \in stopped
      BY <2>1, <3>1 DEF LiveRegistered, Live, AddSteps, GetStreamByGraphId
    <3> QED
      BY <1>1, <2>1, <3>2 DEF StopsRecorded, GetStreamByGraphId, Doing, TypeOK
  <2>2. CASE MarkStreaming(k)
    BY <2>2 DEF StopsRecorded, MarkStreaming, Doing, TypeOK
  <2>3. CASE Unsubscribe(k)
    BY <2>3 DEF StopsRecorded, Unsubscribe, Doing, TypeOK
  <2>4. CASE SignalStreamStop(k)
    <3> DEFINE m == activeStreams[made[command[k].stream].graph]
    <3>1. CASE m = None
      <4>1. command' = [command EXCEPT ![k] = Idle] /\ stopped' = stopped
        BY <2>4, <3>1 DEF SignalStreamStop
      <4> QED
        BY <1>1, <4>1 DEF StopsRecorded, Idle, TypeOK
    <3>2. CASE m # None
      <4>1. /\ command' = [command EXCEPT ![k] = Doing("signalled", command[k].stream)]
            /\ stopped' = stopped \cup {made[command[k].stream].graph}
        BY <2>4, <3>2 DEF SignalStreamStop
      <4> QED
        BY <1>1, <4>1 DEF StopsRecorded, Doing, TypeOK
    <3> QED
      BY <3>1, <3>2
  <2>5. CASE \E t \in Topics, s \in Created : GetStreamsByTopic(k, t, s)
    <3>1. PICK t \in Topics, u \in Created : GetStreamsByTopic(k, t, u)
      BY <2>5
    <3> QED
      BY <3>1 DEF StopsRecorded, GetStreamsByTopic, Doing, TypeOK
  <2> QED
    BY <2>1, <2>2, <2>3, <2>4, <2>5
<1>6. AddsShrink
  <2>1. \A j \in Sessions \ {k} : command'[j] = command[j]
    BY DEF GetStreamByGraphId, MarkStreaming, Unsubscribe, SignalStreamStop, GetStreamsByTopic, TypeOK
  <2>2. command'[k].step \in AddSteps => command[k].step \in AddSteps /\ command'[k].stream = command[k].stream
    <3>1. CASE GetStreamByGraphId(k) \/ MarkStreaming(k)
      <4>1. command[k].step \in AddSteps
        BY <3>1 DEF GetStreamByGraphId, MarkStreaming, AddSteps
      <4>2. \E step \in AddSteps : command'[k] = Doing(step, command[k].stream)
        BY <3>1 DEF GetStreamByGraphId, MarkStreaming, TypeOK, AddSteps
      <4> QED
        BY SMTT(30), <4>1, <4>2 DEF Doing
    <3>2. CASE Unsubscribe(k)
      BY <3>2 DEF Unsubscribe, TypeOK, Doing, AddSteps
    <3>3. CASE SignalStreamStop(k)
      <4>1. command'[k] = Idle \/ command'[k] = Doing("signalled", command[k].stream)
        BY <3>3 DEF SignalStreamStop, TypeOK
      <4>2. command'[k].step \in {"idle", "signalled"}
        BY SMTT(30), <4>1 DEF Doing, Idle
      <4> QED
        BY <4>2 DEF AddSteps
    <3>4. CASE \E t \in Topics, s \in Created : GetStreamsByTopic(k, t, s)
      <4>1. PICK t \in Topics, u \in Created : GetStreamsByTopic(k, t, u)
        BY <3>4
      <4> QED
        BY <4>1 DEF GetStreamsByTopic, TypeOK, Doing, AddSteps
    <3> QED
      BY <3>1, <3>2, <3>3, <3>4
  <2> QED
    BY <2>1, <2>2 DEF AddsShrink
<1>7. LiveRegistered'
  <2>1. \A s \in Created : Live(s)' => Live(s)
    BY <1>1, <1>6, LiveShrinks DEF Live
  <2> QED
    BY <1>1, <2>1 DEF LiveRegistered
<1>8. AddedOnce'
  BY <1>1, <1>6, AddedOnceKept
<1> QED
  BY <1>3, <1>4, <1>5, <1>7, <1>8

\* A command takes an entry away only from a graph for which a stop was
\* signalled: after a failed lookup, or at its end.
LEMMA RemovalKeeps ==
  ASSUME RegistryInv, NEW k \in Sessions, AbandonStream(k) \/ UnregisterStopped(k)
  PROVE  RegistryInv'
<1> DEFINE g == made[command[k].stream].graph
<1>0. /\ Created \subseteq Stream /\ None \notin Created /\ Created' = Created
      /\ \A s \in Created : made[s].graph \in Graphs /\ made[s].topic \in Topics
  BY CreatedFacts DEF RegistryInv, Created, AbandonStream, UnregisterStopped
<1> USE <1>0 DEF RegistryInv
<1>1. g \in stopped /\ g \in Graphs /\ command[k].step # "idle"
  BY DEF StopsRecorded, AbandonStream, UnregisterStopped, TypeOK
<1>2. /\ made' = made /\ consumer' = consumer /\ stopped' = stopped /\ stopFlags' = stopFlags
      /\ flagOf' = flagOf /\ unsubscribed' = unsubscribed /\ status' = status
      /\ command' = [command EXCEPT ![k] = Idle]
      /\ activeStreams' \in [Graphs -> Stream \cup {None}]
      /\ \A h \in Graphs : activeStreams'[h] = activeStreams[h] \/ (h = g /\ activeStreams'[h] = None)
  BY <1>1 DEF AbandonStream, UnregisterStopped, TypeOK
<1>3. TypeOK'
  BY <1>2 DEF TypeOK, Idle, Steps
<1>4. EntriesOwned' /\ NoDeadEntries'
  BY <1>2 DEF EntriesOwned, NoDeadEntries
<1>5. StopsRecorded'
  BY <1>2 DEF StopsRecorded, Idle, TypeOK
<1>7. AddsShrink
  BY <1>2 DEF AddsShrink, AddSteps, Idle, TypeOK
<1>8. AddedOnce'
  BY <1>2, <1>7, AddedOnceKept
<1>6. LiveRegistered'
  <2> SUFFICES ASSUME NEW s \in Created, Live(s)', made[s].graph \notin stopped
               PROVE  activeStreams'[made[s].graph] = s
    BY <1>2 DEF LiveRegistered
  <2>1. Live(s)
    BY <1>2, <1>7, LiveShrinks DEF Live
  <2>2. made[s].graph \in Graphs /\ made[s].graph # g /\ activeStreams[made[s].graph] = s
    BY <1>1, <2>1 DEF LiveRegistered, TypeOK
  <2> QED
    BY <1>2, <2>2
<1> QED
  BY <1>3, <1>4, <1>5, <1>6, <1>8

\* The consumer of a stream that was being added starts to run.
LEMMA StartKeeps ==
  ASSUME RegistryInv, NEW k \in Sessions, StartConsumer(k)
  PROVE  RegistryInv'
<1> DEFINE n == command[k].stream
<1>0. /\ Created \subseteq Stream /\ None \notin Created /\ Created' = Created
      /\ \A s \in Created : made[s].graph \in Graphs /\ made[s].topic \in Topics
  BY CreatedFacts DEF RegistryInv, Created, StartConsumer
<1> USE <1>0 DEF RegistryInv, StartConsumer
<1>1. n \in Created /\ n \in Stream
  BY DEF TypeOK
<1>10. /\ consumer'[n] = "running" /\ \A s \in Stream \ {n} : consumer'[s] = consumer[s]
       /\ consumer' \in [Stream -> {"none", "unregistered", "ended"} \cup Unfinished]
  BY <1>1, ConsumerStates DEF TypeOK
<1>2. TypeOK'
  <2>1. command' \in [Sessions -> [step : Steps, stream : Stream \cup {None}]]
    BY DEF TypeOK, Idle, Steps
  <2>2. \A j \in Sessions : command'[j].step # "idle" => command'[j].stream \in Created'
    BY DEF TypeOK, Idle
  <2> QED
    BY <1>10, <2>1, <2>2 DEF TypeOK
<1>3. EntriesOwned'
  BY <1>1 DEF EntriesOwned, TypeOK
<1>4. NoDeadEntries'
  <2> SUFFICES ASSUME NEW h \in Graphs, activeStreams[h] # None
               PROVE  consumer'[activeStreams[h]] \in {"none"} \cup Unfinished
    BY DEF NoDeadEntries
  <2>1. activeStreams[h] \in Stream /\ consumer[activeStreams[h]] \in {"none"} \cup Unfinished
    BY DEF NoDeadEntries, EntriesOwned
  <2> QED
    BY <1>10, <2>1, ConsumerStates
<1>5. StopsRecorded'
  BY DEF StopsRecorded, Idle, TypeOK
<1>6. Live(n)
  BY DEF Live, AddSteps
<1>7. AddsShrink /\ command'[k].step \notin AddSteps
  BY DEF AddsShrink, AddSteps, Idle, TypeOK
<1>8. LiveRegistered'
  <2>1. \A s \in Created : consumer'[s] \in Unfinished => Live(s)
    BY <1>1, <1>6 DEF Live, TypeOK, Stream
  <2>2. \A s \in Created : Live(s)' => Live(s)
    BY <1>7, <2>1, LiveShrinks
  <2> QED
    BY <2>2 DEF LiveRegistered
<1>9. AddedOnce'
  <2>1. \A j \in Sessions : command'[j].step \in AddSteps =>
           command'[j].stream # n /\ command'[j].stream \in Stream
    BY <1>7 DEF AddsShrink, AddedOnce, AddSteps, TypeOK, Stream
  <2> QED
    BY <1>1, <1>7, <2>1, AddedOnceKept DEF TypeOK
<1> QED
  BY <1>2, <1>3, <1>4, <1>5, <1>8, <1>9

\* A consumer goes on in its loop, leaves it or blocks, or finishes after it has
\* unregistered.
LEMMA ConsumerKeeps ==
  ASSUME RegistryInv, NEW n \in Stream,
         \/ SeeStop(n) \/ SeeNoStop(n) \/ PollMessage(n) \/ EndOfStream(n) \/ PublishBlocks(n)
         \/ UpdateMetaDB(n)
  PROVE  RegistryInv'
<1>0. /\ Created \subseteq Stream /\ None \notin Created /\ Created' = Created
      /\ \A s \in Created : made[s].graph \in Graphs /\ made[s].topic \in Topics
  BY CreatedFacts DEF RegistryInv, Created, SeeStop, SeeNoStop, PollMessage, EndOfStream,
     PublishBlocks, UpdateMetaDB
<1> USE <1>0 DEF RegistryInv
<1>1. /\ made' = made /\ activeStreams' = activeStreams /\ command' = command /\ stopped' = stopped
      /\ stopFlags' = stopFlags /\ flagOf' = flagOf /\ unsubscribed' = unsubscribed
      /\ \/ consumer[n] \in Unfinished
            /\ \E c \in Unfinished : consumer' = [consumer EXCEPT ![n] = c]
         \/ consumer[n] = "unregistered" /\ consumer' = [consumer EXCEPT ![n] = "ended"]
  <2>1. CASE SeeStop(n)
    BY <2>1, ConsumerStates DEF SeeStop
  <2>2. CASE SeeNoStop(n)
    BY <2>2, ConsumerStates DEF SeeNoStop
  <2>3. CASE PollMessage(n)
    BY <2>3, ConsumerStates DEF PollMessage
  <2>4. CASE EndOfStream(n)
    BY <2>4, ConsumerStates DEF EndOfStream
  <2>5. CASE PublishBlocks(n)
    BY <2>5, ConsumerStates DEF PublishBlocks
  <2>6. CASE UpdateMetaDB(n)
    BY <2>6 DEF UpdateMetaDB
  <2> QED
    BY <2>1, <2>2, <2>3, <2>4, <2>5, <2>6
<1>9. PICK c \in Unfinished \cup {"ended"} :
        /\ consumer' = [consumer EXCEPT ![n] = c]
        /\ consumer[n] # "none" /\ c # "none"
        /\ c \in Unfinished => consumer[n] \in Unfinished
        /\ c = "ended" => consumer[n] = "unregistered"
  <2>1. CASE consumer[n] \in Unfinished /\ \E c \in Unfinished : consumer' = [consumer EXCEPT ![n] = c]
    <3>1. PICK c \in Unfinished : consumer' = [consumer EXCEPT ![n] = c]
      BY <2>1
    <3>2. c # "none" /\ c # "ended" /\ consumer[n] # "none"
      BY <2>1, ConsumerStates
    <3> QED
      BY <2>1, <3>1, <3>2
  <2>2. CASE consumer[n] = "unregistered" /\ consumer' = [consumer EXCEPT ![n] = "ended"]
    <3>1. "ended" \notin Unfinished
      BY ConsumerStates
    <3> QED
      BY <2>2, <3>1
  <2> QED
    BY <1>1, <2>1, <2>2
<1>10. /\ consumer'[n] = c /\ \A s \in Stream \ {n} : consumer'[s] = consumer[s]
       /\ consumer' \in [Stream -> {"none", "unregistered", "ended"} \cup Unfinished]
  BY <1>9 DEF TypeOK
<1>2. TypeOK'
  <2>1. n \in Created /\ made[n].graph \in Graphs
    BY <1>9 DEF EntriesOwned
  <2>2. status' \in [Graphs -> {"streaming", "operational"}]
    BY <2>1 DEF TypeOK, SeeStop, SeeNoStop, PollMessage, EndOfStream, PublishBlocks, UpdateMetaDB
  <2> QED
    BY <1>1, <1>10, <2>2 DEF TypeOK
<1>3. EntriesOwned'
  BY <1>1, <1>9, <1>10 DEF EntriesOwned
<1>4. NoDeadEntries'
  <2> SUFFICES ASSUME NEW h \in Graphs, activeStreams[h] # None
               PROVE  consumer'[activeStreams[h]] \in {"none"} \cup Unfinished
    BY <1>1 DEF NoDeadEntries
  <2>1. activeStreams[h] \in Stream /\ consumer[activeStreams[h]] \in {"none"} \cup Unfinished
    BY DEF NoDeadEntries, EntriesOwned
  <2>2. CASE activeStreams[h] = n
    BY <1>9, <1>10, <2>1, <2>2, ConsumerStates
  <2>3. CASE activeStreams[h] # n
    BY <1>10, <2>1, <2>3
  <2> QED
    BY <2>2, <2>3
<1>5. StopsRecorded'
  BY <1>1 DEF StopsRecorded
<1>6. AddsShrink
  BY <1>1 DEF AddsShrink
<1>7. LiveRegistered'
  <2>1. \A s \in Created : consumer'[s] \in Unfinished => Live(s)
    BY <1>9, <1>10 DEF Live
  <2>2. \A s \in Created : Live(s)' => Live(s)
    BY <1>6, <2>1, LiveShrinks
  <2> QED
    BY <1>1, <2>2 DEF LiveRegistered
<1>8. AddedOnce'
  <2>1. \A j \in Sessions : command'[j].step \in AddSteps =>
           command[j].step \in AddSteps /\ command'[j].stream = command[j].stream
           /\ command[j].stream \in Stream /\ consumer[command[j].stream] = "none"
    BY <1>6 DEF AddsShrink, AddedOnce, AddSteps, TypeOK
  <2>2. \A j \in Sessions : command'[j].step \in AddSteps =>
           consumer'[command'[j].stream] = consumer[command'[j].stream]
    BY <1>9, <1>10, <2>1
  <2> QED
    BY <1>6, <2>2, AddedOnceKept
<1> QED
  BY <1>2, <1>3, <1>4, <1>5, <1>7, <1>8

\* A consumer removes the entry of its graph.  If no stop was signalled the
\* entry is its own; in any case its own is not the entry of another graph.
LEMMA UnregisterKeeps ==
  ASSUME RegistryInv, NEW n \in Stream, UnregisterStream(n)
  PROVE  RegistryInv'
<1> DEFINE g == made[n].graph
<1>0. /\ Created \subseteq Stream /\ None \notin Created /\ Created' = Created
      /\ \A s \in Created : made[s].graph \in Graphs /\ made[s].topic \in Topics
  BY CreatedFacts DEF RegistryInv, Created, UnregisterStream
<1> USE <1>0 DEF RegistryInv, UnregisterStream
<1>1. n \in Created /\ g \in Graphs
  BY DEF EntriesOwned, TypeOK
<1>2. TypeOK'
  BY <1>1 DEF TypeOK, Steps
<1>3. EntriesOwned'
  BY <1>1 DEF EntriesOwned, TypeOK
<1>4. NoDeadEntries'
  <2> SUFFICES ASSUME NEW h \in Graphs, activeStreams'[h] # None
               PROVE  consumer'[activeStreams'[h]] \in {"none"} \cup Unfinished
    BY DEF NoDeadEntries
  <2>1. h # g /\ activeStreams'[h] = activeStreams[h]
    BY <1>1 DEF TypeOK
  <2>2. activeStreams[h] # n /\ activeStreams[h] \in Stream
    BY <2>1 DEF EntriesOwned, TypeOK
  <2> QED
    BY <2>1, <2>2 DEF NoDeadEntries, TypeOK
<1>5. StopsRecorded'
  BY DEF StopsRecorded
<1>7. AddsShrink
  BY DEF AddsShrink
<1>8. AddedOnce'
  BY <1>7, AddedOnceKept DEF AddedOnce, TypeOK, AddSteps, Stream
<1>6. LiveRegistered'
  <2> SUFFICES ASSUME NEW s \in Created, Live(s)', made[s].graph \notin stopped
               PROVE  activeStreams'[made[s].graph] = s
    BY DEF LiveRegistered
  <2>1. Live(s) /\ Live(n)
    BY LiveShrinks, <1>7 DEF Live, TypeOK, Stream
  <2>2. activeStreams[made[s].graph] = s /\ made[s].graph \in Graphs
    BY <2>1 DEF LiveRegistered, TypeOK
  <2>3. CASE made[s].graph # g
    BY <2>2, <2>3, <1>1 DEF TypeOK
  <2>4. CASE made[s].graph = g
    <3>1. s = n
      BY <2>1, <2>2, <2>4, <1>1 DEF LiveRegistered
    <3>2. consumer'[n] = "unregistered" /\ command' = command
      BY DEF TypeOK
    <3>3. PICK k \in Sessions : command[k].step \in AddSteps /\ command[k].stream = n
      BY <3>1, <3>2, ConsumerStates DEF Live
    <3> QED
      BY <3>3 DEF AddedOnce
  <2> QED
    BY <2>3, <2>4
<1> QED
  BY <1>2, <1>3, <1>4, <1>5, <1>6, <1>8

\* Every step of a session or of a consumer keeps the invariant.
LEMMA RegistryStep == RegistryInv /\ [Next]_vars => RegistryInv'
<1> SUFFICES ASSUME RegistryInv, [Next]_vars PROVE RegistryInv'
  OBVIOUS
<1>1. ASSUME NEW k \in Sessions, Session(k) PROVE RegistryInv'
  <2>1. CASE \E g \in Graphs, t \in Topics : RegisterStream(k, g, t)
    BY <2>1, RegisterKeeps
  <2>2. CASE \/ GetStreamByGraphId(k) \/ MarkStreaming(k) \/ Unsubscribe(k) \/ SignalStreamStop(k)
             \/ \E t \in Topics, s \in Created : GetStreamsByTopic(k, t, s)
    BY <2>2, CommandKeeps
  <2>3. CASE AbandonStream(k) \/ UnregisterStopped(k)
    BY <2>3, RemovalKeeps
  <2>4. CASE StartConsumer(k)
    BY <2>4, StartKeeps
  <2> QED
    BY <1>1, <2>1, <2>2, <2>3, <2>4 DEF Session
<1>2. ASSUME NEW s \in Stream, Consumer(s) PROVE RegistryInv'
  <2>1. CASE \/ SeeStop(s) \/ SeeNoStop(s) \/ PollMessage(s) \/ EndOfStream(s) \/ PublishBlocks(s)
             \/ UpdateMetaDB(s)
    BY <2>1, ConsumerKeeps
  <2>2. CASE UnregisterStream(s)
    BY <2>2, UnregisterKeeps
  <2> QED
    BY <1>2, <2>1, <2>2 DEF Consumer
<1>3. CASE UNCHANGED vars
  BY <1>3 DEF vars, RegistryInv, TypeOK, EntriesOwned, NoDeadEntries, StopsRecorded, AddedOnce,
     LiveRegistered, Live, Created
<1> QED
  BY <1>1, <1>2, <1>3 DEF Next

\* The invariant of the registry holds in every reachable state.
THEOREM RegistryInvariant == Spec => []RegistryInv
<1> QED
  BY RegistryInit, RegistryStep, PTL DEF Spec

\* Whatever sessions and consumers do, the commands, the registry and the
\* consumers refer to streams that exist.
THEOREM StreamsTypeCorrect == Spec => []TypeOK
<1>1. RegistryInv => TypeOK
  BY DEF RegistryInv
<1> QED
  BY <1>1, RegistryInvariant, PTL

\* unregisterStream leaves no entry of the stream it ends, although it removes
\* by graph id: an entry is always under its own graph.
THEOREM RegistryHasNoDeadEntries == Spec => []NoDeadEntries
<1>1. RegistryInv => NoDeadEntries
  BY DEF RegistryInv
<1> QED
  BY <1>1, RegistryInvariant, PTL

\* Until a stop is signalled for a graph the registry is exact for it, however
\* many sessions add streams and however often streams end by themselves.
THEOREM RegistryExactUntilStopped == Spec => []ExactUntilStopped
<1>1. RegistryInv => ExactUntilStopped
  BY ConsumerStates DEF RegistryInv, LiveRegistered, Live, ExactUntilStopped
<1> QED
  BY <1>1, RegistryInvariant, PTL

=============================================================================
