---------------------------- MODULE KafkaStreams ----------------------------
(***************************************************************************)
(* The life of a Kafka stream on the master: the front-end commands that   *)
(* start and stop one, the StreamRegistry they share with the consumer     *)
(* threads, and StreamHandler::listen_to_kafka_topic, which every consumer *)
(* thread runs.  The registry's methods are atomic, the commands and the   *)
(* consumers are not: each makes several calls, and other sessions and     *)
(* consumers act in between.                                               *)
(***************************************************************************)
EXTENDS Naturals, Sequences, FiniteSets

CONSTANTS
  Graphs,      \* graph ids
  Topics,      \* topic names
  Sessions,    \* front-end sessions
  None,        \* no stream
  MaxStreams   \* bound: how many streams are started

ASSUME StreamAssumption ==
  /\ MaxStreams \in Nat
  /\ None \notin 1 .. MaxStreams

\* A StreamMetadata object, named by the order of creation.
Stream == 1 .. MaxStreams

VARIABLES
  made,           \* the graph and the topic of every stream created so far
  activeStreams,  \* StreamRegistry: the stream of a graph id, or None
  stopFlags,      \* the streams whose stop flag is set
  flagOf,         \* the stream whose stop flag a StreamHandler reads
  consumer,       \* listen_to_kafka_topic: where it is
  unsubscribed,   \* the streams whose Kafka consumer is unsubscribed
  command,        \* what each session is doing, and with which stream
  status,         \* graph_status_idgraph_status in the meta database
  stopped         \* history: the graphs for which a stop was signalled

vars == <<made, activeStreams, stopFlags, flagOf, consumer, unsubscribed,
          command, status, stopped>>

Idle == [step |-> "idle", stream |-> None]

Doing(step, s) == [step |-> step, stream |-> s]

Created == DOMAIN made

Init ==
  /\ made = <<>>
  /\ activeStreams = [g \in Graphs |-> None]
  /\ stopFlags = {}
  /\ flagOf = [s \in Stream |-> None]
  /\ consumer = [s \in Stream |-> "none"]
  /\ unsubscribed = {}
  /\ command = [k \in Sessions |-> Idle]
  /\ status = [g \in Graphs |-> "operational"]
  /\ stopped = {}

-----------------------------------------------------------------------------
(* add_stream_kafka_command *)

\* Mutant: a graph that is being streamed is registered again.
RegisterStreamAgain(k, g, t) ==
  /\ command[k] = Idle
  /\ Len(made) < MaxStreams
  /\ LET s == Len(made) + 1
     IN /\ made' = Append(made, [graph |-> g, topic |-> t])
        /\ activeStreams' = [activeStreams EXCEPT ![g] = s]
        /\ command' = [command EXCEPT ![k] = Doing("registered", s)]
  /\ UNCHANGED <<stopFlags, flagOf, consumer, unsubscribed, status, stopped>>

\* registerStream; a graph already registered is refused and nothing changes.
RegisterStream(k, g, t) ==
  /\ command[k] = Idle
  /\ Len(made) < MaxStreams
  /\ activeStreams[g] = None
  /\ LET s == Len(made) + 1
     IN /\ made' = Append(made, [graph |-> g, topic |-> t])
        /\ activeStreams' = [activeStreams EXCEPT ![g] = s]
        /\ command' = [command EXCEPT ![k] = Doing("registered", s)]
  /\ UNCHANGED <<stopFlags, flagOf, consumer, unsubscribed, status, stopped>>

\* getStreamByGraphId: the handler is given the stop flag of the entry it
\* finds, which need not be the entry just made.
GetStreamByGraphId(k) ==
  /\ command[k].step = "registered"
  /\ LET s == command[k].stream
         m == activeStreams[made[s].graph]
     IN /\ command' = [command EXCEPT
                         ![k] = Doing(IF m = None THEN "failed" ELSE "found flag", s)]
        /\ flagOf' = [flagOf EXCEPT ![s] = m]
  /\ UNCHANGED <<made, activeStreams, stopFlags, consumer, unsubscribed, status, stopped>>

\* "Failed to initialize stream metadata": unregisterStream and give up.
AbandonStream(k) ==
  /\ command[k].step = "failed"
  /\ activeStreams' = [activeStreams EXCEPT ![made[command[k].stream].graph] = None]
  /\ command' = [command EXCEPT ![k] = Idle]
  /\ UNCHANGED <<made, stopFlags, flagOf, consumer, unsubscribed, status, stopped>>

\* The graph's row is inserted or updated with the status STREAMING.
MarkStreaming(k) ==
  /\ command[k].step = "found flag"
  /\ LET s == command[k].stream
     IN /\ status' = [status EXCEPT ![made[s].graph] = "streaming"]
        /\ command' = [command EXCEPT ![k] = Doing("marked", s)]
  /\ UNCHANGED <<made, activeStreams, stopFlags, flagOf, consumer, unsubscribed, stopped>>

\* The consumer thread starts; the session's previous one is detached.
StartConsumer(k) ==
  /\ command[k].step = "marked"
  /\ consumer' = [consumer EXCEPT ![command[k].stream] = "running"]
  /\ command' = [command EXCEPT ![k] = Idle]
  /\ UNCHANGED <<made, activeStreams, stopFlags, flagOf, unsubscribed, status, stopped>>

-----------------------------------------------------------------------------
(* stop_stream_kafka_command *)

\* getStreamsByTopic; among several the user names the graph.
GetStreamsByTopic(k, t, s) ==
  /\ command[k] = Idle
  /\ s \in Created /\ made[s].topic = t /\ activeStreams[made[s].graph] = s
  /\ command' = [command EXCEPT ![k] = Doing("found stream", s)]
  /\ UNCHANGED <<made, activeStreams, stopFlags, flagOf, consumer, unsubscribed, status, stopped>>

\* signalStreamStop looks the graph id up again.
SignalStreamStop(k) ==
  /\ command[k].step = "found stream"
  /\ LET s == command[k].stream
         g == made[s].graph
         m == activeStreams[g]
     IN \/ /\ m = None
           /\ command' = [command EXCEPT ![k] = Idle]
           /\ UNCHANGED <<stopFlags, stopped>>
        \/ /\ m # None
           /\ stopFlags' = stopFlags \cup {m}
           /\ stopped' = stopped \cup {g}
           /\ command' = [command EXCEPT ![k] = Doing("signalled", s)]
  /\ UNCHANGED <<made, activeStreams, flagOf, consumer, unsubscribed, status>>

\* Unsubscribe, on the connector of the entry found first.
Unsubscribe(k) ==
  /\ command[k].step = "signalled"
  /\ unsubscribed' = unsubscribed \cup {command[k].stream}
  /\ command' = [command EXCEPT ![k] = Doing("unsubscribed", command[k].stream)]
  /\ UNCHANGED <<made, activeStreams, stopFlags, flagOf, consumer, status, stopped>>

\* The reply, then unregisterStream; a reply that fails skips it.
UnregisterStopped(k) ==
  /\ command[k].step = "unsubscribed"
  /\ \/ activeStreams' = [activeStreams EXCEPT ![made[command[k].stream].graph] = None]
     \/ UNCHANGED activeStreams
  /\ command' = [command EXCEPT ![k] = Idle]
  /\ UNCHANGED <<made, stopFlags, flagOf, consumer, unsubscribed, status, stopped>>

-----------------------------------------------------------------------------
(* StreamHandler::listen_to_kafka_topic *)

\* Mutant: the consumer looks at the stop flag only when a message arrives.
SeeStopIfSubscribed(s) ==
  /\ consumer[s] = "running"
  /\ s \notin unsubscribed
  /\ flagOf[s] \in stopFlags
  /\ consumer' = [consumer EXCEPT ![s] = "ending"]
  /\ UNCHANGED <<made, activeStreams, stopFlags, flagOf, unsubscribed, command, status, stopped>>

\* The loop begins by looking at the stop flag: it ends, and publishes "-1" to
\* every worker, or it polls.
SeeStop(s) ==
  /\ consumer[s] = "running"
  /\ flagOf[s] \in stopFlags
  /\ consumer' = [consumer EXCEPT ![s] = "ending"]
  /\ UNCHANGED <<made, activeStreams, stopFlags, flagOf, unsubscribed, command, status, stopped>>
SeeNoStop(s) ==
  /\ consumer[s] = "running"
  /\ flagOf[s] \notin stopFlags
  /\ consumer' = [consumer EXCEPT ![s] = "polling"]
  /\ UNCHANGED <<made, activeStreams, stopFlags, flagOf, unsubscribed, command, status, stopped>>

\* Nothing within the time limit, an error, or an edge, which is published.
PollMessage(s) ==
  /\ consumer[s] = "polling"
  /\ consumer' = [consumer EXCEPT ![s] = "running"]
  /\ UNCHANGED <<made, activeStreams, stopFlags, flagOf, unsubscribed, command, status, stopped>>

\* A message "-1" arrives, which ends the stream as well.
EndOfStream(s) ==
  /\ consumer[s] = "polling"
  /\ s \notin unsubscribed
  /\ consumer' = [consumer EXCEPT ![s] = "ending"]
  /\ UNCHANGED <<made, activeStreams, stopFlags, flagOf, unsubscribed, command, status, stopped>>

\* DataPublisher::publish waits for the worker's answers without a time limit,
\* those to an edge as well as those to "-1", and a worker may give none.
PublishBlocks(s) ==
  /\ consumer[s] \in {"polling", "ending"}
  /\ consumer' = [consumer EXCEPT ![s] = "blocked"]
  /\ UNCHANGED <<made, activeStreams, stopFlags, flagOf, unsubscribed, command, status, stopped>>

\* Mutant: the entry is left to the stop command.
UnregisterNothing(s) ==
  /\ consumer[s] = "ending"
  /\ consumer' = [consumer EXCEPT ![s] = "unregistered"]
  /\ UNCHANGED <<made, activeStreams, stopFlags, flagOf, unsubscribed, command, status, stopped>>

\* unregisterStream(graphId), whichever stream the entry is of.
UnregisterStream(s) ==
  /\ consumer[s] = "ending"
  /\ activeStreams' = [activeStreams EXCEPT ![made[s].graph] = None]
  /\ consumer' = [consumer EXCEPT ![s] = "unregistered"]
  /\ UNCHANGED <<made, stopFlags, flagOf, unsubscribed, command, status, stopped>>

\* Partitioner::updateMetaDB.
UpdateMetaDB(s) ==
  /\ consumer[s] = "unregistered"
  /\ status' = [status EXCEPT ![made[s].graph] = "operational"]
  /\ consumer' = [consumer EXCEPT ![s] = "ended"]
  /\ UNCHANGED <<made, activeStreams, stopFlags, flagOf, unsubscribed, command, stopped>>

-----------------------------------------------------------------------------
Session(k) ==
  \/ \E g \in Graphs, t \in Topics : RegisterStream(k, g, t)
  \/ \E t \in Topics, s \in Created : GetStreamsByTopic(k, t, s)
  \/ GetStreamByGraphId(k) \/ AbandonStream(k) \/ MarkStreaming(k) \/ StartConsumer(k)
  \/ SignalStreamStop(k) \/ Unsubscribe(k) \/ UnregisterStopped(k)

Consumer(s) ==
  \/ SeeStop(s) \/ SeeNoStop(s) \/ PollMessage(s) \/ EndOfStream(s) \/ PublishBlocks(s)
  \/ UnregisterStream(s) \/ UpdateMetaDB(s)

Next == (\E k \in Sessions : Session(k)) \/ (\E s \in Stream : Consumer(s))

Spec == Init /\ [][Next]_vars

\* A consumer polls with a time limit and then looks at its stop flag again,
\* unless a worker it publishes to does not answer; whether a message ever
\* arrives is not up to the program.
Fairness ==
  \A s \in Stream :
    WF_vars(SeeStop(s) \/ PollMessage(s) \/ UnregisterStream(s) \/ UpdateMetaDB(s))

FairSpec == Spec /\ Fairness

-----------------------------------------------------------------------------
InLoop == {"running", "polling"}
Unfinished == InLoop \cup {"ending", "blocked"}

Steps == {"idle", "registered", "failed", "found flag", "marked", "found stream",
          "signalled", "unsubscribed"}

\* Every variable keeps its type, and a command is about a stream that exists.
TypeOK ==
  /\ made \in Seq([graph : Graphs, topic : Topics]) /\ Len(made) <= MaxStreams
  /\ activeStreams \in [Graphs -> Stream \cup {None}]
  /\ stopFlags \subseteq Stream
  /\ flagOf \in [Stream -> Stream \cup {None}]
  /\ consumer \in [Stream -> {"none", "unregistered", "ended"} \cup Unfinished]
  /\ unsubscribed \subseteq Stream
  /\ command \in [Sessions -> [step : Steps, stream : Stream \cup {None}]]
  /\ \A k \in Sessions : command[k].step # "idle" => command[k].stream \in Created
  /\ status \in [Graphs -> {"streaming", "operational"}]
  /\ stopped \subseteq Graphs

\* The registry never leads to a stream that is over: when a consumer has called
\* unregisterStream, no entry of its stream remains for a stop command to find.
NoDeadEntries ==
  \A g \in Graphs :
    activeStreams[g] # None => consumer[activeStreams[g]] \in {"none"} \cup Unfinished

\* As long as no stop is signalled for a graph, the registry is exact for it:
\* its running consumer, if any, is the one registered, and it is the only one,
\* whatever other sessions try and however often streams end by themselves.
ExactUntilStopped ==
  \A s \in Created :
    consumer[s] \in InLoop /\ made[s].graph \notin stopped =>
      activeStreams[made[s].graph] = s

\* A consumer whose stop flag is set, which it is for good, finishes, also when
\* it is unsubscribed, unless a worker never answers what it publishes.
StoppedConsumersEnd ==
  \A s \in Stream :
    []<>(flagOf[s] \in stopFlags => consumer[s] \in {"none", "ended", "blocked"})

\* "Global registry for managing all active Kafka streams": a consumer that has
\* not been told to stop can be found in the registry.
ActiveStreamsRegistered ==
  \A s \in Created :
    consumer[s] \in InLoop /\ flagOf[s] \notin stopFlags =>
      activeStreams[made[s].graph] = s

-----------------------------------------------------------------------------
(* The strengthening that makes NoDeadEntries and ExactUntilStopped inductive. *)

\* Entries and consumers are of streams that exist, an entry under its graph.
EntriesOwned ==
  /\ \A s \in Stream : consumer[s] # "none" => s \in Created
  /\ \A g \in Graphs :
       activeStreams[g] # None =>
         activeStreams[g] \in Created /\ made[activeStreams[g]].graph = g

AddSteps == {"registered", "failed", "found flag", "marked"}

\* Past its signal, a stop command has put its graph among the stopped ones;
\* and only a stop can take the entry from a command that is adding a stream.
StopsRecorded ==
  \A k \in Sessions :
    command[k].step \in {"signalled", "unsubscribed", "failed"} =>
      made[command[k].stream].graph \in stopped

\* A stream that is being added has no consumer yet, and one command adds it.
AddedOnce ==
  \A k \in Sessions :
    command[k].step \in AddSteps =>
      /\ consumer[command[k].stream] = "none"
      /\ \A j \in Sessions \ {k} :
           command[j].step \in AddSteps => command[j].stream # command[k].stream

\* A stream that is being added, or whose consumer has not unregistered it.
Live(s) ==
  \/ consumer[s] \in Unfinished
  \/ \E k \in Sessions : command[k].step \in AddSteps /\ command[k].stream = s

LiveRegistered ==
  \A s \in Created :
    Live(s) /\ made[s].graph \notin stopped => activeStreams[made[s].graph] = s

\* The inductive invariant.
RegistryInv ==
  TypeOK /\ EntriesOwned /\ NoDeadEntries /\ StopsRecorded /\ AddedOnce /\ LiveRegistered

=============================================================================
