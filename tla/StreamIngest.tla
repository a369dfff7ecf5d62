---------------------------- MODULE StreamIngest ----------------------------
(***************************************************************************)
(* The way of streamed edges into the partitions' stores.  On the master,  *)
(* StreamHandler::listen_to_kafka_topic publishes every edge in lock-step  *)
(* to the worker of each of its partitions, and "-1" to every worker at    *)
(* the end.  On a worker, the session's InstanceStreamHandler queues the   *)
(* edge for the partition's thread, which stores it; "-1" ends the threads.*)
(* A worker session, and so its handler, serves every stream that one      *)
(* front-end session starts.  A stream may start while another is running: *)
(* both then publish over the same connections, which nothing guards.      *)
(***************************************************************************)
EXTENDS Integers, Sequences, FiniteSets

CONSTANTS
  NPartitions,  \* partitions of the streamed graphs, each with its identifier
  NWorkers,     \* workers, org.jasminegraph.server.nworkers
  MaxEdges,     \* bound: edges read from Kafka
  MaxStreams    \* bound: streams started by the front-end session

ASSUME IngestAssumption ==
  /\ NPartitions \in Nat \ {0} /\ NWorkers \in Nat \ {0}
  /\ MaxEdges \in Nat /\ MaxStreams \in Nat

Partition == 0 .. NPartitions - 1
Worker == 0 .. NWorkers - 1
Edge == 1 .. MaxEdges
Stream == 1 .. MaxStreams

\* An edge stands for its place in the order of reading; 0 is "-1".
End == 0

\* No stream.
None == 0

WorkerOf(p) == p % NWorkers

Message == [worker : Worker, partition : Partition, edge : Edge \cup {End}]

VARIABLES
  streams,    \* streams started so far
  listening,  \* listen_to_kafka_topic: the stream is in its loop
  read,       \* the edges read so far
  sends,      \* publications a stream's loop still has to make for one message
  conn,       \* the session's connection to a worker: up, mute, or its worker dead
  ending,     \* the stream whose "-1" a worker is handling, or none
  toNotify,   \* the partitions whose condition variable is not yet notified
  terminateThreads,
  thread,     \* threadFunction of a partition: where it is
  queues,     \* the queue of a partition
  inHand,     \* the edge its thread has taken, or none
  stored,     \* the edges given to the partition's store, in order
  received    \* history: the edges that reached the partition's worker

masterVars == <<listening, streams, read, sends, conn>>
threadVars == <<thread, queues, inHand, stored, received>>
vars == <<masterVars, ending, toNotify, terminateThreads, threadVars>>

Init ==
  /\ streams = 1 /\ listening = [s \in Stream |-> s = 1]
  /\ read = 0 /\ sends = [s \in Stream |-> <<>>]
  /\ conn = [w \in Worker |-> "up"]
  /\ ending = [w \in Worker |-> None]
  /\ toNotify = [w \in Worker |-> {}]
  /\ terminateThreads = [w \in Worker |-> FALSE]
  /\ thread = [p \in Partition |-> "none"]
  /\ queues = [p \in Partition |-> <<>>]
  /\ inHand = [p \in Partition |-> <<>>]
  /\ stored = [p \in Partition |-> <<>>]
  /\ received = [p \in Partition |-> <<>>]

-----------------------------------------------------------------------------
(* The master: StreamHandler::listen_to_kafka_topic *)

ToPartition(p, e) == [worker |-> WorkerOf(p), partition |-> p, edge |-> e]

\* An edge is local to one partition, or central and stored in two.
ReadEdge(s, ps, pd) ==
  /\ listening[s] /\ sends[s] = <<>> /\ read < MaxEdges
  /\ read' = read + 1
  /\ sends' = [sends EXCEPT ![s] =
                 IF ps = pd THEN <<ToPartition(ps, read')>>
                            ELSE <<ToPartition(ps, read'), ToPartition(pd, read')>>]
  /\ UNCHANGED <<listening, streams, conn, ending, toNotify, terminateThreads, threadVars>>

\* The stop flag or an end message: "-1" goes to every worker.
PublishEnd(s) ==
  /\ listening[s] /\ sends[s] = <<>>
  /\ listening' = [listening EXCEPT ![s] = FALSE]
  /\ sends' = [sends EXCEPT ![s] =
                 [i \in 1 .. NWorkers |-> [worker |-> i - 1, partition |-> 0, edge |-> End]]]
  /\ UNCHANGED <<streams, read, conn, ending, toNotify, terminateThreads, threadVars>>

\* The session starts another stream and hands it the same DataPublishers; a
\* stream that is still running is detached and runs on.
StartStream ==
  /\ streams < MaxStreams
  /\ streams' = streams + 1
  /\ listening' = [listening EXCEPT ![streams'] = TRUE]
  /\ UNCHANGED <<read, sends, conn, ending, toNotify, terminateThreads, threadVars>>

Publishes(s, w) == sends[s] # <<>> /\ Head(sends[s]).worker = w

\* Two streams publish to one worker at once: what they send and the answers they
\* read mix.  The session takes one's bytes for the other's command, length or
\* edge, and understands nothing from then on, or a length or an edge without a
\* graph makes it throw, which ends the worker's process.
Mix(w) ==
  /\ conn[w] = "up"
  /\ \E s, t \in Stream : s # t /\ Publishes(s, w) /\ Publishes(t, w)
  /\ \E outcome \in {"mute"} \cup (IF ending[w] = None THEN {"dead"} ELSE {}) :
       conn' = [conn EXCEPT ![w] = outcome]
  /\ UNCHANGED <<listening, streams, read, sends, ending, toNotify, terminateThreads, threadVars>>

\* publish looks at no answer: over a broken connection it returns, and the
\* message is gone, or waits for ever.
LosePublication(s) ==
  /\ \E w \in Worker : Publishes(s, w) /\ conn[w] # "up" /\ ending[w] # s
  /\ sends' = [sends EXCEPT ![s] = Tail(@)]
  /\ UNCHANGED <<listening, streams, read, conn, ending, toNotify, terminateThreads, threadVars>>

-----------------------------------------------------------------------------
(* A worker session: InstanceStreamHandler::handleRequest *)

\* The lock of a partition is held by its thread between its test of the
\* queue and its block on the condition variable.
Locked(p) == thread[p] = "blocking"

Notified(t) == IF t = "asleep" THEN "locking" ELSE t

\* A session reads one publication after the other.
Hears(s, w) == Publishes(s, w) /\ conn[w] = "up" /\ ending[w] = None

\* Mutant: the edge is queued and nobody is told.
HandleEdgeSilently(s) ==
  /\ sends[s] # <<>> /\ Head(sends[s]).edge # End
  /\ Hears(s, Head(sends[s]).worker)
  /\ LET p == Head(sends[s]).partition
         e == Head(sends[s]).edge
     IN /\ ~Locked(p)
        /\ thread' = [thread EXCEPT ![p] = IF @ = "none" THEN "loading" ELSE @]
        /\ queues' = [queues EXCEPT ![p] = Append(@, e)]
        /\ received' = [received EXCEPT ![p] = Append(@, e)]
  /\ sends' = [sends EXCEPT ![s] = Tail(@)]
  /\ UNCHANGED <<listening, streams, read, conn, ending, toNotify, terminateThreads, inHand, stored>>

\* Mutant: the thread and its queue are made anew for every edge.
HandleEdgeAfresh(s) ==
  /\ sends[s] # <<>> /\ Head(sends[s]).edge # End
  /\ Hears(s, Head(sends[s]).worker)
  /\ LET p == Head(sends[s]).partition
         e == Head(sends[s]).edge
     IN /\ ~Locked(p)
        /\ thread' = [thread EXCEPT ![p] = IF @ = "none" THEN "loading" ELSE Notified(@)]
        /\ queues' = [queues EXCEPT ![p] = <<e>>]
        /\ received' = [received EXCEPT ![p] = Append(@, e)]
  /\ sends' = [sends EXCEPT ![s] = Tail(@)]
  /\ UNCHANGED <<listening, streams, read, conn, ending, toNotify, terminateThreads, inHand, stored>>

\* The partition's first edge makes its thread and its queue.
HandleEdge(s) ==
  /\ sends[s] # <<>> /\ Head(sends[s]).edge # End
  /\ Hears(s, Head(sends[s]).worker)
  /\ LET p == Head(sends[s]).partition
         e == Head(sends[s]).edge
     IN /\ ~Locked(p)
        /\ thread' = [thread EXCEPT ![p] = IF @ = "none" THEN "loading" ELSE Notified(@)]
        /\ queues' = [queues EXCEPT ![p] = Append(@, e)]
        /\ received' = [received EXCEPT ![p] = Append(@, e)]
  /\ sends' = [sends EXCEPT ![s] = Tail(@)]
  /\ UNCHANGED <<listening, streams, read, conn, ending, toNotify, terminateThreads, inHand, stored>>

PartitionsOf(w) == {p \in Partition : WorkerOf(p) = w /\ thread[p] # "none"}

\* "-1": the flag is set without a lock.
HandleEnd(s, w) ==
  /\ Hears(s, w) /\ Head(sends[s]).edge = End
  /\ terminateThreads' = [terminateThreads EXCEPT ![w] = TRUE]
  /\ ending' = [ending EXCEPT ![w] = s]
  /\ toNotify' = [toNotify EXCEPT ![w] = PartitionsOf(w)]
  /\ UNCHANGED <<masterVars, threadVars>>

\* notify_all, one condition variable after the other, without their locks.
NotifyAll(w, p) ==
  /\ ending[w] # None /\ p \in toNotify[w]
  /\ \A q \in toNotify[w] : p <= q
  /\ thread' = [thread EXCEPT ![p] = Notified(@)]
  /\ toNotify' = [toNotify EXCEPT ![w] = @ \ {p}]
  /\ UNCHANGED <<masterVars, ending, terminateThreads, queues, inHand, stored, received>>

\* Mutant: the threads are left to finish by themselves.
JoinNobody(w) ==
  /\ ending[w] # None /\ toNotify[w] = {}
  /\ ending' = [ending EXCEPT ![w] = None]
  /\ sends' = [sends EXCEPT ![ending[w]] = Tail(@)]
  /\ UNCHANGED <<listening, streams, read, conn, toNotify, terminateThreads, threadVars>>

\* The threads are joined and the publisher gets its answer.  The joined
\* threads stay in the map, and the flag stays set.
JoinThreads(w) ==
  /\ ending[w] # None /\ toNotify[w] = {}
  /\ \A p \in PartitionsOf(w) : thread[p] = "exited"
  /\ ending' = [ending EXCEPT ![w] = None]
  /\ sends' = [sends EXCEPT ![ending[w]] = Tail(@)]
  /\ UNCHANGED <<listening, streams, read, conn, toNotify, terminateThreads, threadVars>>

-----------------------------------------------------------------------------
(* A partition's thread: InstanceStreamHandler::threadFunction *)

Go(p, state) == thread' = [thread EXCEPT ![p] = state]

ThreadOnly == UNCHANGED <<masterVars, ending, toNotify, terminateThreads>>

\* loadStreamingStore, unless another session has loaded the partition.
LoadStore(p) ==
  /\ thread[p] = "loading"
  /\ Go(p, "loop")
  /\ ThreadOnly /\ UNCHANGED <<queues, inHand, stored, received>>

\* while (!terminateThreads)
TestTerminate(p) ==
  /\ thread[p] = "loop"
  /\ Go(p, IF terminateThreads[WorkerOf(p)] THEN "exited" ELSE "locking")
  /\ ThreadOnly /\ UNCHANGED <<queues, inHand, stored, received>>

\* Mutant: the thread waits without a look at its queue.
WaitFirst(p) ==
  /\ thread[p] = "locking"
  /\ ThreadOnly /\ UNCHANGED <<stored, received>>
  /\ \/ /\ terminateThreads[WorkerOf(p)]
        /\ Go(p, "exited") /\ UNCHANGED <<queues, inHand>>
     \/ /\ ~terminateThreads[WorkerOf(p)]
        /\ Go(p, "blocking") /\ UNCHANGED <<queues, inHand>>

\* With the lock held: leave, take the first edge, or get ready to block.
TakeEdge(p) ==
  /\ thread[p] = "locking"
  /\ ThreadOnly /\ UNCHANGED <<stored, received>>
  /\ \/ /\ terminateThreads[WorkerOf(p)]
        /\ Go(p, "exited") /\ UNCHANGED <<queues, inHand>>
     \/ /\ ~terminateThreads[WorkerOf(p)] /\ queues[p] # <<>>
        /\ Go(p, "storing")
        /\ inHand' = [inHand EXCEPT ![p] = <<Head(queues[p])>>]
        /\ queues' = [queues EXCEPT ![p] = Tail(@)]
     \/ /\ ~terminateThreads[WorkerOf(p)] /\ queues[p] = <<>>
        /\ Go(p, "blocking") /\ UNCHANGED <<queues, inHand>>

\* cond_vars.wait gives the lock up and blocks.
Block(p) ==
  /\ Locked(p)
  /\ Go(p, "asleep")
  /\ ThreadOnly /\ UNCHANGED <<queues, inHand, stored, received>>

\* A condition variable may wake its waiter for no reason.
WakeSpuriously(p) ==
  /\ conn[WorkerOf(p)] # "dead" /\ thread[p] = "asleep"
  /\ Go(p, "locking")
  /\ ThreadOnly /\ UNCHANGED <<queues, inHand, stored, received>>

\* addEdgeFromString, without the lock; it catches every exception.
StoreEdge(p) ==
  /\ thread[p] = "storing"
  /\ stored' = [stored EXCEPT ![p] = @ \o inHand[p]]
  /\ inHand' = [inHand EXCEPT ![p] = <<>>]
  /\ Go(p, "loop")
  /\ ThreadOnly /\ UNCHANGED <<queues, received>>

-----------------------------------------------------------------------------
Master ==
  \/ StartStream
  \/ \E s \in Stream :
       PublishEnd(s) \/ LosePublication(s) \/ \E ps, pd \in Partition : ReadEdge(s, ps, pd)

Session ==
  \/ \E s \in Stream : HandleEdge(s) \/ \E w \in Worker : HandleEnd(s, w)
  \/ \E w \in Worker : JoinThreads(w) \/ \E p \in Partition : NotifyAll(w, p)

Run(p) ==
  /\ conn[WorkerOf(p)] # "dead"
  /\ LoadStore(p) \/ TestTerminate(p) \/ TakeEdge(p) \/ Block(p) \/ StoreEdge(p)

Next ==
  \/ Master \/ Session \/ \E w \in Worker : Mix(w)
  \/ \E p \in Partition : Run(p) \/ WakeSpuriously(p)

Spec == Init /\ [][Next]_vars

\* A thread that can run runs; the master and the sessions may stop.
FairSpec == Spec /\ \A p \in Partition : WF_vars(Run(p))

-----------------------------------------------------------------------------
ThreadState == {"none", "loading", "loop", "locking", "blocking", "asleep", "storing", "exited"}

\* Every variable keeps its type.
TypeOK ==
  /\ listening \in [Stream -> BOOLEAN] /\ streams \in Nat /\ read \in 0 .. MaxEdges
  /\ sends \in [Stream -> Seq(Message)]
  /\ conn \in [Worker -> {"up", "mute", "dead"}]
  /\ ending \in [Worker -> Stream \cup {None}]
  /\ toNotify \in [Worker -> SUBSET Partition]
  /\ terminateThreads \in [Worker -> BOOLEAN]
  /\ thread \in [Partition -> ThreadState]
  /\ queues \in [Partition -> Seq(Edge)]
  /\ inHand \in [Partition -> Seq(Edge)]
  /\ stored \in [Partition -> Seq(Edge)]
  /\ received \in [Partition -> Seq(Edge)]

\* No edge is lost, doubled or overtaken between a worker's acknowledgement and
\* its store: what a partition received is what it stored, then what its thread
\* holds, then its queue.  After "-1" the queue is what will never be stored.
Conserved ==
  \A p \in Partition : received[p] = stored[p] \o inHand[p] \o queues[p]

\* No thread sleeps on its condition variable over a queue with edges in it,
\* unless the stream was ended.
NoSleepOverWork ==
  \A p \in Partition :
    thread[p] \in {"blocking", "asleep"} /\ ~terminateThreads[WorkerOf(p)] => queues[p] = <<>>

\* Once a worker has answered "-1", its threads leave the stores alone, also
\* those of partitions that first appear in a later stream of the session.
NothingStoredAfterEnd ==
  [][\A p \in Partition :
       terminateThreads[WorkerOf(p)] /\ ending[WorkerOf(p)] = None => stored'[p] = stored[p]]_vars

\* An acknowledged edge is stored at last, unless "-1" comes or the publications
\* of two streams meet and end the worker.
EdgesStored ==
  \A p \in Partition : \A n \in Edge :
    (Len(received[p]) >= n) ~> (Len(stored[p]) >= n \/ terminateThreads[WorkerOf(p)]
                                 \/ conn[WorkerOf(p)] = "dead")

-----------------------------------------------------------------------------
(* The strengthening that makes the properties above inductive. *)

\* A thread holds an edge only while it stores it.
HandsEmpty == \A p \in Partition : thread[p] # "storing" => inHand[p] = <<>>

\* A worker that has answered "-1" has no thread that could store an edge.
QuietAfterEnd ==
  \A p \in Partition :
    terminateThreads[WorkerOf(p)] /\ ending[WorkerOf(p)] = None =>
      thread[p] \in {"none", "loading", "loop", "exited"}

\* Only "-1" sets the flag, and it is being handled while it is published.
EndsWithFlag ==
  \A w \in Worker :
    ending[w] # None =>
      terminateThreads[w] /\ Publishes(ending[w], w) /\ Head(sends[ending[w]]).edge = End

\* The inductive invariant.
IngestInv == TypeOK /\ Conserved /\ NoSleepOverWork /\ HandsEmpty /\ QuietAfterEnd /\ EndsWithFlag

=============================================================================
