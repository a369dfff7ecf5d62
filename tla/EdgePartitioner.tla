-------------------------- MODULE EdgePartitioner ---------------------------
(***************************************************************************)
(* HDFSMultiThreadedHashPartitioner: edges are put into an array per         *)
(* partition, and two consumer threads per partition, one for local edges    *)
(* and one for edge cuts, write them to files of a limited length and send   *)
(* each file to the partition's worker.                                      *)
(***************************************************************************)
EXTENDS Integers, SequencesExt, FiniteSets

CONSTANTS
    Partition,
    partitionFileEdgeThreshold

Kind == {"local", "cut"}

ASSUME PartitionerBounds ==
    /\ Partition \subseteq Nat
    /\ partitionFileEdgeThreshold \in Nat \ {0}

VARIABLES
    plan,       \* what is read, which consumers are followed, and what may fail
    array,      \* localEdgeArrays and edgeCutsArrays
    ready,      \* edgeReady and edgeCutsReady
    terminateConsumers,
    con,        \* where the consumer of a kind and partition is
    batch,      \* the array a consumer of local edges has taken
    file, open, \* the current file: its edges, and whether it is open
    given,      \* every edge put into an array
    sent, counted,
    trouble     \* what has gone wrong

threads == <<con, batch, file, open, sent, counted>>
partitioner == <<array, ready, terminateConsumers, threads, given, trouble>>

Consumers == Kind \X Partition
Each(x) == [c \in Consumers |-> x]

MayFail(fault) == fault \in plan.faults
\* Whether a file opens, and what sendFileChunkToWorker comes to.
Opens == {TRUE, ~MayFail("disk")}
Outcomes == {"stored"} \union (plan.faults \intersect {"failed", "stuck"})

PartitionerInit ==
    /\ array = Each(<<>>) /\ ready = Each(FALSE) /\ terminateConsumers = FALSE
    /\ con = [c \in Consumers |-> IF c \in plan.follows THEN "start" ELSE "done"]
    /\ batch = [p \in Partition |-> <<>>]
    /\ file = Each({}) /\ open = Each(FALSE)
    /\ given = {} /\ sent = {} /\ counted = {} /\ trouble = {}

---------------------------------------------------------------------------
\* Putting edges in.  The mutex of an array is held by its consumer between the
\* test of its condition and its sleep; that of edge cuts also at work.

Held(c) ==
    \/ con[c] = "blocking"
    \/ c[1] = "cut" /\ con[c] \in {"work", "send", "close", "stuck"}
Woken(c) == IF con[c] = "asleep" THEN [con EXCEPT ![c] = "lock"] ELSE con

Put(c, edge, notifies) ==
    /\ ~Held(c)
    /\ array' = [array EXCEPT ![c] = Append(@, edge)]
    /\ given' = given \union {edge}
    /\ IF notifies THEN ready' = [ready EXCEPT ![c] = TRUE] /\ con' = Woken(c)
                   ELSE UNCHANGED <<ready, con>>
    /\ UNCHANGED <<terminateConsumers, batch, file, open, sent, counted, trouble>>

addLocalEdge(edge, p) ==
    Put(<<"local", p>>, edge,
        Len(array[<<"local", p>>]) + 1 >= partitionFileEdgeThreshold)
addEdgeCut(edge, p) == Put(<<"cut", p>>, edge, TRUE)

---------------------------------------------------------------------------
\* The consumers.

At(c, where) == con[c] = where
To(c, where) == con' = [con EXCEPT ![c] = where]
Loop(c) == IF c[1] = "local" THEN "lock" ELSE "test"
Works(c) == IF c[1] = "local" THEN batch[c[2]] ELSE array[c]

open_first(c) ==
    /\ At(c, "start")
    /\ \E ok \in Opens :
         /\ open' = [open EXCEPT ![c] = ok]
         /\ To(c, IF ok THEN Loop(c) ELSE "done")
         /\ trouble' = IF ok THEN trouble ELSE trouble \union {"disk"}
    /\ UNCHANGED <<array, ready, terminateConsumers, batch, file, given, sent, counted>>

\* Only the consumer of edge cuts looks at the flag before it waits, and then
\* leaves without sending its file.
test(c) ==
    /\ At(c, "test")
    /\ To(c, IF terminateConsumers THEN "done" ELSE "lock")
    /\ UNCHANGED <<array, ready, terminateConsumers, batch, file, open, given, sent, counted, trouble>>

\* Mutant: the array is copied, not swapped.
take_copy(c) ==
    /\ batch' = [batch EXCEPT ![c[2]] = array[c]]
    /\ UNCHANGED array
take(c) ==
    /\ batch' = [batch EXCEPT ![c[2]] = array[c]]
    /\ array' = [array EXCEPT ![c] = <<>>]

wait(c) ==
    /\ At(c, "lock")
    /\ IF ~(ready[c] \/ terminateConsumers)
       THEN To(c, "blocking") /\ UNCHANGED <<array, ready, batch>>
       ELSE IF c[1] = "local"
       THEN take(c) /\ ready' = [ready EXCEPT ![c] = FALSE] /\ To(c, "work")
       ELSE /\ To(c, IF terminateConsumers THEN "close" ELSE "work")
            /\ UNCHANGED <<array, ready, batch>>
    /\ UNCHANGED <<terminateConsumers, file, open, given, sent, counted, trouble>>

sleep(c) ==
    /\ At(c, "blocking") /\ To(c, "asleep")
    /\ UNCHANGED <<array, ready, terminateConsumers, batch, file, open, given, sent, counted, trouble>>
\* A wake-up without cause; one that finds nothing new is no step.
spurious(c) ==
    /\ At(c, "asleep") /\ (ready[c] \/ terminateConsumers) /\ To(c, "lock")
    /\ UNCHANGED <<array, ready, terminateConsumers, batch, file, open, given, sent, counted, trouble>>

\* One edge goes to the file and, unless the file is full, to the counts.
write(c) ==
    /\ At(c, "work") /\ Works(c) # <<>>
    /\ IF c[1] = "local"
       THEN batch' = [batch EXCEPT ![c[2]] = Front(@)] /\ UNCHANGED array
       ELSE array' = [array EXCEPT ![c] = Front(@)] /\ UNCHANGED batch
    /\ LET edge == Last(Works(c)) IN
       /\ file' = [file EXCEPT ![c] = @ \union {edge}]
       /\ IF Cardinality(file[c]) + 1 >= partitionFileEdgeThreshold
          THEN To(c, "send") /\ UNCHANGED counted
          ELSE counted' = counted \union {edge} /\ UNCHANGED con
    /\ UNCHANGED <<ready, terminateConsumers, open, given, sent, trouble>>

\* After the last edge the two consumers differ once more: that of local edges
\* looks at the flag, that of edge cuts goes round.
worked(c) ==
    /\ At(c, "work") /\ Works(c) = <<>>
    /\ IF c[1] = "local"
       THEN To(c, IF terminateConsumers THEN "close" ELSE "lock") /\ UNCHANGED ready
       ELSE To(c, "test") /\ ready' = [ready EXCEPT ![c] = FALSE]
    /\ UNCHANGED <<array, terminateConsumers, batch, file, open, given, sent, counted, trouble>>

\* sendFileChunkToWorker under the partition's mutex; nobody looks at what it
\* returns, and a call that never returns keeps the mutex.
sendFileChunkToWorker(c, result) ==
    /\ \A k \in Kind : ~At(<<k, c[2]>>, "stuck")
    /\ sent' = IF result = "stored" /\ open[c] THEN sent \union file[c] ELSE sent
    /\ file' = IF result = "stuck" THEN file ELSE [file EXCEPT ![c] = {}]

\* If the next file does not open, the edges taken but not written are dropped.
next_file(c, ok) ==
    /\ open' = [open EXCEPT ![c] = ok]
    /\ counted' = IF ok THEN counted \union file[c] ELSE counted
    /\ batch' = IF ok \/ c[1] = "cut" THEN batch ELSE [batch EXCEPT ![c[2]] = <<>>]
    /\ ready' = IF ok \/ c[1] = "local" THEN ready ELSE [ready EXCEPT ![c] = FALSE]
    /\ To(c, IF ok \/ c[1] = "local" THEN "work" ELSE "test")

Wrong(result, ok) ==
    (IF result = "stored" THEN {} ELSE {result}) \union (IF ok THEN {} ELSE {"disk"})

send(c) ==
    /\ At(c, "send")
    /\ \E result \in Outcomes, ok \in Opens :
         /\ sendFileChunkToWorker(c, result)
         /\ IF result = "stuck" THEN To(c, "stuck") /\ UNCHANGED <<open, counted, batch, ready>>
                                ELSE next_file(c, ok)
         /\ trouble' = trouble \union Wrong(result, ok \/ result = "stuck")
    /\ UNCHANGED <<array, terminateConsumers, given>>

\* Mutant: the last, shorter file is not sent.
close_silently(c) ==
    /\ At(c, "close") /\ To(c, "done")
    /\ UNCHANGED <<array, ready, terminateConsumers, batch, file, open, given, sent, counted, trouble>>
close(c) ==
    /\ At(c, "close")
    /\ \/ /\ open[c] /\ file[c] # {}
          /\ \E result \in Outcomes :
               /\ sendFileChunkToWorker(c, result)
               /\ To(c, IF result = "stuck" THEN "stuck" ELSE "done")
               /\ trouble' = trouble \union Wrong(result, TRUE)
       \/ ~(open[c] /\ file[c] # {}) /\ To(c, "done") /\ UNCHANGED <<file, sent, trouble>>
    /\ UNCHANGED <<array, ready, terminateConsumers, batch, open, given, counted>>

consume(c) ==
    \/ open_first(c) \/ test(c) \/ wait(c) \/ sleep(c) \/ write(c) \/ worked(c)
    \/ send(c) \/ close(c)

---------------------------------------------------------------------------
\* stopConsumerThreads: the flag is raised and the threads are notified, both
\* without a mutex, so that one which has tested the flag and does not sleep
\* yet misses both.

terminate ==
    /\ terminateConsumers' = TRUE
    /\ UNCHANGED <<array, ready, threads, given, trouble>>

\* Mutant: the consumers of edge cuts are forgotten.
notify_local ==
    /\ con' = [c \in Consumers |-> IF c[1] = "local" /\ At(c, "asleep") THEN "lock" ELSE con[c]]
    /\ trouble' = trouble \union (IF \E c \in Consumers : At(c, "blocking") THEN {"missed"} ELSE {})
    /\ UNCHANGED <<array, ready, terminateConsumers, batch, file, open, given, sent, counted>>
notify_all ==
    /\ con' = [c \in Consumers |-> IF At(c, "asleep") THEN "lock" ELSE con[c]]
    /\ trouble' = trouble \union (IF \E c \in Consumers : At(c, "blocking") THEN {"missed"} ELSE {})
    /\ UNCHANGED <<array, ready, terminateConsumers, batch, file, open, given, sent, counted>>

Joined == \A c \in Consumers : At(c, "done")

\* What has to hold when the flag is raised for no edge to be left behind.  A
\* consumer of local edges empties its array once more, unless it has passed the
\* point where it takes it.  One of edge cuts does not, and sends its file only
\* if it waits.
Waiting(c) == con[c] \in {"lock", "blocking", "asleep"}
AtRest ==
    \A c \in Consumers :
      IF c[1] = "local" THEN array[c] = <<>> \/ Waiting(c) \/ At(c, "start")
                        ELSE array[c] = <<>> /\ (file[c] = {} \/ Waiting(c))
=============================================================================
