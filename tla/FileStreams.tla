---------------------------- MODULE FileStreams -----------------------------
(***************************************************************************)
(* A file becomes a graph.  A reader thread puts it piece by piece into      *)
(* dataBuffer, several threads take the pieces and give their edges to the    *)
(* partitioner, and the thread that started them joins them.  Three programs  *)
(* do this: HDFSStreamHandler ("hdfs", a piece is a line, which is an edge),  *)
(* and Pipeline for a file in HDFS ("kg") and for a local one ("local"),      *)
(* where a worker turns a piece of text into edges and a second row of        *)
(* threads passes them on.                                                    *)
(***************************************************************************)
EXTENDS EdgePartitioner

CONSTANTS
    Plans,              \* the plans to choose from, see below
    Thread,             \* 1 .. EDGE_SEPARATION_LAYER_THREAD_COUNT or chunksPerBatch
    MAX_BUFFER_SIZE,    \* of dataBuffer in HDFSStreamHandler
    MASTER_BUFFER_SIZE  \* of the SharedBuffer of one extracting thread

ASSUME StreamBounds ==
    /\ MAX_BUFFER_SIZE \in Nat \ {0} /\ MASTER_BUFFER_SIZE \in Nat \ {0}
    /\ \A p \in Plans : p.count \in 0 .. p.workers /\ p.follows \subseteq Consumers

\* A plan is a record: source, pieces (of each the calls it comes to), cut
\* (the last piece has no end of line), follows (the consumers that are followed;
\* the others get no edge), count (threads that take pieces: chunksPerBatch, the
\* number of language model runners, may be 0), workers (workerList.size(): Pipeline's
\* bound and number of markers), stops (the user may stop the work), faults (what
\* may fail).

VARIABLES
    rd, next, \* the reader, and the piece it reads next
    dataBuffer, isReading, isProcessing, stopFlag,
    thr, hand, alive, retry,  \* the threads that take pieces
    tuples, tt,               \* Pipeline's SharedBuffers and their readers
    main, reported, atRest

reader == <<rd, next>>
takers == <<thr, hand, alive, retry>>
passers == <<tuples, tt>>
starter == <<main, reported, atRest>>
streams == <<plan, reader, dataBuffer, isReading, isProcessing, stopFlag, takers,
             passers, starter>>
vars == <<partitioner, streams>>

Marker == 0
END == [id |-> 0, kind |-> "END_OF_STREAM_MARKER", part |-> 0]
Hdfs == plan.source = "hdfs"
Pieces == Len(plan.pieces)
\* How many pieces are pushed by the loop; one more may follow as leftover.
Whole == IF plan.cut THEN Pieces - 1 ELSE Pieces

Init ==
    /\ plan \in Plans
    /\ PartitionerInit
    /\ rd = "open" /\ next = 1 /\ dataBuffer = <<>>
    /\ isReading = TRUE /\ isProcessing = TRUE /\ stopFlag = FALSE
    /\ thr = [t \in Thread |-> IF t > plan.count THEN "done"
                               ELSE IF Hdfs THEN "loop" ELSE "connect"]
    /\ hand = [t \in Thread |-> <<>>]
    /\ alive = [t \in Thread |-> FALSE] /\ retry = [t \in Thread |-> FALSE]
    /\ tuples = [t \in Thread |-> <<>>]
    /\ tt = [t \in Thread |-> IF Hdfs \/ t > plan.count THEN <<END>> ELSE <<>>]
    /\ main = 1 /\ reported = {} /\ atRest = FALSE

---------------------------------------------------------------------------
\* The reader.

\* Pipeline gives up in silence when the file has no entry or is too short.  A
\* file that does not open ends the reading, but whoever has found the buffer
\* empty and does not sleep yet is not woken.
read_open ==
    /\ rd = "open"
    /\ \/ rd' = "read" /\ UNCHANGED <<isReading, thr, trouble>>
       \/ /\ MayFail("silent") /\ ~Hdfs
          /\ rd' = "done" /\ trouble' = trouble \union {"silent"}
          /\ UNCHANGED <<isReading, thr>>
       \/ /\ MayFail("unopened")
          /\ rd' = "done" /\ isReading' = FALSE
          /\ \E deaf \in SUBSET {t \in Thread : thr[t] = "take"} :
               /\ thr' = [t \in Thread |-> IF t \in deaf THEN "deaf" ELSE thr[t]]
               /\ trouble' = trouble \union {"unopened"}
                               \union (IF deaf = {} THEN {} ELSE {"missed"})
    /\ UNCHANGED <<plan, next, dataBuffer, isProcessing, stopFlag, hand, alive, retry, passers,
                   starter, array, ready, terminateConsumers, threads, given>>

\* hdfsRead: the next piece, the end, or an error that passes for the end.
\* Pipeline looks at stopFlag after each read.
read ==
    /\ rd = "read"
    /\ \/ /\ next <= Whole /\ ~(stopFlag /\ ~Hdfs)
          /\ rd' = "push" /\ UNCHANGED <<isReading, trouble>>
       \/ /\ next <= Whole /\ stopFlag /\ ~Hdfs
          /\ rd' = "leftover" /\ isReading' = FALSE /\ UNCHANGED trouble
       \/ next > Whole /\ rd' = "leftover" /\ UNCHANGED <<isReading, trouble>>
       \/ /\ next <= Whole /\ MayFail("read")
          /\ rd' = "leftover" /\ trouble' = trouble \union {"read"} /\ UNCHANGED isReading
    /\ UNCHANGED <<plan, next, dataBuffer, isProcessing, stopFlag, takers, passers, starter,
                   array, ready, terminateConsumers, threads, given>>

Room == Len(dataBuffer) < IF Hdfs THEN MAX_BUFFER_SIZE ELSE plan.workers

\* Whoever takes a line from HDFSStreamHandler's buffer notifies nobody, so that
\* a reader that sleeps on a full buffer sleeps on.
push ==
    /\ rd = "push"
    /\ IF Room \/ ~isReading
       THEN /\ dataBuffer' = Append(dataBuffer, next) /\ next' = next + 1
            /\ rd' = "read" /\ UNCHANGED trouble
       ELSE /\ Hdfs /\ rd' = "asleep" /\ trouble' = trouble \union {"full"}
            /\ UNCHANGED <<dataBuffer, next>>
    /\ UNCHANGED <<plan, isReading, isProcessing, stopFlag, takers, passers, starter,
                   array, ready, terminateConsumers, threads, given>>

reader_spurious ==
    /\ rd = "asleep" /\ rd' = "push"
    /\ UNCHANGED <<next, partitioner, plan, dataBuffer, isReading, isProcessing, stopFlag, takers, passers,
                   starter>>

HasLeftover == plan.cut /\ next = Pieces

\* HDFSStreamHandler ends the reading before it pushes what is left over, the
\* pipelines after; the local one pushes it without waiting for room.
leftover ==
    /\ rd = "leftover"
    /\ \/ /\ Hdfs /\ isReading
          /\ isReading' = FALSE /\ UNCHANGED <<rd, dataBuffer, next>>
       \/ /\ HasLeftover /\ (Hdfs => ~isReading)
          /\ plan.source = "kg" => Room \/ ~isReading
          /\ dataBuffer' = Append(dataBuffer, Pieces) /\ next' = next + 1
          /\ UNCHANGED <<rd, isReading>>
       \/ /\ ~HasLeftover /\ (Hdfs => ~isReading)
          /\ rd' = "mark"
          /\ isReading' = (isReading /\ plan.source = "local")
          /\ UNCHANGED <<dataBuffer, next>>
    /\ UNCHANGED <<plan, isProcessing, stopFlag, takers, passers, starter, partitioner>>

\* One marker ends HDFSStreamHandler's threads, Pipeline has one per worker.
mark ==
    /\ rd = "mark"
    /\ dataBuffer' = dataBuffer \o [i \in 1 .. (IF Hdfs THEN 1 ELSE plan.workers) |-> Marker]
    /\ rd' = IF plan.source = "local" THEN "close" ELSE "done"
    /\ UNCHANGED <<plan, next, isReading, isProcessing, stopFlag, takers, passers, starter, partitioner>>
read_close ==
    /\ rd = "close" /\ rd' = "done" /\ isReading' = FALSE
    /\ UNCHANGED <<plan, next, dataBuffer, isProcessing, stopFlag, takers, passers, starter, partitioner>>

Reader == read_open \/ read \/ push \/ leftover \/ mark \/ read_close

---------------------------------------------------------------------------
\* HDFSStreamHandler's threads.

PutCall(call) ==
    IF call.kind = "local" THEN addLocalEdge(call, call.part) ELSE addEdgeCut(call, call.part)

\* Mutant: the thread leaves when the reading is over, whatever is buffered.
process_hasty(t) ==
    /\ Hdfs /\ thr[t] = "take" /\ (dataBuffer # <<>> \/ ~isReading)
    /\ \/ ~isReading /\ thr' = [thr EXCEPT ![t] = "done"] /\ UNCHANGED <<dataBuffer, hand, isProcessing>>
       \/ /\ isReading
          /\ dataBuffer' = Tail(dataBuffer)
          /\ hand' = [hand EXCEPT ![t] = plan.pieces[Head(dataBuffer)]]
          /\ thr' = [thr EXCEPT ![t] = "give"] /\ UNCHANGED isProcessing
    /\ UNCHANGED <<plan, reader, isReading, stopFlag, alive, retry, passers, starter, partitioner>>

\* One turn: nothing more to come, the marker, or a line.
process_take(t) ==
    /\ Hdfs /\ thr[t] = "take" /\ (dataBuffer # <<>> \/ ~isReading)
    /\ \/ /\ dataBuffer = <<>>
          /\ thr' = [thr EXCEPT ![t] = "done"] /\ UNCHANGED <<dataBuffer, hand, isProcessing>>
       \/ /\ dataBuffer # <<>> /\ Head(dataBuffer) = Marker
          /\ isProcessing' = FALSE /\ dataBuffer' = Tail(dataBuffer)
          /\ thr' = [thr EXCEPT ![t] = "done"] /\ UNCHANGED hand
       \/ /\ dataBuffer # <<>> /\ Head(dataBuffer) # Marker
          /\ dataBuffer' = Tail(dataBuffer)
          /\ hand' = [hand EXCEPT ![t] = plan.pieces[Head(dataBuffer)]]
          /\ thr' = [thr EXCEPT ![t] = "give"] /\ UNCHANGED isProcessing
    /\ UNCHANGED <<plan, reader, isReading, stopFlag, alive, retry, passers, starter, partitioner>>

process_test(t) ==
    /\ Hdfs /\ thr[t] = "loop"
    /\ thr' = [thr EXCEPT ![t] = IF isProcessing THEN "take" ELSE "done"]
    /\ UNCHANGED <<plan, reader, dataBuffer, isReading, isProcessing, stopFlag, hand, alive,
                   retry, passers, starter, partitioner>>

process_give(t) ==
    /\ Hdfs /\ thr[t] = "give"
    /\ \/ /\ hand[t] # <<>> /\ PutCall(Head(hand[t]))
          /\ hand' = [hand EXCEPT ![t] = Tail(@)] /\ UNCHANGED thr
       \/ /\ hand[t] = <<>> /\ thr' = [thr EXCEPT ![t] = "loop"]
          /\ UNCHANGED <<hand, partitioner>>
    /\ UNCHANGED <<plan, reader, dataBuffer, isReading, isProcessing, stopFlag, alive, retry,
                   passers, starter>>

process(t) == process_test(t) \/ process_take(t) \/ process_give(t)

---------------------------------------------------------------------------
\* Pipeline's threads: extractTuples, one per worker in use.

Goes(t, where) == thr' = [thr EXCEPT ![t] = where]

\* Every failure on the way to a worker ends the thread, and nothing is put into
\* its SharedBuffer.
extract_connect(t) ==
    /\ ~Hdfs /\ thr[t] = "connect"
    /\ \/ Goes(t, "loop") /\ alive' = [alive EXCEPT ![t] = TRUE] /\ UNCHANGED trouble
       \/ /\ MayFail("connection") /\ Goes(t, "done")
          /\ trouble' = trouble \union {"connection"} /\ UNCHANGED alive
    /\ UNCHANGED <<plan, reader, dataBuffer, isReading, isProcessing, stopFlag, hand, retry,
                   passers, starter, array, ready, terminateConsumers, threads, given>>

extract_test(t) ==
    /\ ~Hdfs /\ thr[t] = "loop"
    /\ Goes(t, IF stopFlag THEN "end" ELSE "take")
    /\ UNCHANGED <<plan, reader, dataBuffer, isReading, isProcessing, stopFlag, hand, alive,
                   retry, passers, starter, partitioner>>

\* The thread waits for a piece or for the end of the reading, and then takes the
\* front of the queue: there need not be one.
extract_take(t) ==
    /\ ~Hdfs /\ thr[t] = "take" /\ (dataBuffer # <<>> \/ ~isReading)
    /\ IF dataBuffer = <<>>
       THEN /\ Goes(t, "undefined") /\ trouble' = trouble \union {"undefined"}
            /\ UNCHANGED <<dataBuffer, hand>>
       ELSE /\ dataBuffer' = Tail(dataBuffer) /\ UNCHANGED trouble
            /\ IF Head(dataBuffer) = Marker
               THEN Goes(t, "end") /\ UNCHANGED hand
               ELSE Goes(t, "send") /\ hand' = [hand EXCEPT ![t] = plan.pieces[Head(dataBuffer)]]
    /\ UNCHANGED <<plan, reader, isReading, isProcessing, stopFlag, alive, retry, passers,
                   starter, array, ready, terminateConsumers, threads, given>>

\* The piece goes to the worker.  If that fails the thread connects again, and
\* the piece is gone: retryChunk is noted and never used.
extract_send(t) ==
    /\ ~Hdfs /\ thr[t] = "send"
    /\ \/ alive[t] /\ Goes(t, "tuples") /\ UNCHANGED <<hand, alive, retry, trouble>>
       \/ /\ MayFail("lost") \/ ~alive[t]
          /\ Goes(t, "connect") /\ hand' = [hand EXCEPT ![t] = <<>>]
          /\ alive' = [alive EXCEPT ![t] = FALSE] /\ retry' = [retry EXCEPT ![t] = TRUE]
          /\ trouble' = trouble \union {"lost"}
    /\ UNCHANGED <<plan, reader, dataBuffer, isReading, isProcessing, stopFlag, passers,
                   starter, array, ready, terminateConsumers, threads, given>>

\* An edge comes back and is passed on.  Acknowledged with "stop" it is the
\* last, and the next one is awaited all the same.
extract_tuple(t) ==
    /\ ~Hdfs /\ thr[t] = "tuples"
    /\ \/ /\ hand[t] # <<>> /\ Len(tuples[t]) < MASTER_BUFFER_SIZE
          /\ tuples' = [tuples EXCEPT ![t] = Append(@, Head(hand[t]))]
          /\ IF stopFlag
             THEN /\ Goes(t, "stranded") /\ hand' = [hand EXCEPT ![t] = <<>>]
                  /\ trouble' = trouble \union {"stranded"}
             ELSE hand' = [hand EXCEPT ![t] = Tail(@)] /\ UNCHANGED <<thr, trouble>>
          /\ UNCHANGED <<alive, retry>>
       \/ hand[t] = <<>> /\ Goes(t, "loop") /\ UNCHANGED <<hand, tuples, alive, retry, trouble>>
       \/ /\ MayFail("lost") /\ Goes(t, "loop") /\ hand' = [hand EXCEPT ![t] = <<>>]
          /\ alive' = [alive EXCEPT ![t] = FALSE] /\ retry' = [retry EXCEPT ![t] = TRUE]
          /\ trouble' = trouble \union {"lost"} /\ UNCHANGED tuples
    /\ UNCHANGED <<plan, reader, dataBuffer, isReading, isProcessing, stopFlag, tt, starter,
                   array, ready, terminateConsumers, threads, given>>

\* A thread that has failed once never ends by itself: it connects again.
extract_end(t) ==
    /\ ~Hdfs /\ thr[t] = "end" /\ Len(tuples[t]) < MASTER_BUFFER_SIZE
    /\ tuples' = [tuples EXCEPT ![t] = Append(@, END)]
    /\ Goes(t, IF retry[t] THEN "connect" ELSE "done")
    /\ alive' = [alive EXCEPT ![t] = FALSE]
    /\ UNCHANGED <<plan, reader, dataBuffer, isReading, isProcessing, stopFlag, hand, retry, tt,
                   starter, partitioner>>

extractTuples(t) ==
    \/ extract_connect(t) \/ extract_test(t) \/ extract_take(t) \/ extract_send(t)
    \/ extract_tuple(t) \/ extract_end(t)

\* The reader of a SharedBuffer: tt is the edge in its hand, or END.
tuple_get(t) ==
    /\ tt[t] = <<>> /\ tuples[t] # <<>>
    /\ tt' = [tt EXCEPT ![t] = <<Head(tuples[t])>>]
    /\ tuples' = [tuples EXCEPT ![t] = Tail(@)]
    /\ UNCHANGED <<plan, reader, dataBuffer, isReading, isProcessing, stopFlag, takers, starter,
                   partitioner>>
tuple_add(t) ==
    /\ tt[t] # <<>> /\ tt[t] # <<END>>
    /\ PutCall(Head(tt[t])) /\ tt' = [tt EXCEPT ![t] = <<>>]
    /\ UNCHANGED <<plan, reader, dataBuffer, isReading, isProcessing, stopFlag, takers, tuples,
                   starter>>

---------------------------------------------------------------------------
\* The thread that started the others, and the order in which it goes on.

Order == IF Hdfs THEN <<"reader", "threads", "report", "stop", "notify", "join">>
                 ELSE <<"tuples", "stop", "notify", "join", "meta", "report", "reader", "threads">>
Ended == main > Len(Order)
Stage(name) == ~Ended /\ Order[main] = name
Past(name) == \E i \in 1 .. Min({main - 1, Len(Order)}) : Order[i] = name

\* The thread for meta data hears "stop" from the master, perhaps in the round it
\* is in when it is told to end.
metaStop ==
    /\ plan.stops /\ ~stopFlag /\ ~Past("meta") /\ stopFlag' = TRUE
    /\ UNCHANGED <<plan, reader, dataBuffer, isReading, isProcessing, takers, passers, starter,
                   partitioner>>

\* The master answers the thread for meta data, which ends after its round.
joins ==
    /\ \/ Stage("reader") /\ rd = "done"
       \/ Stage("threads") /\ \A t \in Thread : thr[t] = "done"
       \/ Stage("tuples") /\ \A t \in Thread : tt[t] = <<END>>
       \/ Stage("join") /\ Joined
       \/ Stage("meta")
    /\ main' = main + 1
    /\ UNCHANGED <<reported, atRest, plan, reader, dataBuffer, isReading, isProcessing,
                   stopFlag, takers, passers, partitioner>>

\* getVertexCount, getEdgeCount and the tables.
report ==
    /\ Stage("report") /\ reported' = counted /\ main' = main + 1
    /\ UNCHANGED <<atRest, plan, reader, dataBuffer, isReading, isProcessing, stopFlag, takers,
                   passers, partitioner>>

stopConsumerThreads ==
    /\ \/ Stage("stop") /\ terminate /\ atRest' = AtRest
       \/ Stage("notify") /\ notify_all /\ UNCHANGED atRest
    /\ main' = main + 1
    /\ UNCHANGED <<reported, plan, reader, dataBuffer, isReading, isProcessing, stopFlag,
                   takers, passers>>

Main == joins \/ report \/ stopConsumerThreads

\* A step that some thread takes by itself.
Step ==
    \/ Reader \/ Main
    \/ \E t \in Thread : process(t) \/ extractTuples(t) \/ tuple_get(t) \/ tuple_add(t)
    \/ \E c \in Consumers : consume(c) /\ UNCHANGED streams

Next ==
    \/ Step \/ reader_spurious \/ metaStop
    \/ \E c \in Consumers : spurious(c) /\ UNCHANGED streams

\* As long as a thread can run, one runs; nothing makes a condition variable wake
\* without cause, or the user stop the work.
Fairness == WF_vars(Step)

Spec == Init /\ [][Next]_vars /\ Fairness

---------------------------------------------------------------------------
\* Properties.

CallsOf(n) == ToSet(plan.pieces[n])
Calls == UNION {CallsOf(n) : n \in 1 .. Pieces}
Copies(call, seq) == Cardinality({i \in DOMAIN seq : seq[i] = call})
Hit(call, set) == IF call \in set THEN 1 ELSE 0

\* In how many places a call is: not read yet, buffered, in a thread's hands,
\* in an array or a batch, in a file, stored by the worker.
Places(call) ==
    LET n == CHOOSE m \in 1 .. Pieces : call \in CallsOf(m)
    IN  Hit(n, next .. Pieces) + Copies(n, dataBuffer)
        + FoldSet(LAMBDA t, sum : sum + Copies(call, hand[t]) + Copies(call, tuples[t])
                                      + Copies(call, tt[t]), 0, Thread)
        + FoldSet(LAMBDA p, sum : sum + Copies(call, batch[p]), 0, Partition)
        + FoldSet(LAMBDA c, sum : sum + Copies(call, array[c]) + Hit(call, file[c]), 0, Consumers)
        + Hit(call, sent)

\* No edge is ever in two places, and as long as nothing has failed and nobody
\* has stopped the work each is in one: the hand-overs between the reader, the
\* threads, the arrays, the batches and the files neither drop nor double it.
EdgeInOnePlace ==
    \A call \in Calls :
      /\ Places(call) <= 1
      /\ trouble = {} /\ ~stopFlag /\ ~terminateConsumers => Places(call) = 1

\* When the threads before the partitioner have been joined, it has got every
\* edge of the file, if nothing failed, nobody stopped the work, and there are such
\* threads: without a runner a pipeline ends with an empty graph.  Of a file
\* from HDFS the last line is excepted if no end of line follows it: the threads
\* may see the end of the reading before the line.
AllGiven ==
    Past(IF Hdfs THEN "threads" ELSE "tuples") /\ trouble = {} /\ ~stopFlag /\ plan.count > 0
      => UNION {CallsOf(n) : n \in 1 .. (IF Hdfs THEN Whole ELSE Pieces)} \subseteq given

\* In the end the workers have stored all that the partitioner got, even after a
\* stop, if nothing failed and its consumers were at rest when they were told to
\* end; and a pipeline's report counts it all.
AllSentAtRest ==
    Ended /\ atRest /\ trouble = {} => sent = given /\ (Hdfs \/ reported = given)

\* The failures that keep somebody waiting for ever.
Fatal == {"missed", "full", "stuck", "connection", "silent", "undefined", "stranded"}
\* After a stop every extracting thread leaves, and without a runner there is
\* none, perhaps with the reader waiting for room.
ReaderAbandoned ==
    /\ stopFlag \/ plan.count = 0
    /\ rd \in {"push", "leftover"} /\ ~Room /\ \A t \in Thread : thr[t] = "done"

\* After a stop a thread that has lost its worker once goes on to connect to it,
\* and to put a marker into a SharedBuffer that nobody reads any more.
MarksForEver == stopFlag /\ \E t \in Thread : retry[t]

\* The work ends: all threads are joined, whatever the order of their steps,
\* unless one of these failures has blocked a thread.  In particular
\* it ends when a file of HDFSStreamHandler does not open, when one cannot be
\* written, when a worker refuses one, and when reading stops half-way.
EndsUnlessBlocked ==
    <>(Ended \/ trouble \intersect Fatal # {} \/ ReaderAbandoned \/ MarksForEver)
=============================================================================
