------------------------- MODULE StreamIngestProofs -------------------------
(***************************************************************************)
(* Proofs about StreamIngest, for any number of partitions, workers, edges *)
(* and streams.  IngestInv is inductive; the step proof goes action by     *)
(* action.                                                                 *)
(***************************************************************************)
EXTENDS StreamIngest, SequenceTheorems, TLAPS

\* Most steps are set reasoning; those with arithmetic name SMT.
USE ZenonT(60)

\* The worker of a partition is one of the workers.
LEMMA WorkerOfType == \A p \in Partition : WorkerOf(p) \in Worker
BY SMTT(30), IngestAssumption DEF Partition, Worker, WorkerOf

\* An edge appended to the last of three pieces is appended to the whole.
LEMMA AppendLast ==
  ASSUME NEW S, NEW s \in Seq(S), NEW h \in Seq(S), NEW q \in Seq(S), NEW e \in S
  PROVE  s \o h \o Append(q, e) = Append(s \o h \o q, e)
<1>1. s \o h \in Seq(S) /\ (s \o h) \o q \in Seq(S)
  BY ConcatProperties
<1>2. <<e>> \in Seq(S)
  BY SMTT(30)
<1>3. Append(q, e) = q \o <<e>> /\ Append(s \o h \o q, e) = (s \o h \o q) \o <<e>>
  BY <1>1, AppendIsConcat
<1>4. ((s \o h) \o q) \o <<e>> = (s \o h) \o (q \o <<e>>)
  BY SMTT(30), <1>1, <1>2, ConcatAssociative
<1> QED
  BY <1>3, <1>4

\* The first edge of the queue may be held instead: the whole is the same.
LEMMA TakeFirst ==
  ASSUME NEW S, NEW s \in Seq(S), NEW q \in Seq(S), q # <<>>
  PROVE  s \o <<>> \o q = s \o <<Head(q)>> \o Tail(q)
<1>1. Head(q) \in S /\ Tail(q) \in Seq(S) /\ <<Head(q)>> \in Seq(S)
  BY SMTT(30), HeadTailProperties
<1>2. <<Head(q)>> \o Tail(q) = q
  BY SMTT(30)
<1>3. (s \o <<Head(q)>>) \o Tail(q) = s \o (<<Head(q)>> \o Tail(q))
  BY SMTT(30), <1>1, ConcatAssociative
<1>4. s \o <<>> = s
  BY ConcatEmptySeq
<1> QED
  BY <1>2, <1>3, <1>4

\* The edge held may be stored: the whole is the same.
LEMMA PutDown ==
  ASSUME NEW S, NEW s \in Seq(S), NEW h \in Seq(S), NEW q \in Seq(S)
  PROVE  (s \o h) \o <<>> \o q = s \o h \o q
<1>1. s \o h \in Seq(S)
  BY ConcatProperties
<1> QED
  BY <1>1, ConcatEmptySeq

\* Nothing is received and no thread runs at the start.
LEMMA IngestInit == Init => IngestInv
<1> SUFFICES ASSUME Init PROVE IngestInv
  OBVIOUS
<1>1. TypeOK
  BY SMTT(30), IngestAssumption, EmptySeq DEF Init, TypeOK, ThreadState
<1>2. Conserved
  BY SMTT(30), ConcatEmptySeq DEF Init, Conserved
<1> QED
  BY <1>1, <1>2, WorkerOfType
     DEF Init, IngestInv, NoSleepOverWork, HandsEmpty, QuietAfterEnd, EndsWithFlag

\* A stream whose next publication is not a "-1" that a worker handles may change
\* its publications.
LEMMA OthersPublish ==
  ASSUME TypeOK, EndsWithFlag, UNCHANGED <<ending, terminateThreads>>,
         NEW s \in Stream, sends[s] = <<>> \/ Head(sends[s]).edge # End,
         NEW m, sends' = [sends EXCEPT ![s] = m]
  PROVE  EndsWithFlag'
<1>1. \A w \in Worker : ending[w] # None => ending[w] # s
  BY DEF EndsWithFlag, Publishes
<1> QED
  BY <1>1 DEF EndsWithFlag, Publishes, TypeOK

\* The master's own steps touch neither sessions nor threads.
LEMMA MasterKeeps ==
  ASSUME IngestInv, Master
  PROVE  IngestInv'
<1> USE DEF IngestInv
<1>1. UNCHANGED <<conn, ending, toNotify, terminateThreads, threadVars>>
  BY DEF Master, ReadEdge, PublishEnd, LosePublication, StartStream
<1>2. (Conserved /\ NoSleepOverWork /\ HandsEmpty /\ QuietAfterEnd)'
  BY <1>1 DEF threadVars, Conserved, NoSleepOverWork, HandsEmpty, QuietAfterEnd
<1>3. CASE StartStream
  <2>1. TypeOK'
    <3>1. streams' \in Nat
      BY SMTT(30), <1>3 DEF StartStream, TypeOK
    <3>2. listening' \in [Stream -> BOOLEAN]
      BY <1>3 DEF StartStream, TypeOK
    <3> QED
      BY <1>1, <1>3, <3>1, <3>2 DEF StartStream, TypeOK, threadVars
  <2>2. EndsWithFlag'
    BY <1>1, <1>3 DEF StartStream, EndsWithFlag, Publishes
  <2> QED
    BY <1>2, <2>1, <2>2
<1>4. ASSUME NEW s \in Stream, NEW ps \in Partition, NEW pd \in Partition, ReadEdge(s, ps, pd)
      PROVE  IngestInv'
  <2>1. read' \in Edge /\ read' \in 0 .. MaxEdges
    BY SMTT(30), <1>4, IngestAssumption DEF ReadEdge, TypeOK, Edge
  <2>2. ToPartition(ps, read') \in Message /\ ToPartition(pd, read') \in Message
    BY <2>1, WorkerOfType DEF ToPartition, Message
  <2>3. <<ToPartition(ps, read')>> \in Seq(Message)
        /\ <<ToPartition(ps, read'), ToPartition(pd, read')>> \in Seq(Message)
    BY SMTT(30), <2>2
  <2>4. PICK m \in Seq(Message) : sends' = [sends EXCEPT ![s] = m]
    BY <1>4, <2>3 DEF ReadEdge
  <2>5. TypeOK'
    BY <1>1, <1>4, <2>1, <2>4 DEF ReadEdge, TypeOK, threadVars
  <2>6. EndsWithFlag'
    BY <1>1, <1>4, <2>4, OthersPublish DEF ReadEdge
  <2> QED
    BY <1>2, <2>5, <2>6
<1>5. ASSUME NEW s \in Stream, PublishEnd(s) PROVE IngestInv'
  <2>1. \A i \in 1 .. NWorkers : [worker |-> i - 1, partition |-> 0, edge |-> End] \in Message
    BY SMTT(30), IngestAssumption DEF Message, Worker, Partition
  <2>2. [i \in 1 .. NWorkers |-> [worker |-> i - 1, partition |-> 0, edge |-> End]] \in Seq(Message)
    BY SMTT(30), <2>1, IngestAssumption, SeqDef
  <2>3. PICK m \in Seq(Message) : sends' = [sends EXCEPT ![s] = m]
    BY <1>5, <2>2 DEF PublishEnd
  <2>4. TypeOK'
    BY <1>1, <1>5, <2>3 DEF PublishEnd, TypeOK, threadVars
  <2>5. EndsWithFlag'
    BY <1>1, <1>5, <2>3, OthersPublish DEF PublishEnd
  <2> QED
    BY <1>2, <2>4, <2>5
<1>6. ASSUME NEW s \in Stream, LosePublication(s) PROVE IngestInv'
  <2>1. PICK w \in Worker : Publishes(s, w) /\ ending[w] # s
    BY <1>6 DEF LosePublication
  <2>2. sends' = [sends EXCEPT ![s] = Tail(sends[s])] /\ Tail(sends[s]) \in Seq(Message)
    BY <1>6, <2>1, HeadTailProperties DEF LosePublication, Publishes, TypeOK
  <2>3. TypeOK'
    BY <1>1, <1>6, <2>2 DEF LosePublication, TypeOK, threadVars
  <2>4. \A v \in Worker : ending[v] # s
    <3>1. s # None
      BY SMTT(30) DEF Stream, None
    <3> QED
      BY <2>1, <3>1 DEF EndsWithFlag, Publishes
  <2>5. EndsWithFlag'
    BY <1>1, <2>2, <2>4 DEF EndsWithFlag, Publishes, TypeOK
  <2> QED
    BY <1>2, <2>3, <2>5
<1> QED
  BY <1>3, <1>4, <1>5, <1>6 DEF Master

\* Mixed publications break the connection, and nothing else.
LEMMA MixKeeps ==
  ASSUME IngestInv, NEW w \in Worker, Mix(w)
  PROVE  IngestInv'
<1> USE DEF IngestInv
<1>1. UNCHANGED <<listening, streams, read, sends, ending, toNotify, terminateThreads, threadVars>>
  BY DEF Mix
<1>2. conn' \in [Worker -> {"up", "mute", "dead"}]
  BY DEF Mix, TypeOK
<1>3. TypeOK'
  BY <1>1, <1>2 DEF TypeOK, threadVars
<1> QED
  BY <1>1, <1>3 DEF threadVars, Conserved, NoSleepOverWork, HandsEmpty, QuietAfterEnd, EndsWithFlag,
     Publishes

\* An edge is queued behind those of its partition, and its thread is woken.
LEMMA HandleEdgeKeeps ==
  ASSUME IngestInv, NEW s \in Stream, HandleEdge(s)
  PROVE  IngestInv'
<1> DEFINE p == Head(sends[s]).partition
           e == Head(sends[s]).edge
<1> USE DEF IngestInv
<1>1. /\ p \in Partition /\ e \in Edge /\ Tail(sends[s]) \in Seq(Message)
  <2>1. sends[s] \in Seq(Message) /\ sends[s] # <<>> /\ e # End
    BY DEF HandleEdge, TypeOK
  <2>2. Head(sends[s]) \in Message /\ Tail(sends[s]) \in Seq(Message)
    BY <2>1, HeadTailProperties
  <2> QED
    BY <2>1, <2>2 DEF Message
<1>2. /\ thread[p] # "blocking"
      /\ thread' = [thread EXCEPT ![p] = IF thread[p] = "none" THEN "loading" ELSE Notified(thread[p])]
      /\ queues' = [queues EXCEPT ![p] = Append(queues[p], e)]
      /\ received' = [received EXCEPT ![p] = Append(received[p], e)]
      /\ sends' = [sends EXCEPT ![s] = Tail(sends[s])]
      /\ UNCHANGED <<listening, streams, read, conn, ending, toNotify, terminateThreads, inHand, stored>>
  BY DEF HandleEdge, Locked
<1>3. queues[p] \in Seq(Edge) /\ received[p] \in Seq(Edge) /\ stored[p] \in Seq(Edge) /\ inHand[p] \in Seq(Edge)
  BY <1>1 DEF TypeOK
<1>4. TypeOK'
  <2>1. Append(queues[p], e) \in Seq(Edge) /\ Append(received[p], e) \in Seq(Edge)
    BY <1>1, <1>3, AppendProperties
  <2>2. thread' \in [Partition -> ThreadState]
    BY <1>1, <1>2 DEF TypeOK, ThreadState, Notified
  <2> QED
    BY <1>1, <1>2, <2>1, <2>2 DEF TypeOK
<1>5. Conserved'
  <2> SUFFICES ASSUME NEW q \in Partition
               PROVE  received'[q] = stored'[q] \o inHand'[q] \o queues'[q]
    BY DEF Conserved
  <2>1. CASE q = p
    <3>1. /\ received'[p] = Append(received[p], e) /\ queues'[p] = Append(queues[p], e)
          /\ stored'[p] = stored[p] /\ inHand'[p] = inHand[p]
      BY <1>1, <1>2 DEF TypeOK
    <3>2. received[p] = stored[p] \o inHand[p] \o queues[p]
      BY <1>1 DEF Conserved
    <3>3. stored[p] \o inHand[p] \o Append(queues[p], e) = Append(stored[p] \o inHand[p] \o queues[p], e)
      <4>1. \A d, h, t \in Seq(Edge) : \A x \in Edge : d \o h \o Append(t, x) = Append(d \o h \o t, x)
        <5> SUFFICES ASSUME NEW d \in Seq(Edge), NEW h \in Seq(Edge), NEW t \in Seq(Edge), NEW x \in Edge
                     PROVE  d \o h \o Append(t, x) = Append(d \o h \o t, x)
          OBVIOUS
        <5> HIDE DEF p, e
        <5> QED
          BY SMTT(30), AppendLast
      <4> HIDE DEF p, e
      <4> QED
        BY <1>1, <1>3, <4>1, Zenon
    <3> QED
      BY <2>1, <3>1, <3>2, <3>3
  <2>2. CASE q # p
    BY <1>2, <2>2 DEF Conserved, TypeOK
  <2> QED
    BY <2>1, <2>2
<1>6. NoSleepOverWork'
  BY <1>1, <1>2 DEF NoSleepOverWork, Notified, TypeOK, ThreadState
<1>7. HandsEmpty'
  BY <1>1, <1>2 DEF HandsEmpty, Notified, TypeOK
<1>8. QuietAfterEnd'
  BY <1>1, <1>2 DEF QuietAfterEnd, Notified, TypeOK
<1>9. EndsWithFlag'
  BY <1>2, OthersPublish DEF HandleEdge
<1> QED
  BY <1>4, <1>5, <1>6, <1>7, <1>8, <1>9

\* "-1" is begun: the flag is set and the worker is no longer quiet.
LEMMA HandleEndKeeps ==
  ASSUME IngestInv, NEW s \in Stream, NEW w \in Worker, HandleEnd(s, w)
  PROVE  IngestInv'
<1> USE DEF IngestInv
<1>1. TypeOK'
  BY DEF HandleEnd, TypeOK, PartitionsOf, masterVars, threadVars
<1>2. Conserved' /\ HandsEmpty'
  BY DEF HandleEnd, Conserved, HandsEmpty, threadVars
<1>3. NoSleepOverWork'
  BY WorkerOfType DEF HandleEnd, NoSleepOverWork, threadVars, TypeOK
<1>4. QuietAfterEnd'
  BY SMTT(30), WorkerOfType DEF HandleEnd, QuietAfterEnd, threadVars, TypeOK, Stream, None
<1>5. EndsWithFlag'
  BY DEF HandleEnd, Hears, EndsWithFlag, Publishes, masterVars, TypeOK
<1> QED
  BY <1>1, <1>2, <1>3, <1>4, <1>5

\* A thread is notified of the end.
LEMMA NotifyAllKeeps ==
  ASSUME IngestInv, NEW w \in Worker, NEW p \in Partition, NotifyAll(w, p)
  PROVE  IngestInv'
<1> USE DEF IngestInv
<1>1. TypeOK'
  BY DEF NotifyAll, TypeOK, Notified, ThreadState, masterVars
<1>2. Conserved'
  BY DEF NotifyAll, Conserved
<1>3. HandsEmpty'
  BY DEF NotifyAll, HandsEmpty, Notified, TypeOK
<1>4. NoSleepOverWork'
  BY DEF NotifyAll, NoSleepOverWork, Notified, TypeOK
<1>5. QuietAfterEnd'
  BY DEF NotifyAll, QuietAfterEnd, Notified, TypeOK
<1>6. EndsWithFlag'
  BY DEF NotifyAll, EndsWithFlag, Publishes, masterVars
<1> QED
  BY <1>1, <1>2, <1>3, <1>4, <1>5, <1>6

\* The threads are joined: the worker is quiet.
LEMMA JoinThreadsKeeps ==
  ASSUME IngestInv, NEW w \in Worker, JoinThreads(w)
  PROVE  IngestInv'
<1> USE DEF IngestInv
<1> DEFINE s == ending[w]
<1>1. s \in Stream /\ Publishes(s, w) /\ Tail(sends[s]) \in Seq(Message)
  <2>1. s # None /\ s \in Stream /\ Publishes(s, w)
    BY DEF JoinThreads, EndsWithFlag, TypeOK
  <2>2. sends[s] \in Seq(Message) /\ sends[s] # <<>>
    BY <2>1 DEF Publishes, TypeOK
  <2> QED
    BY <2>1, <2>2, HeadTailProperties
<1>2. TypeOK'
  BY <1>1 DEF JoinThreads, TypeOK, threadVars
<1>3. Conserved' /\ HandsEmpty' /\ NoSleepOverWork'
  BY DEF JoinThreads, Conserved, HandsEmpty, NoSleepOverWork, threadVars
<1>4. QuietAfterEnd'
  <2>1. /\ UNCHANGED <<terminateThreads, thread>>
        /\ \A v \in Worker : v # w => ending'[v] = ending[v]
        /\ \A p \in Partition : WorkerOf(p) = w => thread[p] \in {"none", "exited"}
    BY DEF JoinThreads, PartitionsOf, threadVars, TypeOK
  <2> QED
    BY <2>1, WorkerOfType DEF QuietAfterEnd
<1>5. EndsWithFlag'
  <2>1. /\ UNCHANGED terminateThreads /\ ending'[w] = None
        /\ \A v \in Worker : v # w => ending'[v] = ending[v]
        /\ \A r \in Stream : r # s => sends'[r] = sends[r]
    BY <1>1 DEF JoinThreads, TypeOK
  <2>2. \A v \in Worker : v # w /\ ending[v] # None => ending[v] \in Stream /\ ending[v] # s
    BY <1>1 DEF EndsWithFlag, Publishes, TypeOK
  <2> HIDE DEF s
  <2> SUFFICES ASSUME NEW v \in Worker, ending'[v] # None
               PROVE  (terminateThreads[v] /\ Publishes(ending[v], v) /\ Head(sends[ending[v]]).edge = End)'
    BY DEF EndsWithFlag
  <2>3. v # w /\ ending'[v] = ending[v]
    BY <2>1
  <2>4. sends'[ending[v]] = sends[ending[v]]
    BY <2>1, <2>2, <2>3
  <2>5. terminateThreads[v] /\ Publishes(ending[v], v) /\ Head(sends[ending[v]]).edge = End
    BY <2>3 DEF EndsWithFlag
  <2> QED
    BY <2>1, <2>3, <2>4, <2>5 DEF Publishes
<1> QED
  BY <1>2, <1>3, <1>4, <1>5

\* A thread takes the first edge of its queue, or leaves, or gets ready to block.
LEMMA TakeEdgeKeeps ==
  ASSUME IngestInv, NEW p \in Partition, TakeEdge(p)
  PROVE  IngestInv'
<1> USE DEF IngestInv
<1>1. /\ UNCHANGED <<listening, streams, read, sends, conn, ending, toNotify, terminateThreads, stored, received>>
      /\ thread[p] = "locking" /\ inHand[p] = <<>>
      /\ queues[p] \in Seq(Edge) /\ stored[p] \in Seq(Edge)
  BY DEF TakeEdge, ThreadOnly, masterVars, HandsEmpty, TypeOK
<1>2. CASE terminateThreads[WorkerOf(p)]
  <2>1. thread' = [thread EXCEPT ![p] = "exited"] /\ UNCHANGED <<queues, inHand>>
    BY <1>2 DEF TakeEdge, Go
  <2>2. TypeOK'
    BY <1>1, <2>1 DEF TypeOK, ThreadState
  <2>3. Conserved' /\ HandsEmpty' /\ NoSleepOverWork'
    BY <1>1, <2>1 DEF Conserved, HandsEmpty, NoSleepOverWork, TypeOK
  <2>4. QuietAfterEnd' /\ EndsWithFlag'
    BY <1>1, <2>1 DEF QuietAfterEnd, EndsWithFlag, Publishes, TypeOK
  <2> QED
    BY <2>2, <2>3, <2>4
<1>3. CASE ~terminateThreads[WorkerOf(p)] /\ queues[p] # <<>>
  <2>1. /\ thread' = [thread EXCEPT ![p] = "storing"]
        /\ inHand' = [inHand EXCEPT ![p] = <<Head(queues[p])>>]
        /\ queues' = [queues EXCEPT ![p] = Tail(queues[p])]
    BY <1>3 DEF TakeEdge, Go
  <2>2. Head(queues[p]) \in Edge /\ Tail(queues[p]) \in Seq(Edge) /\ <<Head(queues[p])>> \in Seq(Edge)
    BY SMTT(30), <1>1, <1>3, HeadTailProperties
  <2>3. TypeOK'
    BY <1>1, <2>1, <2>2 DEF TypeOK, ThreadState
  <2>4. Conserved'
    <3> SUFFICES ASSUME NEW q \in Partition
                 PROVE  received'[q] = stored'[q] \o inHand'[q] \o queues'[q]
      BY DEF Conserved
    <3>1. CASE q = p
      <4>1. /\ received'[p] = received[p] /\ queues'[p] = Tail(queues[p])
            /\ stored'[p] = stored[p] /\ inHand'[p] = <<Head(queues[p])>>
        BY <1>1, <2>1 DEF TypeOK
      <4>2. received[p] = stored[p] \o <<>> \o queues[p]
        BY <1>1 DEF Conserved
      <4>3. stored[p] \o <<>> \o queues[p] = stored[p] \o <<Head(queues[p])>> \o Tail(queues[p])
        BY <1>1, <1>3, TakeFirst
      <4> QED
        BY <3>1, <4>1, <4>2, <4>3
    <3>2. CASE q # p
      BY <1>1, <2>1, <3>2 DEF Conserved, TypeOK
    <3> QED
      BY <3>1, <3>2
  <2>5. HandsEmpty' /\ NoSleepOverWork'
    BY <1>1, <2>1 DEF HandsEmpty, NoSleepOverWork, TypeOK
  <2>6. QuietAfterEnd' /\ EndsWithFlag'
    BY <1>1, <1>3, <2>1 DEF QuietAfterEnd, EndsWithFlag, Publishes, TypeOK
  <2> QED
    BY <2>3, <2>4, <2>5, <2>6
<1>4. CASE ~terminateThreads[WorkerOf(p)] /\ queues[p] = <<>>
  <2>1. thread' = [thread EXCEPT ![p] = "blocking"] /\ UNCHANGED <<queues, inHand>>
    BY <1>4 DEF TakeEdge, Go
  <2>2. TypeOK'
    BY <1>1, <2>1 DEF TypeOK, ThreadState
  <2>3. Conserved' /\ HandsEmpty' /\ NoSleepOverWork'
    BY <1>1, <1>4, <2>1 DEF Conserved, HandsEmpty, NoSleepOverWork, TypeOK
  <2>4. QuietAfterEnd' /\ EndsWithFlag'
    BY <1>1, <1>4, <2>1 DEF QuietAfterEnd, EndsWithFlag, Publishes, TypeOK
  <2> QED
    BY <2>2, <2>3, <2>4
<1> QED
  BY <1>2, <1>3, <1>4

\* The edge held is stored.
LEMMA StoreEdgeKeeps ==
  ASSUME IngestInv, NEW p \in Partition, StoreEdge(p)
  PROVE  IngestInv' /\ ~(terminateThreads[WorkerOf(p)] /\ ending[WorkerOf(p)] = None)
<1> USE DEF IngestInv
<1>1. /\ UNCHANGED <<listening, streams, read, sends, conn, ending, toNotify, terminateThreads, queues, received>>
      /\ thread[p] = "storing" /\ thread' = [thread EXCEPT ![p] = "loop"]
      /\ stored' = [stored EXCEPT ![p] = stored[p] \o inHand[p]]
      /\ inHand' = [inHand EXCEPT ![p] = <<>>]
  BY DEF StoreEdge, ThreadOnly, masterVars, Go
<1>2. queues[p] \in Seq(Edge) /\ stored[p] \in Seq(Edge) /\ inHand[p] \in Seq(Edge)
  BY DEF TypeOK
<1>3. stored[p] \o inHand[p] \in Seq(Edge) /\ <<>> \in Seq(Edge)
  BY SMTT(30), <1>2, ConcatProperties
<1>4. TypeOK'
  BY <1>1, <1>3 DEF TypeOK, ThreadState
<1>5. Conserved'
  <2> SUFFICES ASSUME NEW q \in Partition
               PROVE  received'[q] = stored'[q] \o inHand'[q] \o queues'[q]
    BY DEF Conserved
  <2>1. CASE q = p
    <3>1. /\ received'[p] = received[p] /\ queues'[p] = queues[p]
          /\ stored'[p] = stored[p] \o inHand[p] /\ inHand'[p] = <<>>
      BY <1>1 DEF TypeOK
    <3>2. received[p] = stored[p] \o inHand[p] \o queues[p]
      BY DEF Conserved
    <3>3. (stored[p] \o inHand[p]) \o <<>> \o queues[p] = stored[p] \o inHand[p] \o queues[p]
      BY SMTT(30), <1>2, PutDown
    <3> QED
      BY <2>1, <3>1, <3>2, <3>3
  <2>2. CASE q # p
    BY <1>1, <2>2 DEF Conserved, TypeOK
  <2> QED
    BY <2>1, <2>2
<1>6. HandsEmpty' /\ NoSleepOverWork'
  BY <1>1 DEF HandsEmpty, NoSleepOverWork, TypeOK
<1>7. QuietAfterEnd' /\ EndsWithFlag'
  BY <1>1 DEF QuietAfterEnd, EndsWithFlag, Publishes, TypeOK
<1>8. ~(terminateThreads[WorkerOf(p)] /\ ending[WorkerOf(p)] = None)
  BY <1>1 DEF QuietAfterEnd
<1> QED
  BY <1>4, <1>5, <1>6, <1>7, <1>8

\* The other steps of a thread move only the thread.
LEMMA MoveKeeps ==
  ASSUME IngestInv, NEW p \in Partition,
         LoadStore(p) \/ TestTerminate(p) \/ Block(p) \/ WakeSpuriously(p)
  PROVE  IngestInv'
<1> USE DEF IngestInv
<1>1. /\ UNCHANGED <<listening, streams, read, sends, conn, ending, toNotify, terminateThreads,
                     queues, inHand, stored, received>>
      /\ thread[p] \in {"loading", "loop", "blocking", "asleep"}
  BY DEF LoadStore, TestTerminate, Block, Locked, WakeSpuriously, ThreadOnly, masterVars
<1>2. PICK t \in {"loop", "exited", "locking", "asleep"} :
        /\ thread' = [thread EXCEPT ![p] = t]
        /\ t = "asleep" => thread[p] = "blocking"
        /\ t = "locking" => thread[p] = "asleep" \/ ~terminateThreads[WorkerOf(p)]
  BY DEF LoadStore, TestTerminate, Block, Locked, WakeSpuriously, Go
<1>3. TypeOK'
  BY <1>1, <1>2 DEF TypeOK, ThreadState
<1>4. Conserved' /\ HandsEmpty'
  BY <1>1, <1>2 DEF Conserved, HandsEmpty, TypeOK
<1>5. NoSleepOverWork'
  BY <1>1, <1>2 DEF NoSleepOverWork, TypeOK
<1>6. QuietAfterEnd' /\ EndsWithFlag'
  BY <1>1, <1>2 DEF QuietAfterEnd, EndsWithFlag, Publishes, TypeOK
<1> QED
  BY <1>3, <1>4, <1>5, <1>6

\* Every step keeps the invariant.
LEMMA IngestStep == IngestInv /\ [Next]_vars => IngestInv'
<1> SUFFICES ASSUME IngestInv, [Next]_vars PROVE IngestInv'
  OBVIOUS
<1>1. CASE Master
  BY <1>1, MasterKeeps
<1>2. CASE Session
  BY <1>2, HandleEdgeKeeps, HandleEndKeeps, NotifyAllKeeps, JoinThreadsKeeps DEF Session
<1>3. ASSUME NEW p \in Partition, Run(p) \/ WakeSpuriously(p) PROVE IngestInv'
  BY <1>3, TakeEdgeKeeps, StoreEdgeKeeps, MoveKeeps DEF Run
<1>4. CASE UNCHANGED vars
  BY <1>4 DEF vars, masterVars, threadVars, IngestInv, TypeOK, Conserved, NoSleepOverWork,
     HandsEmpty, QuietAfterEnd, EndsWithFlag, Publishes
<1>5. CASE \E w \in Worker : Mix(w)
  BY <1>5, MixKeeps
<1> QED
  BY <1>1, <1>2, <1>3, <1>4, <1>5 DEF Next

\* The invariant holds in every reachable state.
THEOREM IngestInvariant == Spec => []IngestInv
<1> QED
  BY IngestInit, IngestStep, PTL DEF Spec

\* The handler's variables keep their types; in particular "-1" is never queued.
THEOREM IngestTypeCorrect == Spec => []TypeOK
<1>1. IngestInv => TypeOK
  BY DEF IngestInv
<1> QED
  BY <1>1, IngestInvariant, PTL

\* Between handleRequest and the store no edge is lost, doubled or overtaken.
THEOREM EdgesConserved == Spec => []Conserved
<1>1. IngestInv => Conserved
  BY DEF IngestInv
<1> QED
  BY <1>1, IngestInvariant, PTL

\* No wake-up of a partition's thread is lost while the stream is running.
THEOREM NoThreadSleepsOverWork == Spec => []NoSleepOverWork
<1>1. IngestInv => NoSleepOverWork
  BY DEF IngestInv
<1> QED
  BY <1>1, IngestInvariant, PTL

\* The answer to "-1" means that the worker's threads are through with the stores.
THEOREM StoresQuietAfterEnd == Spec => NothingStoredAfterEnd
<1>1. IngestInv /\ [Next]_vars =>
        [\A p \in Partition :
           terminateThreads[WorkerOf(p)] /\ ending[WorkerOf(p)] = None => stored'[p] = stored[p]]_vars
  <2> SUFFICES ASSUME IngestInv, Next, NEW p \in Partition,
                      terminateThreads[WorkerOf(p)] /\ ending[WorkerOf(p)] = None
               PROVE  stored'[p] = stored[p]
    OBVIOUS
  <2>1. CASE Master \/ Session \/ \E w \in Worker : Mix(w)
    BY <2>1 DEF Master, Session, Mix, ReadEdge, PublishEnd, LosePublication, StartStream, HandleEdge, HandleEnd, JoinThreads,
       NotifyAll, threadVars
  <2>2. ASSUME NEW q \in Partition, Run(q) \/ WakeSpuriously(q) PROVE stored'[p] = stored[p]
    <3>1. CASE StoreEdge(q)
      <4>1. q # p
        BY <3>1, StoreEdgeKeeps
      <4> QED
        BY <3>1, <4>1 DEF StoreEdge, IngestInv, TypeOK
    <3>2. CASE ~StoreEdge(q)
      BY <2>2, <3>2 DEF Run, LoadStore, TestTerminate, TakeEdge, Block, WakeSpuriously
    <3> QED
      BY <3>1, <3>2
  <2> QED
    BY <2>1, <2>2 DEF Next
<1> QED
  BY <1>1, IngestInvariant, PTL DEF Spec, NothingStoredAfterEnd

=============================================================================
