---------------------------- MODULE CypherQuery ----------------------------
(***************************************************************************)
(* A distributed Cypher query: CypherQueryExecutor on the master, one      *)
(* receiver thread per partition (Utils::sendQueryPlanToWorker), and on    *)
(* each worker InstanceHandler in front of the operator chain, whose       *)
(* interesting operator is the external sort OperatorExecutor::OrderBy.    *)
(*                                                                         *)
(* Every buffer here is a SharedBuffer and is used through what            *)
(* BoundedQueue promises of it: a first-in first-out queue with a limit.   *)
(* The buffers of a worker's operator chain form one queue, since each     *)
(* operator above the sort handles one row at a time, in order.            *)
(***************************************************************************)
EXTENDS Integers, Sequences, FiniteSets, Functions

CONSTANTS
  N,                 \* the number of partitions
  Queries,           \* the queries that may be asked
  Tables,            \* what the partitions may hold: sort keys, per partition
  HeapLimit,         \* MAX_MEMORY_BYTES, counted in rows
  OperatorSize,      \* INTER_OPERATOR_BUFFER_SIZE
  MasterSize,        \* MASTER_BUFFER_SIZE
  MaxDisconnects,    \* bound: how many connections to workers break
  DiskFailures,      \* whether creating a run file may fail
  ClientMayLeave     \* whether the client's socket may break

Partition == 1 .. N

\* The key of a row that lacks the property the query sorts by.
NoKey == -1

Query == [order : {"ASC", "DESC", "NONE"}, keyReturned : BOOLEAN]

ASSUME QueryAssumption ==
  /\ N \in Nat \ {0} /\ HeapLimit \in Nat /\ MaxDisconnects \in Nat
  /\ OperatorSize \in Nat \ {0} /\ MasterSize \in Nat \ {0}
  /\ Queries \subseteq Query
  /\ Tables \subseteq [Partition -> Seq(Nat \cup {NoKey})]
  /\ DiskFailures \in BOOLEAN /\ ClientMayLeave \in BOOLEAN

Row == [part : Partition, n : Nat, key : Nat \cup {NoKey}]

\* "-1", the close flag that ends every stream of rows.
End == [part |-> 0, n |-> 0, key |-> NoKey]

\* What a receiver adds when the connection breaks inside a message: a
\* string of the announced length that is no JSON document.
Garbage(p) == [part |-> p, n |-> 0, key |-> NoKey]

VARIABLES
  query,       \* the plan: its order, and whether it returns the sort key
  rest,        \* per partition, the rows the chain below the sort still yields
  heap,        \* OrderBy: the rows in memory
  usage,       \* OrderBy: heapMemoryUsage
  runs,        \* OrderBy: the run files
  phase,       \* OrderBy: what its loop is doing
  out,         \* the buffers between the sort and InstanceHandler
  held,        \* InstanceHandler: the row it has taken and not yet published
  link,        \* the connection between worker and master
  hand,        \* the receiver: a row it has read and not yet added
  receiver,    \* whether the receiver thread is running
  pool,        \* bufferPool
  pc,          \* CypherQueryExecutor::execute
  cursor,      \* the partition the master looks at
  mergeQueue,  \* the master's priority queue
  closeFlag,   \* the number of close flags the master has seen
  reply,       \* the rows written to the client
  table,       \* history: the rows each partition held at the start
  lost         \* history: the partitions whose sort could not write a run

sort == <<heap, usage, runs>>
worker == <<rest, sort, phase, out, held>>
receiving == <<hand, receiver, pool>>
master == <<pc, cursor, mergeQueue, closeFlag, reply>>
fixed == <<query, table>>
vars == <<fixed, worker, link, receiving, master, lost>>

Ordered == query.order # "NONE"

RowsOf(p, keys) ==
  [i \in DOMAIN keys |-> [part |-> p, n |-> i, key |-> keys[i]]]

Init ==
  /\ query \in Queries
  /\ \E keys \in Tables : table = [p \in Partition |-> RowsOf(p, keys[p])]
  /\ rest = table
  /\ heap = [p \in Partition |-> {}]
  /\ usage = [p \in Partition |-> 0]
  /\ runs = [p \in Partition |-> <<>>]
  /\ phase = [p \in Partition |-> "reading"]
  /\ out = [p \in Partition |-> <<>>]
  /\ held = [p \in Partition |-> <<>>]
  /\ link = [p \in Partition |-> "up"]
  /\ hand = [p \in Partition |-> <<>>]
  /\ receiver = [p \in Partition |-> "running"]
  /\ pool = [p \in Partition |-> <<>>]
  /\ pc = IF Ordered THEN "first" ELSE "collect"
  /\ cursor = 1
  /\ mergeQueue = {}
  /\ closeFlag = 0
  /\ reply = <<>>
  /\ lost = {}

-----------------------------------------------------------------------------
(* Comparators.  std::priority_queue keeps at its top an element that none  *)
(* precedes; among elements that precede each other the choice is open.     *)

\* Row::operator<, flipped for DESC.
RowLess(a, b) == IF query.order = "ASC" THEN a.key > b.key ELSE ~(a.key > b.key)

\* Mutant: the arguments are swapped whatever the order.
HeapLessSwapped(a, b) == RowLess(b, a)

\* DynamicComparator, through RowAscComparator and RowDescComparator.
HeapLess(a, b) == IF query.order = "ASC" THEN RowLess(a, b) ELSE RowLess(b, a)

\* Mutant: the comparator of the merge looks at the wrong row.
RunLessReversed(a, b) == b.key > a.key

\* The comparator of localKWayMergeToBuffer.
RunLess(a, b) == IF query.order = "ASC" THEN a.key > b.key ELSE ~(a.key > b.key)

\* BufferEntry::operator<: rows that lost the sort key are all alike.
EntryLess(a, b) ==
  /\ query.keyReturned
  /\ IF query.order = "ASC" THEN a.key > b.key ELSE ~(a.key > b.key)

\* What std::priority_queue may have on top: a row that none of the others beats.
Top(rows, Less(_, _)) ==
  {r \in rows : \A s \in rows \ {r} : Less(r, s) => Less(s, r)}

\* The orders in which popping a heap of partition p can list its rows.
PopOrders(p, rows) ==
  {s \in UNION {Bijection(1 .. m, rows) : m \in 0 .. Len(table[p])} :
     \A i \in DOMAIN s : s[i] \in Top({s[j] : j \in i .. Len(s)}, HeapLess)}

-----------------------------------------------------------------------------
(* The worker's operators. *)

\* SharedBuffer::add at the end of the operator chain waits for room.
HasRoom(p) == Len(out[p]) < OperatorSize

Emit(p, row) == out' = [out EXCEPT ![p] = Append(@, row)]

\* Projection, ProduceResult: each row is passed on, then the close flag.
Forward(p) ==
  /\ ~Ordered
  /\ phase[p] = "reading"
  /\ HasRoom(p)
  /\ IF rest[p] = <<>>
     THEN Emit(p, End) /\ phase' = [phase EXCEPT ![p] = "done"] /\ UNCHANGED rest
     ELSE /\ Emit(p, Head(rest[p]))
          /\ rest' = [rest EXCEPT ![p] = Tail(@)]
          /\ UNCHANGED phase
  /\ UNCHANGED <<fixed, sort, held, link, receiving, master, lost>>

\* flushHeapToRunFile with the rows to flush; when the file cannot be created
\* the heap keeps them.
FlushHeap(p, rows) ==
  \/ /\ \E run \in PopOrders(p, rows) :
          runs' = [runs EXCEPT ![p] = IF rows = {} THEN @ ELSE Append(@, run)]
     /\ heap' = [heap EXCEPT ![p] = {}]
     /\ UNCHANGED lost
  \/ /\ DiskFailures /\ rows # {}
     /\ heap' = [heap EXCEPT ![p] = rows]
     /\ lost' = lost \cup {p}
     /\ UNCHANGED runs

\* OrderBy takes a row: one without the sort key is dropped, and the heap is
\* flushed once it has outgrown its limit.
ReadRow(p) ==
  /\ Ordered
  /\ phase[p] = "reading"
  /\ rest[p] # <<>>
  /\ rest' = [rest EXCEPT ![p] = Tail(@)]
  /\ LET row == Head(rest[p]) rows == heap[p] \cup {row}
     IN \/ row.key = NoKey /\ UNCHANGED <<sort, lost>>
        \/ /\ row.key # NoKey /\ usage[p] + 1 <= HeapLimit
           /\ heap' = [heap EXCEPT ![p] = rows]
           /\ usage' = [usage EXCEPT ![p] = @ + 1]
           /\ UNCHANGED <<runs, lost>>
        \/ /\ row.key # NoKey /\ usage[p] + 1 > HeapLimit
           /\ FlushHeap(p, rows)
           /\ usage' = [usage EXCEPT ![p] = 0]
  /\ UNCHANGED <<fixed, phase, out, held, link, receiving, master>>

\* Mutant: the rows still in memory are not flushed before the merge.
ReadEndWithoutFlush(p) ==
  /\ Ordered
  /\ phase[p] = "reading"
  /\ rest[p] = <<>>
  /\ phase' = [phase EXCEPT ![p] = IF runs[p] # <<>> THEN "merging" ELSE "draining"]
  /\ UNCHANGED <<fixed, rest, sort, out, held, link, receiving, master, lost>>

\* OrderBy meets the close flag: with run files the heap becomes the last run
\* and the runs are merged, without them the heap is drained.
ReadEnd(p) ==
  /\ Ordered
  /\ phase[p] = "reading"
  /\ rest[p] = <<>>
  /\ IF runs[p] # <<>>
     THEN FlushHeap(p, heap[p]) /\ phase' = [phase EXCEPT ![p] = "merging"]
     ELSE phase' = [phase EXCEPT ![p] = "draining"] /\ UNCHANGED <<heap, runs, lost>>
  /\ UNCHANGED <<fixed, rest, usage, out, held, link, receiving, master>>

\* The heap is popped into the buffer, then the close flag follows.
DrainHeap(p) ==
  /\ phase[p] = "draining"
  /\ HasRoom(p)
  /\ \/ /\ heap[p] = {}
        /\ Emit(p, End)
        /\ phase' = [phase EXCEPT ![p] = "done"]
        /\ UNCHANGED heap
     \/ \E row \in Top(heap[p], HeapLess) :
          /\ Emit(p, row)
          /\ heap' = [heap EXCEPT ![p] = @ \ {row}]
          /\ UNCHANGED phase
  /\ UNCHANGED <<fixed, rest, usage, runs, held, link, receiving, master, lost>>

\* localKWayMergeToBuffer: the best of the first rows of the runs goes to the
\* buffer and its run yields the next one; then the close flag follows.
MergeRuns(p) ==
  /\ phase[p] = "merging"
  /\ HasRoom(p)
  /\ LET open == {i \in DOMAIN runs[p] : runs[p][i] # <<>>}
     IN \/ /\ open = {}
           /\ Emit(p, End)
           /\ phase' = [phase EXCEPT ![p] = "done"]
           /\ UNCHANGED runs
        \/ \E i \in open :
             /\ Head(runs[p][i]) \in Top({Head(runs[p][j]) : j \in open}, RunLess)
             /\ Emit(p, Head(runs[p][i]))
             /\ runs' = [runs EXCEPT ![p][i] = Tail(@)]
             /\ UNCHANGED phase
  /\ UNCHANGED <<fixed, rest, heap, usage, held, link, receiving, master, lost>>

-----------------------------------------------------------------------------
(* InstanceHandler and the connection. *)

\* handleRequest takes the next row from the operator chain.
TakeRow(p) ==
  /\ held[p] = <<>>
  /\ out[p] # <<>>
  /\ held' = [held EXCEPT ![p] = <<Head(out[p])>>]
  /\ out' = [out EXCEPT ![p] = Tail(@)]
  /\ UNCHANGED <<fixed, rest, sort, phase, link, receiving, master, lost>>

\* Mutant: the row is published and sent again.
PublishAndKeep(p) ==
  /\ held[p] # <<>>
  /\ link[p] = "up" /\ receiver[p] = "running" /\ hand[p] = <<>>
  /\ hand' = [hand EXCEPT ![p] = held[p]]
  /\ UNCHANGED <<fixed, worker, link, receiver, pool, master, lost>>

\* dataPublishToMaster: start, length, row, each acknowledged.  The receiver
\* acknowledges the row before it adds it, and answers the next start only
\* after that.
Publish(p) ==
  /\ held[p] # <<>>
  /\ link[p] = "up" /\ receiver[p] = "running" /\ hand[p] = <<>>
  /\ hand' = [hand EXCEPT ![p] = held[p]]
  /\ held' = [held EXCEPT ![p] = <<>>]
  /\ UNCHANGED <<fixed, rest, sort, phase, out, link, receiver, pool, master, lost>>

\* Mutant: the handler retries a row over the broken connection for ever.
PublishFailsAndRetries(p) ==
  /\ held[p] # <<>>
  /\ link[p] = "down"
  /\ UNCHANGED vars

\* Over a broken connection dataPublishToMaster returns, the row is gone, and
\* handleRequest goes on to the next one.
PublishFails(p) ==
  /\ held[p] # <<>>
  /\ link[p] = "down"
  /\ held' = [held EXCEPT ![p] = <<>>]
  /\ UNCHANGED <<fixed, rest, sort, phase, out, link, receiving, master, lost>>

MayDisconnect == Cardinality({p \in Partition : link[p] = "down"}) < MaxDisconnects

\* The connection breaks between two messages, or was never made.
Disconnect(p) ==
  /\ MayDisconnect /\ link[p] = "up"
  /\ link' = [link EXCEPT ![p] = "down"]
  /\ UNCHANGED <<fixed, worker, receiving, master, lost>>

\* The connection breaks inside a message, after its length was announced.
BreakInMessage(p) ==
  /\ MayDisconnect /\ link[p] = "up"
  /\ held[p] # <<>> /\ receiver[p] = "running" /\ hand[p] = <<>>
  /\ link' = [link EXCEPT ![p] = "down"]
  /\ held' = [held EXCEPT ![p] = <<>>]
  /\ hand' = [hand EXCEPT ![p] = <<Garbage(p)>>]
  /\ UNCHANGED <<fixed, rest, sort, phase, out, receiver, pool, master, lost>>

-----------------------------------------------------------------------------
(* The receiver of a partition: Utils::sendQueryPlanToWorker. *)

\* Mutant: the thread ends at the close flag without passing it on.
AddRowButEnd(p) ==
  /\ hand[p] # <<>>
  /\ Len(pool[p]) < MasterSize
  /\ pool' = [pool EXCEPT ![p] = IF hand[p] = <<End>> THEN @ ELSE @ \o hand[p]]
  /\ hand' = [hand EXCEPT ![p] = <<>>]
  /\ receiver' = [receiver EXCEPT ![p] = IF hand[p] = <<End>> THEN "stopped" ELSE @]
  /\ UNCHANGED <<fixed, worker, link, master, lost>>

\* The row is added to the partition's buffer; the close flag ends the thread.
AddRow(p) ==
  /\ hand[p] # <<>>
  /\ Len(pool[p]) < MasterSize
  /\ pool' = [pool EXCEPT ![p] = @ \o hand[p]]
  /\ hand' = [hand EXCEPT ![p] = <<>>]
  /\ receiver' = [receiver EXCEPT ![p] = IF hand[p] = <<End>> THEN "stopped" ELSE @]
  /\ UNCHANGED <<fixed, worker, link, master, lost>>

\* Anything but the start of a message ends the thread, with no close flag.
StopReceiving(p) ==
  /\ link[p] = "down" /\ hand[p] = <<>> /\ receiver[p] = "running"
  /\ receiver' = [receiver EXCEPT ![p] = "stopped"]
  /\ UNCHANGED <<fixed, worker, link, hand, pool, master, lost>>

-----------------------------------------------------------------------------
(* The master: CypherQueryExecutor::execute. *)

IsEnd(row) == row = End

\* json::parse succeeds.
Parses(row) == row \in Row /\ row.n # 0

TakeFromPool(p) == pool' = [pool EXCEPT ![p] = Tail(@)]

Count(row) == closeFlag' = IF IsEnd(row) THEN closeFlag + 1 ELSE closeFlag

\* Without aggregation the buffers are polled in turn with tryGet, until at
\* the start of a round every partition has sent its close flag.
Poll ==
  /\ pc = "collect"
  /\ ~(cursor = 1 /\ closeFlag = N)
  /\ cursor' = (cursor % N) + 1
  /\ IF pool[cursor] = <<>>
     THEN UNCHANGED <<pool, closeFlag, reply>>
     ELSE LET row == Head(pool[cursor])
          IN /\ TakeFromPool(cursor)
             /\ Count(row)
             /\ reply' = IF IsEnd(row) THEN reply ELSE Append(reply, row)
  /\ UNCHANGED <<fixed, worker, link, hand, receiver, pc, mergeQueue, lost>>

PollEnds ==
  /\ pc = "collect" /\ cursor = 1 /\ closeFlag = N
  /\ pc' = "join"
  /\ UNCHANGED <<fixed, worker, link, receiving, cursor, mergeQueue, closeFlag, reply, lost>>

\* Writing a row to the client fails: execute returns while its threads are
\* joinable, and destroying them ends the process.
WriteFails ==
  /\ ClientMayLeave
  /\ pc = "collect" /\ ~(cursor = 1 /\ closeFlag = N)
  /\ pool[cursor] # <<>> /\ ~IsEnd(Head(pool[cursor]))
  /\ TakeFromPool(cursor)
  /\ pc' = "terminated"
  /\ UNCHANGED <<fixed, worker, link, hand, receiver, cursor, mergeQueue, closeFlag, reply, lost>>

\* A row enters the priority queue unless it cannot be parsed.
Push(queue, row) == IF Parses(row) THEN queue \cup {row} ELSE queue

\* START MASTER STREAMING MERGE: get waits for the first row of each buffer.
FirstRow ==
  /\ pc = "first"
  /\ pool[cursor] # <<>>
  /\ LET row == Head(pool[cursor])
     IN TakeFromPool(cursor) /\ Count(row) /\ mergeQueue' = Push(mergeQueue, row)
  /\ cursor' = (cursor % N) + 1
  /\ pc' = IF cursor = N THEN "merge" ELSE pc
  /\ UNCHANGED <<fixed, worker, link, hand, receiver, reply, lost>>

\* The top of the queue is written to the client.
WriteTop ==
  /\ pc = "merge"
  /\ \E top \in Top(mergeQueue, EntryLess) :
       /\ mergeQueue' = mergeQueue \ {top}
       /\ reply' = Append(reply, top)
       /\ cursor' = top.part
  /\ pc' = "next"
  /\ UNCHANGED <<fixed, worker, link, receiving, closeFlag, lost>>

\* The buffer the row came from is waited for and yields the next row.
NextRow ==
  /\ pc = "next"
  /\ pool[cursor] # <<>>
  /\ LET row == Head(pool[cursor])
     IN TakeFromPool(cursor) /\ Count(row) /\ mergeQueue' = Push(mergeQueue, row)
  /\ pc' = IF closeFlag' >= N THEN "join" ELSE "merge"
  /\ UNCHANGED <<fixed, worker, link, hand, receiver, cursor, reply, lost>>

MergeEnds ==
  /\ pc = "merge" /\ mergeQueue = {}
  /\ pc' = "join"
  /\ UNCHANGED <<fixed, worker, link, receiving, cursor, mergeQueue, closeFlag, reply, lost>>

\* The receivers are joined and the job gets its response.
Respond ==
  /\ pc = "join"
  /\ \A p \in Partition : receiver[p] = "stopped"
  /\ pc' = "responded"
  /\ UNCHANGED <<fixed, worker, link, receiving, cursor, mergeQueue, closeFlag, reply, lost>>

-----------------------------------------------------------------------------
Operators(p) == Forward(p) \/ ReadRow(p) \/ ReadEnd(p) \/ DrainHeap(p) \/ MergeRuns(p)

Handler(p) == TakeRow(p) \/ Publish(p) \/ PublishFails(p)

Receiver(p) == AddRow(p) \/ StopReceiving(p)

Master == Poll \/ PollEnds \/ FirstRow \/ WriteTop \/ NextRow \/ MergeEnds \/ Respond

Next ==
  \/ \E p \in Partition :
       Operators(p) \/ Handler(p) \/ Receiver(p) \/ Disconnect(p) \/ BreakInMessage(p)
  \/ Master
  \/ WriteFails

Spec == Init /\ [][Next]_vars

\* Every thread that can take a step eventually does.
Fairness ==
  /\ \A p \in Partition :
       WF_vars(Operators(p)) /\ WF_vars(Handler(p)) /\ WF_vars(Receiver(p))
  /\ WF_vars(Master)

FairSpec == Spec /\ Fairness

-----------------------------------------------------------------------------
\* The client sees the rows of an ordered query in its order: the worker's
\* heap, its run files and their merge, the connections and the master's
\* merge together sort the union of the partitions.
ReplyInOrder ==
  query.keyReturned =>
    \A i, j \in DOMAIN reply :
      i < j => /\ query.order = "ASC" => reply[i].key <= reply[j].key
               /\ query.order = "DESC" => reply[i].key >= reply[j].key

\* The rows in a sequence, without what ends or breaks a stream.
Rows(s) == {r \in Range(s) : r.n # 0}
NoneTwice(s) == \A i, j \in DOMAIN s : s[i] = s[j] /\ s[i].n # 0 => i = j
From(p, S) == {r \in S : r.part = p}
AllRows(seqs) == UNION {Rows(seqs[i]) : i \in DOMAIN seqs}

\* The rows of partition p, by the place they are in.
Places == {"reply", "queue", "pool", "hand", "held", "out", "runs", "heap", "rest"}
Stored(p) ==
  [a \in Places |->
     CASE a = "reply" -> From(p, Rows(reply))
       [] a = "queue" -> From(p, mergeQueue)
       [] a = "pool" -> Rows(pool[p])
       [] a = "hand" -> Rows(hand[p])
       [] a = "held" -> Rows(held[p])
       [] a = "out" -> Rows(out[p])
       [] a = "runs" -> AllRows(runs[p])
       [] a = "heap" -> heap[p]
       [] a = "rest" -> Rows(rest[p])]

Sortable(r) == ~Ordered \/ r.key # NoKey

\* No row of partition p is in two places or twice in one.
InOnePlace(p) ==
  /\ LET S == Stored(p) IN \A a, b \in Places : a # b => S[a] \cap S[b] = {}
  /\ NoneTwice(pool[p]) /\ NoneTwice(out[p]) /\ NoneTwice(rest[p])
  /\ \A i, j \in DOMAIN runs[p] :
       /\ NoneTwice(runs[p][i])
       /\ i # j => Rows(runs[p][i]) \cap Rows(runs[p][j]) = {}

Conserved(p) ==
  /\ InOnePlace(p)
  /\ \A a \in Places : Stored(p)[a] \subseteq Range(table[p])
  /\ pc # "terminated" /\ link[p] = "up" =>
       \A r \in Range(table[p]) : Sortable(r) => \E a \in Places : r \in Stored(p)[a]

\* No row is ever in two places, and a row is nowhere only if the sort dropped
\* it for want of a key or the connection broke: not at a flush, not at the
\* last flush before the merge, not between two messages.
RowsConserved == NoneTwice(reply) /\ \A p \in Partition : Conserved(p)

\* When the master stops reading, the client has every row of every partition
\* whose connection and disk held out, whatever happened to the others.
AnswerComplete ==
  pc \in {"join", "responded"} =>
    \A p \in Partition :
      link[p] = "up" /\ p \notin lost =>
        {r \in Range(table[p]) : Sortable(r)} \subseteq Range(reply)

\* The job gets its response for good, whatever the disks do, unless a worker's
\* connection is lost or the client's loss ends the process.
Answered ==
  <>[](pc \in {"responded", "terminated"} \/ \E p \in Partition : link[p] = "down")

WorkerDone(p) == phase[p] = "done" /\ out[p] = <<>> /\ held[p] = <<>>

\* A worker that lost its master, which it does for good, finishes the query and
\* frees its threads.
CutOffWorkersFinish == \A p \in Partition : <>[](link[p] = "down" => WorkerDone(p))

-----------------------------------------------------------------------------
(* The inductive invariant. *)

RowOf(p) == {r \in Row : r.part = p /\ r.n # 0}
Phases == {"reading", "draining", "merging", "done"}
Steps(ordered) == IF ordered THEN {"first", "merge", "next", "join", "responded"}
                  ELSE {"collect", "join", "responded", "terminated"}

Domains ==
  /\ DOMAIN table = Partition /\ DOMAIN rest = Partition /\ DOMAIN heap = Partition
  /\ DOMAIN usage = Partition /\ DOMAIN runs = Partition /\ DOMAIN phase = Partition
  /\ DOMAIN out = Partition /\ DOMAIN held = Partition /\ DOMAIN link = Partition
  /\ DOMAIN hand = Partition /\ DOMAIN receiver = Partition /\ DOMAIN pool = Partition

SortType(p) ==
  /\ table[p] \in Seq(RowOf(p)) /\ rest[p] \in Seq(RowOf(p))
  /\ heap[p] \subseteq RowOf(p) /\ usage[p] \in Nat
  /\ runs[p] \in Seq(Seq(RowOf(p))) /\ phase[p] \in Phases
StreamType(p) ==
  /\ out[p] \in Seq(RowOf(p) \cup {End})
  /\ held[p] \in Seq(RowOf(p) \cup {End}) /\ Len(held[p]) <= 1
  /\ hand[p] \in Seq(RowOf(p) \cup {End, Garbage(p)}) /\ Len(hand[p]) <= 1
  /\ pool[p] \in Seq(RowOf(p) \cup {End, Garbage(p)})
  /\ link[p] \in {"up", "down"} /\ receiver[p] \in {"running", "stopped"}
MasterType ==
  /\ query \in Query
  /\ pc \in Steps(Ordered) /\ cursor \in Partition /\ closeFlag \in Nat
  /\ mergeQueue \subseteq Row /\ \A r \in mergeQueue : r.n # 0
  /\ reply \in Seq(Row) /\ (Ordered => \A r \in Range(reply) : r.n # 0)
  /\ lost \subseteq Partition

TypeOK == Domains /\ MasterType /\ \A p \in Partition : SortType(p) /\ StreamType(p)

\* What travels from the sort to the master: the close flag is the last of it, and so
\* is what a broken connection leaves.
NoEnd(p) == \A s \in {out[p], held[p], hand[p], pool[p]} : End \notin Range(s)
Nothing(p) == out[p] = <<>> /\ held[p] = <<>> /\ hand[p] = <<>> /\ pool[p] = <<>>
StreamInv(p) ==
  /\ phase[p] # "done" => NoEnd(p)
  /\ \A i \in DOMAIN out[p] : out[p][i] = End => i = Len(out[p])
  /\ held[p] = <<End>> => out[p] = <<>>
  /\ hand[p] = <<End>> => out[p] = <<>> /\ held[p] = <<>>
  /\ \A i \in DOMAIN pool[p] : pool[p][i] = End =>
       i = Len(pool[p]) /\ out[p] = <<>> /\ held[p] = <<>> /\ hand[p] = <<>>
  /\ phase[p] = "done" /\ link[p] = "up" /\ NoEnd(p) => Nothing(p)
  /\ Garbage(p) \in Range(hand[p]) \cup Range(pool[p]) => link[p] = "down"
  /\ \A i \in DOMAIN pool[p] : pool[p][i] = Garbage(p) => i = Len(pool[p]) /\ hand[p] = <<>>

\* What the sort of partition p has still to emit.
SortInv(p) ==
  /\ Ordered /\ phase[p] = "reading" => Nothing(p)
  /\ ~Ordered => heap[p] = {} /\ runs[p] = <<>> /\ phase[p] \in {"reading", "done"}
  /\ phase[p] # "reading" => rest[p] = <<>>
  /\ phase[p] = "draining" => runs[p] = <<>>
  /\ phase[p] \in {"merging", "done"} /\ heap[p] # {} => p \in lost
  /\ phase[p] = "done" => \A i \in DOMAIN runs[p] : runs[p][i] = <<>>

\* The close flag of partition p has left the buffers, read by the master or lost.
Spent(p) == phase[p] = "done" /\ NoEnd(p)
\* The merge has looked at the buffer of partition p.
Started(p) == pc # "first" \/ p < cursor
\* The merge is about to look at it again.
Awaited(p) == pc = "next" /\ cursor = p
Queued(p) == \E r \in mergeQueue : r.part = p

\* S has k members or more.
AtLeast(k, S) == Injection(1 .. k, S) # {}

MasterInv ==
  /\ AtLeast(closeFlag, {p \in Partition : Spent(p)})
  /\ pc \in {"join", "responded"} => \A p \in Partition : link[p] = "up" => Spent(p)
  /\ pc = "first" => reply = <<>>
  /\ \A r, s \in mergeQueue : r.part = s.part => r = s
  /\ \A p \in Partition :
       /\ Queued(p) => Ordered /\ Started(p) /\ ~Awaited(p)
       /\ Queued(p) /\ link[p] = "up" => ~Spent(p)
       /\ Ordered /\ Started(p) => phase[p] # "reading"
       /\ pc \in {"first", "merge", "next"} /\ Started(p) /\ ~Awaited(p) /\ link[p] = "up" =>
            Queued(p) \/ Spent(p)

\* The rows of partition p in the order in which they leave, and those of them that
\* the master may still get.
Left(p) == IF phase[p] = "draining" THEN heap[p]
           ELSE IF phase[p] = "merging" THEN Stored(p)["runs"] ELSE {}
AfterHeld(p) == Rows(out[p]) \cup Left(p)
AfterHand(p) == Rows(held[p]) \cup AfterHeld(p)
AfterPool(p) == Rows(hand[p]) \cup AfterHand(p)
ToCome(p) == Rows(pool[p]) \cup Rows(hand[p]) \cup (IF link[p] = "up" THEN AfterHand(p) ELSE {})

Before(A, B) == \A x \in A, y \in B : x.key <= y.key
InOrder(s) ==
  \A i, j \in DOMAIN s : i < j /\ s[i].n # 0 /\ s[j].n # 0 => s[i].key <= s[j].key

Sorting == query.order = "ASC" /\ query.keyReturned

\* What partition p sends is in order, from its sort to the master's buffer.
OrderAt(p) ==
  /\ InOrder(pool[p]) /\ InOrder(out[p]) /\ \A i \in DOMAIN runs[p] : InOrder(runs[p][i])
  /\ Before(Rows(out[p]), Left(p)) /\ Before(Rows(held[p]), AfterHeld(p))
  /\ Before(Rows(hand[p]), AfterHand(p)) /\ Before(Rows(pool[p]), AfterPool(p))

\* The queue holds the least of what each partition may still send.
MergeInv ==
  /\ \A p \in Partition :
       /\ pc \in {"first", "merge", "next"} /\ Started(p) /\ ~Awaited(p) =>
            Queued(p) \/ ToCome(p) = {}
       /\ Awaited(p) => Before(Rows(reply), ToCome(p))
  /\ \A r \in mergeQueue : Before({r}, ToCome(r.part))
  /\ Before(Rows(reply), mergeQueue)
  /\ InOrder(reply)

PartInv(p) == StreamInv(p) /\ SortInv(p) /\ (Sorting => OrderAt(p))

CypherInv ==
  /\ TypeOK /\ RowsConserved /\ MasterInv /\ (Sorting => MergeInv)
  /\ \A p \in Partition : PartInv(p)

=============================================================================
