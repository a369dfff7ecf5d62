# JasmineGraph: a TLA+ verification project

JasmineGraph is a distributed graph database written in C++. A *master* accepts
front-end commands, partitions graphs, schedules jobs and keeps a meta database; *workers*
hold one partition each, in block files written by the *native store* or in serialised maps,
and answer the master over line-oriented TCP protocols. Graphs arrive from files, from HDFS
or from Kafka topics.

The modules here are translated from the code under `src/src/`. Source paths below are
relative to that directory. `PROJECT.json` maps every definition to the lines it models.

## 1. Inventory

| Part | State | Operations that change it | What makes it hard |
|---|---|---|---|
| Native store (`nativestore/NodeManager`, `NodeBlock`, `RelationBlock`) | index file, node blocks, relation blocks, index in memory, next free numbers | open (append, truncate), `addNode`, `addLocalEdge`, `addCentralEdge`, head relocation | several flushed writes per edge over three files; crashes between them; numbers recomputed from file sizes; stale copies for self loops |
| Property chains (`nativestore/PropertyLink`, `PropertyEdgeLink`, `MetaPropertyLink`) | chains of blocks, one reference per node or relation | `insert`, `create`, `getAllProperties` | a reference moved by every insertion; equal names |
| Incremental local store (`localstore/incremental`) | one `NodeManager` per partition | `addEdgeFromString`, `addLocalEdge`, `addCentralEdge` | the lock covers some paths only; deduplication of central edges |
| Worker stream threads (`util/kafka/InstanceStreamHandler`) | a queue, a condition variable and a thread per partition | `handleRequest`, `threadFunction`, termination | termination while a queue still holds edges |
| Kafka streams (`frontend`, `util/kafka/StreamHandler`, `util/kafka/StreamRegistry`) | registry of streams, stop flags, consumer threads | register, signal stop, unregister, poll | a stop command and a finishing consumer both unregister |
| HDFS ingestion (`util/hdfs/HDFSStreamHandler`, `partitioner/stream/HDFSMultiThreadedHashPartitioner`) | line buffer, per-partition arrays, flags, chunk files | reader, consumers, partition consumers, stop | lost wakeups; leftovers at termination |
| Query pipeline (`query/.../util/SharedBuffer`, `OperatorExecutor`, `InstanceHandler`) | one bounded buffer per operator edge | `add`, `get`, `tryGet`, `getWithTimeout`; one thread per operator | one condition variable for producers and consumers; end markers |
| Front-end sessions (`frontend/JasmineGraphFrontEnd`, `frontend/ui`) | session count, the running command, its answers | some fifty commands of two front ends | commands are long conversations; several of them write the same rows; clients leave in the middle |
| Job scheduling (`frontend/core/scheduler/JobScheduler`, `frontend/core/executor`) | priority queue, response map, records of running jobs, a mutex | push, top, pop, dispatch, poll for the result | a queue without a lock; jobs that never answer; records erased by the wrong job |
| Graph placement and removal (`server/JasmineGraphServer`, `metadb`) | meta database rows, worker files | upload, update meta database, resolve on start, remove | failures between a worker's file and the master's row |
| Worker protocols (`server/JasmineGraphInstanceService`, `server/JasmineGraphInstanceFileTransferService` and their callers) | sessions, files | sixty-odd commands, file transfer, status polling | lock-step messages over TCP whose boundaries nothing marks; files on a second connection; retries |
| Knowledge-graph construction (`knowledgegraph/construction/Pipeline`) | threads, stop flags, chunk buffer | start, resume, stop, stream, extract | flags and threads kept in two maps; end markers |
| Triangle counting, page rank, search, agents, training (`frontend/core/executor/impl`, `ml`, `query/algorithms`) | records, responses | run as jobs, talk to every worker | they share the mutex, the records and the workers |
| Scaling (`scale/scaler`, `k8s`) | worker counts, pods | scale up, scale down | an external cluster |
| Streaming and local partitioners (`partitioner`) | maps of vertices and edges | load, partition, write | large in-memory maps; heuristics |
| Vector index (`vectorstore`), statistics (`performance`), query front end (`query/processor/cypher/astbuilder`, `queryplanner`) | various, or none between calls | | external libraries; pure translation |

The properties that matter most follow from this table: an edge acknowledged by the store stays
visible from both its ends; the index leads every vertex to its own block; a stream is in the
registry exactly while its consumer runs; a bounded buffer neither loses rows nor leaves everyone
asleep; a chain of properties holds one value per name; the two ends of a worker conversation agree
on what is being said, and success means that the worker has done its part; a graph that is
operational is where the meta database says; a job gets an answer and a departed client frees its
session.

## 2. How the modules fit together

| Module | Part | State |
|---|---|---|
| `NativeStore`, abstract `AdjacencyLists` | native store | model-checked, proved |
| `PropertyChain` | property chains | model-checked, proved |
| `StreamIngest` | from the consumer loop to the partitions' stores | model-checked, proved |
| `KafkaStreams` | stream registry and commands | model-checked, proved |
| `SharedBuffer`, abstract `BoundedQueue` | the query pipeline's buffers | model-checked, proved |
| `CypherQuery`, over what `BoundedQueue` promises | distributed query | model-checked, proved |
| `Dialogue`, `WorkerHandlers`, `WorkerClients`, `WorkerSession` | every conversation with a worker | model-checked |
| `EdgePartitioner`, `FileStreams` | files from HDFS and texts for knowledge graphs, down to the workers' chunk files | model-checked |
| `FrontEndCommands`, `FrontEnd` | sessions, meta database, scheduler, threads, restarts of the master | model-checked |

From the outside in: `FrontEnd` is the master as its clients see it, and treats the work done at a
worker as one step that succeeds or fails. `WorkerSession` opens such a step up into the
messages of one connection. Of the handlers behind these messages three have modules of their
own: a query plan is `CypherQuery`, which uses every buffer through the contract that
`SharedBuffer` is proved to implement; a stream is `StreamIngest`, which gives edges to a store in
one step; and `NativeStore` and `PropertyChain` open that step up into its writes. `FileStreams`
is what goes on in the step of `FrontEnd` that streams a file from HDFS, and in the worker's handler
that builds a knowledge graph; both end in the same partitioner, `EdgePartitioner`. `KafkaStreams`
is the part of `FrontEnd` that concerns one kind of stream, with more streams than `FrontEnd` has
room for.

## 3. Modules

In every module an action is the piece of code between two points where something else can
happen: a flushed write where the concern is a crash, a critical section where the concern is
another thread, a message where it is another process. Each `MC` module only gives constants
their values. Operators whose comment begins with `Mutant` or `Fault` are altered copies of the
definition below them; the properties must fail when the altered copy is used.

### 3.1 NativeStore

State: the index file (a sequence of records), the node file and the two relation files
(functions from block number to block), what `NodeManager` keeps in memory (the index, the next
numbers), the local variables of the one running `addLocalEdge` or `addCentralEdge`
(`lockEdgeAdd` admits one), and history. An address is a block number times the block size, so
numbers stand for addresses.

Actions follow the writes: `OpenAppend`, `OpenTruncate`, `AddEdge`, `GetNode`,
`AddNodeIndex`, `SaveNode`, `AddRelation`, `LinkPrevious`, `LinkNext`, `SetRelationHead`,
`Stop`, `Crash`. Local and central edges run the same code over two files, so the kind of an
edge is a parameter. Truncating empties the node and relation files but not the index file,
exactly as the open modes in the constructor do.

Abstractions: one block is written atomically; labels, types and properties are left out; two
reads whose result the code discards are not steps; where the code would follow a null block
(a damaged index record) the model goes to the state `undefined` and stops.

`AdjacencyLists` is the promise to readers: lists that only grow at the head. The refinement
mapping reads the lists off the files.

### 3.2 SharedBuffer

State: the deque and, for each thread, whether it is outside, in the wait set, woken, or woken by
the clock. `add`, `get`, `tryGet`, `getWithTimeout` and `clear` are actions; a critical section
is one step, `notify_one` chooses any waiter of either kind (there is one condition variable for
both), and wake-ups may be spurious. `BoundedQueue` is the promise: a bounded first-in first-out
queue.

### 3.3 CypherQuery

State: per partition the operator chain's remaining rows, the sort's heap and run files, the
handler's row, the connection, the receiver and its buffer; on the master the merge queue and
the reply. Actions: `ReadRow`, `ReadEnd`, `DrainHeap`, `MergeRuns` (the external sort
`OperatorExecutor::OrderBy`), `Forward` (queries without order), `TakeRow`, `Publish`,
`PublishFails` (`InstanceHandler`), `AddRow`, `StopReceiving` (`sendQueryPlanToWorker`), `Poll`,
`PollEnds`, `FirstRow`, `WriteTop`, `NextRow`, `MergeEnds`, `Respond` (the master), and the
failures `Disconnect`, `BreakInMessage`, `WriteFails` and a run file that cannot be created.

Abstractions: a row is its sort key and its origin; keys are numbers in the range of `int`; every
row has size one against the memory limit; the buffers above the sort form one queue; the
comparators are the code's, with an open choice among rows that precede each other. The order of
the reply is claimed for queries that return the property they sort by, since the master reads
the key from the row it received. Aggregates are not modelled.

### 3.4 KafkaStreams

State: the registry, the stop flags, the consumers, what each front-end session is doing, and the
status in the meta database. The registry's methods are atomic (each locks its mutex); a command
makes several calls, with other sessions and consumers in between. Streams are numbered in the
order of creation. Actions: `RegisterStream`, `GetStreamByGraphId`, `AbandonStream`,
`MarkStreaming`, `StartConsumer`, `GetStreamsByTopic`, `SignalStreamStop`, `Unsubscribe`,
`UnregisterStopped`, and of a consumer `SeeStop`, `SeeNoStop`, `PollMessage`, `EndOfStream`,
`PublishBlocks`, `UnregisterStream`, `UpdateMetaDB`. A consumer looks at its flag, polls, publishes
and looks again, so that a stop set meanwhile waits for the round to end; `publish` waits for a
worker's answers without a time limit, and a consumer whose worker gives none is `blocked` for good.
A consumer that a session detaches goes on running.

### 3.5 StreamIngest

State: per stream its loop and outstanding publications, per worker the connection, the termination
flag and the progress of `"-1"`, per partition the thread, its queue, the edge in its hand and its
store. A partition stands for the identifier of graph and partition under which a session keeps its
threads. Publications of one stream are in lock-step (the loop waits for the worker's
acknowledgement). `StartStream` is possible at any time: `add_stream_kafka_command` detaches a
consumer that is still running, and both publish over the session's `DataPublisher` objects. Nothing
keeps two publications to one worker apart. They may follow each other, or mix (`Mix`): then the
session hears nothing more, or it reads a senseless length or an edge without a graph and the
worker's process ends. What is published over a broken connection is lost or waits for ever
(`LosePublication`). `handleRequest` and `threadFunction` are split where locks are released;
between the test of the wait's predicate and the entry
into the wait set a thread is in the state `blocking`, still holding its lock; `"-1"` sets the
flag and notifies without that lock, so its notification can be lost. Wake-ups may be spurious.
One session serves several streams, and its flag is never reset.

### 3.6 PropertyChain

State: the property file, the reference in every node block on disk, the next free number, the two
`NodeBlock` objects of the edge being added, each with its own copy of the reference, and the
insertion whose link is written but not yet reachable. Actions: `AddEdge`, `Create` and
`SetHead` (first property of a node), `InsertExisting`, `InsertWrite` and `InsertLink`
(`PropertyLink::insert`), `EndDone`, `Crash` (with the reopening). The variable
`meta`, fixed by `Init`, tells `MetaPropertyLink` (one name, updated in place) from `PropertyLink`
(a value once written stays). `owed` is history: the names that could be read of a node when the
running edge began, and those linked since. `PropertyEdgeLink` repeats `PropertyLink` for relations.
Ids are short enough for the label field, so that `save` adds no property, and writes do not fail.

### 3.7 Dialogue, WorkerHandlers, WorkerClients, WorkerSession

`Dialogue` has the steps of which both ends of a conversation are made: writes whose result is
looked at, logged or ignored; reads that take whatever bytes have arrived; reads of a known length;
comparisons, loops, `loop_exit`, the file on the data port, and what an error path does with the
socket. `WorkerHandlers` writes every `*_command` of `JasmineGraphInstanceService` with them, and
`WorkerClients` every function of the master, its executors and other workers that talks to one.
The texts themselves are never built: a message is named by its constant, and what the worker
computes is one effect. Where a handler does not look at the outcome of its work, the effect is that
the work was tried, and a second one, which may or may not follow, that it succeeded (`Attempt`): a
catalog record, a deletion, a stored chunk.

State of `WorkerSession`: the client function and the handler at work, for each side its place in
the script, the texts it holds that are not what they should be, the texts under way to it, whether
its socket is open, the file, and what has been done. `read_str_wrapper` takes one or more texts at
once, since nothing in the stream separates them; `recv` takes a fixed number of bytes. Writing to
a socket the other side has closed succeeds once and then kills the process (`SIGPIPE`).
Failures: the connection is reset with or without the texts under way (`Break`), a process dies
(`Crash`), the file is cut off (`CutFile`). A message is not split, a worker's forked children are
not distinguished from threads, and a partition without a reset is not modelled.

### 3.8 FrontEndCommands, FrontEnd

`FrontEndCommands` writes every command of the console and of the web front end as a script of
questions, tests, statements on the meta database, jobs, streams and answers. `FrontEnd` gives the
steps their effect and adds what goes on beside the sessions.

State: the sessions with their counters (`checkServerBusy` reads and later increments), the tables
`graph`, `partition` and `worker_has_partition`, whether the workers hold a graph's data
(`uploaded`), jobs, queue, responses, the scheduler's mutex and records, Kafka and knowledge-graph
streams with their flags and maps, the streaming-triangle thread, and the phase of a start of the
master. `disturbed` and `works` are history: which graphs two commands worked on at once or one
left half done.

Actions beside the scripts: `accept`, `dispatch`, `client_leaves`; `top` and `pop` of the queue,
`decide` of the scheduler, `execute` of an executor (record, calibration, answer or none),
`removeProcessInfoById`; the steps of stream threads; `crash`, and the deaths the code can cause
itself (an uncaught `stoi`, a write to a departed client, a container two threads change at once,
reading past an empty list of files); `updateOperationalGraphList`, `start_workers`,
`assignPartitionsToWorkers`, `resolveOperationalGraphs`, `deleteNON_OPERATIONALGraphFragment` of the
next start. A start is not atomic: the rows of `worker` are deleted and inserted again, host after
host, then those of `worker_has_partition`, and a kill may fall between any two of these steps;
`cut` remembers that one did. The partitions are dealt out anew by every start, whichever worker
holds the data; the tables count rows, and so does the model.

Data races are choices: of two overlapping pushes a job is lost or the master dies. Load averages,
SLA numbers and what workers answer are choices too. Executors number their records with a counter
each, so that two classes can use the same number and erase each other's record; the master is
taken to run as the user for whom `AgentPlanExecutor` removes none. A job dispatched twice after a
raced `pop` counts once. The Kubernetes profile, in which a start does not touch the tables, is
not modelled.

### 3.9 EdgePartitioner, FileStreams

`EdgePartitioner` is `HDFSMultiThreadedHashPartitioner`: per partition an array, a flag, a consumer
thread and its current file, once for local edges and once for edge cuts. The two kinds of consumer
share their actions and differ where the code does: one of local edges takes the whole array and
works without the lock (`take`), one of edge cuts works under it (`Held`) and looks at
`terminateConsumers` before it waits (`test`). `stopConsumerThreads` is three steps (`terminate`,
`notify_all`, `Joined`), none of them under a consumer's mutex. `sendFileChunkToWorker` stores the
file, fails, or never returns; its result is not looked at. Of an edge only its kind and
partition are kept, and of the counts which edges they include.

`FileStreams` puts it behind its two users. `plan`, chosen by `Init`, says which one, what the
pieces of the file come to, which of the partitioner's consumers are followed, and what may fail. A
consumer that is not followed gets no edge in that plan. The reader (`read_open` to `read_close`) fills
`dataBuffer`; in `HDFSStreamHandler` the threads `process` take lines, in `Pipeline` the threads
`extractTuples` take texts, send them to a worker and put the edges that come back into a
`SharedBuffer`, used through its contract, from which `tuple_get` and `tuple_add` take them.
`Order` is the order in which the thread that started the others joins them, the thread for meta
data included, stops the partitioner and reports. A plan may have no extracting thread at all
(`chunksPerBatch` is 0 when no runner is named): the pipeline then reports an empty graph, and waits
for its reader for ever if the file does not fit into the buffer. Waiting under a mutex that the notifier also takes is a guard; where the
notifier does not take it (a file that does not open, `stopConsumerThreads`) the gap between test
and sleep is a state of its own. `front()` of an empty queue is `"undefined"`. How a text is cut
into overlapping pieces, which partition an edge is given, and the worker's idle time limit of
300 seconds are not modelled.

## 4. Runs

| Run | Instance | What it shows |
|---|---|---|
| `native_store` | 2 vertices, 2 local and 1 central relation, 2 crashes, 1 truncation | lists run newest first, are doubly linked, keep committed edges and only grow at the head (refinement of `AdjacencyLists`); an edge is half linked only through a crash; a key whose record was not damaged leads to its block |
| `shared_buffer` | 2 producers, a getter, a poller, a timed getter, clears, capacity 2 | a bounded queue (refinement of `BoundedQueue`), no row lost or doubled when removals, time-outs and clears race, everything leaves |
| `cypher_query` | 2 partitions, up to 3 and 2 rows, heap of 1, buffers of 1, one broken connection, failing run files, a leaving client | ascending replies are sorted, every query is answered, no row is in two places, partitions that held out are complete, cut-off workers finish |
| `cypher_query_descending` (violation) | one small table set | a descending query is not answered in descending order |
| `kafka_streams` | 1 graph, 1 topic, 2 sessions, 3 streams | no entry outlives its stream, the registry is exact until the first stop, stopped consumers end unless a worker never answers them |
| `kafka_streams_managed` (violation) | 1 session, 3 streams | a running stream loses its registry entry to the consumer stopped before it |
| `stream_ingest` | 2 partitions on 2 workers, 2 edges, 2 streams, which may overlap | nothing lost or reordered on a worker, no sleep over work, stores quiet after `"-1"`, acknowledged edges are stored unless mixed publications end the worker |
| `property_chain` | 2 nodes, 3 names, 2 values, 4 links | chains stay acyclic, written and disjoint, through crashes and self loops; a property once readable stays so; the meta property always has the last value |
| `worker_protocol` | every client function, 1 failure | without failures both ends agree on every text (but for functions that do not wait for answers); the ends never wait for each other; success means the work was done, or tried where the worker does not look at its outcome, whatever was lost; conversations end, also after a loss, and free the worker |
| `file_streams` | 9 plans: 1 to 3 pieces, 0 to 2 threads, 1 or 2 partitions, files of 2 edges, buffers of 1 to 3 pieces, every failure, a stop | an edge is never in two places and always in one until something fails or ends; the partitioner gets all of a file; its workers get all it got, if its consumers were at rest when told to end; the threads end unless a named failure blocks them |
| `front_end` | 2 clients, 16 plans over all commands, 3 graphs, up to 3 kills | an operational graph has its data and counts, rows go together, a restart keeps uploads, each unless commands overlapped or were cut off; a stop reaches the stream it stops; jobs are answered, sessions of departed web clients end, the mutex comes back |
| `front_end_status` (violation) | one upload | a graph is operational although no file of it reached a worker |

Bounds. Two relations of one kind let a node's list be extended and its old head relinked on either
side, self loops included (the vertices are interchangeable, and the run uses that symmetry), and the central one shows that the two kinds do not disturb each other; a
second crash lets a store be reopened over what an earlier reopening left. Two producers fill a
buffer of two rows and sleep on it together with three readers of different kinds; larger numbers
are the matter of the proof of section 5. A heap of one row forces several run
files and their merge; three streams allow one to be stopped, one to be started in its place
and a third to follow. Four links and three names are the least with which a reference moved
past a name makes `insert` append that name again. Two streams are enough to overlap, and two
partitions on two workers to have one connection broken and one not; with three partitions, two of
them on one worker, `StreamIngest` has 3.3 million states and holds too, in a time too long to
repeat. `WorkerSession` runs every client function
against its handler with one failure at any point, its loops over data entered once
(`Rounds = 1`): a second failure meets a connection that is gone. `FrontEnd` has two sessions and a
graph uploaded before; `MCFrontEnd` lists the pairs of commands that write the same state, and two
plans that run through all others; three kills let two starts in a row be cut off and a third
repair what they left. `MAX_FE_SESSIONS = 1` puts the session count at its limit; two
console sessions still overlap because the count is read before it is incremented. In `FileStreams` three lines meet a buffer of
two and a file of two edges, so that the buffer is full and the last file is a shorter one; two
threads are enough for one to leave before the other. Partitions share only the flag and the call
that end their consumers, so one plan follows two of them. Three graphs
are one old, one per session; each session has at most one Kafka stream, one
knowledge-graph stream and one job. Every bound (`MaxRelations`, `MaxCrashes`,
`MaxTruncations`, `Rows`, `MaxDisconnects`, `MaxStreams`, `MaxEdges`, `MaxLinks`, `Rounds`,
`MaxFaults`, `MaxGraph`) is a constant used in a guard.

Symmetry is used in `PropertyChain` only, between nodes, for safety properties. The same run fixes
by a constraint which value a link is written with, 1 if it is the node's first of its name and 2 if
not: values are copied and no step depends on them, so other values give the same behaviours with
the values renamed, and these two are told apart wherever a wrong link is read.

Deadlock is checked except where the system really stops: when all rows have been added and
taken (`SharedBuffer`), when a query is answered (`CypherQuery`), when the bounded number of
streams is used up (`KafkaStreams`, `StreamIngest`), when a conversation is over
(`WorkerSession`), when a file has been read (`FileStreams`), when the clients have no more commands
(`FrontEnd`).

Fairness. `SharedBuffer`: a thread that can obtain the mutex obtains it (weak fairness per
thread); nothing is assumed of the clock, of `clear` or of spurious wake-ups. `CypherQuery`:
each operator chain, handler, receiver and the master, being threads, keep running; failures are
not fair. `KafkaStreams`: a consumer polls with a time limit, looks at its flag
again and finishes what it began, unless a worker leaves it blocked; commands, Kafka and workers owe
nothing. `StreamIngest`: partition threads run; the master and the sessions
may stop at any point. `WorkerSession`: both processes run while they live, and a file that was sent
arrives unless it is cut off. `FrontEnd`: a session that does not wait for its client, an executor
and the scheduler go on; a stream ends when it was told to; clients, crashes and streams that were
not told owe nothing. `FileStreams`: as long as some thread can run, one does (weak fairness of
all their steps together is enough, as no thread can run for ever); failures, a stop and spurious
wake-ups owe nothing. The one strong fairness is for the loops over data of the web front end,
which run through finite lists. Console sessions get no such promise: after their client has left
they loop for ever, as the code does.

## 5. Proofs

The proofs hold for every value of the constants, under the assumptions named in the modules
(`KeyAssumption`, `BoundAssumption`, `ChainAssumption`, `BufferAssumption`, `QueryAssumption`,
`StreamAssumption`, `IngestAssumption`), which say that bounds are natural numbers, capacities
positive, tables finite, the set of vertex ids finite, and that null values are not members of the
sets they are added to.

`Induction` holds what the other proofs need about natural numbers. The prover cannot instantiate
an induction principle for a predicate, so induction is stated for sets: a set of numbers that has
0 and with each number its successor has them all (`SetInduction`), a nonempty one has a least
element, a bounded one a greatest. A fact about a recursive function is proved by collecting the
numbers for which it holds in a set. `Pigeonhole` is such a fact: `n` different numbers among the
first `n` are all of them.

`NativeStoreProofs`. The inductive invariant `StoreInv` adds to the list properties how far the
running insertion has got: that the copies of the two node blocks still agree with the file
(`Held`) until their list is changed, that the old head already points back (`PreviousSet`), that
node and relation numbers grow. Without the agreement of the copies the new head could be linked to
an outdated one. The self loop is the one case where a copy is outdated: the destination's copy
misses the head just written, and `DestinationLinking` states why that is harmless. `IndexInv`
relates the index in memory to what the file would be read back as. Proved: types,
`ListsHoldOwnRelations`, `NewestFirst`, `BackLinks`, `CommittedEdgesStay`, `BlocksKeepTheirVertex`,
`IndexFindsUndamaged`. `HalfLinkedEdgesNeedACrash` counts: `AbandonedInv` says that the half linked
relations which nothing is going to complete are at most as many as the crashes, since only a crash
makes the relation in flight one of them. `ListsImplementAdjacency` is the refinement of
`AdjacencyLists`: the mapping reads a list by walking it (`EdgeWalk`), newest first makes the walk
end (relation numbers fall, so the steps of the walk are bounded by the first number), and each
action either leaves what is read of every list as it is or puts the new relation at the head of
one. `ListsHoldOwnRelations`, `BlocksKeepTheirVertex` and `IndexBound` (one index record per vertex
between two truncations) are only proved, as are the order of a producer's rows and the types below.

`PropertyChainProofs`. A link only leads to a later block (`Ascending`), so that a walk over a chain
ends within the file; that is what makes the recursive `Walk` tractable. `ChainInv` adds that chains
share no block, that an object of `NodeBlock` refers into the chain of its own node or, where it
knows none, that the node has none or is the end of a self loop to which nothing is owed yet
(`ObjectsInv`), and what a
link written but not yet reachable may be (`PendingInv`); and it says that what is owed is read
(`ReadInv`). Linking a block to the end of a chain takes nothing away from those before it; the only
step that could is `SetHead`, which puts a new chain in place of the one on disk, and `ObjectsInv`
says that then there is none or nothing is owed. Proved: `ChainsSound`, `PropertiesStay`,
`LastWriteWins`.

`SharedBufferProofs`. `RowInv` (types, conservation, order) is inductive; `StepKinds` reduces all
operations to putting, taking, clearing and changes of thread states. Proved: `TypeOK`,
`RowsConserved`, `ProducerOrder`, the refinement of `BoundedQueue`, and
`FewProducersStayAwake`: with one getter and fewer than `2 * max_size` producers the threads are
never all asleep over work (`NotAllAsleep`, which only the proof establishes). The argument counts sleeping producers against rows
(`FewSleep`, `WakeUpsPassedOn`). From `2 * max_size` producers on, a chain of wake-ups from producer
to producer can fill the buffer while the getter sleeps. Most operators have
one or two producers per buffer; `CartesianProduct` (`OperatorExecutor.cpp:1302`) has one thread per
partition on a buffer of five rows, so the theorem covers it up to nine partitions.

`CypherQueryProofs`. `CypherInv` has a part for each partition and one for the master. Of a partition
it says where the close flag is: it is the last thing in every buffer, everything before it in the
pipeline is empty behind it, and as long as the connection holds nothing follows it (`StreamInv`);
how far its sort is (`SortInv`); and, for an ascending query, that what is nearer to the master
precedes what is farther away, from the run files to the master's buffer (`OrderAt`). Of the master
it says that each close flag counted is that of another partition, which is where `Pigeonhole` is
needed (`execute` counts the flags and compares with the number of partitions, so it must not stop
before the last), that the merge queue holds one row of each partition that may still send any, and
that this row is the least of them (`MasterInv`, `MergeInv`). Proved: `RowsConserved`,
`AnswerComplete`, and `ReplyInOrder` for every query that is not descending. Descending ones are
excepted because there it is false (section 6).

`KafkaStreamsProofs`. `RegistryInv` adds to the two registry properties that entries are of
existing streams of their graph, that a stream being added has no consumer and one command, and
that past its signal a stop command has marked its graph. Proved: types, `NoDeadEntries`,
`ExactUntilStopped`.

`StreamIngestProofs`. `IngestInv` adds that a thread has an edge in hand only while storing it,
that a worker that answered `"-1"` has no thread which could store, and that while `"-1"` is handled
the flag is set and the stream it came from waits for the answer. It holds however many streams
overlap and whatever their publications do to each other. Proved: types, `Conserved`, `NoSleepOverWork`, `NothingStoredAfterEnd`.

Only model-checked: all liveness properties (`EverythingLeaves`, `Answered`,
`CutOffWorkersFinish`, `StoppedConsumersEnd`, `EdgesStored`, `SessionsEnd`, `LossesEndBoth`,
`JobsAnswered`, `DepartedUISessionsEnd`, `MutexComesBack`, `EndsUnlessBlocked`), which need
fairness; `FileStreams`, whose conservation law counts copies over sequences; and `WorkerSession`
and `FrontEnd`, whose safety depends on the fixed scripts of each command, which the prover would
have to step through one by one: for them the run over all scripts is the whole statement, apart
from the bounds.

## 6. Findings

- `cypher_query_descending`: the flipped comparator of `OrderBy` and the master's merge do not
  produce a descending reply.
- `kafka_streams_managed`: the registry is keyed by graph, and both the stop command and the stopped
  consumer unregister; the second call removes the entry of the stream started in between.
- `front_end_status`: `uploadGraphLocally` sets the status without looking at what the threads that
  sent the partitions returned, so `OPERATIONAL` does not mean what `Conts.h` says of it.

The exceptions that properties carry say where a promise does not hold. `InStep` excepts the
functions in `Hasty`, which send again before an answer has come; `SessionsEnd` those that keep
their socket (`Keeping`) or can wait for a text that never comes (`Stranding`); `LossesEndBoth`
those that read on from a dead connection (`Stubborn`). TLC shows a counterexample for each when it
is taken out of its set. `UploadedUnlessHarmed` and `RowsGoTogether` except graphs on which two
commands worked at once: nothing in the front end excludes that. `JobsAnswered` excepts jobs whose
executor returns without an answer and jobs lost to a raced pop. `DepartedUISessionsEnd` excepts a
query of the web front end one of whose receivers gave up without a `"-1"`: the loops that count
them never end (`Hanging`). `RestartKeepsUploads` excepts a start after one that was killed between
deleting the rows of workers and partitions and inserting them: it finds no partition at a worker
and marks every graph `NON_OPERATIONAL`, until the next start repairs that. `SuccessMeansDone` says
of a deletion, a catalog record and a chunk only that the worker tried, since it answers without a
look at how they went.

`AllSentAtRest` excepts consumers that are not at rest when `stopConsumerThreads` is called, and
nothing in either caller waits for that: one of edge cuts then drops its array, or its last file,
and one of local edges what was added since it took its array. `HDFSStreamHandler` moreover
reads the counts and sets the status before its consumers have ended: a graph from HDFS is
operational while its last files are still to be sent, which is the exception (`Flushing`) of
`UploadedUnlessHarmed`. It may also lose a last line that has no end of line. `EndsUnlessBlocked` names the failures that leave a thread waiting for ever; TLC
shows a counterexample when any one of them is left out. A truncating open of the native store
keeps the index file, so that the next one in append mode finds keys without blocks; these are the
damaged keys of `IndexFindsUndamaged`.

The model also shows two places where `PropertyLink::insert` and its comment differ: a name that
exists is not updated (a TODO says so), and the address of the former tail is returned, not that of
the appended link. The next insertion therefore starts at that tail, and a name in front of it is
appended once more; `PropertiesStay` shows that no property gets lost by this. A self loop on a new
vertex may lose one: the object of the second end was loaded before the first created the chain, and
starts another in its place.

## 7. Not modelled

`PROJECT.json` gives the reason for each component marked `not_modelled` and the limits of each
marked `partly`. In short: pure translation over strings (the Cypher front end, parsers); wrappers of
external libraries and services (SQLite, Kubernetes, Kafka, Faiss, Python trainers, language models,
telemetry); sequential file transformations (local partitioning, hash-map stores); numbers computed
from floating point or load (page rank, Fennel, search scores, the choice of workers by load); the
query operators other than the sort.

Inside the modelled parts: failing writes of block files; a file that cannot be unzipped; in
`StreamIngest` connections that break by themselves and the `CLOSE` that `DataPublisher` sends when
it is built (both are in `WorkerSession`), and a Cypher query that replaces the session's
`DataPublisher` objects while a stream uses them; messages split over several reads; races inside a
shared `std::map` other than those `FrontEnd` names, among them the maps of
`InstanceStreamHandler`; static members of `Operator` that concurrent queries overwrite; the lifetime of objects used by detached threads; two
`NodeManager` objects over the same files; the Kubernetes
profile.
