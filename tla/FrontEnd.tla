------------------------------ MODULE FrontEnd ------------------------------
(***************************************************************************)
(* The master as its clients see it: the sessions of the console and of the *)
(* web front end with the commands of FrontEndCommands, the rows of the     *)
(* meta database those commands write one statement after the other, the    *)
(* job scheduler and its executors, the threads that streams leave behind,  *)
(* clients that leave, and a master that dies and starts again.             *)
(***************************************************************************)
EXTENDS FrontEndCommands, FiniteSets

CONSTANTS
    Session,
    Plans,           \* what clients do: [client, todo, crashes], the front end
                     \* of each, "console" or "ui", and whether it may leave
                     \* without a word; its commands; and how often the master
                     \* is killed from outside
    MAX_FE_SESSIONS,
    MaxGraph,        \* graphs are 1 .. MaxGraph
    Asked,           \* the graphs clients ask for
    nparts           \* org.jasminegraph.server.npartitions

GraphId == 1 .. MaxGraph
Nobody == "nobody"

ASSUME FrontEndBounds ==
    /\ \A plan \in Plans :
         /\ plan.client \in [Session -> [kind : {"console", "ui"}, leaves : BOOLEAN]]
         /\ plan.crashes \in Nat
    /\ Asked \subseteq GraphId
    /\ MAX_FE_SESSIONS \in Nat /\ nparts \in Nat \ {0}
    /\ Nobody \notin Session

VARIABLES
    master, crashes, client,
    workers, cut,        \* the rows of worker there are, and whether a start was killed
                         \* between the deletion of its rows and their insertion
    resolving, doomed,   \* resolveOperationalGraphs, and what it found without a row
    conn, here, slots, todo, cmd, pc, ans, gid, quit,
    batch, seen,
    graph, parts, hosts, \* the tables graph, partition, worker_has_partition
    uploaded,            \* the workers hold all of a graph's data
    works,               \* who is adding or removing a graph
    disturbed,           \* graphs that two did at once, or that one left half done
    streamed,            \* graphs whose data did not come by an upload
    job, queue, popping, raced,
    phase, loaded,       \* the scheduler rejects only under load
    schedulerMutex, uid, records, closing,
    kafka, joinable, registry,
    kg, flag, stopFlags, threadMapMutex, doubled,
    strian_exit, helper

life == <<master, crashes, resolving, doomed, client, workers, cut>>
session == <<conn, here, slots, todo, cmd, quit>>
line == <<ans, gid>>
own == <<batch, seen>>
table == <<graph, parts, hosts>>
data == <<uploaded, works, disturbed, streamed>>
executors == <<schedulerMutex, uid, records, closing>>
scheduler == <<job, queue, popping, raced, phase, loaded, executors>>
streams == <<kafka, joinable, registry>>
kgs == <<kg, flag, stopFlags, threadMapMutex, doubled>>
strian == <<strian_exit, helper>>
vars == <<life, session, pc, line, own, table, data, scheduler, streams, kgs, strian>>

Each(x) == [s \in Session |-> x]
Every(x) == [g \in GraphId |-> x]
NoGraph == [status |-> "none", path |-> "", ended |-> FALSE, counted |-> FALSE]
Row(status, path) == [status |-> status, path |-> path, ended |-> FALSE, counted |-> FALSE]
NoJob == [type |-> "", st |-> "none", high |-> FALSE, id |-> 0]
Numbered == {"TRIANGLES", "PAGE_RANK", "CYPHER", "SEMANTIC_BEAM_SEARCH"}
NoStream == [g |-> 0, st |-> "none", told |-> FALSE]
NoThread == [g |-> 0, st |-> "none", local |-> FALSE]

\* One graph has been uploaded before.
Init ==
    /\ \E plan \in Plans : client = plan.client /\ todo = plan.todo /\ crashes = plan.crashes
    /\ master = "up" /\ resolving = FALSE /\ doomed = {} /\ workers = "all" /\ cut = FALSE
    /\ conn = [s \in Session |-> IF todo[s] = <<>> THEN "out" ELSE "new"]
    /\ here = Each(TRUE) /\ slots = [k \in {"console", "ui"} |-> 0]
    /\ cmd = Each("") /\ pc = Each(1) /\ ans = Each("") /\ gid = Each(0) /\ quit = Each(FALSE)
    /\ batch = Each({}) /\ seen = Each(FALSE)
    /\ graph = [Every(NoGraph) EXCEPT
                  ![1] = [status |-> "OPERATIONAL", path |-> "old", ended |-> TRUE, counted |-> TRUE]]
    /\ parts = [Every(0) EXCEPT ![1] = nparts] /\ hosts = parts
    /\ uploaded = [Every(FALSE) EXCEPT ![1] = TRUE]
    /\ works = Every({}) /\ disturbed = {} /\ streamed = {}
    /\ job = Each(NoJob) /\ queue = {} /\ popping = Nobody /\ raced = FALSE /\ phase = "drain"
    /\ loaded = FALSE /\ schedulerMutex = Nobody /\ uid = [t \in Numbered |-> 0]
    /\ records = {} /\ closing = {}
    /\ kafka = Each(NoStream) /\ joinable = Each(FALSE) /\ registry = Every(Nobody)
    /\ kg = Each(NoThread) /\ flag = Each(FALSE) /\ stopFlags = Every(Nobody)
    /\ threadMapMutex = Nobody /\ doubled = {}
    /\ strian_exit = FALSE /\ helper = Each(FALSE)

---------------------------------------------------------------------------
\* Sessions.

kind(s) == client[s].kind
Script(s) ==
    IF cmd[s] = "" THEN <<>>
    ELSE IF kind(s) = "console" THEN Console[cmd[s]] ELSE UI[cmd[s]]
Now(s) == IF cmd[s] = "" THEN {} ELSE
          LET script == Script(s) IN IF pc[s] <= Len(script) THEN {script[pc[s]]} ELSE {}
Up == master = "up"
\* Where a session goes on at n, its last answer being a: comparing answers,
\* jumping and returning are no steps of their own.
Landing(script, n, a) ==
    LET at[k \in 1 .. Len(script) + 1] ==
          IF k > Len(script) THEN k
          ELSE CASE script[k].op = "goto" -> at[k + script[k].n]
                 [] script[k].op = "was" -> at[k + (IF script[k].m = a THEN 1 ELSE script[k].n)]
                 [] script[k].op = "return" -> Len(script) + 1
                 [] OTHER -> k
    IN at[n]
GoWith(s, n, a) == pc' = [pc EXCEPT ![s] = Landing(Script(s), @ + n, a)]
Go(s, n) == GoWith(s, n, ans[s])

\* checkServerBusy looks at the counter and then increments it.
accept(s) ==
    /\ conn[s] = "new"
    /\ conn' = [conn EXCEPT ![s] = IF slots[kind(s)] >= MAX_FE_SESSIONS THEN "busy" ELSE "checked"]
    /\ UNCHANGED <<life, here, slots, todo, cmd, quit, pc, line, own, table, data, scheduler,
                   streams, kgs, strian>>
checkServerBusy(s) ==
    /\ conn[s] = "checked"
    /\ conn' = [conn EXCEPT ![s] = "in"]
    /\ slots' = [slots EXCEPT ![kind(s)] = @ + 1]
    /\ UNCHANGED <<life, here, todo, cmd, quit, pc, line, own, table, data, scheduler,
                   streams, kgs, strian>>

Idle(s) == conn[s] = "in" /\ cmd[s] = ""

dispatch(s) ==
    /\ Idle(s) /\ ~quit[s] /\ here[s] /\ todo[s] # <<>>
    /\ cmd' = [cmd EXCEPT ![s] = Head(todo[s])]
    /\ todo' = [todo EXCEPT ![s] = Tail(@)]
    /\ pc' = [pc EXCEPT ![s] = 1] \* no script begins with a jump
    /\ UNCHANGED <<life, conn, here, slots, quit, line, own, table, data, scheduler, streams,
                   kgs, strian>>

\* Mutant: the web front end goes on reading as the console does.
Leaves_never(s) == quit[s] \/ (here[s] /\ todo[s] = <<>>)
\* The console leaves its loop for EXIT or loop_exit and joins the thread of
\* its stream; a client that left makes it read nothing for ever.  The web
\* front end leaves its loop when it reads nothing as well, and joins nothing.
Leaves(s) == quit[s] \/ (here[s] /\ todo[s] = <<>>) \/ (~here[s] /\ kind(s) = "ui")
frontendservicesesion(s) ==
    /\ Idle(s) /\ Leaves(s)
    /\ kind(s) = "console" => kafka[s].st = "none"
    /\ conn' = [conn EXCEPT ![s] = "out"]
    /\ slots' = [slots EXCEPT ![kind(s)] = @ - 1]
    /\ joinable' = [joinable EXCEPT ![s] = FALSE]
    /\ UNCHANGED <<life, here, todo, cmd, quit, pc, line, own, table, data, scheduler, kafka,
                   registry, kgs, strian>>

\* A handler returns to the loop.
finish(s) ==
    /\ cmd[s] # "" /\ Now(s) = {}
    /\ cmd' = [cmd EXCEPT ![s] = ""] /\ pc' = [pc EXCEPT ![s] = 1]
    /\ ans' = [ans EXCEPT ![s] = ""] /\ gid' = [gid EXCEPT ![s] = 0]
    /\ batch' = [batch EXCEPT ![s] = {}] /\ seen' = [seen EXCEPT ![s] = FALSE]
    /\ job' = [job EXCEPT ![s] = NoJob]
    /\ UNCHANGED <<life, conn, here, slots, todo, quit, table, data, queue, popping, raced,
                   phase, loaded, executors, streams, kgs, strian>>

client_leaves(s) ==
    /\ client[s].leaves /\ here[s] /\ conn[s] = "in"
    /\ here' = [here EXCEPT ![s] = FALSE]
    /\ UNCHANGED <<life, conn, slots, todo, cmd, quit, pc, line, own, table, data, scheduler,
                   streams, kgs, strian>>

---------------------------------------------------------------------------
\* Talking to the client.  A write to a client that is gone is taken by the
\* kernel, or fails, or raises SIGPIPE, which ends the master (Fatal).

world == <<life, conn, slots, todo, cmd, own, table, data, scheduler, streams, kgs, strian>>
ToEnd(s) == pc' = [pc EXCEPT ![s] = Len(Script(s)) + 1]

Writes(i) == i.op \in {"send", "sendback", "try", "row", "ask", "askraw", "askback"}
Said(s, i) ==
    /\ i.op \in {"send", "sendback", "try", "row"}
    /\ Go(s, 1) /\ UNCHANGED <<quit, here, line, world>>
\* loop_exit and return, but for the first write of the local construction
\* and the rows of an ordered answer, which only return.
WriteFails(s, i) ==
    /\ i.op \in {"send", "sendback", "ask", "askback"} /\ ~here[s]
    /\ ToEnd(s)
    /\ quit' = [quit EXCEPT ![s] = @ \/ i.op \notin {"sendback", "askback"}]
    /\ UNCHANGED <<here, line, world>>

\* What a line can be for the command that reads it, and what nothing is.
Answers ==
    [graph |-> {"id"}, flags |-> {"flags", "other"}, upload |-> {"file", "missing", "format"},
     yn |-> {"y", "n"}, number |-> {"number", "bad"}, type |-> {"number", "bad"},
     priority |-> {"high", "low", "bad"}, text |-> {"text"}]
Blank ==
    [graph |-> "", flags |-> "other", upload |-> "format", yn |-> "n", number |-> "bad",
     type |-> "bad", priority |-> "low", text |-> ""]

Answered(s, i) ==
    /\ i.op \in {"ask", "askraw", "askback", "given"}
    /\ \/ /\ here[s]
          /\ \E a \in Answers[i.m], g \in IF i.m \in {"graph", "flags"} THEN Asked ELSE {gid[s]} :
               ans' = [ans EXCEPT ![s] = a] /\ gid' = [gid EXCEPT ![s] = g] /\ GoWith(s, 1, a)
       \/ /\ ~here[s] \/ i.m = "graph"
          /\ ans' = [ans EXCEPT ![s] = Blank[i.m]]
          /\ gid' = [gid EXCEPT ![s] = IF i.m = "graph" THEN 0 ELSE @]
          /\ GoWith(s, 1, Blank[i.m])
    /\ UNCHANGED <<quit, here, world>>

\* Control.
Control(s, i) ==
    /\ \/ i.op \in {"either", "fork"} /\ (Go(s, 1) \/ Go(s, i.n)) /\ UNCHANGED <<quit, own, gid>>
       \/ i.op = "exit" /\ Go(s, 1) /\ quit' = [quit EXCEPT ![s] = TRUE] /\ UNCHANGED <<own, gid>>
       \/ /\ i.op = "each" /\ batch[s] = {}
          /\ Go(s, i.n) /\ UNCHANGED <<quit, own, gid>>
       \/ /\ i.op = "each" /\ batch[s] # {}
          /\ \E g \in batch[s] :
               /\ \A f \in batch[s] : g <= f
               /\ gid' = [gid EXCEPT ![s] = g]
               /\ batch' = [batch EXCEPT ![s] = @ \ {g}]
          /\ Go(s, 1) /\ UNCHANGED <<quit, seen>>
       \/ i.op = "strian" /\ strian_exit /\ Go(s, i.n) /\ UNCHANGED <<quit, own, gid>>
       \/ i.op = "strian" /\ ~strian_exit /\ job[s].st # "none" /\ Go(s, 1) /\ UNCHANGED <<quit, own, gid>>
    /\ UNCHANGED <<ans, here, life, conn, slots, todo, cmd, table, data, scheduler, streams, kgs, strian>>

---------------------------------------------------------------------------
\* Conditions on the meta database.

Exists(g) == g \in GraphId /\ graph[g].status # "none"
WithPath(path) == {g \in GraphId : graph[g].status # "none" /\ graph[g].path = path}
graphExists == \E g \in WithPath("file") : graph[g].status = "OPERATIONAL"
isGraphActive(g) == Exists(g) /\ graph[g].status = "OPERATIONAL"

Holds(s, t) ==
    CASE t = "graphExists" -> graphExists
      [] t \in {"graphExistsByID", "isGraphIdExist"} -> Exists(gid[s])
      [] t = "isGraphActive" -> isGraphActive(gid[s])
      [] t = "modelExists" -> FALSE \* no model ever becomes operational
      [] t = "hosted" -> hosts[gid[s]] > 0
      [] t = "kgPath" -> WithPath("kg") # {}
      [] t = "registered" -> registry[gid[s]] # Nobody
      [] t = "anyStream" -> \E g \in GraphId : registry[g] # Nobody
      [] t = "threadMap" -> stopFlags[gid[s]] # Nobody
      [] t = "error" -> ans[s] = "error"

Tested(s, i) ==
    /\ i.op = "test" /\ i.m \notin {"registerStream", "signalStreamStop"}
    /\ Go(s, IF Holds(s, i.m) THEN 1 ELSE i.n)
    /\ UNCHANGED <<quit, here, line, world>>

---------------------------------------------------------------------------
\* Adding and removing graphs: one step for each statement.

Doing(i, e) == i.op = "do" /\ i.m = e
Token(s, what) == <<s, what>>
Begin(g, token) ==
    /\ works' = [works EXCEPT ![g] = @ \union {token}]
    /\ disturbed' = IF works[g] \ {token} = {} THEN disturbed ELSE disturbed \union {g}
End(g, token) == works' = [works EXCEPT ![g] = @ \ {token}]
Write(g, row) == graph' = [graph EXCEPT ![g] = IF @.status = "none" THEN @ ELSE row]
beside == <<life, session, ans, scheduler, streams, kgs, strian>>

NextId == 1 + (CHOOSE n \in 0 .. MaxGraph :
                 /\ n = 0 \/ graph[n].status # "none"
                 /\ \A g \in GraphId : graph[g].status # "none" => g <= n)

Inserted ==
    [insert |-> Row("LOADING", "file"), insert_idle |-> Row("NON_OPERATIONAL", "hdfs"),
     insert_running |-> Row("NON_OPERATIONAL", "kg")]
runInsert(s, i) ==
    /\ i.op = "do" /\ i.m \in DOMAIN Inserted
    /\ NextId \in GraphId
    /\ LET g == NextId IN
       /\ graph' = [graph EXCEPT ![g] = Inserted[i.m]]
       /\ gid' = [gid EXCEPT ![s] = g]
       /\ uploaded' = [uploaded EXCEPT ![g] = FALSE]
       /\ works' = [works EXCEPT ![g] = @ \union {Token(s, "add")}]
       /\ disturbed' = IF works[g] = {} /\ parts[g] = 0 /\ hosts[g] = 0
                       THEN disturbed \ {g} ELSE disturbed \union {g}
       /\ streamed' = IF i.m = "insert" THEN streamed \ {g} ELSE streamed \union {g}
    /\ Go(s, 1) /\ UNCHANGED <<parts, hosts, own, beside>>

\* A statement for each partition.
populatePartMaps(s, i) ==
    LET g == gid[s] IN
    /\ Doing(i, "partition")
    /\ parts' = [parts EXCEPT ![g] = IF @ < nparts THEN @ + 1 ELSE @]
    /\ Go(s, IF parts'[g] < nparts THEN 0 ELSE 1)
    /\ UNCHANGED <<graph, hosts, data, gid, own, beside>>
\* Mutant: the last partition is left out.
assignPartitionToWorker_short(s, i) ==
    LET g == gid[s] IN
    /\ Doing(i, "assign")
    /\ hosts' = [hosts EXCEPT ![g] = IF @ < nparts - 1 THEN @ + 1 ELSE @]
    /\ Go(s, IF hosts'[g] < nparts - 1 THEN 0 ELSE 1)
    /\ UNCHANGED <<graph, parts, data, gid, own, beside>>
assignPartitionToWorker(s, i) ==
    LET g == gid[s] IN
    /\ Doing(i, "assign")
    /\ hosts' = [hosts EXCEPT ![g] = IF @ < nparts THEN @ + 1 ELSE @]
    /\ Go(s, IF hosts'[g] < nparts THEN 0 ELSE 1)
    /\ UNCHANGED <<graph, parts, data, gid, own, beside>>

\* Nobody looks at what the threads of the transfers return.
batchUpload(s, i) ==
    LET g == gid[s] IN
    /\ Doing(i, "transfer")
    /\ \/ uploaded' = [uploaded EXCEPT ![g] = TRUE] /\ UNCHANGED disturbed
       \/ disturbed' = disturbed \union {g} /\ UNCHANGED uploaded
    /\ Go(s, 1) /\ UNCHANGED <<table, works, streamed, gid, own, beside>>

Updated(row) ==
    [counts |-> [row EXCEPT !.counted = TRUE],
     updateMetaDB |-> [row EXCEPT !.status = "OPERATIONAL", !.ended = TRUE],
     stream_operational |-> [row EXCEPT !.status = "OPERATIONAL", !.counted = TRUE],
     end_time |-> [row EXCEPT !.ended = TRUE], deleting |-> [row EXCEPT !.status = "DELETING"]]
runUpdate(s, i) ==
    LET g == gid[s] IN
    /\ i.op = "do" /\ i.m \in {"counts", "updateMetaDB", "stream_operational", "end_time", "deleting"}
    /\ Write(g, Updated(graph[g])[i.m])
    /\ IF i.m \in {"updateMetaDB", "end_time"} THEN End(g, Token(s, "add")) ELSE UNCHANGED works
    /\ Go(s, 1) /\ UNCHANGED <<parts, hosts, uploaded, disturbed, streamed, gid, own, beside>>

\* removeGraph deletes at the workers that held a partition when it looked,
\* and does not learn whether they did.
hostHasPartition(s, i) ==
    LET g == gid[s] IN
    /\ Doing(i, "hosts")
    /\ seen' = [seen EXCEPT ![s] = hosts[g] > 0]
    /\ Begin(g, Token(s, "remove"))
    /\ Go(s, 1) /\ UNCHANGED <<table, uploaded, streamed, batch, gid, beside>>
removePartitionThroughService(s, i) ==
    LET g == gid[s] IN
    /\ Doing(i, "wipe")
    /\ uploaded' \in IF seen[s] THEN {uploaded, [uploaded EXCEPT ![g] = FALSE]} ELSE {uploaded}
    /\ Go(s, 1) /\ UNCHANGED <<table, works, disturbed, streamed, gid, own, beside>>
deleteRows(s, i) ==
    LET g == gid[s] IN
    /\ \/ Doing(i, "drop_hosts") /\ hosts' = [hosts EXCEPT ![g] = 0] /\ UNCHANGED <<graph, parts, works>>
       \/ Doing(i, "drop_partitions") /\ parts' = [parts EXCEPT ![g] = 0] /\ UNCHANGED <<graph, hosts, works>>
       \/ /\ Doing(i, "drop_graph") /\ graph' = [graph EXCEPT ![g] = NoGraph]
          /\ End(g, Token(s, "remove")) /\ UNCHANGED <<parts, hosts>>
    /\ Go(s, 1) /\ UNCHANGED <<uploaded, disturbed, streamed, gid, own, beside>>
selectIds(s, i) ==
    /\ Doing(i, "all")
    /\ batch' = [batch EXCEPT ![s] = {g \in GraphId : graph[g].status # "none"}]
    /\ Go(s, 1) /\ UNCHANGED <<table, data, seen, gid, beside>>

\* Statements and calls that change nothing of this, and may be fatal.
Harmless ==
    {"stoi", "stod", "stoi_count", "getAndUpdateUploadTime", "model", "paused",
     "areRunningJobsForSameGraph"}
passes(s, i) ==
    /\ i.op = "do" /\ i.m \in Harmless
    /\ Go(s, 1) /\ UNCHANGED <<table, data, own, gid, beside>>
exportWorkerPartitions(s, i) ==
    /\ Doing(i, "exportWorkerPartitions")
    /\ \E r \in {"all", "some", "none"} : ans' = [ans EXCEPT ![s] = r] /\ GoWith(s, 1, r)
    /\ UNCHANGED <<quit, here, gid, world>>

---------------------------------------------------------------------------
\* Streams from Kafka, and files of HDFS.

getNextGraphId(s, i) ==
    /\ Doing(i, "getNextGraphId")
    /\ NextId \in GraphId /\ gid' = [gid EXCEPT ![s] = NextId]
    /\ Go(s, 1) /\ UNCHANGED <<table, data, own, beside>>

registerStream(s, i) ==
    LET g == gid[s] IN
    /\ i.op = "test" /\ i.m = "registerStream"
    /\ \/ /\ registry[g] = Nobody /\ kafka[s].st = "none"
          /\ registry' = [registry EXCEPT ![g] = s]
          /\ kafka' = [kafka EXCEPT ![s] = [g |-> g, st |-> "booked", told |-> FALSE]]
          /\ Go(s, 1)
       \/ registry[g] # Nobody /\ Go(s, i.n) /\ UNCHANGED <<registry, kafka>>
    /\ UNCHANGED <<life, session, line, own, table, data, scheduler, joinable, kgs, strian>>

\* The row of a new stream is refused, without a word, when its identifier has
\* been taken since it was offered.
markStreaming(s, i) ==
    LET g == gid[s] IN
    /\ \/ /\ Doing(i, "mark_streaming")
          /\ Write(g, [graph[g] EXCEPT !.status = "STREAMING"])
          /\ Begin(g, Token(s, "kafka")) /\ UNCHANGED uploaded
       \/ /\ Doing(i, "insert_streaming") /\ ~Exists(g)
          /\ graph' = [graph EXCEPT ![g] = Row("STREAMING", "kafka")]
          /\ uploaded' = [uploaded EXCEPT ![g] = FALSE]
          /\ Begin(g, Token(s, "kafka"))
       \/ /\ Doing(i, "insert_streaming") /\ Exists(g)
          /\ works' = [works EXCEPT ![g] = @ \union {Token(s, "kafka")}]
          /\ disturbed' = disturbed \union {g} /\ UNCHANGED <<graph, uploaded>>
    /\ streamed' = streamed \union {g}
    /\ Go(s, 1) /\ UNCHANGED <<parts, hosts, own, gid, beside>>
listen_to_kafka_topic(s, i) ==
    /\ Doing(i, "listen")
    /\ kafka' = [kafka EXCEPT ![s].st = "new"]
    /\ joinable' = [joinable EXCEPT ![s] = TRUE]
    /\ Go(s, 1) /\ UNCHANGED <<life, session, line, own, table, data, scheduler, registry, kgs, strian>>

\* The thread: a row for each partition, whatever rows there are, and the end,
\* which finds its row or not.
StreamHandler(s) ==
    /\ kafka[s].st = "new"
    /\ kafka' = [kafka EXCEPT ![s].st = "run"]
    /\ hosts' = [hosts EXCEPT ![kafka[s].g] = IF @ > nparts THEN @ ELSE @ + nparts]
    /\ UNCHANGED <<life, session, pc, line, own, graph, parts, data, scheduler, joinable, registry,
                   kgs, strian>>
stream_ends(s) ==
    LET g == kafka[s].g IN
    /\ kafka[s].st = "run"
    /\ kafka' = [kafka EXCEPT ![s] = NoStream]
    /\ registry' = [registry EXCEPT ![g] = Nobody]
    /\ Write(g, [graph[g] EXCEPT !.status = "OPERATIONAL", !.ended = TRUE, !.counted = TRUE])
    /\ uploaded' = [uploaded EXCEPT ![g] = @ \/ graph[g].path = "kafka"]
    /\ End(g, Token(s, "kafka"))
    /\ UNCHANGED <<life, session, pc, line, own, parts, hosts, disturbed, streamed, scheduler,
                   joinable, kgs, strian>>

only_stream(s, i) ==
    /\ Doing(i, "only_stream")
    /\ \E g \in GraphId :
         /\ registry[g] # Nobody \/ \A f \in GraphId : registry[f] = Nobody
         /\ gid' = [gid EXCEPT ![s] = g]
    /\ Go(s, 1) /\ UNCHANGED <<table, data, own, beside>>
\* The stream is told to stop, and may already have ended.
signalStreamStop(s, i) ==
    LET t == registry[gid[s]] IN
    /\ i.op = "test" /\ i.m = "signalStreamStop"
    /\ kafka' = IF t = Nobody THEN kafka ELSE [kafka EXCEPT ![t].told = TRUE]
    /\ Go(s, IF t = Nobody THEN i.n ELSE 1)
    /\ UNCHANGED <<life, session, line, own, table, data, scheduler, joinable, registry, kgs, strian>>
unregisterStream(s, i) ==
    /\ Doing(i, "unregisterStream") \/ Doing(i, "unbook")
    /\ registry' = [registry EXCEPT ![gid[s]] = Nobody]
    /\ kafka' = IF i.m = "unbook" THEN [kafka EXCEPT ![s] = NoStream] ELSE kafka
    /\ Go(s, 1) /\ UNCHANGED <<life, session, line, own, table, data, scheduler, joinable, kgs, strian>>

\* Fatal while the thread of an earlier stream is joinable.
hdfs_reader(s, i) ==
    /\ Doing(i, "reader")
    /\ Go(s, 1) /\ UNCHANGED <<table, data, own, gid, beside>>

---------------------------------------------------------------------------
\* Knowledge graphs.

Streaming(g) == \E s \in Session : Token(s, "kg") \in works[g]
kg_resumed(s, i) ==
    /\ Doing(i, "kg_graph")
    /\ \E g \in WithPath("kg") :
         gid' = [gid EXCEPT ![s] = g] /\ \A f \in WithPath("kg") : g <= f
    /\ Go(s, 1) /\ UNCHANGED <<table, data, own, beside>>
stop_flag(s, i) ==
    LET g == gid[s] IN
    /\ Doing(i, "stop_flag") /\ threadMapMutex = Nobody
    /\ stopFlags' = [stopFlags EXCEPT ![g] = s] /\ flag' = [flag EXCEPT ![s] = FALSE]
    /\ doubled' = IF Streaming(g) THEN doubled \union {g} ELSE doubled
    /\ works' = [works EXCEPT ![g] = (@ \ {Token(s, "add")}) \union {Token(s, "kg")}]
    /\ disturbed' = IF works[g] \subseteq {Token(s, "add")} THEN disturbed ELSE disturbed \union {g}
    /\ streamed' = streamed \union {g}
    /\ Go(s, 1)
    /\ UNCHANGED <<life, session, line, own, table, uploaded, scheduler, streams, kg,
                   threadMapMutex, strian>>
stream_thread(s, i) ==
    /\ Doing(i, "stream_thread") \/ Doing(i, "local_thread")
    /\ kg' = [kg EXCEPT ![s] = [g |-> gid[s], st |-> "run", local |-> i.m = "local_thread"]]
    /\ Go(s, 1)
    /\ UNCHANGED <<life, session, line, own, table, data, scheduler, streams, flag, stopFlags,
                   threadMapMutex, doubled, strian>>

\* What the thread hears from the designated worker: the counts, with which
\* the graph becomes operational; progress, the only time it looks at its stop
\* flag; and the end, be it of the graph, of what was stopped or of the worker.
kg_meta(s) ==
    LET g == kg[s].g IN
    /\ kg[s].st = "run"
    /\ Write(g, [graph[g] EXCEPT !.status = "OPERATIONAL", !.counted = TRUE])
    /\ parts' = [parts EXCEPT ![g] = nparts]
    /\ <<graph', parts'>> # <<graph, parts>>
    /\ UNCHANGED <<life, session, pc, line, own, hosts, data, scheduler, streams, kgs, strian>>
\* Mutant: the flag is taken down and the worker told to go on.
kg_progress_deaf(s) ==
    /\ kg[s].st = "run" /\ flag[s]
    /\ flag' = [flag EXCEPT ![s] = FALSE]
    /\ UNCHANGED <<life, session, pc, line, own, table, data, scheduler, streams, kg, stopFlags,
                   threadMapMutex, doubled, strian>>
kg_progress(s) ==
    /\ kg[s].st = "run" /\ flag[s]
    /\ kg' = [kg EXCEPT ![s].st = "taken"] /\ flag' = [flag EXCEPT ![s] = FALSE]
    /\ disturbed' = disturbed \union {kg[s].g}
    /\ UNCHANGED <<life, session, pc, line, own, table, uploaded, works, streamed, scheduler,
                   streams, stopFlags, threadMapMutex, doubled, strian>>
kg_ends(s) ==
    LET g == kg[s].g IN
    /\ kg[s].st # "none"
    /\ kg' = [kg EXCEPT ![s] = NoThread]
    /\ \/ kg[s].st = "run" /\ uploaded' = [uploaded EXCEPT ![g] = TRUE] /\ UNCHANGED disturbed
       \/ disturbed' = disturbed \union {g} /\ UNCHANGED uploaded
    /\ Write(g, [graph[g] EXCEPT !.ended = @ \/ ~kg[s].local])
    /\ End(g, Token(s, "kg"))
    /\ UNCHANGED <<life, session, pc, line, own, parts, hosts, streamed, scheduler, streams, flag,
                   stopFlags, threadMapMutex, doubled, strian>>

activeStreamThreads(s, i) ==
    /\ Doing(i, "activeStreamThreads") /\ threadMapMutex = Nobody
    /\ Go(s, 1) /\ UNCHANGED <<table, data, own, gid, beside>>
lock(s, i) ==
    /\ \/ Doing(i, "lock") /\ threadMapMutex = Nobody /\ threadMapMutex' = s
       \/ Doing(i, "unlock") /\ threadMapMutex' = Nobody
    /\ Go(s, 1)
    /\ UNCHANGED <<life, session, line, own, table, data, scheduler, streams, kg, flag, stopFlags,
                   doubled, strian>>
raise(s, i) ==
    /\ Doing(i, "raise")
    /\ flag' = [flag EXCEPT ![stopFlags[gid[s]]] = TRUE]
    /\ Go(s, 1)
    /\ UNCHANGED <<life, session, line, own, table, data, scheduler, streams, kg, stopFlags,
                   threadMapMutex, doubled, strian>>
\* Mutant: no limit on the waits.
await_stop_forever(s, i) ==
    /\ Doing(i, "await_stop") /\ ~flag[stopFlags[gid[s]]]
    /\ ans' = [ans EXCEPT ![s] = "stopped"]
    /\ Go(s, 1) /\ UNCHANGED <<quit, here, gid, world>>
\* Until the flag is down again, or noOfMaxWaits have passed.
await_stop(s, i) ==
    /\ Doing(i, "await_stop")
    /\ ans' = [ans EXCEPT ![s] = IF flag[stopFlags[gid[s]]] THEN "Failed to stop" ELSE "stopped"]
    /\ Go(s, 1) /\ UNCHANGED <<quit, here, gid, world>>

---------------------------------------------------------------------------
\* Jobs.

HIGH_PRIORITY(n) == CASE n = 0 -> {TRUE} [] n = 1 -> {FALSE} [] OTHER -> BOOLEAN
push(s, t, n) ==
    /\ \E high \in HIGH_PRIORITY(n) :
         job' = [job EXCEPT ![s] = [type |-> t, st |-> "queued", high |-> high, id |-> 0]]
    /\ queue' = queue \union {s}
    /\ raced' = (raced \/ popping # Nobody)
    /\ UNCHANGED <<popping, phase, loaded, executors>>
\* Two requests that are pushed at once overwrite each other, or worse.
PushesOverlap(s) == \E t \in Session \ {s} : \E j \in Now(t) : j.op = "push"
push_lost(s, t) ==
    /\ PushesOverlap(s)
    /\ job' = [job EXCEPT ![s] = [type |-> t, st |-> "lost", high |-> FALSE, id |-> 0]]
    /\ UNCHANGED <<queue, popping, raced, phase, loaded, executors>>
pushJob_step(s, i) ==
    /\ i.op = "push" /\ (push(s, i.m, i.n) \/ push_lost(s, i.m))
    /\ Go(s, 1) /\ UNCHANGED <<life, session, line, own, table, data, streams, kgs, strian>>
getResult_step(s, i) ==
    /\ i.op = "result" /\ job[s].st \in {"answered", "rejected"}
    /\ ans' = [ans EXCEPT ![s] = IF job[s].st = "answered" THEN "ok" ELSE "error"]
    /\ job' = [job EXCEPT ![s] = NoJob]
    /\ Go(s, 1)
    /\ UNCHANGED <<life, session, gid, own, table, data, queue, popping, raced, phase, loaded,
                   executors, streams, kgs, strian>>

\* The scheduler copies the top of the queue and then pops it, without a lock.
besides == <<life, session, pc, line, own, table, data, streams, kgs, strian>>
top ==
    /\ phase = "drain" /\ popping = Nobody /\ queue # {}
    /\ \E s \in queue :
         /\ job[s].high \/ \A t \in queue : ~job[t].high
         /\ popping' = s
    /\ raced' = FALSE
    /\ UNCHANGED <<job, queue, phase, loaded, executors, besides>>
Pending == {"TRIANGLES", "CYPHER", "SEMANTIC_BEAM_SEARCH"}
Taken(j) ==
    IF j.st # "queued" THEN j
    ELSE [j EXCEPT !.st = IF j.high /\ j.type \in Pending THEN "pending" ELSE "started"]
\* A request that was pushed in between may be the one that is popped.
pop ==
    /\ popping # Nobody
    /\ \E s \in IF raced THEN queue ELSE {popping} :
         /\ queue' = queue \ {s}
         /\ job' = [t \in Session |->
                      IF t = popping THEN Taken(job[t])
                      ELSE IF t = s /\ job[t].st = "queued" THEN [job[t] EXCEPT !.st = "lost"]
                      ELSE job[t]]
    /\ popping' = Nobody /\ raced' = FALSE
    /\ UNCHANGED <<phase, loaded, executors, besides>>

\* The loads of what is recorded with high priority, and of what was accepted
\* before in this round, decide whether a job keeps its SLA.
getResourceAvailableTime == IF loaded THEN {"rejected", "started"} ELSE {"started"}
\* Mutant: a request that cannot keep its SLA is dropped without a response.
decide_drops ==
    /\ \/ /\ phase = "drain" /\ queue = {} /\ popping = Nobody
          /\ \E s \in Session : job[s].st = "pending"
          /\ phase' = "decide" /\ loaded' = (\E r \in records : r.high) /\ UNCHANGED job
       \/ /\ phase = "decide"
          /\ \E s \in Session : job[s].st = "pending" /\ job' = [job EXCEPT ![s].st = "dropped"]
          /\ UNCHANGED <<phase, loaded>>
       \/ /\ phase = "decide" /\ \A s \in Session : job[s].st # "pending"
          /\ phase' = "drain" /\ loaded' = FALSE /\ UNCHANGED job
    /\ UNCHANGED <<queue, popping, raced, executors, besides>>
\* The queue is empty: those of high priority are rejected or started.
decide ==
    /\ \/ /\ phase = "drain" /\ queue = {} /\ popping = Nobody
          /\ \E s \in Session : job[s].st = "pending"
          /\ phase' = "decide" /\ loaded' = (\E r \in records : r.high) /\ UNCHANGED job
       \/ /\ phase = "decide"
          /\ \E s \in Session, st \in getResourceAvailableTime :
               /\ job[s].st = "pending" /\ job' = [job EXCEPT ![s].st = st]
               /\ loaded' = (loaded \/ st = "started")
          /\ UNCHANGED phase
       \/ /\ phase = "decide" /\ \A s \in Session : job[s].st # "pending"
          /\ phase' = "drain" /\ loaded' = FALSE /\ UNCHANGED job
    /\ UNCHANGED <<queue, popping, raced, executors, besides>>

---------------------------------------------------------------------------
\* Executors.  Each class numbers its jobs for itself, and the records of all
\* of them are told apart by these numbers alone.

nearby == <<queue, popping, raced, phase, loaded, life, conn, here, slots, todo, cmd, pc, line, own,
            table, data, streams, kgs, strian>>
aside == <<nearby, quit>>
Started(s, t) == job[s].type = t /\ job[s].st = "started"
Running(s, t) == job[s].type = t /\ job[s].st = "running"
Numbers(s, t, st) ==
    /\ uid' = [uid EXCEPT ![t] = @ + 1]
    /\ job' = [job EXCEPT ![s].st = st, ![s].id = uid[t] + 1]
insertProcessInfo(s, id) ==
    records' = IF \E r \in records : r.id = id THEN records
               ELSE records \union {[id |-> id, high |-> job[s].high]}
\* The answer, after which the executor looks for its record; or none at all,
\* when a worker is never heard of again, the client cannot be written to or
\* an exception ends in a future nobody reads.
responds(s) ==
    /\ job' = [job EXCEPT ![s].st = "answered"]
    /\ closing' = IF job[s].id = 0 THEN closing
                  ELSE closing \union {[type |-> job[s].type, id |-> job[s].id]}
stays_silent(s) == job' = [job EXCEPT ![s].st = "silent"] /\ UNCHANGED closing
\* A write of the executor to the client fails: the session's loop_exit is set.
loop_exit(s) == UNCHANGED quit \/ (~here[s] /\ quit' = [quit EXCEPT ![s] = TRUE])

\* Counting triangles: the record, the wait and the threads of the partitions
\* under the mutex of all counts; then what they return; then the mutex again.
TriangleCountExecutor(s) ==
    /\ Started(s, "TRIANGLES") /\ schedulerMutex = Nobody
    /\ schedulerMutex' = s
    /\ Numbers(s, "TRIANGLES", "prepared") /\ insertProcessInfo(s, uid["TRIANGLES"] + 1)
    /\ UNCHANGED <<closing, aside>>
startCounts(s) ==
    /\ schedulerMutex = s
    /\ schedulerMutex' = Nobody
    /\ job' = [job EXCEPT ![s].st = "running"]
    /\ UNCHANGED <<uid, records, closing, aside>>
aggregateCounts(s) ==
    /\ Running(s, "TRIANGLES")
    /\ (schedulerMutex = Nobody /\ responds(s)) \/ stays_silent(s)
    /\ UNCHANGED <<schedulerMutex, uid, records, aside>>

PageRankExecutor(s) ==
    /\ \/ /\ Started(s, "PAGE_RANK")
          /\ Numbers(s, "PAGE_RANK", "running") /\ insertProcessInfo(s, uid["PAGE_RANK"] + 1)
          /\ UNCHANGED closing
       \/ Running(s, "PAGE_RANK") /\ (responds(s) \/ stays_silent(s)) /\ UNCHANGED <<uid, records>>
    /\ UNCHANGED <<schedulerMutex, aside>>

\* These make no record, and remove the one that has their number.
CypherQueryExecutor(s) ==
    /\ \/ Started(s, "CYPHER") /\ Numbers(s, "CYPHER", "running") /\ UNCHANGED closing
       \/ Running(s, "CYPHER") /\ (responds(s) \/ stays_silent(s)) /\ UNCHANGED uid
    /\ UNCHANGED <<schedulerMutex, records, aside>>
SemanticBeamSearchExecutor(s) ==
    /\ \/ /\ Started(s, "SEMANTIC_BEAM_SEARCH") /\ Numbers(s, "SEMANTIC_BEAM_SEARCH", "running")
          /\ UNCHANGED <<closing, quit>>
       \/ /\ Running(s, "SEMANTIC_BEAM_SEARCH") /\ UNCHANGED uid
          /\ (responds(s) /\ loop_exit(s)) \/ (stays_silent(s) /\ UNCHANGED quit)
    /\ UNCHANGED <<schedulerMutex, records, nearby>>
\* Its number is that of the user the master runs as.
AgentPlanExecutor(s) ==
    /\ \/ /\ Started(s, "AGENT_PLAN") /\ job' = [job EXCEPT ![s].st = "running"]
          /\ UNCHANGED <<closing, quit>>
       \/ /\ Running(s, "AGENT_PLAN")
          /\ (responds(s) /\ UNCHANGED quit) \/ (stays_silent(s) /\ loop_exit(s))
    /\ UNCHANGED <<schedulerMutex, uid, records, nearby>>
StreamingTriangleCountExecutor(s) ==
    /\ \/ /\ Started(s, "STREAMING_TRIANGLES") /\ job' = [job EXCEPT ![s].st = "running"]
          /\ UNCHANGED closing
       \/ Running(s, "STREAMING_TRIANGLES") /\ (responds(s) \/ stays_silent(s))
    /\ UNCHANGED <<schedulerMutex, uid, records, aside>>
execute(s) ==
    \/ TriangleCountExecutor(s) \/ startCounts(s) \/ aggregateCounts(s) \/ PageRankExecutor(s)
    \/ CypherQueryExecutor(s) \/ SemanticBeamSearchExecutor(s) \/ AgentPlanExecutor(s)
    \/ StreamingTriangleCountExecutor(s)
removeProcessInfoById ==
    /\ Up
    /\ \E c \in closing :
         closing' = closing \ {c} /\ records' = {r \in records : r.id # c.id}
    /\ UNCHANGED <<job, schedulerMutex, uid, aside>>

---------------------------------------------------------------------------
\* Streaming triangles: one flag for all sessions.

strian_steps(s, i) ==
    /\ \/ /\ Doing(i, "strian_start")
          /\ strian_exit' = FALSE /\ helper' = [helper EXCEPT ![s] = TRUE]
       \/ Doing(i, "strian_join") /\ ~helper[s] /\ UNCHANGED strian
       \/ Doing(i, "strian_exit") /\ strian_exit' = TRUE /\ UNCHANGED helper
    /\ Go(s, 1) /\ UNCHANGED <<life, session, line, own, table, data, scheduler, streams, kgs>>
\* The session's thread, with one outstanding job.
scheduleStrianJobs(s) ==
    /\ helper[s]
    /\ \/ /\ ~strian_exit /\ job[s].st = "none" /\ push(s, "STREAMING_TRIANGLES", 2)
          /\ UNCHANGED helper
       \/ strian_exit /\ helper' = [helper EXCEPT ![s] = FALSE] /\ UNCHANGED scheduler
    /\ UNCHANGED <<life, session, pc, line, own, table, data, streams, kgs, strian_exit>>

---------------------------------------------------------------------------
\* The end of the master and its next start.

\* A set that executors change while it is walked through.
RecordsInFlux ==
    \/ \E s \in Session :
         /\ job[s].st = "started"
         /\ job[s].type = "PAGE_RANK" \/ (job[s].type = "TRIANGLES" /\ schedulerMutex = Nobody)
    \/ \E c \in closing : \E r \in records : r.id = c.id
\* The vector of responses has no lock; the map has one, but for the answers
\* of streaming triangles.
ResponsesInFlux(s) ==
    /\ job[s].st = "running"
    /\ job[s].type = "STREAMING_TRIANGLES" \/ \E t \in Session \ {s} : job[t].st = "running"
\* An executor writes rows to a client that is gone (that of a query also
\* leaves threads unjoined); the readers of a search share a vector.
WriterInDanger(s) ==
    \/ job[s].type \in {"CYPHER", "SEMANTIC_BEAM_SEARCH", "AGENT_PLAN"} /\ ~here[s]
    \/ job[s].type = "SEMANTIC_BEAM_SEARCH" /\ nparts > 1

\* What throws, or reads past an empty result; and what may end so.
MustDie(s, i) ==
    \/ i.op = "test" /\ i.m = "graphExistsByID" /\ gid[s] = 0
    \/ (Doing(i, "stoi") \/ Doing(i, "stod")) /\ gid[s] = 0
    \/ Doing(i, "stoi_count") /\ ~(Exists(gid[s]) /\ graph[gid[s]].counted)
    \/ Doing(i, "getAndUpdateUploadTime") /\ ~(Exists(gid[s]) /\ graph[gid[s]].ended)
    \/ Doing(i, "reader") /\ joinable[s]
    \/ Doing(i, "abandon") \/ Doing(i, "shutdown")
\* gpmetis fails, or is run again and the result of the second run dropped:
\* the list of files is empty, and the upload reads past its end.
NoFiles(s, i) ==
    \/ Doing(i, "partition") /\ graph[gid[s]].path = "file" /\ parts[gid[s]] = 0
    \/ Doing(i, "assign") /\ hosts[gid[s]] = 0
MayDie(s, i) ==
    \/ Writes(i) /\ ~here[s]
    \/ NoFiles(s, i)
    \/ Doing(i, "areRunningJobsForSameGraph") /\ RecordsInFlux
    \/ i.op = "push" /\ PushesOverlap(s)
    \/ MustDie(s, i)

\* Threads, sessions and everything in memory are gone.
dies ==
    /\ master' = "down" /\ resolving' = FALSE /\ doomed' = {}
    /\ cut' = (cut \/ master \in {"cleared", "freed"})
    /\ conn' = [s \in Session |-> IF conn[s] = "new" THEN "new" ELSE "out"]
    /\ slots' = [k \in DOMAIN slots |-> 0]
    /\ cmd' = Each("") /\ pc' = Each(1) /\ ans' = Each("") /\ gid' = Each(0) /\ quit' = Each(FALSE)
    /\ batch' = Each({}) /\ seen' = Each(FALSE)
    /\ works' = Every({}) /\ disturbed' = disturbed \union {g \in GraphId : works[g] # {}}
    /\ job' = Each(NoJob) /\ queue' = {} /\ popping' = Nobody /\ raced' = FALSE
    /\ phase' = "drain" /\ loaded' = FALSE /\ schedulerMutex' = Nobody
    /\ uid' = [t \in Numbered |-> 0] /\ records' = {} /\ closing' = {}
    /\ kafka' = Each(NoStream) /\ joinable' = Each(FALSE) /\ registry' = Every(Nobody)
    /\ kg' = Each(NoThread) /\ flag' = Each(FALSE) /\ stopFlags' = Every(Nobody)
    /\ threadMapMutex' = Nobody /\ doubled' = {}
    /\ strian_exit' = FALSE /\ helper' = Each(FALSE)
    /\ UNCHANGED <<client, here, workers, todo, table, uploaded, streamed>>
thread_dies(s) ==
    /\ ResponsesInFlux(s) \/ (job[s].st = "running" /\ WriterInDanger(s))
    /\ dies /\ UNCHANGED crashes
session_dies(s) == \E i \in Now(s) : MayDie(s, i) /\ dies /\ UNCHANGED crashes
scheduler_dies == raced /\ dies /\ UNCHANGED crashes
crash == master # "down" /\ crashes > 0 /\ crashes' = crashes - 1 /\ dies

\* The graphs whose partitions are all found at a worker: worker_has_partition
\* is joined with worker, so a missing worker takes its partitions away.
Hosted ==
    CASE workers = "all" -> {{g \in GraphId : hosts[g] > 0 /\ hosts[g] = parts[g]}}
      [] workers = "some" -> SUBSET {g \in GraphId : parts[g] \in 1 .. hosts[g]}
      [] workers = "none" -> {{}}
updateOperationalGraphList ==
    /\ master = "down" /\ master' = "listed"
    /\ \E whole \in Hosted :
         graph' = [g \in GraphId |->
                     IF graph[g].status = "none" THEN graph[g]
                     ELSE [graph[g] EXCEPT !.status =
                             IF g \in whole THEN "OPERATIONAL" ELSE "NON_OPERATIONAL"]]
    /\ UNCHANGED <<crashes, client, workers, cut, resolving, doomed, session, pc, line, own, parts,
                   hosts, data, scheduler, streams, kgs, strian>>
\* All rows are deleted, and the partitions dealt out anew, worker after worker.
assignPartitionsToWorkers ==
    \/ /\ master = "entered" /\ master' = "freed"
       /\ hosts' = Every(0) /\ UNCHANGED <<resolving, cut>>
    \/ /\ master = "freed" /\ master' = "up"
       /\ hosts' = parts /\ resolving' = TRUE /\ cut' = FALSE
\* The rows of worker are deleted and inserted again, host after host.
start_workers ==
    /\ \/ /\ master = "listed" /\ master' = "cleared"
          /\ workers' = "none" /\ UNCHANGED <<hosts, resolving, cut>>
       \/ /\ master = "cleared" /\ workers' \in {"some", "all"} \ {workers}
          /\ master' = IF workers' = "all" THEN "entered" ELSE "cleared"
          /\ UNCHANGED <<hosts, resolving, cut>>
       \/ assignPartitionsToWorkers /\ UNCHANGED workers
    /\ UNCHANGED <<crashes, client, doomed, session, pc, line, own, graph, parts, data, scheduler, streams,
                   kgs, strian>>
\* The sessions are served while the workers' graphs are compared with the
\* rows; those without a row are deleted later, row or not.
resolveOperationalGraphs ==
    /\ Up /\ resolving
    /\ resolving' = FALSE
    /\ doomed' = {g \in GraphId : uploaded[g] /\ graph[g].status = "none"}
    /\ UNCHANGED <<master, crashes, client, workers, cut, session, pc, line, own, table, data,
                   scheduler, streams, kgs, strian>>
deleteNON_OPERATIONALGraphFragment ==
    /\ doomed # {}
    /\ doomed' = {}
    /\ uploaded' = [g \in GraphId |-> uploaded[g] /\ g \notin doomed]
    /\ disturbed' = disturbed \union doomed
    /\ UNCHANGED <<master, crashes, client, workers, cut, resolving, session, pc, line, own, table,
                   works, streamed, scheduler, streams, kgs, strian>>

---------------------------------------------------------------------------
\* The steps of a session and of the threads.

Executes(s, i) ==
    \/ /\ i.op # "do"
       /\ \/ Said(s, i) \/ WriteFails(s, i) \/ Answered(s, i) \/ Control(s, i) \/ Tested(s, i)
          \/ registerStream(s, i) \/ signalStreamStop(s, i) \/ pushJob_step(s, i) \/ getResult_step(s, i)
    \/ /\ i.op = "do"
       /\ \/ runInsert(s, i) \/ populatePartMaps(s, i) \/ assignPartitionToWorker(s, i)
          \/ batchUpload(s, i) \/ runUpdate(s, i) \/ hostHasPartition(s, i)
          \/ removePartitionThroughService(s, i) \/ deleteRows(s, i) \/ selectIds(s, i)
          \/ passes(s, i) \/ exportWorkerPartitions(s, i)
          \/ getNextGraphId(s, i) \/ markStreaming(s, i) \/ listen_to_kafka_topic(s, i)
          \/ only_stream(s, i) \/ unregisterStream(s, i) \/ hdfs_reader(s, i)
          \/ kg_resumed(s, i) \/ stop_flag(s, i) \/ stream_thread(s, i)
          \/ activeStreamThreads(s, i) \/ lock(s, i) \/ raise(s, i) \/ await_stop(s, i)
          \/ strian_steps(s, i)
Waits(s, i) == here[s] /\ i.op \in {"ask", "askraw", "askback"}

handler(s) == Up /\ \E i \in Now(s) : ~MustDie(s, i) /\ Executes(s, i)
arrives(s) == Up /\ (accept(s) \/ checkServerBusy(s) \/ dispatch(s) \/ client_leaves(s))
leaves(s) == Up /\ (frontendservicesesion(s) \/ finish(s))
thread(s) ==
    Up /\ (StreamHandler(s) \/ stream_ends(s) \/ kg_meta(s) \/ kg_progress(s) \/ kg_ends(s)
           \/ execute(s) \/ scheduleStrianJobs(s))
schedule == Up /\ (top \/ pop \/ decide)
Next ==
    \/ \E s \in Session : arrives(s) \/ handler(s) \/ leaves(s) \/ thread(s)
                        \/ session_dies(s) \/ thread_dies(s)
    \/ schedule \/ scheduler_dies \/ crash \/ removeProcessInfoById
    \/ updateOperationalGraphList \/ start_workers
    \/ resolveOperationalGraphs \/ deleteNON_OPERATIONALGraphFragment
Spec == Init /\ [][Next]_vars

---------------------------------------------------------------------------
\* A session goes on except when it waits for a client that is there or for
\* what never comes; the rows a loop runs through are finitely many; a stream
\* that was told to stop ends.

goes_on(s) ==
    \/ Up /\ checkServerBusy(s)
    \/ leaves(s)
    \/ Up /\ \E i \in Now(s) :
         /\ ~Waits(s, i)
         /\ IF MustDie(s, i) THEN dies /\ UNCHANGED crashes ELSE Executes(s, i)
loop_ends(s) == Up /\ \E i \in Now(s) : i.op = "fork" /\ Control(s, i) /\ pc'[s] > pc[s] + 1
thread_goes_on(s) ==
    Up /\ (StreamHandler(s) \/ (kafka[s].told /\ stream_ends(s)) \/ execute(s) \/ scheduleStrianJobs(s))
Fairness ==
    /\ \A s \in Session : WF_vars(goes_on(s)) /\ WF_vars(thread_goes_on(s))
    /\ SF_vars(\E s \in Session : kind(s) = "ui" /\ loop_ends(s))
    /\ WF_vars(schedule)
FairSpec == Spec /\ Fairness

---------------------------------------------------------------------------
\* Properties.

\* An operational graph that no two commands worked on at once, no command
\* left half done and no transfer failed for has all its data at the workers
\* and its counts in the meta database, but for a knowledge graph whose
\* stream is still running and for files of HDFS whose command has not come
\* back: these are operational before the last of them are sent.
Flushing(g) == graph[g].path = "hdfs" /\ \E s \in Session : Token(s, "add") \in works[g]
UploadedUnlessHarmed ==
    \A g \in GraphId \ disturbed :
      isGraphActive(g) /\ ~Streaming(g) /\ ~Flushing(g) => uploaded[g] /\ graph[g].counted

\* What Conts.h says of the status OPERATIONAL.
OperationalMeansUploaded == \A g \in GraphId : isGraphActive(g) => uploaded[g]

\* Rows of partitions without their graph, which the next graph with that
\* identifier would inherit, are left only where two commands overlapped, one
\* was cut off, or a stream went into the graph.
RowsGoTogether ==
    \A g \in GraphId \ (disturbed \union streamed) :
      graph[g].status = "none" => parts[g] = 0 /\ hosts[g] = 0

\* A restart finds every graph that an upload completed undisturbed
\* operational, also one that an earlier start had marked NON_OPERATIONAL,
\* unless the start before was itself killed between deleting the rows of
\* the workers or of their partitions and inserting them.  Graphs that came
\* by a stream are not promised this: their rows do not match.  The status
\* says that every partition has a row, not that the worker it names since
\* the last start holds the data.
RestartKeepsUploads ==
    [][updateOperationalGraphList /\ ~cut =>
         \A g \in GraphId \ (disturbed \union streamed) :
           uploaded[g] /\ graph[g].counted /\ graph[g].ended =>
             graph'[g].status = "OPERATIONAL"]_vars

\* A stop that is not reported as failed has reached the stream that builds
\* the graph, unless a second stream was started for it.
StopReachesTheStream ==
    \A s \in Session : \A i \in Now(s) :
      Doing(i, "paused") /\ ans[s] = "stopped" =>
        \A t \in Session : kg[t].g = gid[s] /\ kg[t].st = "run" => gid[s] \in doubled

\* No job of a session is outstanding for ever: one that is pushed is answered,
\* unless its executor ended without an answer or it was popped in place of
\* another.
JobsAnswered == \A s \in Session : []<>(job[s].st \in {"none", "silent", "lost"})

\* A session of the web front end whose client is gone, which it is for good,
\* ends, unless its job is never answered, or it waits for one that is not, or
\* its query waits for the "-1" of a partition whose receiver gave up.
Hanging(s) == \E i \in Now(s) : i.op = "hang"
DepartedUISessionsEnd ==
    \A s \in Session :
      []<>(kind(s) = "ui" /\ ~here[s] =>
             conn[s] = "out" \/ job[s].st \in {"silent", "lost"} \/ Hanging(s))

\* Stopping one construction does not keep the mutex of all of them for ever.
MutexComesBack == []<>(threadMapMutex = Nobody)
=============================================================================
