-------------------------- MODULE FrontEndCommands --------------------------
(***************************************************************************)
(* The commands of the console and of the web front end, as scripts of the  *)
(* steps of Dialogue and of the steps below; FrontEnd gives them effect.     *)
(***************************************************************************)
EXTENDS Dialogue

\* A question and the line that answers it; k is what is asked for.  The write
\* of Prompt is looked at, that of PromptRaw is not, and the web front end
\* finds its arguments in the command line itself.
Prompt(k) == Step("ask", k, 0)
PromptRaw(k) == Step("askraw", k, 0)
Given(k) == Step("given", k, 0)

\* Send is a write whose failure ends command and session, SendBack one whose
\* failure ends the command, Try one whose failure goes unnoticed.
SendBack(m) == Step("sendback", m, 0)
DONE == Send("DONE")
INVALID_FORMAT == Send("INVALID_FORMAT")
Return == Step("return", "", 0)
Refuse(m) == Send(m) \o Return
Leave(m) == Try(m) \o Exit \o Return

\* A condition on the meta database or on the answer of a job.
Test(t, yes, no) == Branch(Step("test", t, Len(yes) + 2), yes, no)
\* The whole answer matters, or a condition of the outside world.
ForEach(body) == While(Step("each", "", Len(body) + 2), body)
Unless(m, no) == If(m, <<>>, no)
Perhaps(bad) == Either(<<>>, bad)
\* A wait for what never comes.
Hang == Step("hang", "", 0)

---------------------------------------------------------------------------
\* Adding and removing graphs.

writeSocketResultOrEmpty == Either(Send("result"), Send("EMPTY"))
list_command == writeSocketResultOrEmpty

\* Mutant: the status is set before the threads are joined.
uploadGraphLocally_early == Do("assign") \o Do("updateMetaDB") \o Do("transfer")
\* The partitioner inserts the partitions and then the counts; the server
\* assigns the partitions, its threads send the files, and the graph is
\* operational when they have returned.
uploadGraphLocally == Do("assign") \o Do("transfer") \o Do("updateMetaDB")
loadPartitionUpload == Do("partition") \o Do("counts") \o uploadGraphLocally
upload == Do("insert") \o loadPartitionUpload \o Do("getAndUpdateUploadTime") \o DONE

add_rdf_command ==
    Prompt("upload") \o If("format", Refuse("INVALID_FORMAT"), <<>>)
    \o Test("graphExists", Refuse("INVALID_FORMAT"), <<>>)
    \o If("file", upload, <<>>)

add_graph_command ==
    Prompt("upload") \o If("format", Return, <<>>)
    \o Test("graphExists", Return, <<>>)
    \o If("file", upload, <<>>)

cust_type == Prompt("type") \o Unless("number", Return)
cust_data ==
    Prompt("upload") \o If("format", Return, <<>>) \o Test("graphExists", Return, <<>>)
add_graph_cust_command == cust_type \o cust_data \o If("file", upload, <<>>)

add_model_command ==
    Prompt("upload") \o If("format", Return, <<>>) \o Test("modelExists", Return, <<>>)
    \o If("file", Do("model") \o DONE, <<>>)

\* Mutant: the rows of the partitions are forgotten.
removeGraph_leaves ==
    Do("hosts") \o Do("deleting") \o Do("wipe") \o Do("drop_hosts") \o Do("drop_graph")
\* The statements of removeGraph, and the deletions at the workers that held
\* a partition when it began.
removeGraph ==
    Do("hosts") \o Do("deleting") \o Do("wipe")
    \o Do("drop_hosts") \o Do("drop_partitions") \o Do("drop_graph")

remove_graph_command ==
    Prompt("graph") \o Test("graphExistsByID", removeGraph \o DONE, Send("ERROR"))

\* The identifiers are read once; the graph of each is looked up again.
remove_all_graphs_command ==
    Do("all") \o ForEach(Test("graphExistsByID", removeGraph, <<>>)) \o DONE

---------------------------------------------------------------------------
\* Streams from Kafka.

existing_graph ==
    Prompt("graph") \o Test("isGraphIdExist", <<>>, Refuse("not in the system"))
    \o Send("Set data streaming")
new_graph ==
    Do("getNextGraphId") \o Prompt("yn")
    \o Unless("y", Prompt("graph")
                   \o Test("isGraphIdExist", Refuse("already exists"), <<>>)
                   \o Send("Set graph ID"))
partition_technique ==
    Prompt("number") \o If("number", Send("Set partition technique"), Refuse("invalid"))
    \o Prompt("yn") \o Send("Graph type received")
kafka_source == Prompt("yn") \o Unless("y", Prompt("text"))
kafka_topic == Prompt("text") \o Send("Received the kafka topic") \o Do("stoi")

\* The graph of a new stream is inserted under the identifier that was free
\* when it was offered.
start_stream(mark) ==
    Test("registerStream", <<>>, Try("already active") \o Return)
    \o Test("registered", <<>>, Try("Failed to initialize") \o Do("unbook") \o Exit \o Return)
    \o Do(mark) \o Do("listen")
add_stream_kafka_command ==
    Prompt("yn")
    \o If("y", existing_graph \o kafka_source \o kafka_topic \o start_stream("mark_streaming"),
               new_graph \o partition_technique \o kafka_source \o kafka_topic
               \o start_stream("insert_streaming"))

kafka_topics_command == Send("streams")

\* The topic may stand in the command line.  Of several streams of a topic
\* the client chooses one by its graph.
stop_stream_topic == PromptRaw("text") \o If("", Try("Invalid topic name") \o Return, <<>>)
stop_stream_choice ==
    Prompt("graph") \o If("", Try("Graph ID cannot be empty") \o Return, <<>>)
    \o Test("registered", <<>>, Try("No active stream") \o Return)
stop_stream_kafka_command ==
    Either(<<>>, stop_stream_topic)
    \o Test("anyStream", <<>>, Try("No active stream") \o Return)
    \o Either(Do("only_stream"), stop_stream_choice)
    \o Test("signalStreamStop", Send("Stopped") \o Do("unregisterStream"), Send("Error"))

---------------------------------------------------------------------------
\* Files of HDFS.

\* sendClientErrorAndExit does not look at its write.
sendClientErrorAndExit(m) == Leave(m)
requestGraphIdAndValidate ==
    Prompt("graph") \o Test("isGraphIdExist", <<>>, sendClientErrorAndExit("not found"))
requestHdfsServerConfig ==
    Prompt("yn") \o Unless("y", Prompt("text"))
requestHdfsDestinationPath ==
    Prompt("text") \o If("", sendClientErrorAndExit("path empty"), <<>>)
loadWorkerPartitions == Test("hosted", <<>>, sendClientErrorAndExit("no workers"))
prepareHdfsDestination == Perhaps(sendClientErrorAndExit("destination"))

\* One thread for each worker exports its partitions one after the other, and
\* stops when any thread has failed.
exportWorkerShards == Do("exportWorkerPartitions")
mergeShardsAndRespond ==
    If("none", sendClientErrorAndExit("no data"), <<>>)
    \o Unless("all", sendClientErrorAndExit("ERROR"))
    \o Perhaps(sendClientErrorAndExit("ERROR")) \o DONE

send_graph_hdfs_command ==
    requestGraphIdAndValidate \o requestHdfsServerConfig \o requestHdfsDestinationPath
    \o loadWorkerPartitions \o prepareHdfsDestination \o exportWorkerShards
    \o mergeShardsAndRespond

\* The thread of the reader is assigned to the one that may still hold the
\* stream of an earlier command, and joined.  The consumers that send the data
\* are flushed and joined last, in the destructor of the partitioner.
hdfs_questions ==
    Prompt("yn") \o Unless("y", Prompt("text"))
    \o Prompt("text") \o Perhaps(Leave("path is invalid")) \o Prompt("yn") \o Prompt("yn")
hdfs_stream ==
    Do("reader") \o Do("stream_operational") \o Do("partition") \o Do("transfer")
addStreamHDFSCommand ==
    hdfs_questions \o Do("insert_idle") \o hdfs_stream \o Do("end_time") \o DONE

---------------------------------------------------------------------------
\* Knowledge graphs.

kg_server == Prompt("yn") \o Unless("y", Prompt("text") \o Prompt("text")) \o Prompt("text")
kg_reachable == Perhaps(Exit \o Return) \o Perhaps(Leave("not reachable")) \o Perhaps(Leave("path"))
kg_runner == Prompt("text") \o Perhaps(Exit \o Return)
kg_engine == Prompt("text") \o Perhaps(Leave("not reachable"))
kg_model == Prompt("text") \o Perhaps(Exit \o Return) \o Perhaps(Leave("model"))
kg_resume == Prompt("graph") \o Do("stoi")
kg_graph ==
    Test("kgPath", Prompt("yn") \o If("y", kg_resume, Do("insert_running")), Do("insert_running"))
\* The stop flag of the graph is replaced; the thread is put on the list of
\* those that stop_graph_streaming looks at, and detached.
kg_start == Do("stop_flag") \o Do("stream_thread") \o Do("activeStreamThreads")
constructKGStreamHDFSCommand ==
    kg_server \o kg_reachable \o kg_runner \o kg_engine \o kg_model \o Prompt("text")
    \o kg_graph \o kg_start \o Send("Graph Id")

\* A failure of the first write returns without loop_exit.
local_path == Step("askback", "text", 0) \o Perhaps(Leave("invalid file"))
local_settings == PromptRaw("text") \o PromptRaw("text") \o PromptRaw("text") \o PromptRaw("text")
local_graph == Test("kgPath", Do("kg_graph"), Do("insert_running"))
constructKGStreamLocalTXTCommand ==
    local_path \o local_settings \o local_graph
    \o Do("stop_flag") \o Do("local_thread") \o Try("Graph Id")

\* The mutex of the lists is held until the thread has taken the flag back, or
\* a minute has passed; "paused" is recorded either way.
stop_graph_streaming ==
    Prompt("graph") \o Do("lock") \o Do("stoi")
    \o Test("threadMap", Do("raise") \o Do("await_stop") \o Try("DONE") \o Do("paused"),
                         Try("Graph Id not Found"))
    \o Do("unlock")

---------------------------------------------------------------------------
\* Jobs.  The session pushes a request and polls until a response is there.

\* With high priority, with that of a low one, and with a field nobody set.
pushJob(t) == Step("push", t, 0)
pushLowJob(t) == Step("push", t, 1)
pushUnsetJob(t) == Step("push", t, 2)
getResult == Step("result", "", 0)
\* An error ends the session as well.
answer(say) == getResult \o Test("error", Exit \o say \o Return, <<>>)
\* Without an SLA for the graph it is asked what else is running.
calibrate == Either(<<>>, Do("areRunningJobsForSameGraph"))

cypherCommand ==
    Prompt("graph") \o Prompt("text") \o calibrate \o pushJob("CYPHER")
    \o answer(Send("error")) \o DONE
semanticBeamSearch ==
    Prompt("graph") \o Prompt("text") \o calibrate \o pushJob("SEMANTIC_BEAM_SEARCH")
    \o answer(Send("error")) \o DONE

agent_questions ==
    Prompt("graph") \o Prompt("text") \o PromptRaw("text") \o PromptRaw("text") \o PromptRaw("text")
agent_servers == Perhaps(Leave("engine, server or model"))
agent_plan_command ==
    agent_questions \o agent_servers \o pushJob("AGENT_PLAN") \o answer(Try("error")) \o Try("DONE")

priority(t) ==
    If("bad", Exit \o Refuse("Priority should be numeric"), <<>>)
    \o If("high", calibrate \o pushJob(t), pushLowJob(t))
    \o answer(Send("error"))
triangles_command ==
    Prompt("graph")
    \o Test("graphExistsByID", Prompt("priority") \o priority("TRIANGLES") \o Send("count"),
                               Send("does not exist"))
page_rank_arguments == Prompt("graph") \o Do("stod") \o Perhaps(Refuse("INVALID_FORMAT"))
page_rank_command ==
    page_rank_arguments \o Prompt("priority") \o priority("PAGE_RANK") \o DONE

\* A thread of its own pushes the jobs; the session takes their answers until
\* strian_exit.  To return in between destroys that thread while it runs.
strian_round ==
    getResult \o Test("error", Do("abandon"), <<>>) \o Step("row", "count", 0)
strian_loop == While(Step("strian", "", Len(strian_round) + 2), strian_round)
streaming_triangles_command ==
    Prompt("graph") \o Prompt("text") \o Do("strian_start") \o strian_loop \o Do("strian_join")
stop_strian_command == Do("strian_exit")

---------------------------------------------------------------------------
\* The remaining commands of the console.

\* The counts of a graph that is still being loaded are empty, and stoi of
\* nothing throws.
count == Test("graphExistsByID", Do("stoi_count") \o Send("count"), Send("does not exist"))
vertex_count_command == Prompt("graph") \o count
edge_count_command == Prompt("graph") \o count

simple == Prompt("graph") \o DONE
in_degree_command == simple
out_degree_command == simple
egonet_command == simple
duplicate_centralstore_command == simple

merge_command == Send("Available main flags") \o Prompt("flags")
    \o If("flags", DONE, INVALID_FORMAT)
train_command ==
    Send("Available main flags") \o Prompt("flags") \o Unless("flags", Refuse("INVALID_FORMAT"))
    \o Test("isGraphActive", <<>>, Refuse("Graph is not in the active status")) \o DONE
predict_command == Prompt("flags") \o Unless("flags", INVALID_FORMAT)
start_remote_worker_command == Prompt("flags") \o Unless("flags", Refuse("INVALID_FORMAT"))
process_dataset_command == Prompt("text") \o If("", Refuse("INVALID_FORMAT"), <<>>)
sla_command == Prompt("text") \o writeSocketResultOrEmpty

---------------------------------------------------------------------------
\* The web front end.

ui_list_command == Send("graphs")
ui_get_properties_command == Send("properties")
ui_send_uploaded_bytes == Given("graph") \o Test("graphExistsByID", <<>>, <<>>) \o Try("bytes")
ui_add_graph_command ==
    Given("upload") \o Send("SEND") \o Test("graphExists", Return, <<>>) \o If("file", upload, <<>>)
ui_remove_graph_command ==
    Given("graph") \o Test("graphExistsByID", removeGraph \o DONE, Send("ERROR"))
ui_remove_all_graphs_command == remove_all_graphs_command
ui_triangles_command ==
    Given("graph")
    \o Test("graphExistsByID", Given("priority") \o priority("TRIANGLES") \o Send("count"),
                               Send("does not exist"))
ui_get_degree_command == Given("graph") \o Repeat(Send("point")) \o Send("-1")

\* The rows come from threads nobody joins.  One that cannot reach its worker,
\* or loses it, returns without a "-1": the loops that count the "-1" of all
\* partitions spin for ever, and the merge blocks in get.
ui_average == Perhaps(Hang) \o Try("-1") \o Try("average")
ui_ordered == Perhaps(Hang) \o Repeat(SendBack("row") \o Perhaps(Hang))
ui_plain == Repeat(Try("row")) \o Perhaps(Hang) \o Try("-1")
ui_cypher_ast_command ==
    Given("graph") \o Do("stoi")
    \o Either(Either(ui_average, Either(ui_ordered, Try("not implemented"))), ui_plain)
ui_semantic_beam_search_command ==
    Given("graph") \o If("", Leave("missing"), <<>>)
    \o pushUnsetJob("SEMANTIC_BEAM_SEARCH") \o answer(Try("error")) \o Try("done")

---------------------------------------------------------------------------
\* The commands by name.

Console ==
    [lst |-> list_command, cypher |-> cypherCommand, sbs |-> semanticBeamSearch,
     agent_plan |-> agent_plan_command, shdn |-> Do("shutdown"), adrdf |-> add_rdf_command,
     adgr |-> add_graph_command, admdl |-> add_model_command,
     adgr_cust |-> add_graph_cust_command, add_stream_kafka |-> add_stream_kafka_command,
     ktop |-> kafka_topics_command, add_stream_hdfs |-> addStreamHDFSCommand,
     send_graph_hdfs |-> send_graph_hdfs_command,
     construct_kg |-> constructKGStreamHDFSCommand,
     construct_kg_local |-> constructKGStreamLocalTXTCommand,
     stop_construct_kg |-> stop_graph_streaming,
     stop_stream_kafka |-> stop_stream_kafka_command, rmgr |-> remove_graph_command,
     truncate |-> remove_all_graphs_command, process_dataset |-> process_dataset_command,
     trian |-> triangles_command, strian |-> streaming_triangles_command,
     stop_strian |-> stop_strian_command, vcnt |-> vertex_count_command,
     ecnt |-> edge_count_command, merge |-> merge_command, train |-> train_command,
     idd |-> in_degree_command, odd |-> out_degree_command, pgrnk |-> page_rank_command,
     egn |-> egonet_command, dpcntrl |-> duplicate_centralstore_command,
     predict |-> predict_command, start_remote_worker |-> start_remote_worker_command,
     sla |-> sla_command, unknown |-> Try("INVALID_FORMAT")]

UI ==
    [lst |-> ui_list_command, adgr |-> ui_add_graph_command, trian |-> ui_triangles_command,
     rmgr |-> ui_remove_graph_command, truncate |-> ui_remove_all_graphs_command,
     idd |-> ui_get_degree_command, odd |-> ui_get_degree_command,
     cypher |-> ui_cypher_ast_command, sbs |-> ui_semantic_beam_search_command,
     properties |-> ui_get_properties_command,
     construct_kg |-> constructKGStreamHDFSCommand,
     construct_kg_local |-> constructKGStreamLocalTXTCommand,
     stop_construct_kg |-> stop_graph_streaming, upbytes |-> ui_send_uploaded_bytes,
     unknown |-> Send("INVALID_FORMAT")]
=============================================================================
