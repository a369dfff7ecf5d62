--------------------------- MODULE WorkerHandlers ---------------------------
(***************************************************************************)
(* The worker's side of every command of JasmineGraphInstanceService: what   *)
(* each *_command handler sends, reads and does, in its order.  A failing    *)
(* send, or a text that is not the expected one, sets loop_exit and the      *)
(* session closes the socket.  The work itself is one effect (Do), named     *)
(* after what it leaves behind.                                              *)
(***************************************************************************)
EXTENDS Dialogue

---------------------------------------------------------------------------
\* Sessions and files.

handshake_command_mute == Take("HANDSHAKE_OK", "masterIP")
handshake_command == Take("HANDSHAKE_OK", "masterIP") \o Send("HOST_OK")

\* The file comes over the data port while the master asks for it.
receive_file ==
    Parse("size") \o WaitFile
    \o UnlessWhole(Await("FILE_RECV_CHK", "FILE_RECV_WAIT"))
    \o Await("FILE_RECV_CHK", "FILE_ACK")

batch_upload_common(record) ==
    Take("OK", "graphID") \o Take("SEND_FILE_NAME", "fileName")
    \o Take("SEND_FILE_LEN", "size") \o Send("SEND_FILE_CONT")
    \o receive_file \o Exit \o Unzip \o record
    \o UnlessRaw(Await("BATCH_UPLOAD_CHK", "BATCH_UPLOAD_WAIT"))
    \o Await("BATCH_UPLOAD_CHK", "BATCH_UPLOAD_ACK")

batch_upload_command == batch_upload_common(Attempt("cataloguing", "catalog"))
batch_upload_central_command == batch_upload_common(<<>>)

\* A wrong FILE_RECV_CHK is refused while the file is short and only logged
\* once it is complete; the last question may be anything.
send_centralstore_to_aggregator_command ==
    Take("SEND_FILE_NAME", "fileName") \o Take("SEND_FILE_LEN", "size")
    \o Send("SEND_FILE_CONT") \o Parse("size") \o WaitFile
    \o UnlessWhole(Await("FILE_RECV_CHK", "FILE_RECV_WAIT"))
    \o Read("FILE_RECV_CHK") \o Send("FILE_ACK")
    \o Exit \o Unzip \o Do("aggregate_file")
    \o Hear \o If("BATCH_UPLOAD_CHK", Send("BATCH_UPLOAD_ACK"), <<>>)

\* The composite file has a conversation of its own, with the same words.
send_composite_centralstore_to_aggregator_command ==
    send_centralstore_to_aggregator_command

push_partition_command ==
    Take("OK", "hostDataPort") \o Parse("hostDataPort")
    \o Take("OK", "graphIDPartitionID") \o Parse("graphIDPartitionID")
    \o Either(Do("pushed") \o Send("OK"), Send("ERROR"))

\* The name of an unknown type is not asked for.
check_file_accessible_command ==
    Send("SEND_FILE_TYPE") \o Hear
    \o If("FILE_TYPE_CENTRALSTORE_AGGREGATE",
          Take("OK", "graphId") \o Take("OK", "partitionId"),
          If("FILE_TYPE_CENTRALSTORE_COMPOSITE", Take("OK", "fileName"), <<>>))
    \o Send("accessible")

---------------------------------------------------------------------------
\* Deleting.  deleteGraphPartition returns a status, which nobody looks at.

delete_graph_command_early ==
    Take("OK", "graphID") \o Take("SEND_PARTITION_ID", "partitionID")
    \o Send("OK") \o Attempt("deleting", "deleted")
delete_graph_command_vague ==
    Take("OK", "graphID") \o Take("OK", "partitionID")
    \o Attempt("deleting", "deleted") \o Send("OK")
delete_graph_command ==
    Take("OK", "graphID") \o Take("SEND_PARTITION_ID", "partitionID")
    \o Attempt("deleting", "deleted") \o Send("OK")

delete_graph_fragment_command ==
    Take("OK", "graphID") \o Attempt("deleting", "deleted") \o Send("OK")

\* The list of unknown graphs may be empty, and then nothing is sent.
initiate_fragment_resolution_command_quiet ==
    Send("OK") \o ReadUntil("FRAGMENT_RESOLUTION_DONE", <<>>) \o Maybe(Send("graphIDList"))
initiate_fragment_resolution_command ==
    Send("OK")
    \o ReadUntil("FRAGMENT_RESOLUTION_DONE", Send("FRAGMENT_RESOLUTION_CHK"))
    \o Maybe(Send("graphIDList"))

---------------------------------------------------------------------------
\* Graph algorithms.

worker_arguments ==
    Take("OK", "graphID") \o Take("OK", "partitionID") \o Take("OK", "workerList")

duplicate_centralstore_command ==
    worker_arguments \o Parse("graphID") \o Parse("partitionID") \o Do("duplicated")

degree_distribution_common ==
    worker_arguments \o Do("distribution") \o Exit

\* The three worker_ commands that follow, and SEND_PRIORITY, are served, and
\* no function of the repository sends them.
worker_in_degree_distribution_command ==
    worker_arguments \o Do("local_distribution") \o Exit

\* This one does not set loop_exit: the session waits for another command.
worker_out_degree_distribution_command ==
    Take("OK", "graphID") \o Take("OK", "partitionID") \o Do("local_distribution")

page_rank_arguments ==
    worker_arguments \o Take("OK", "graphVertexCount")
    \o TakeNum("OK", "alpha") \o TakeNum("OK", "iterations") \o Send("OK")

page_rank_command ==
    page_rank_arguments \o Do("page_rank") \o Exit \o Send("OK")

worker_page_rank_distribution_command ==
    page_rank_arguments \o Do("local_page_rank")

\* The sends after the first only log a success.
egonet_command ==
    Take("OK", "graphID") \o Try("OK") \o Read("partitionID")
    \o Try("OK") \o Read("workerList") \o Try("OK") \o Do("egonet")

worker_egonet_command ==
    worker_arguments \o Send("OK") \o Do("local_egonet")

triangles_command ==
    Take("OK", "graphID") \o Take("OK", "partitionId") \o Take("OK", "priority")
    \o Take("OK", "traceContext") \o Parse("priority")
    \o Do("local_triangles") \o Send("triangles")

\* The old counts are parsed only in the dynamic mode.
streaming_triangles_command ==
    Take("OK", "graphID") \o Take("OK", "partitionId")
    \o Take("OK", "oldLocalRelationCount") \o Take("OK", "oldCentralRelationCount")
    \o Take("OK", "mode")
    \o Either(Parse("oldLocalRelationCount") \o Parse("oldCentralRelationCount"), <<>>)
    \o Do("local_triangles")
    \o Ask("newLocalRelationCount", "OK") \o Ask("newCentralRelationCount", "OK")
    \o Send("triangles")

\* A result without triangles is an empty text, and then nothing is sent.
aggregate_centralstore_triangles_command ==
    Take("OK", "graphId") \o Take("OK", "partitionId") \o Take("OK", "partitionIdList")
    \o Take("OK", "priority") \o Parse("priority")
    \o Take("OK", "traceContext")
    \o Do("central_triangles") \o Maybe(Chunks("triangles/SEND", "triangles/CMPT"))

aggregate_streaming_centralstore_triangles_command ==
    Take("OK", "graphId") \o Take("OK", "partitionId") \o Take("OK", "partitionIdList")
    \o Take("OK", "centralCountList") \o Take("OK", "priority") \o Take("OK", "mode")
    \o Parse("priority") \o Do("central_triangles")
    \o Either(Chunks("triangles/SEND", "triangles/CMPT"),
              Try("triangles/CMPT") \o Exit)

aggregate_composite_centralstore_triangles_command ==
    Take("OK", "availableFiles") \o Send("OK") \o TakeChunks(Send("/SEND"), "compositeFileList/CMPT")
    \o TakeNum("OK", "priority")
    \o Do("central_triangles") \o Maybe(Chunks("triangles/SEND", "triangles/CMPT"))

---------------------------------------------------------------------------
\* Training and prediction.

\* The last word of the text is the partition; an empty text has none.
initiate_files_command ==
    Take("OK", "trainData") \o Parse("trainData") \o Do("partition_files")

initiate_command_common == Take("OK", "trainData") \o Do("started")

\* SEND_PARTITION_ITERATION asks for the count as well.
initiate_train_command ==
    Take("OK", "trainData") \o Parse("trainData") \o Do("partition_files")
    \o Take("SEND_PARTITION_ITERATION", "partIteration")
    \o Take("SEND_PARTITION_ITERATION", "partCount") \o Parse("partIteration")
    \o Do("trained")

\* Three arguments are read one after the other, with no reply between them.
initiate_predict_command ==
    Take("OK", "graphID") \o Read("vertexCount") \o Read("ownPartitions")
    \o Take("SEND_HOSTS", "hostList") \o Take("SEND_FILE_NAME", "fileName")
    \o Take("SEND_FILE_LEN", "size") \o Send("SEND_FILE_CONT") \o Parse("size")
    \o UnlessWhole(Hear \o If("FILE_RECV_CHK", Send("FILE_RECV_WAIT"), <<>>))
    \o Hear \o If("FILE_RECV_CHK", Send("FILE_ACK"), <<>>)
    \o Parse("ownPartitions") \o Do("predicted") \o Exit

\* Five arguments are read one after the other.  The model goes to the data
\* port of the worker that asked.
initiate_model_collection_command ==
    Take("OK", "serverHostName") \o Read("serverHostPort")
    \o Read("serverHostDataPort") \o Read("graphID") \o Read("partitionID")
    \o Hear
    \o If("SEND_FILE_NAME",
          Send("fileName") \o Hear
          \o If("SEND_FILE_LEN",
                Send("fileLength") \o Hear
                \o If("SEND_FILE_CONT", Parse("serverHostDataPort") \o SendFile, <<>>),
                <<>>),
          <<>>)
    \o Poll("FILE_RECV_CHK", "FILE_ACK") \o Poll("BATCH_UPLOAD_CHK", "BATCH_UPLOAD_ACK")
    \o Exit

---------------------------------------------------------------------------
\* Statistics and priority.

start_stat_collection_command == Send("OK") \o Do("collecting")

send_priority_command == TakeNum("OK", "priority") \o Do("priority")

---------------------------------------------------------------------------
\* Streamed edges and queries.

graph_stream_start_command ==
    Send("GRAPH_STREAM_START_ACK") \o TakeSized("edge")
    \o Do("edge") \o Send("GRAPH_STREAM_END_OF_EDGE")

\* Every row is published in four messages and their answers; an error only
\* drops the row.
dataPublishToMaster(row) ==
    Try("QUERY_DATA_START") \o Listen("QUERY_DATA_ACK")
    \o Try("int") \o Listen("GRAPH_STREAM_C_length_ACK")
    \o Try(row) \o Listen("GRAPH_DATA_SUCCESS")

handleRequest == Repeat(dataPublishToMaster("row")) \o dataPublishToMaster("-1")

query_start_target ==
    Send("QUERY_START_ACK") \o TakeSized("masterIp") \o TakeSized("graphId")
    \o TakeSized("partition")

query_start_command ==
    query_start_target \o TakeSized("message") \o TakeSized("traceContext")
    \o handleRequest \o Do("answered") \o Send("GRAPH_STREAM_END_OF_EDGE")

sub_query_start_command ==
    Send("SUB_QUERY_START_ACK") \o TakeSized("graphId") \o TakeSized("partition")
    \o TakeSized("message")
    \o handleRequest \o Do("answered") \o Send("GRAPH_STREAM_END_OF_EDGE")

\* The query is acknowledged a second time and the length of the list of
\* workers is not: the master reads one acknowledgement per field.
semantic_beam_search_arguments ==
    Send("QUERY_START_ACK") \o TakeSized("graphId") \o TakeSized("partition")
    \o TakeSized("query") \o Send("GRAPH_STREAM_C_length_ACK")
    \o Exact("int") \o Read("workerList")

semantic_beam_search ==
    semantic_beam_search_arguments \o handleRequest \o Do("answered") \o Exit

semantic_search_expand_node_remote_batch ==
    Try("OK") \o Read("graphID") \o Try("OK")
    \o Blindly("int") \o Blindly("request") \o Parse("graphID")
    \o Do("expanded") \o Try("int") \o Try("response") \o Exit

\* readField throws, and nothing catches it.
graphrag_arguments ==
    OnFail("die")
    \o TakeSized("graphId") \o TakeSized("masterIp") \o TakeSized("query")
    \o TakeSized("llmRunner") \o TakeSized("llmEngine") \o TakeSized("llmModel")
    \o TakeSized("workerList")

\* Every objective of the plan has its answer and its end line; a plan
\* without a beam search is answered with nothing.
graphrag_answer == Do("answered") \o Repeat(Try("answer_chunk")) \o Try("end")

graphrag_command ==
    graphrag_arguments \o Maybe(graphrag_answer \o Repeat(graphrag_answer))

---------------------------------------------------------------------------
\* Knowledge graph construction: the worker that runs the pipeline, and the
\* workers that extract tuples for it.

kg_settings ==
    Take("OK", "graphID") \o Send("OK") \o Hear \o Send("OK")
    \o If("y", Read("startFromBytes") \o Parse("startFromBytes") \o Send("OK"), <<>>)
    \o Read("llm_runner") \o Take("OK", "llm_inference_engine") \o Take("OK", "llm")
    \o Take("OK", "chunkSize") \o Take("OK", "chunksPerBatch")
    \o TakeNum("OK", "noOfPartitions")

\* The lists of workers and of language model runners, once read.
kg_runners == Take("OK", "workersIP") \o Send("OK") \o Parse("workersIP")

\* The meta thread reports every few minutes, and the pipeline once more at
\* its end.
kg_report ==
    Try("meta") \o Hear \o Try("int") \o Listen("OK") \o Try("meta_data")
    \o Try("bytes") \o Hear

kg_pipeline ==
    Repeat(kg_report) \o Do("stored") \o Try("meta") \o Hear
    \o Send("int") \o Match("OK") \o Send("meta_data") \o Try("done") \o Hear

streaming_kg_construction ==
    kg_settings \o Take("OK", "hdfsServerUrl") \o Take("OK", "hdfsPort")
    \o Take("OK", "masterIP") \o kg_runners
    \o Read("hdfsPath") \o Send("OK") \o Parse("graphID") \o kg_pipeline \o Exit

streaming_kg_construction_local ==
    kg_settings \o Take("OK", "masterIP") \o kg_runners
    \o Read("localFilePath") \o Take("OK", "size") \o Send("OK")
    \o receive_file \o Parse("graphID") \o kg_pipeline \o Exit

tuple_settings ==
    Try("OK") \o Read("graphID") \o Try("OK") \o Read("llmHost")
    \o Try("OK") \o Read("llmInferenceEngine") \o Try("OK") \o Read("llm") \o Try("OK")

\* The consumer thread: "stop" ends it, and so does the end marker, which a
\* silence of idleTimeoutSec sends as well.
tuple(m) == Try("int") \o Listen("GRAPH_STREAM_C_length_ACK") \o Try(m) \o Hear
tuples ==
    Try("QUERY_DATA_START") \o Hear \o If("OK", <<>>, Exit \o Shut)
    \o Repeat(tuple("tuple") \o If("stop", Goto(Len(tuple("-1")) + 3), <<>>))
    \o tuple("-1")

tuple_chunk ==
    Try("OK") \o Blindly("int") \o Try("GRAPH_STREAM_C_length_ACK")
    \o Blindly("chunk") \o Try("GRAPH_DATA_SUCCESS")
    \o Blindly("int") \o Try("GRAPH_STREAM_C_length_ACK") \o Blindly("traceContext")
    \o tuples \o Do("extracted")

streaming_tuple_extraction ==
    tuple_settings \o Hear
    \o If("QUERY_DATA_START", tuple_chunk \o Goto(0 - Len(tuple_chunk) - 2),
          If("CHUNK_STREAM_END", Try("OK"), <<>>))

---------------------------------------------------------------------------
\* HDFS: a chunk of edges to store, and the export of a partition.

\* While the chunk is stored, a thread says FILE_RECV_WAIT every second
\* without being asked.  processFile may return without having stored anything,
\* and FILE_ACK is sent all the same.
hdfs_start_stream_command ==
    Take("HDFS_STREAM_START_ACK", "isEmbedGraph")
    \o Take("HDFS_STREAM_IS_EMBED_ACK", "fileName")
    \o TakeNum("HDFS_STREAM_FILE_NAME_ACK", "size")
    \o Send("HDFS_STREAM_FILE_SIZE_ACK")
    \o receive_file
    \o Await("HDFS_STREAM_END_CHK", "HDFS_STREAM_END_ACK")
    \o Repeat(Try("FILE_RECV_WAIT")) \o Attempt("storing", "chunk_stored")
    \o Send("FILE_ACK")

send_edges_to_hdfs_command ==
    Take("OK", "graphID") \o Take("SEND_PARTITION_ID", "partitionID")
    \o Take("OK", "hdfsHost") \o Take("OK", "hdfsPort") \o Take("OK", "hdfsPath")
    \o Either(Do("exported") \o Send("OK"), Send("ERROR"))

---------------------------------------------------------------------------
\* What instanceservicesession does with a command.  CLOSE, an unknown text
\* and several texts read as one all set loop_exit.
Handler ==
    [HANDSHAKE |-> handshake_command,
     BATCH_UPLOAD |-> batch_upload_command,
     BATCH_UPLOAD_CENTRAL |-> batch_upload_central_command,
     DELETE_GRAPH |-> delete_graph_command,
     DELETE_GRAPH_FRAGMENT |-> delete_graph_fragment_command,
     DP_CENTRALSTORE |-> duplicate_centralstore_command,
     IN_DEGREE_DISTRIBUTION |-> degree_distribution_common,
     WORKER_IN_DEGREE_DISTRIBUTION |-> worker_in_degree_distribution_command,
     WORKER_OUT_DEGREE_DISTRIBUTION |-> worker_out_degree_distribution_command,
     PAGE_RANK |-> page_rank_command,
     WORKER_PAGE_RANK_DISTRIBUTION |-> worker_page_rank_distribution_command,
     EGO_NET |-> egonet_command,
     WORKER_EGO_NET |-> worker_egonet_command,
     TRIANGLES |-> triangles_command,
     INITIATE_STREAMING_TRIAN |-> streaming_triangles_command,
     INITIATE_STREAMING_KG_CONSTRUCTION |-> streaming_kg_construction,
     INITIATE_LOCAL_STREAMING_KG_CONSTRUCTION |-> streaming_kg_construction_local,
     INITIATE_STREAMING_TUPLE_CONSTRUCTION |-> streaming_tuple_extraction,
     AGENT_PLAN |-> graphrag_command,
     SEND_CENTRALSTORE_TO_AGGREGATOR |-> send_centralstore_to_aggregator_command,
     SEND_COMPOSITE_CENTRALSTORE_TO_AGGREGATOR |->
         send_composite_centralstore_to_aggregator_command,
     AGGREGATE_CENTRALSTORE_TRIANGLES |-> aggregate_centralstore_triangles_command,
     AGGREGATE_STREAMING_CENTRALSTORE_TRIANGLES |->
         aggregate_streaming_centralstore_triangles_command,
     AGGREGATE_COMPOSITE_CENTRALSTORE_TRIANGLES |->
         aggregate_composite_centralstore_triangles_command,
     INITIATE_FILES |-> initiate_files_command,
     INITIATE_SERVER |-> initiate_command_common,
     START_STAT_COLLECTION |-> start_stat_collection_command,
     INITIATE_TRAIN |-> initiate_train_command,
     INITIATE_PREDICT |-> initiate_predict_command,
     INITIATE_MODEL_COLLECTION |-> initiate_model_collection_command,
     INITIATE_FRAGMENT_RESOLUTION |-> initiate_fragment_resolution_command,
     CHECK_FILE_ACCESSIBLE |-> check_file_accessible_command,
     GRAPH_STREAM_START |-> graph_stream_start_command,
     SEND_PRIORITY |-> send_priority_command,
     PUSH_PARTITION |-> push_partition_command,
     HDFS_LOCAL_STREAM_START |-> hdfs_start_stream_command,
     SEND_EDGES_TO_HDFS |-> send_edges_to_hdfs_command,
     QUERY_START |-> query_start_command,
     SUB_QUERY_START |-> sub_query_start_command,
     SEMANTIC_BEAM_SEARCH |-> semantic_beam_search,
     EXPAND_NODE_BATCH |-> semantic_search_expand_node_remote_batch]
=============================================================================
