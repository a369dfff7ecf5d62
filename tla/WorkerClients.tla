--------------------------- MODULE WorkerClients ----------------------------
(***************************************************************************)
(* The other side of every worker command: the functions of the master, of   *)
(* its executors and of other workers that open a connection to              *)
(* JasmineGraphInstanceService and talk to a handler.  OnFail gives what the  *)
(* function does with its socket when a send fails or a text is not the       *)
(* expected one; a function that only logs the failure of a send uses Try.    *)
(***************************************************************************)
EXTENDS Dialogue

---------------------------------------------------------------------------
\* Opening a session.

performHandshake == Ask("HANDSHAKE", "HANDSHAKE_OK") \o Ask("masterIP", "HOST_OK")

\* Most functions send CLOSE on any error.
session == OnFail("bye") \o performHandshake
\* The streaming executors keep their sockets open between two counts.
kept_session == OnFail("leak") \o performHandshake

initWorkerSession == session

\* The triangle executors write without looking at the result, and an answer
\* other than HOST_OK is only logged.
logged_session ==
    OnFail("bye") \o Try("HANDSHAKE") \o Expect("HANDSHAKE_OK")
    \o Try("masterIP") \o Read("HOST_OK")
TryAsk(m, r) == Try(m) \o Expect(r)

---------------------------------------------------------------------------
\* JasmineGraphServer: deleting graphs and asking which are known.

resolveOperationalGraphs ==
    session \o Ask("INITIATE_FRAGMENT_RESOLUTION", "OK")
    \o Repeat(Ask("partitionsList", "FRAGMENT_RESOLUTION_CHK"))
    \o Send("FRAGMENT_RESOLUTION_DONE") \o Read("graphIDList") \o Bye

removeFragmentThroughService_kept ==
    initWorkerSession \o Ask("DELETE_GRAPH_FRAGMENT", "OK") \o Ask("graphID", "OK")
removeFragmentThroughService ==
    initWorkerSession \o Ask("DELETE_GRAPH_FRAGMENT", "OK")
    \o OnFail("shut") \o Ask("graphID", "OK") \o Bye

removePartitionThroughService ==
    initWorkerSession \o Ask("DELETE_GRAPH", "OK")
    \o OnFail("shut") \o Ask("graphID", "SEND_PARTITION_ID")
    \o OnFail("bye") \o Ask("partitionID", "OK") \o Bye

\* JasmineGraphServer: algorithms without a handshake.  The last argument and
\* CLOSE follow each other with no answer between them.

degreeDistributionCommon ==
    OnFail("bye") \o Ask("IN_DEGREE_DISTRIBUTION", "OK") \o Ask("graphID", "OK")
    \o Ask("partitionID", "OK") \o Send("workerList") \o Bye

duplicateCentralStore ==
    OnFail("bye") \o Ask("DP_CENTRALSTORE", "OK") \o Ask("graphID", "OK")
    \o Ask("partitionID", "OK") \o OnFail("shut") \o Send("workerList") \o Bye

egoNet ==
    OnFail("bye") \o Ask("EGO_NET", "OK") \o Ask("graphID", "OK")
    \o Ask("partitionID", "OK") \o Ask("workerList", "OK") \o Bye

\* JasmineGraphServer: training.

initiateCommon ==
    session \o Either(Ask("INITIATE_FILES", "OK"), Ask("INITIATE_SERVER", "OK"))
    \o Send("trainData") \o Bye

sendTrainCommand ==
    OnFail("bye") \o Ask("INITIATE_TRAIN", "OK") \o Send("trainData") \o Bye

---------------------------------------------------------------------------
\* Utils: files, partitions and queries.

uploadFileToWorker ==
    session \o Ask("BATCH_UPLOAD", "OK") \o Ask("graphID", "SEND_FILE_NAME")
    \o Ask("fileName", "SEND_FILE_LEN") \o Ask("size", "SEND_FILE_CONT") \o SendFile
    \o Poll("FILE_RECV_CHK", "FILE_ACK") \o Poll("BATCH_UPLOAD_CHK", "BATCH_UPLOAD_ACK")
    \o Bye

\* After the end is acknowledged the master only reads, until FILE_ACK.
sendFileChunkToWorker ==
    OnFail("bye") \o Ask("HDFS_LOCAL_STREAM_START", "HDFS_STREAM_START_ACK")
    \o Ask("isEmbedGraph", "HDFS_STREAM_IS_EMBED_ACK")
    \o Ask("fileName", "HDFS_STREAM_FILE_NAME_ACK")
    \o Ask("size", "HDFS_STREAM_FILE_SIZE_ACK") \o SendFile
    \o Poll("FILE_RECV_CHK", "FILE_ACK")
    \o Poll("HDFS_STREAM_END_CHK", "HDFS_STREAM_END_ACK")
    \o ReadUntil("FILE_ACK", <<>>) \o Bye

transferPartition ==
    session \o Ask("PUSH_PARTITION", "OK") \o Ask("hostDataPort", "OK")
    \o Ask("graphIDPartitionID", "OK") \o Bye

\* The rows of an answer, until the end marker.  A text that is not
\* QUERY_DATA_START ends the loop for the master, and is read over by the
\* worker that asked another one; a row that is cut off is blank for the
\* master and an error for the worker.
take_row(text) ==
    Try("QUERY_DATA_ACK") \o Exact("int") \o Try("GRAPH_STREAM_C_length_ACK")
    \o text \o Try("GRAPH_DATA_SUCCESS")
take_rows(text, otherwise) ==
    Hear \o If("QUERY_DATA_START",
               take_row(text) \o If("-1", <<>>, Goto(0 - Len(take_row(text)) - 4)),
               otherwise)

SendField(m) ==
    OnFail("bye") \o Send("int") \o Match("GRAPH_STREAM_C_length_ACK")
    \o OnFail("shut") \o Send(m)

sendQueryPlanToWorker ==
    OnFail("bye") \o Ask("QUERY_START", "QUERY_START_ACK")
    \o SendField("masterIp") \o SendField("graphId") \o SendField("partition")
    \o SendField("message") \o SendField("traceContext")
    \o OnFail("leak") \o take_rows(Listen("any"), <<>>)

sendSbsField(m) == Try("int") \o Check(m) \o Exact("GRAPH_STREAM_C_length_ACK")

sendSbsQueryPlanToWorker ==
    OnFail("bye") \o Ask("SEMANTIC_BEAM_SEARCH", "QUERY_START_ACK") \o OnFail("shut")
    \o sendSbsField("graphId") \o sendSbsField("partition") \o sendSbsField("query")
    \o sendSbsField("workerList") \o OnFail("leak")
    \o take_rows(Listen("any"), <<>>) \o Shut

sendDataFromWorkerToWorker ==
    session \o OnFail("shut") \o Send("SUB_QUERY_START") \o Match("SUB_QUERY_START_ACK")
    \o SendField("graphId") \o SendField("partition") \o SendField("message")
    \o OnFail("leak") \o take_rows(Exact("any"), Goto(0 - Len(take_row(Exact("any"))) - 6))

---------------------------------------------------------------------------
\* TriangleCountExecutor.

getTriangleCount ==
    logged_session \o TryAsk("TRIANGLES", "OK") \o TryAsk("graphID", "OK")
    \o TryAsk("partitionId", "OK") \o TryAsk("priority", "OK")
    \o Try("traceContext") \o Read("triangles") \o Bye

isFileAccessibleToWorker ==
    logged_session \o TryAsk("CHECK_FILE_ACCESSIBLE", "SEND_FILE_TYPE")
    \o Either(TryAsk("FILE_TYPE_CENTRALSTORE_AGGREGATE", "OK") \o TryAsk("graphId", "OK")
              \o Try("partitionId"),
              TryAsk("FILE_TYPE_CENTRALSTORE_COMPOSITE", "OK") \o Try("fileName"))
    \o Read("accessible") \o Bye

\* The file is asked for even when the worker did not take its name.
copy_file ==
    Hear
    \o If("SEND_FILE_NAME",
          Try("fileName") \o Hear
          \o If("SEND_FILE_LEN",
                Try("size") \o Hear \o If("SEND_FILE_CONT", SendFile, <<>>), <<>>), <<>>)
    \o Nag("FILE_RECV_CHK", "FILE_ACK") \o Nag("BATCH_UPLOAD_CHK", "BATCH_UPLOAD_ACK")

copyCentralStoreToAggregator ==
    logged_session \o Try("SEND_CENTRALSTORE_TO_AGGREGATOR") \o copy_file \o Bye

copyCompositeCentralStoreToAggregator ==
    logged_session \o Try("SEND_COMPOSITE_CENTRALSTORE_TO_AGGREGATOR") \o copy_file \o Bye

\* The trace context is empty when tracing is off, and write then sends
\* nothing.
countCentralStoreTriangles ==
    logged_session \o TryAsk("AGGREGATE_CENTRALSTORE_TRIANGLES", "OK")
    \o TryAsk("graphId", "OK") \o TryAsk("partitionId", "OK")
    \o TryAsk("partitionIdList", "OK") \o TryAsk("priority", "OK")
    \o Maybe(Try("traceContext")) \o TakeChunks(Try("/SEND"), "triangles/CMPT") \o Bye

countCompositeCentralStoreTriangles ==
    logged_session \o TryAsk("AGGREGATE_COMPOSITE_CENTRALSTORE_TRIANGLES", "OK")
    \o TryAsk("availableFiles", "OK")
    \o Maybe(Chunks("compositeFileList/SEND", "compositeFileList/CMPT")) \o Expect("OK")
    \o Try("priority") \o TakeChunks(Try("/SEND"), "triangles/CMPT") \o Bye

---------------------------------------------------------------------------
\* StreamingTriangleCountExecutor.

streaming_getTriangleCount ==
    kept_session \o Ask("INITIATE_STREAMING_TRIAN", "OK") \o Ask("graphID", "OK")
    \o Ask("partitionId", "OK") \o Ask("oldLocalRelationCount", "OK")
    \o Ask("oldCentralRelationCount", "OK") \o Send("mode")
    \o Read("newLocalRelationCount") \o Take("OK", "newCentralRelationCount")
    \o Take("OK", "triangles")

streaming_countCentralStoreTriangles ==
    kept_session \o Ask("AGGREGATE_STREAMING_CENTRALSTORE_TRIANGLES", "OK")
    \o Ask("graphId", "OK") \o Ask("partitionId", "OK") \o Ask("partitionIdList", "OK")
    \o Ask("centralCountList", "OK") \o Ask("priority", "OK") \o Send("mode")
    \o TakeChunks(Try("/SEND"), "triangles/CMPT")

---------------------------------------------------------------------------
\* Page rank, link prediction and statistics.

\* The socket is never closed.
doPageRank ==
    OnFail("leak") \o Ask("PAGE_RANK", "OK") \o Ask("graphID", "OK")
    \o Ask("partitionID", "OK") \o TryAsk("workerList", "OK")
    \o TryAsk("graphVertexCount", "OK") \o Ask("alpha", "OK") \o Ask("iterations", "OK")

\* The host and the command follow each other, and so do the three arguments.
sendQueryToWorker ==
    OnFail("shut") \o TryAsk("HANDSHAKE", "HANDSHAKE_OK")
    \o Try("masterIP") \o TryAsk("INITIATE_PREDICT", "OK")
    \o Try("graphID") \o Try("vertexCount") \o Try("ownPartitions") \o Expect("SEND_HOSTS")
    \o Try("hostList") \o Hear
    \o If("SEND_FILE_NAME",
          Try("fileName") \o Hear
          \o If("SEND_FILE_LEN",
                Try("size") \o Hear \o If("SEND_FILE_CONT", SendFile, <<>>), <<>>), <<>>)
    \o Nag("FILE_RECV_CHK", "FILE_ACK") \o Shut

initiateCollectingRemoteSLAResourceUtilization ==
    OnFail("bye") \o TryAsk("HANDSHAKE", "HANDSHAKE_OK") \o TryAsk("masterIP", "HOST_OK")
    \o TryAsk("START_STAT_COLLECTION", "OK") \o Bye

---------------------------------------------------------------------------
\* Workers that ask other workers.

\* The file comes to this side's data port.
collectTrainedModelThreadFunction ==
    OnFail("bye") \o TryAsk("HANDSHAKE", "HANDSHAKE_OK")
    \o Try("masterIP") \o TryAsk("INITIATE_MODEL_COLLECTION", "OK")
    \o Try("serverHostName") \o Try("serverHostPort") \o Try("serverHostDataPort")
    \o Try("graphID") \o Try("partitionID") \o Try("SEND_FILE_NAME") \o Read("fileName")
    \o Try("SEND_FILE_LEN") \o Read("fileLength") \o Try("SEND_FILE_CONT")
    \o Parse("fileLength")
    \o UnlessWhole(Hear \o If("FILE_RECV_CHK", Try("FILE_RECV_WAIT"), <<>>))
    \o Hear \o If("FILE_RECV_CHK", Try("FILE_ACK"), <<>>) \o Unzip
    \o UnlessRaw(Hear \o If("BATCH_UPLOAD_CHK", Try("BATCH_UPLOAD_WAIT"), <<>>))
    \o Hear \o If("BATCH_UPLOAD_CHK", Try("BATCH_UPLOAD_ACK"), <<>>) \o Bye

\* The central store goes to every other worker.  An answer that is neither
\* WAIT nor ACK is given up on.
Insist(chk, ack, wait) ==
    Try(chk) \o Hear \o If(ack, <<>>, If(wait, Goto(-5), Fail))
instance_duplicateCentralStore ==
    OnFail("bye") \o TryAsk("HANDSHAKE", "HANDSHAKE_OK") \o TryAsk("masterIP", "HOST_OK")
    \o TryAsk("BATCH_UPLOAD_CENTRAL", "OK") \o TryAsk("graphID", "SEND_FILE_NAME")
    \o TryAsk("fileName", "SEND_FILE_LEN") \o TryAsk("size", "SEND_FILE_CONT") \o SendFile
    \o Insist("FILE_RECV_CHK", "FILE_ACK", "FILE_RECV_WAIT")
    \o Insist("BATCH_UPLOAD_CHK", "BATCH_UPLOAD_ACK", "BATCH_UPLOAD_WAIT") \o Bye

\* The test of the second send is inverted: what was sent is taken for an
\* error.
calculateEgoNet ==
    OnFail("bye") \o Ask("WORKER_EGO_NET", "OK") \o Send("graphID") \o Fail

callRemoteExpansion ==
    OnFail("shut") \o Ask("EXPAND_NODE_BATCH", "OK") \o Try("graphID") \o Hear
    \o Try("int") \o Try("request") \o Blindly("int") \o Listen("response") \o Bye

---------------------------------------------------------------------------
\* Export, agent plans and streamed edges.

\* CLOSE is sent whatever happened.
exportPartitionShard ==
    session \o Ask("SEND_EDGES_TO_HDFS", "OK") \o Ask("graphID", "SEND_PARTITION_ID")
    \o Ask("partitionID", "OK") \o Ask("hdfsHost", "OK") \o Ask("hdfsPort", "OK")
    \o Ask("hdfsPath", "OK") \o Bye

\* The first length follows the command at once.  Errors are thrown.
sendField(m) == Check("int") \o Exact("GRAPH_STREAM_C_length_ACK") \o Check(m)
agent_plan_answer == Listen("any") \o If("end", <<>>, If("", <<>>, Goto(-5)))
agent_plan ==
    session \o Try("AGENT_PLAN") \o OnFail("leak")
    \o sendField("graphId") \o sendField("masterIp") \o sendField("query")
    \o sendField("llmRunner") \o sendField("llmEngine") \o sendField("llmModel")
    \o sendField("workerList") \o agent_plan_answer \o Try("OK") \o Shut

\* The constructor already says CLOSE; publish goes on whatever comes back.
publish ==
    Try("GRAPH_STREAM_START") \o Hear \o Try("int") \o Listen("GRAPH_STREAM_C_length_ACK")
    \o Try("edge") \o Listen("GRAPH_STREAM_END_OF_EDGE")
DataPublisher == Try("CLOSE") \o publish \o Repeat(publish) \o Bye

---------------------------------------------------------------------------
\* Knowledge graph construction: the master that watches the pipeline, and
\* the pipeline that hands out chunks.

send_settings ==
    Ask("graphID", "OK")
    \o Either(Ask("y", "OK") \o Ask("startFromBytes", "OK"), Ask("n", "OK"))
    \o Ask("llm_runner", "OK") \o Ask("llm_inference_engine", "OK") \o Ask("llm", "OK")
    \o Ask("chunkSize", "OK") \o Ask("chunksPerBatch", "OK") \o Ask("noOfPartitions", "OK")

\* A text that is neither "meta" nor "done" is a number of bytes, or it is
\* nothing and stays without an answer.
take_meta == Try("OK") \o Blindly("int") \o Try("OK") \o Blindly("meta_data")
take_bytes == Either(Try("OK"), Try("stop"))
take_reports ==
    LET report == If("meta", take_meta, If("bytes", take_bytes, <<>>))
    IN  Hear \o If("", <<>>, If("done", Try("OK"), report \o Goto(0 - Len(report) - 6)))

streamGraphToDesignatedWorker ==
    session \o OnFail("shut") \o Ask("INITIATE_STREAMING_KG_CONSTRUCTION", "OK")
    \o send_settings \o Ask("hdfsServerUrl", "OK") \o Ask("hdfsPort", "OK")
    \o Ask("masterIP", "OK") \o Ask("workersIP", "OK") \o Ask("hdfsPath", "OK")
    \o take_reports \o Shut

streamLocalGraphToDesignatedWorker ==
    session \o OnFail("shut")
    \o Ask("INITIATE_LOCAL_STREAMING_KG_CONSTRUCTION", "OK")
    \o send_settings \o Ask("masterIP", "OK") \o Ask("workersIP", "OK")
    \o Ask("localFilePath", "OK") \o Ask("size", "OK") \o SendFile
    \o Poll("FILE_RECV_CHK", "FILE_ACK") \o take_reports \o Shut

\* A tuple is acknowledged, or answered "stop" once the user has stopped the
\* construction; the reader goes on until the end marker either way.  Nothing, or
\* a length out of bounds, which the bytes of any text are, ends the reading of
\* tuples only: the next chunk is sent on the same socket.
take_tuple(again) ==
    Try("GRAPH_STREAM_C_length_ACK") \o Listen("any")
    \o If("", <<>>, Either(Try("stop"), Try("GRAPH_DATA_SUCCESS"))
                    \o If("-1", <<>>, Goto(again)))
take_tuples ==
    Listen("int") \o If("int", take_tuple(0 - Len(take_tuple(0)) - 1), <<>>)

send_chunk ==
    Ask("QUERY_DATA_START", "OK") \o SendSized("chunk") \o Read("GRAPH_DATA_SUCCESS")
    \o SendSized("traceContext") \o Expect("QUERY_DATA_START") \o Try("OK") \o take_tuples

extractTuples ==
    session \o Ask("INITIATE_STREAMING_TUPLE_CONSTRUCTION", "OK") \o Ask("graphID", "OK")
    \o Ask("llmHost", "OK") \o Ask("llmInferenceEngine", "OK") \o Ask("llm", "OK")
    \o OnFail("leak") \o Repeat(send_chunk)
    \o Try("CHUNK_STREAM_END") \o Hear \o Bye
---------------------------------------------------------------------------
Client ==
    [resolveOperationalGraphs |-> resolveOperationalGraphs,
     removeFragmentThroughService |-> removeFragmentThroughService,
     removePartitionThroughService |-> removePartitionThroughService,
     degreeDistributionCommon |-> degreeDistributionCommon,
     duplicateCentralStore |-> duplicateCentralStore,
     egoNet |-> egoNet,
     initiateCommon |-> initiateCommon,
     sendTrainCommand |-> sendTrainCommand,
     uploadFileToWorker |-> uploadFileToWorker,
     sendFileChunkToWorker |-> sendFileChunkToWorker,
     transferPartition |-> transferPartition,
     sendQueryPlanToWorker |-> sendQueryPlanToWorker,
     sendSbsQueryPlanToWorker |-> sendSbsQueryPlanToWorker,
     sendDataFromWorkerToWorker |-> sendDataFromWorkerToWorker,
     getTriangleCount |-> getTriangleCount,
     isFileAccessibleToWorker |-> isFileAccessibleToWorker,
     copyCentralStoreToAggregator |-> copyCentralStoreToAggregator,
     copyCompositeCentralStoreToAggregator |-> copyCompositeCentralStoreToAggregator,
     countCentralStoreTriangles |-> countCentralStoreTriangles,
     countCompositeCentralStoreTriangles |-> countCompositeCentralStoreTriangles,
     streaming_getTriangleCount |-> streaming_getTriangleCount,
     streaming_countCentralStoreTriangles |-> streaming_countCentralStoreTriangles,
     doPageRank |-> doPageRank,
     sendQueryToWorker |-> sendQueryToWorker,
     initiateCollectingRemoteSLAResourceUtilization |-> initiateCollectingRemoteSLAResourceUtilization,
     collectTrainedModelThreadFunction |-> collectTrainedModelThreadFunction,
     instance_duplicateCentralStore |-> instance_duplicateCentralStore,
     calculateEgoNet |-> calculateEgoNet,
     callRemoteExpansion |-> callRemoteExpansion,
     exportPartitionShard |-> exportPartitionShard,
     agent_plan |-> agent_plan,
     DataPublisher |-> DataPublisher,
     streamGraphToDesignatedWorker |-> streamGraphToDesignatedWorker,
     streamLocalGraphToDesignatedWorker |-> streamLocalGraphToDesignatedWorker,
     extractTuples |-> extractTuples]
=============================================================================
