----------------------------- MODULE MCFrontEnd -----------------------------
(***************************************************************************)
(* Two clients: both of the console, or the second of the web front end.    *)
(***************************************************************************)
EXTENDS FrontEnd

Client(k, gone) == [kind |-> k, leaves |-> gone]
Stays == Client("console", FALSE)
Plan(first, second, x, y, n) ==
    [client |-> [a |-> first, b |-> second], todo |-> [a |-> x, b |-> y], crashes |-> n]
Consoles(x, y) == Plan(Stays, Stays, x, y, 0)
WithUI(x, y) == Plan(Stays, Client("ui", TRUE), x, y, 0)
Killed(x, y) == Plan(Stays, Client("ui", TRUE), x, y, 1)
Departing(x) == Plan(Client("console", TRUE), Stays, x, <<>>, 0)

MCPlans ==
  {
    Killed(<<"adgr">>, <<"rmgr">>),
    Plan(Stays, Stays, <<"adgr">>, <<>>, 3),
    WithUI(<<"adgr">>, <<"adgr">>),
    WithUI(<<"rmgr">>, <<"rmgr">>),
    Consoles(<<"vcnt">>, <<"adgr_cust">>),
    Consoles(<<"cypher">>, <<"pgrnk">>),
    WithUI(<<"trian">>, <<"trian">>),
    WithUI(<<"construct_kg">>, <<"stop_construct_kg">>),
    Consoles(<<"construct_kg_local", "stop_construct_kg">>, <<"construct_kg_local">>),
    Consoles(<<"strian">>, <<"stop_strian">>),
    Consoles(<<"add_stream_kafka", "add_stream_hdfs">>, <<>>),
    Consoles(<<"add_stream_kafka">>, <<"stop_stream_kafka", "add_stream_kafka">>),
    WithUI(<<"add_stream_kafka">>, <<"adgr">>),
    Consoles(<<"lst", "admdl", "adrdf", "ktop", "send_graph_hdfs",
      "process_dataset", "ecnt", "merge", "train", "idd", "odd", "egn", "dpcntrl", "predict",
      "start_remote_worker", "sla", "sbs", "add_stream_hdfs", "unknown",
      "shdn">>, <<>>),
    Departing(<<"agent_plan", "cypher">>),
    WithUI(<<>>, <<"lst", "truncate", "idd", "odd", "cypher", "sbs", "properties",
      "upbytes", "construct_kg", "unknown">>)
  }
MCUpload == {Consoles(<<"adgr">>, <<>>)}
=============================================================================
