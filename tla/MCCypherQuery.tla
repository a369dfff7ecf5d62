--------------------------- MODULE MCCypherQuery ---------------------------
(* CypherQuery on two partitions. *)
EXTENDS CypherQuery

Asked(orders) == [order : orders, keyReturned : {TRUE}]

MCQueries == Asked({"ASC", "NONE"})
MCDescending == Asked({"DESC"})

\* Three rows make two runs; a row without the key is dropped on the way.
SmallTables ==
  {<< <<2, 1>>, <<1>> >>, << <<2, NoKey, 1>>, <<>> >>, << <<2, 1, 1>>, <<2>> >>,
   << <<1, 2>>, <<NoKey, 2>> >>}

=============================================================================
