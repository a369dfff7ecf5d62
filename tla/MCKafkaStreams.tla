--------------------------- MODULE MCKafkaStreams ---------------------------
(* KafkaStreams for TLC: the constants are model values of the cfg files. *)
EXTENDS KafkaStreams

=============================================================================
