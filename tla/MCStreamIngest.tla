--------------------------- MODULE MCStreamIngest ---------------------------
(* StreamIngest for model checking. *)
EXTENDS StreamIngest
=============================================================================
