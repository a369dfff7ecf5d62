--------------------------- MODULE MCSharedBuffer ---------------------------
(***************************************************************************)
(* Small instances of SharedBuffer.                                        *)
(***************************************************************************)
EXTENDS SharedBuffer
=============================================================================
