-------------------------- MODULE MCPropertyChain --------------------------
(***************************************************************************)
(* Instances of PropertyChain for TLC: two nodes, so that chains could be  *)
(* mixed up.  Symmetry between the nodes is sound: no definition tells     *)
(* them apart.  Values are only copied, and no step depends on them; no    *)
(* property is about the values of the PropertyLink file, so that there    *)
(* OneValue is enough.                                                     *)
(***************************************************************************)
EXTENDS PropertyChain, TLC

CONSTANTS v1, v2

MCOwners == {v1, v2}
MCValues == {1, 2}
OneValue == ~meta => \A k \in Blocks : links[k].value # 2
MCSymmetry == Permutations(MCOwners)
=============================================================================
