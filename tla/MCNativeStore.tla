---------------------------- MODULE MCNativeStore ----------------------------
(* Small stores for TLC.                                                      *)
EXTENDS NativeStore, TLC

CONSTANTS LocalRelations, CentralRelations

\* How many relations of each kind the run may add.
RelationBounds ==
    [k \in {"local", "central"} |->
        IF k = "local" THEN LocalRelations ELSE CentralRelations]

\* Nothing in the store tells one vertex from another; all the properties are of safety.
KeysAlike == Permutations(Key)
==============================================================================
