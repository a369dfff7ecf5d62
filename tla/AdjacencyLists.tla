---------------------------- MODULE AdjacencyLists ----------------------------
(* What the native store promises its readers: every node has one list of      *)
(* relations per kind, newest first, and a list only ever grows at its head.   *)
(* A reader that walked a list sees the same relations in the same order at    *)
(* the end of every later walk, until the store is emptied as a whole.         *)
EXTENDS Naturals, Sequences

CONSTANTS
    Kind,           \* the kinds of relation
    NodeNumber,     \* the numbers nodes can have
    RelationNumber  \* the numbers relations can have

VARIABLE adj    \* adj[k][n]: the relations of kind k of node n, newest first

Nodes == DOMAIN adj[CHOOSE k \in Kind : TRUE]
Empty == [k \in Kind |-> [n \in {} |-> <<>>]]

Init == adj = Empty

\* New nodes appear without relations; a store may skip block numbers, so
\* several can appear at once.
AddNodes(N) ==
    LET old == adj
        nodes == Nodes
    IN  adj' = [k \in Kind |-> [n \in nodes \cup N |->
                                   IF n \in nodes THEN old[k][n] ELSE <<>>]]

\* Relation r becomes the first of the list of node n; relations are numbered
\* in the order in which they are added.
Push(k, n, r) ==
    /\ \A m \in Nodes : \A i \in DOMAIN adj[k][m] : adj[k][m][i] <= r
    /\ \A i \in DOMAIN adj[k][n] : adj[k][n][i] # r
    /\ adj' = [adj EXCEPT ![k][n] = <<r>> \o @]

Clear == adj' = Empty

Next ==
    \/ Clear
    \/ \E m \in NodeNumber : AddNodes(0..m)
    \/ \E k \in Kind : \E n \in Nodes, r \in RelationNumber : Push(k, n, r)

Spec == Init /\ [][Next]_adj
==============================================================================
