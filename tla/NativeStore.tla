------------------------------ MODULE NativeStore ------------------------------
(* The native store of one graph partition on a worker: NodeManager writing    *)
(* NodeBlocks and RelationBlocks into block files, and threading every         *)
(* relation into the doubly linked adjacency lists of its two end nodes.       *)
(*                                                                             *)
(* Each action is one write that reaches a file (every one of them is followed *)
(* by a flush in the code), so that the process can stop between any two.      *)
(* Block addresses are modelled by block numbers: address = number * size.     *)
(* Local and central relations live in two files with the same layout and the  *)
(* same code; Kinds tells them apart.                                          *)
EXTENDS Naturals, Sequences, FiniteSets

CONSTANTS
    Key,            \* vertex ids, the keys of the node index
    Zero,           \* the vertex id read from a block of zeros
    MaxRelations,   \* bound: relation blocks in each file, per kind
    MaxCrashes,     \* bound: times the process stops in mid-flight
    MaxTruncations  \* bound: times the store is opened in truncating mode

ASSUME KeyAssumption == Zero \notin Key /\ IsFiniteSet(Key)

Kinds == {"local", "central"}
Sides == {"source", "destination"}

ASSUME BoundAssumption ==
    MaxRelations \in [Kinds -> Nat] /\ MaxCrashes \in Nat /\ MaxTruncations \in Nat

VARIABLES
    indexFile,          \* <name>_nodes.index.db: records in the order appended
    nodesDB,            \* <name>_nodes.db: block number -> node block
    relationsDB,        \* relations.db and central_relations.db, per kind
    nodeIndex,          \* NodeManager::nodeIndex, the index held in memory
    nextNodeIndex,      \* NodeManager::nextNodeIndex
    nextRelationIndex,  \* RelationBlock::next{Local,Central}RelationIndex
    pc,                 \* where the thread that holds lockEdgeAdd is
    kind, edge,         \* arguments of the running add{Local,Central}Edge
    block,              \* its NodeBlock copies: address and references as read
    newRelation,        \* block number of the relation being added
    crashes, truncations,
    linked,             \* history: <<kind, node, relation>> threaded so far
    committed,          \* history: <<kind, relation>> whose addEdge returned
    damaged             \* history: keys whose index record lost its block

files  == <<indexFile, nodesDB, relationsDB>>
memory == <<nodeIndex, nextNodeIndex, nextRelationIndex>>
frame  == <<kind, edge, block, newRelation>>
counts == <<crashes, truncations>>
ghosts == <<linked, committed, damaged>>
vars   == <<files, memory, pc, frame, counts, ghosts>>

NoRefs    == [k \in Kinds |-> 0]
NoLinks   == [s \in Sides |-> 0]
ZeroBlock == [nodeId |-> Zero, ref |-> NoRefs]

IndexRecords   == [key : Key, index : Nat]
NodeBlocks     == [nodeId : Key \cup {Zero}, ref : [Kinds -> Nat]]
RelationBlocks ==
    [node : [Sides -> Nat], next : [Sides -> Nat], pre : [Sides -> Nat]]

-----------------------------------------------------------------------------
(* Blocks and files *)

\* The side of relation block rel on which node n hangs; the code tests the
\* source first, so a self loop hangs on its source side only.
SideOf(rel, n) ==
    IF rel.node["source"] = n THEN "source"
    ELSE IF rel.node["destination"] = n THEN "destination" ELSE "none"

\* set{Local,Central}{Previous,Next}{Source,Destination}: one reference of one
\* relation block is overwritten in place; a relation that does not have the
\* node as an end is left alone.
WithPre(k, r, side, x) ==
    IF side = "none" THEN relationsDB
    ELSE [relationsDB EXCEPT ![k][r].pre[side] = x]
WithNext(k, r, side, x) ==
    IF side = "none" THEN relationsDB
    ELSE [relationsDB EXCEPT ![k][r].next[side] = x]

\* A write past the end of a file leaves a hole of zeros behind it.
SaveBlock(db, i, blk) ==
    [j \in DOMAIN db \cup 0..i |->
        IF j = i THEN blk ELSE IF j \in DOMAIN db THEN db[j] ELSE ZeroBlock]

\* Fault: the number of the last block taken for the first free one.
NextFreeIsLast(k) ==
    IF DOMAIN relationsDB[k] = {} THEN 1
    ELSE CHOOSE m \in 1..MaxRelations[k] : DOMAIN relationsDB[k] = 1..m

\* What the constructor derives from the size of a relations file: blocks are
\* numbered from 1, an empty file and a file with one hole both give 1.
NextFree(k) ==
    CHOOSE m \in 1..(MaxRelations[k] + 1) : DOMAIN relationsDB[k] = 1..(m - 1)

\* Fault: the first record of a key wins (map::insert keeps what is there).
ReadNodeIndexFirst(recs) ==
    [x \in {recs[i].key : i \in DOMAIN recs} |->
        recs[CHOOSE i \in DOMAIN recs :
                /\ recs[i].key = x
                /\ \A j \in DOMAIN recs : recs[j].key = x => i <= j].index]

\* readNodeIndex: a later record of the same key overrides an earlier one.
ReadNodeIndex(recs) ==
    [x \in {recs[i].key : i \in DOMAIN recs} |->
        recs[CHOOSE i \in DOMAIN recs :
                /\ recs[i].key = x
                /\ \A j \in DOMAIN recs : recs[j].key = x => j <= i].index]

-----------------------------------------------------------------------------
Init ==
    /\ indexFile = <<>>
    /\ nodesDB = [i \in {} |-> ZeroBlock]
    /\ relationsDB = [k \in Kinds |-> [r \in {} |-> NoLinks]]
    /\ nodeIndex = [x \in {} |-> 0]
    /\ nextNodeIndex = 0
    /\ nextRelationIndex = [k \in Kinds |-> 1]
    /\ pc = "closed"
    /\ kind = "local"
    /\ edge = [s \in Sides |-> Zero]
    /\ block = [s \in Sides |-> [addr |-> 0, ref |-> NoRefs]]
    /\ newRelation = 0
    /\ crashes = 0 /\ truncations = 0
    /\ linked = {} /\ committed = {} /\ damaged = {}

(* NodeManager's constructor in append mode, run when a worker starts and      *)
(* again by processFile for every file chunk of a store that is already open.  *)
OpenAppend ==
    /\ pc \in {"closed", "idle"}
    /\ nodeIndex' = ReadNodeIndex(indexFile)
    /\ nextNodeIndex' = Len(indexFile)
    /\ nextRelationIndex' = [k \in Kinds |-> NextFree(k)]
    /\ pc' = "idle"
    /\ UNCHANGED <<files, frame, counts, ghosts>>

(* The constructor in any other mode truncates the block files. The index file *)
(* is not among the files it truncates, and the index in memory starts empty.  *)
OpenTruncate ==
    /\ pc = "closed"
    /\ truncations < MaxTruncations
    /\ truncations' = truncations + 1
    /\ nodesDB' = [i \in {} |-> ZeroBlock]
    /\ relationsDB' = [k \in Kinds |-> [r \in {} |-> NoLinks]]
    /\ nodeIndex' = [x \in {} |-> 0]
    /\ nextNodeIndex' = 0
    /\ nextRelationIndex' = [k \in Kinds |-> 1]
    /\ pc' = "idle"
    /\ linked' = {} /\ committed' = {}
    /\ damaged' = {indexFile[i].key : i \in DOMAIN indexFile}
    /\ UNCHANGED <<indexFile, frame, crashes>>

(* add{Local,Central}Edge takes lockEdgeAdd and starts with addNode(source).   *)
AddEdge(k, a, b) ==
    /\ pc = "idle"
    /\ nextRelationIndex[k] <= MaxRelations[k]
    /\ kind' = k
    /\ edge' = [s \in Sides |-> IF s = "source" THEN a ELSE b]
    /\ pc' = "addSource"
    /\ UNCHANGED <<files, memory, block, newRelation, counts, ghosts>>

\* The step that follows addNode for an end of the edge.
AfterNode(s) == IF s = "source" THEN "addDestination" ELSE "addRelation"

(* addNode for a key the index knows: get() reads its block. A block that is   *)
(* not in the file fails the stream and fills the NodeBlock from uninitialised *)
(* variables: nothing is claimed of the process from there on.                 *)
GetNode(s) ==
    /\ pc = (IF s = "source" THEN "addSource" ELSE "addDestination")
    /\ edge[s] \in DOMAIN nodeIndex
    /\ LET i == nodeIndex[edge[s]] IN
       IF i \in DOMAIN nodesDB
       THEN /\ block' = [block EXCEPT ![s] = [addr |-> i, ref |-> nodesDB[i].ref]]
            /\ pc' = AfterNode(s)
       ELSE /\ pc' = "undefined"
            /\ UNCHANGED block
    /\ UNCHANGED <<files, memory, kind, edge, newRelation, counts, ghosts>>

(* addNode for a new key: first its index record, in memory and on disk ...    *)
AddNodeIndex(s) ==
    /\ pc = (IF s = "source" THEN "addSource" ELSE "addDestination")
    /\ edge[s] \notin DOMAIN nodeIndex
    /\ nodeIndex' = [x \in DOMAIN nodeIndex \cup {edge[s]} |->
                        IF x = edge[s] THEN nextNodeIndex ELSE nodeIndex[x]]
    /\ indexFile' = Append(indexFile, [key |-> edge[s], index |-> nextNodeIndex])
    /\ block' = [block EXCEPT ![s] = [addr |-> nextNodeIndex, ref |-> NoRefs]]
    /\ nextNodeIndex' = nextNodeIndex + 1
    /\ pc' = (IF s = "source" THEN "saveSource" ELSE "saveDestination")
    /\ damaged' = damaged \ {edge[s]}
    /\ UNCHANGED <<nodesDB, relationsDB, nextRelationIndex, kind, edge,
                   newRelation, counts, linked, committed>>

(* ... then NodeBlock::save writes the block itself.                           *)
SaveNode(s) ==
    /\ pc = (IF s = "source" THEN "saveSource" ELSE "saveDestination")
    /\ nodesDB' = SaveBlock(nodesDB, block[s].addr,
                            [nodeId |-> edge[s], ref |-> block[s].ref])
    /\ pc' = AfterNode(s)
    /\ UNCHANGED <<indexFile, relationsDB, memory, frame, counts, ghosts>>

WriteRelation(r, ends, next) ==
    /\ pc = "addRelation"
    /\ relationsDB' = [relationsDB EXCEPT ![kind] =
          [q \in DOMAIN relationsDB[kind] \cup {r} |->
              IF q = r THEN [node |-> ends, next |-> NoLinks, pre |-> NoLinks]
              ELSE relationsDB[kind][q]]]
    /\ nextRelationIndex' = [nextRelationIndex EXCEPT ![kind] = next]
    /\ newRelation' = r
    /\ pc' = "linkSource"
    /\ UNCHANGED <<indexFile, nodesDB, nodeIndex, nextNodeIndex, kind, edge, block,
                   counts, ghosts>>

(* RelationBlock::add{Local,Central}Relation writes the new block.             *)
AddRelation ==
    WriteRelation(nextRelationIndex[kind], [s \in Sides |-> block[s].addr],
                  nextRelationIndex[kind] + 1)

\* The head of the list of end s, as the NodeBlock copy holds it.
CurrentHead(s) == block[s].ref[kind]

\* Faults: the old head is updated on its source side whichever end hangs there;
\* the write of the forward link is forgotten.
LinkPreviousSource(s) ==
    /\ pc = (IF s = "source" THEN "linkSource" ELSE "linkDestination")
    /\ CurrentHead(s) # 0
    /\ relationsDB' = WithPre(kind, CurrentHead(s), "source", newRelation)
    /\ pc' = (IF s = "source" THEN "nextSource" ELSE "nextDestination")
    /\ UNCHANGED <<indexFile, nodesDB, memory, frame, counts, ghosts>>
LinkPreviousOnly(s) ==
    /\ pc = (IF s = "source" THEN "linkSource" ELSE "linkDestination")
    /\ CurrentHead(s) # 0
    /\ pc' = (IF s = "source" THEN "headSource" ELSE "headDestination")
    /\ UNCHANGED <<files, memory, frame, counts, ghosts>>

(* update{Local,Central}Relation, first write: the old head points back at the *)
(* new relation. Both copies were read before the first list was changed.      *)
LinkPrevious(s) ==
    /\ pc = (IF s = "source" THEN "linkSource" ELSE "linkDestination")
    /\ CurrentHead(s) # 0
    /\ relationsDB' = WithPre(kind, CurrentHead(s),
                              SideOf(relationsDB[kind][CurrentHead(s)], block[s].addr),
                              newRelation)
    /\ pc' = (IF s = "source" THEN "nextSource" ELSE "nextDestination")
    /\ UNCHANGED <<indexFile, nodesDB, memory, frame, counts, ghosts>>

\* Fault: the new relation is updated on its source side for both ends.
LinkNextSource(s) ==
    /\ pc = (IF s = "source" THEN "nextSource" ELSE "nextDestination")
    /\ relationsDB' = WithNext(kind, newRelation, "source", CurrentHead(s))
    /\ pc' = (IF s = "source" THEN "headSource" ELSE "headDestination")
    /\ UNCHANGED <<indexFile, nodesDB, memory, frame, counts, ghosts>>

(* Second write: the new relation points forward at the old head.              *)
LinkNext(s) ==
    /\ pc = (IF s = "source" THEN "nextSource" ELSE "nextDestination")
    /\ relationsDB' = WithNext(kind, newRelation,
                               SideOf(relationsDB[kind][newRelation], block[s].addr),
                               CurrentHead(s))
    /\ pc' = (IF s = "source" THEN "headSource" ELSE "headDestination")
    /\ UNCHANGED <<indexFile, nodesDB, memory, frame, counts, ghosts>>

\* Fault: addEdge returns after the source's list.
SetRelationHeadOnce(s) ==
    /\ \/ pc = (IF s = "source" THEN "headSource" ELSE "headDestination")
       \/ /\ pc = (IF s = "source" THEN "linkSource" ELSE "linkDestination")
          /\ CurrentHead(s) = 0
    /\ nodesDB' = [nodesDB EXCEPT ![block[s].addr].ref[kind] = newRelation]
    /\ linked' = linked \cup {<<kind, block[s].addr, newRelation>>}
    /\ pc' = "idle"
    /\ UNCHANGED <<indexFile, relationsDB, memory, frame, counts, committed, damaged>>

(* Third write, and the only one for an empty list: the node points at the new *)
(* relation. After the destination's, addEdge releases the lock and returns.   *)
SetRelationHead(s) ==
    /\ \/ pc = (IF s = "source" THEN "headSource" ELSE "headDestination")
       \/ /\ pc = (IF s = "source" THEN "linkSource" ELSE "linkDestination")
          /\ CurrentHead(s) = 0
    /\ nodesDB' = [nodesDB EXCEPT ![block[s].addr].ref[kind] = newRelation]
    /\ linked' = linked \cup {<<kind, block[s].addr, newRelation>>}
    /\ IF s = "source"
       THEN pc' = "linkDestination" /\ UNCHANGED committed
       ELSE pc' = "idle" /\ committed' = committed \cup {<<kind, newRelation>>}
    /\ UNCHANGED <<indexFile, relationsDB, memory, frame, counts, damaged>>

(* The worker stops between two calls: nothing calls NodeManager::close(), the *)
(* files are as the last flush left them.                                      *)
Stop ==
    /\ pc = "idle"
    /\ pc' = "closed"
    /\ UNCHANGED <<files, memory, frame, counts, ghosts>>

(* The worker stops between two writes. An index record whose block had not    *)
(* been saved yet is left behind.                                              *)
Crash ==
    /\ pc \notin {"closed", "idle"}
    /\ IF pc = "undefined" THEN UNCHANGED crashes
       ELSE crashes < MaxCrashes /\ crashes' = crashes + 1
    /\ pc' = "closed"
    /\ damaged' = damaged \cup (CASE pc = "saveSource" -> {edge["source"]}
                                  [] pc = "saveDestination" -> {edge["destination"]}
                                  [] OTHER -> {})
    /\ UNCHANGED <<files, memory, frame, truncations, linked, committed>>

AddNode(s) == GetNode(s) \/ AddNodeIndex(s) \/ SaveNode(s)
UpdateRelation(s) == LinkPrevious(s) \/ LinkNext(s) \/ SetRelationHead(s)

Next ==
    \/ OpenAppend \/ OpenTruncate \/ Stop \/ Crash \/ AddRelation
    \/ \E k \in Kinds, a, b \in Key : AddEdge(k, a, b)
    \/ \E s \in Sides : AddNode(s) \/ UpdateRelation(s)

Spec == Init /\ [][Next]_vars

-----------------------------------------------------------------------------
(* Reading *)

\* next{Local,Central}{Source,Destination}: the successor of relation r in the
\* list of node n.
NextOf(k, n, r) == relationsDB[k][r].next[SideOf(relationsDB[k][r], n)]

\* A walk along the list of node n in a relations file: walk[fuel][r] is what is met
\* from relation r on. fuel stops a walk longer than the file.
EdgeWalk(db, n, max) ==
    LET walk[fuel \in 0..max] ==
            [r \in Nat |->
                IF r = 0 \/ fuel = 0 \/ SideOf(db[r], n) = "none" THEN <<>>
                ELSE <<r>> \o walk[fuel - 1][db[r].next[SideOf(db[r], n)]]]
    IN  walk

\* get{Local,Central}EdgeNodes: the relations met when the list of node n is
\* walked from its head.
EdgeNodes(k, n) ==
    LET max == MaxRelations[k] + 1
    IN  EdgeWalk(relationsDB[k], n, max)[max][nodesDB[n].ref[k]]

\* The lists a reader sees.
ListsSeen == [k \in Kinds |-> [n \in DOMAIN nodesDB |-> EdgeNodes(k, n)]]

\* They are the state of the abstract specification. Between two truncations a key
\* gets at most one index record.
Adjacency ==
    INSTANCE AdjacencyLists WITH
        Kind <- Kinds,
        NodeNumber <- 0..(Cardinality(Key) * (MaxTruncations + 1)),
        RelationNumber <- 1..(MaxRelations["local"] + MaxRelations["central"]),
        adj <- ListsSeen

-----------------------------------------------------------------------------
(* Properties *)

Steps ==
    {"closed", "idle", "undefined", "addRelation"} \cup
    {"addSource", "saveSource", "linkSource", "nextSource", "headSource"} \cup
    {"addDestination", "saveDestination", "linkDestination", "nextDestination",
     "headDestination"}

IndexType ==
    /\ indexFile \in Seq(IndexRecords)
    /\ DOMAIN nodeIndex \subseteq Key /\ nodeIndex \in [DOMAIN nodeIndex -> Nat]
    /\ nextNodeIndex \in Nat

NodesType ==
    /\ DOMAIN nodesDB \subseteq Nat /\ nodesDB \in [DOMAIN nodesDB -> NodeBlocks]
    /\ \A i \in DOMAIN nodesDB : 0..i \subseteq DOMAIN nodesDB

RelationsType ==
    /\ DOMAIN relationsDB = Kinds
    /\ nextRelationIndex \in [Kinds -> Nat]
    /\ \A k \in Kinds :
           /\ nextRelationIndex[k] \in 1..(MaxRelations[k] + 1)
           /\ relationsDB[k] \in [1..(nextRelationIndex[k] - 1) -> RelationBlocks]

FrameType ==
    /\ pc \in Steps
    /\ kind \in Kinds
    /\ edge \in [Sides -> Key \cup {Zero}]
    /\ block \in [Sides -> [addr : Nat, ref : [Kinds -> Nat]]]
    /\ newRelation \in Nat

HistoryType ==
    /\ crashes \in Nat /\ truncations \in Nat
    /\ linked \subseteq Kinds \X Nat \X Nat
    /\ committed \subseteq Kinds \X Nat
    /\ damaged \subseteq Key

\* Every variable has its type, and the blocks of a file are numbered without
\* gaps: the numbers the constructor derives from the file sizes are the ones
\* the running process would have used next.
TypeOK == IndexType /\ NodesType /\ RelationsType /\ FrameType /\ HistoryType

\* The relations threaded into the list of node n.
Linked(k, n) == {r \in DOMAIN relationsDB[k] : <<k, n, r>> \in linked}

\* "relation head does not contain current node in its source or destination"
\* (NodeBlock.cpp) is never logged: whatever a list holds has the node as an end.
ListsHoldOwnRelations ==
    \A t \in linked :
        /\ t[2] \in DOMAIN nodesDB
        /\ t[3] \in DOMAIN relationsDB[t[1]]
        /\ SideOf(relationsDB[t[1]][t[3]], t[2]) # "none"

\* x is the greatest element of S, or 0 (the null reference) when S is empty.
IsNewest(S, x) == (x = 0 /\ S = {}) \/ (x \in S /\ \A q \in S : q <= x)

\* Between any two writes, and after a crash at any of them, the head of a node
\* is its newest relation and every relation leads to the next older one: a
\* walk from the head meets each relation of the node once and ends.
NewestFirst ==
    \A k \in Kinds : \A n \in DOMAIN nodesDB :
        /\ IsNewest(Linked(k, n), nodesDB[n].ref[k])
        /\ \A r \in Linked(k, n) :
               IsNewest({q \in Linked(k, n) : q < r}, NextOf(k, n, r))

\* The previous links invert the next links, on whichever side of a relation
\* the node happens to be (NodeBlock::update{Local,Central}Relation).
BackLinks ==
    \A k \in Kinds : \A n \in DOMAIN nodesDB : \A r \in Linked(k, n) :
        LET q == NextOf(k, n, r) IN
        q # 0 => /\ q \in DOMAIN relationsDB[k]
                 /\ SideOf(relationsDB[k][q], n) # "none"
                 /\ relationsDB[k][q].pre[SideOf(relationsDB[k][q], n)] = r

\* An edge whose addEdge returned stays in the lists of both its ends, through
\* every later edge, crash and reopening (until the files are truncated).
CommittedEdgesStay ==
    \A c \in committed :
        /\ c[2] \in DOMAIN relationsDB[c[1]]
        /\ \A s \in Sides : <<c[1], relationsDB[c[1]][c[2]].node[s], c[2]>> \in linked

\* The entries of relation r in the lists of its ends, and the relations that have
\* one of theirs and not the other.
Entries(k, r) == {<<k, relationsDB[k][r].node[s], r>> : s \in Sides}
HalfLinked(k) ==
    {r \in DOMAIN relationsDB[k] :
        Entries(k, r) \cap linked # {} /\ ~(Entries(k, r) \subseteq linked)}

\* An edge is seen from one of its ends only while it is being added, or when
\* the process stopped between the updates of the two lists: lockEdgeAdd and the
\* order of the writes leave at most one such edge per crash.
HalfLinkedEdgesNeedACrash ==
    Cardinality(HalfLinked("local")) + Cardinality(HalfLinked("central"))
        <= crashes + (IF pc \in {"idle", "closed"} THEN 0 ELSE 1)

\* A key that was never damaged is found at a block of its own: the index read
\* back from the file by the constructor leads to the block addNode saved.
IndexFindsUndamaged ==
    \A x \in DOMAIN nodeIndex \ damaged :
        \/ pc = "closed"
        \/ pc = "saveSource" /\ x = edge["source"]
        \/ pc = "saveDestination" /\ x = edge["destination"]
        \/ nodeIndex[x] \in DOMAIN nodesDB /\ nodesDB[nodeIndex[x]].nodeId = x

\* A block that holds a vertex is never taken over by another vertex, whatever
\* index records a crash or a truncation has left in the index file.
BlocksKeepTheirVertex ==
    [][\A i \in DOMAIN nodesDB \cap DOMAIN nodesDB' :
          nodesDB[i].nodeId # Zero => nodesDB'[i].nodeId = nodesDB[i].nodeId]_vars

\* The lists read from the files behave as AdjacencyLists promises: no step, be
\* it a write in the middle of an insertion, a crash or a reopening, changes a
\* list except by putting one new relation in front of it.
ListsGrowAtTheHead == Adjacency!Spec

-----------------------------------------------------------------------------
(* The inductive invariant: how far the running addEdge has got, in terms of   *)
(* what it has written and of the copies it still works with.                  *)

\* Node numbers grow with the index file, across crashes and truncations.
NodeNumbering ==
    /\ \A i \in DOMAIN indexFile : indexFile[i].index < i
    /\ nextNodeIndex <= Len(indexFile)
    /\ \A n \in DOMAIN nodesDB : n < nextNodeIndex

Adding == {"addSource", "saveSource", "addDestination", "saveDestination", "addRelation"}
LinkingSource == {"linkSource", "nextSource", "headSource"}
LinkingDestination == {"linkDestination", "nextDestination", "headDestination"}

\* The copy of end s still agrees with the node file.
Held(s) ==
    /\ block[s].addr \in DOMAIN nodesDB
    /\ block[s].ref = nodesDB[block[s].addr].ref

\* The number of end s has been handed out and its block is still to be saved.
Fresh(s) == block[s].addr + 1 = nextNodeIndex /\ block[s].addr \notin DOMAIN nodesDB

\* What addNode has established for the two ends.
NodesReady ==
    /\ pc \in Adding => edge \in [Sides -> Key] /\ nextRelationIndex[kind] <= MaxRelations[kind]
    /\ pc = "saveSource" => Fresh("source") /\ block["source"].ref = NoRefs
    /\ pc = "saveDestination" => Fresh("destination") /\ block["destination"].ref = NoRefs
    /\ pc \in {"addDestination", "saveDestination", "addRelation"} \cup LinkingSource =>
          Held("source")
    /\ pc \in {"addRelation"} \cup LinkingSource => Held("destination")

\* The relation block that is being threaded.
New == relationsDB[kind][newRelation]
SelfLoop == block["source"].addr = block["destination"].addr

\* The old head of end s has been made to point back at the new relation.
PreviousSet(s) ==
    /\ CurrentHead(s) # 0
    /\ LET h == relationsDB[kind][CurrentHead(s)] IN
       h.pre[SideOf(h, block[s].addr)] = newRelation

RelationReady ==
    pc \in LinkingSource \cup LinkingDestination =>
        /\ newRelation # 0 /\ newRelation + 1 = nextRelationIndex[kind]
        /\ \A s \in Sides : New.node[s] = block[s].addr

SourceLinking ==
    /\ pc \in LinkingSource =>
          /\ \A t \in linked : t[1] = kind => t[3] # newRelation
          /\ New.next["destination"] = 0
          /\ pc # "headSource" => New.next["source"] = 0
          /\ pc # "linkSource" => PreviousSet("source")
          /\ pc = "headSource" => New.next["source"] = CurrentHead("source")

DestinationLinking ==
    pc \in LinkingDestination =>
        /\ <<kind, block["source"].addr, newRelation>> \in linked
        /\ \A t \in linked :
               t[1] = kind /\ t[3] = newRelation => t[2] = block["source"].addr
        /\ block["destination"].addr \in DOMAIN nodesDB
        /\ IF SelfLoop
           THEN /\ New.next["source"] = CurrentHead("destination")
                /\ CurrentHead("destination") # 0 => PreviousSet("destination")
           ELSE /\ Held("destination")
                /\ pc # "headDestination" => New.next["destination"] = 0
                /\ pc # "linkDestination" => PreviousSet("destination")
                /\ pc = "headDestination" =>
                       New.next["destination"] = CurrentHead("destination")
        /\ pc # "linkDestination" => CurrentHead("destination") # 0

StoreInv ==
    /\ TypeOK /\ NodeNumbering /\ NodesReady /\ RelationReady
    /\ SourceLinking /\ DestinationLinking
    /\ ListsHoldOwnRelations /\ NewestFirst /\ BackLinks

\* The index record of end s is written and its block is not.
Saving(s) == pc = (IF s = "source" THEN "saveSource" ELSE "saveDestination")

\* What the index file would be read back as, and how far memory agrees with it.
IndexInv ==
    LET onDisk == ReadNodeIndex(indexFile) IN
    /\ \A s \in Sides : Saving(s) =>
          edge[s] \in DOMAIN onDisk /\ onDisk[edge[s]] = block[s].addr
    /\ \A x \in DOMAIN onDisk \ damaged :
          \/ \E s \in Sides : Saving(s) /\ x = edge[s]
          \/ onDisk[x] \in DOMAIN nodesDB /\ nodesDB[onDisk[x]].nodeId = x
    /\ pc # "closed" => \A x \in DOMAIN nodeIndex \ damaged :
          x \in DOMAIN onDisk /\ nodeIndex[x] = onDisk[x]

\* The relations whose second list is being updated: none or the new one.
InFlight(k) == IF pc \in LinkingDestination /\ k = kind THEN {newRelation} ELSE {}

\* The half linked relations that nothing is going to complete: one per crash.
Abandoned(k) == HalfLinked(k) \ InFlight(k)
AbandonedInv == Cardinality(Abandoned("local")) + Cardinality(Abandoned("central")) <= crashes

\* Between two truncations a vertex gets at most one index record.
IndexBound ==
    /\ Len(indexFile) <= Cardinality(Key) * truncations + Cardinality(DOMAIN nodeIndex)
    /\ DOMAIN nodeIndex \subseteq {indexFile[i].key : i \in DOMAIN indexFile}
    /\ truncations <= MaxTruncations
==============================================================================
