-------------------------- MODULE NativeStoreProofs --------------------------
(* The native store, for any set of vertex ids and any bounds: every action     *)
(* keeps the types, the adjacency lists and what a running addEdge relies on;   *)
(* what follows for its edges, its index and what a reader of a list sees.      *)
EXTENDS NativeStore, Induction, FiniteSetTheorems

\* Most steps are set reasoning; those with arithmetic or sequences name SMT.
USE ZenonT(60)

-----------------------------------------------------------------------------
\* The constructor's division of the file size yields the counter in memory.
LEMMA NextFreeUnique ==
    ASSUME TypeOK, NEW k \in Kinds
    PROVE  NextFree(k) = nextRelationIndex[k]
<1>1. nextRelationIndex[k] \in 1..(MaxRelations[k] + 1)
  BY DEF TypeOK, RelationsType
<1>2. DOMAIN relationsDB[k] = 1..(nextRelationIndex[k] - 1)
  BY DEF TypeOK, RelationsType
<1>3. MaxRelations[k] \in Nat
  BY BoundAssumption
<1>4. ASSUME NEW m \in 1..(MaxRelations[k] + 1),
             1..(m - 1) = 1..(nextRelationIndex[k] - 1)
      PROVE  m = nextRelationIndex[k]
  <2>1. m \in Nat /\ nextRelationIndex[k] \in Nat
    BY SMTT(30), <1>1, <1>3
  <2>2. \A i \in Nat : i \in 1..(m - 1) <=> i \in 1..(nextRelationIndex[k] - 1)
    BY Zenon, <1>4
  <2> QED BY SMTT(30), <1>1, <1>3, <2>1, <2>2
<1> QED BY <1>1, <1>2, <1>4 DEF NextFree

(* Every action keeps the types. *)
LEMMA TypeInit == Init => TypeOK
  BY SMTT(30), BoundAssumption DEF Init, TypeOK, IndexType, NodesType,
     RelationsType, FrameType, HistoryType, NoRefs, NoLinks, ZeroBlock, Kinds, Sides,
     NodeBlocks, RelationBlocks, Steps

\* An element of a sequence belongs to the set the sequence is over.
LEMMA SeqElement ==
    ASSUME NEW S, NEW q \in Seq(S), NEW j \in DOMAIN q
    PROVE  q[j] \in S
  BY SMTT(30)

\* The fields of an index record have their types.
LEMMA RecordFields ==
    ASSUME NEW recs \in Seq(IndexRecords), NEW j \in DOMAIN recs
    PROVE  recs[j].key \in Key /\ recs[j].index \in Nat
<1>1. recs[j] \in IndexRecords
  BY SeqElement
<1> QED BY <1>1 DEF IndexRecords

\* The index read back from a file maps every key in it to the number of one
\* of its records, the last one.
LEMMA ReadNodeIndexLast ==
    ASSUME NEW recs \in Seq(IndexRecords), NEW i \in DOMAIN recs
    PROVE  /\ recs[i].key \in DOMAIN ReadNodeIndex(recs)
           /\ \E j \in DOMAIN recs :
                 /\ recs[j].key = recs[i].key
                 /\ \A m \in DOMAIN recs : recs[m].key = recs[i].key => m <= j
                 /\ ReadNodeIndex(recs)[recs[i].key] = recs[j].index
<1> DEFINE x == recs[i].key
           T == {j \in DOMAIN recs : recs[j].key = x}
<1>1. T \in SUBSET (0..Len(recs)) /\ T # {} /\ Len(recs) \in Nat
  BY SMTT(30)
<1>2. PICK g \in T : \A j \in T : j <= g
  <2> HIDE DEF T
  <2> QED BY Zenon, <1>1, Greatest
<1>3. \E j \in DOMAIN recs :
        recs[j].key = x /\ \A m \in DOMAIN recs : recs[m].key = x => m <= j
  BY <1>2
<1>4. x \in {recs[j].key : j \in DOMAIN recs}
  OBVIOUS
<1> DEFINE c == CHOOSE j \in DOMAIN recs :
                   /\ recs[j].key = x
                   /\ \A m \in DOMAIN recs : recs[m].key = x => m <= j
<1>5. c \in DOMAIN recs /\ recs[c].key = x
      /\ \A m \in DOMAIN recs : recs[m].key = x => m <= c
  BY Zenon, <1>3
<1>6. ReadNodeIndex(recs)[x] = recs[c].index
  BY Zenon, <1>4 DEF ReadNodeIndex
<1> QED BY Zenon, <1>4, <1>5, <1>6 DEF ReadNodeIndex

\* readNodeIndex builds a map from vertex ids to block numbers.
LEMMA ReadNodeIndexType ==
    ASSUME NEW recs \in Seq(IndexRecords)
    PROVE  /\ DOMAIN ReadNodeIndex(recs) \subseteq Key
           /\ ReadNodeIndex(recs) \in [DOMAIN ReadNodeIndex(recs) -> Nat]
<1> DEFINE f == ReadNodeIndex(recs)
<1>0. \A j \in DOMAIN recs : recs[j].key \in Key /\ recs[j].index \in Nat
  BY RecordFields
<1>1. DOMAIN f = {recs[j].key : j \in DOMAIN recs}
  BY DEF ReadNodeIndex
<1>2. DOMAIN f \subseteq Key
  BY <1>0, <1>1
<1>3. ASSUME NEW x \in DOMAIN f PROVE f[x] \in Nat
  <2>1. PICK i \in DOMAIN recs : recs[i].key = x
    BY <1>1
  <2> HIDE DEF f
  <2>2. PICK j \in DOMAIN recs : f[x] = recs[j].index
    BY <2>1, ReadNodeIndexLast DEF f
  <2> QED BY <1>0, <2>2
<1>4. f = [x \in DOMAIN f |-> f[x]]
  BY SMTT(30) DEF ReadNodeIndex
<1> HIDE DEF f
<1>5. f \in [DOMAIN f -> Nat]
  BY <1>3, <1>4
<1> QED BY <1>2, <1>5 DEF f

\* What overwriting one previous reference leaves alone.
LEMMA WithPreFacts ==
    ASSUME TypeOK, NEW k \in Kinds, NEW r \in DOMAIN relationsDB[k], NEW side \in Sides,
           NEW x \in Nat
    PROVE  LET db == WithPre(k, r, side, x) IN
           /\ DOMAIN db = Kinds
           /\ \A j \in Kinds : db[j] \in [DOMAIN relationsDB[j] -> RelationBlocks]
           /\ \A j \in Kinds : \A q \in DOMAIN relationsDB[j] :
                 /\ db[j][q].node = relationsDB[j][q].node
                 /\ db[j][q].next = relationsDB[j][q].next
                 /\ \A t \in Sides : db[j][q].pre[t] =
                       IF j = k /\ q = r /\ t = side THEN x ELSE relationsDB[j][q].pre[t]
<1> DEFINE db == WithPre(k, r, side, x)
           R == relationsDB[k][r]
           new == [R EXCEPT !.pre = [@ EXCEPT ![side] = x]]
<1>1. side # "none"
  BY DEF Sides
<1>2. db = [relationsDB EXCEPT ![k] = [@ EXCEPT ![r] = new]]
  BY <1>1 DEF WithPre
<1>3. R \in RelationBlocks
  BY DEF TypeOK, RelationsType
<1>4. /\ new \in RelationBlocks
      /\ new.node = R.node /\ new.next = R.next
      /\ \A t \in Sides : new.pre[t] = IF t = side THEN x ELSE R.pre[t]
  BY <1>3 DEF RelationBlocks
<1> HIDE DEF new, db
<1>5. DOMAIN db = Kinds
  BY <1>2 DEF TypeOK, RelationsType
<1>6. ASSUME NEW j \in Kinds
      PROVE  /\ db[j] \in [DOMAIN relationsDB[j] -> RelationBlocks]
             /\ \A q \in DOMAIN relationsDB[j] :
                   db[j][q] = IF j = k /\ q = r THEN new ELSE relationsDB[j][q]
  BY Zenon, <1>2, <1>4 DEF TypeOK, RelationsType
<1>7. ASSUME NEW j \in Kinds, NEW q \in DOMAIN relationsDB[j]
      PROVE  /\ db[j][q].node = relationsDB[j][q].node
             /\ db[j][q].next = relationsDB[j][q].next
             /\ \A t \in Sides : db[j][q].pre[t] =
                   IF j = k /\ q = r /\ t = side THEN x ELSE relationsDB[j][q].pre[t]
  BY <1>4, <1>6
<1> QED BY <1>5, <1>6, <1>7 DEF db

\* What overwriting one next reference leaves alone.
LEMMA WithNextFacts ==
    ASSUME TypeOK, NEW k \in Kinds, NEW r \in DOMAIN relationsDB[k], NEW side \in Sides,
           NEW x \in Nat
    PROVE  LET db == WithNext(k, r, side, x) IN
           /\ DOMAIN db = Kinds
           /\ \A j \in Kinds : db[j] \in [DOMAIN relationsDB[j] -> RelationBlocks]
           /\ \A j \in Kinds : \A q \in DOMAIN relationsDB[j] :
                 /\ db[j][q].node = relationsDB[j][q].node
                 /\ db[j][q].pre = relationsDB[j][q].pre
                 /\ \A t \in Sides : db[j][q].next[t] =
                       IF j = k /\ q = r /\ t = side THEN x ELSE relationsDB[j][q].next[t]
<1> DEFINE db == WithNext(k, r, side, x)
           R == relationsDB[k][r]
           new == [R EXCEPT !.next = [@ EXCEPT ![side] = x]]
<1>1. side # "none"
  BY DEF Sides
<1>2. db = [relationsDB EXCEPT ![k] = [@ EXCEPT ![r] = new]]
  BY <1>1 DEF WithNext
<1>3. R \in RelationBlocks
  BY DEF TypeOK, RelationsType
<1>4. /\ new \in RelationBlocks
      /\ new.node = R.node /\ new.pre = R.pre
      /\ \A t \in Sides : new.next[t] = IF t = side THEN x ELSE R.next[t]
  BY <1>3 DEF RelationBlocks
<1> HIDE DEF new, db
<1>5. DOMAIN db = Kinds
  BY <1>2 DEF TypeOK, RelationsType
<1>6. ASSUME NEW j \in Kinds
      PROVE  /\ db[j] \in [DOMAIN relationsDB[j] -> RelationBlocks]
             /\ \A q \in DOMAIN relationsDB[j] :
                   db[j][q] = IF j = k /\ q = r THEN new ELSE relationsDB[j][q]
  BY Zenon, <1>2, <1>4 DEF TypeOK, RelationsType
<1>7. ASSUME NEW j \in Kinds, NEW q \in DOMAIN relationsDB[j]
      PROVE  /\ db[j][q].node = relationsDB[j][q].node
             /\ db[j][q].pre = relationsDB[j][q].pre
             /\ \A t \in Sides : db[j][q].next[t] =
                   IF j = k /\ q = r /\ t = side THEN x ELSE relationsDB[j][q].next[t]
  BY <1>4, <1>6
<1> QED BY <1>5, <1>6, <1>7 DEF db

Linking(s) == IF s = "source" THEN LinkingSource ELSE LinkingDestination

\* While end s is being threaded, the head it works with is a relation of that
\* node, also for a self loop, whose second copy is out of date by then.
LEMMA HeadFacts ==
    ASSUME StoreInv, NEW s \in Sides, pc \in Linking(s)
    PROVE  /\ kind \in Kinds
           /\ newRelation \in DOMAIN relationsDB[kind]
           /\ newRelation \in Nat
           /\ block[s].addr \in DOMAIN nodesDB
           /\ CurrentHead(s) \in Nat
           /\ SideOf(New, block[s].addr) \in Sides
           /\ CurrentHead(s) # 0 =>
                 /\ CurrentHead(s) \in DOMAIN relationsDB[kind]
                 /\ CurrentHead(s) \in Linked(kind, block[s].addr)
                 /\ CurrentHead(s) < newRelation
                 /\ SideOf(relationsDB[kind][CurrentHead(s)], block[s].addr) \in Sides
<1> DEFINE n == block[s].addr
           h == CurrentHead(s)
<1>1. kind \in Kinds /\ newRelation \in Nat /\ h \in Nat
  BY DEF StoreInv, TypeOK, FrameType, CurrentHead
<1>2. newRelation \in DOMAIN relationsDB[kind]
  BY SMTT(30), <1>1 DEF StoreInv, TypeOK, RelationsType, RelationReady, Linking
<1>3. SideOf(New, n) \in Sides
  BY DEF StoreInv, RelationReady, Linking, SideOf, Sides
<1>4. n \in DOMAIN nodesDB
  BY DEF StoreInv, NodesReady, DestinationLinking, Linking, Held, Sides
<1>5. ASSUME h # 0
      PROVE  h \in Linked(kind, n) /\ h < newRelation
  <2>1. CASE s = "destination" /\ SelfLoop
    <3>1. pc \in LinkingDestination
      BY <2>1 DEF Linking
    <3>2. newRelation \in Linked(kind, n)
      BY <1>1, <1>2, <2>1, <3>1 DEF StoreInv, DestinationLinking, SelfLoop, Linked
    <3>3. NextOf(kind, n, newRelation) = h
      BY <2>1, <3>1
         DEF StoreInv, DestinationLinking, RelationReady, SelfLoop, NextOf, SideOf, New, Sides
    <3> QED BY <1>1, <1>4, <1>5, <3>2, <3>3 DEF StoreInv, NewestFirst, IsNewest
  <2>2. CASE ~(s = "destination" /\ SelfLoop)
    <3>1. h = nodesDB[n].ref[kind]
      BY <2>2 DEF StoreInv, NodesReady, DestinationLinking, Linking, Held, Sides, CurrentHead
    <3>2. h \in Linked(kind, n)
      BY <1>1, <1>4, <1>5, <3>1 DEF StoreInv, NewestFirst, IsNewest
    <3>3. <<kind, n, h>> \in linked
      BY <3>2 DEF Linked
    <3>4. h # newRelation
      BY <2>2, <3>3 DEF StoreInv, SourceLinking, DestinationLinking, Linking, SelfLoop, Sides
    <3>5. h \in 1..newRelation
      BY SMTT(30), <1>1, <3>2 DEF Linked, StoreInv, TypeOK, RelationsType, RelationReady, Linking
    <3> QED BY SMTT(30), <1>1, <3>2, <3>4, <3>5
  <2> QED BY <2>1, <2>2
<1>6. ASSUME h # 0
      PROVE  h \in DOMAIN relationsDB[kind] /\ SideOf(relationsDB[kind][h], n) \in Sides
  <2>1. <<kind, n, h>> \in linked
    BY <1>5, <1>6 DEF Linked
  <2> QED BY <2>1 DEF StoreInv, ListsHoldOwnRelations, SideOf, Sides
<1> QED BY <1>1, <1>2, <1>3, <1>4, <1>5, <1>6

\* Every step of the store keeps the types.
LEMMA TypeNext ==
    ASSUME StoreInv, [Next]_vars
    PROVE  TypeOK'
<1> USE DEF vars, files, memory, frame, counts, ghosts
<1>0. /\ IndexType /\ NodesType /\ RelationsType /\ FrameType /\ HistoryType
      /\ NodesReady /\ TypeOK
  BY DEF StoreInv, TypeOK
<1>1. CASE OpenAppend
  <2>1. nextRelationIndex' = nextRelationIndex
    BY <1>0, <1>1, NextFreeUnique DEF OpenAppend, RelationsType
  <2>2. IndexType'
    <3>1. indexFile \in Seq(IndexRecords)
      BY <1>0 DEF IndexType
    <3> QED BY SMTT(30), <1>1, <3>1, ReadNodeIndexType DEF OpenAppend, IndexType
  <2>3. NodesType' /\ RelationsType'
    BY <1>0, <1>1, <2>1 DEF OpenAppend, NodesType, RelationsType
  <2>4. FrameType' /\ HistoryType'
    BY <1>0, <1>1 DEF OpenAppend, FrameType, HistoryType, Steps
  <2> QED BY <2>2, <2>3, <2>4 DEF TypeOK
<1>2. CASE OpenTruncate
  <2>1. damaged' \subseteq Key
    BY <1>0, <1>2, RecordFields DEF OpenTruncate, IndexType
  <2>2. IndexType' /\ NodesType'
    BY <1>0, <1>2 DEF OpenTruncate, IndexType, NodesType
  <2>3. RelationsType'
    BY SMTT(30), <1>2, BoundAssumption DEF OpenTruncate, RelationsType
  <2>4. FrameType' /\ HistoryType'
    BY SMTT(30), <1>0, <1>2, <2>1 DEF OpenTruncate, FrameType, HistoryType, Steps
  <2> QED BY <2>2, <2>3, <2>4 DEF TypeOK
<1>3. CASE Stop
  BY Zenon, <1>0, <1>3 DEF Stop, TypeOK, IndexType, NodesType, RelationsType, FrameType,
     HistoryType, Steps
<1>4. CASE Crash
  <2>1. damaged' \subseteq Key
    BY <1>0, <1>4 DEF Crash, HistoryType, NodesReady, Adding, Sides
  <2>2. crashes' \in Nat /\ pc' \in Steps
    BY SMTT(30), <1>0, <1>4 DEF Crash, HistoryType, Steps
  <2>3. IndexType' /\ NodesType' /\ RelationsType'
    BY <1>0, <1>4 DEF Crash, IndexType, NodesType, RelationsType
  <2>4. FrameType' /\ HistoryType'
    BY <1>0, <1>4, <2>1, <2>2 DEF Crash, FrameType, HistoryType
  <2> QED BY <2>3, <2>4 DEF TypeOK
<1>5. CASE AddRelation
  <2> DEFINE r == nextRelationIndex[kind]
             rel == [node |-> [s \in Sides |-> block[s].addr],
                     next |-> NoLinks, pre |-> NoLinks]
  <2>1. kind \in Kinds /\ r \in 1..MaxRelations[kind]
        /\ \A s \in Sides : block[s].addr \in Nat
    BY SMTT(30), <1>0, <1>5 DEF AddRelation, WriteRelation, FrameType, RelationsType, NodesReady, Adding
  <2>2. rel \in RelationBlocks
    BY <2>1 DEF RelationBlocks, NoLinks
  <2>3. nextRelationIndex' = [nextRelationIndex EXCEPT ![kind] = r + 1]
        /\ relationsDB' = [relationsDB EXCEPT ![kind] =
               [q \in DOMAIN relationsDB[kind] \cup {r} |->
                  IF q = r THEN rel ELSE relationsDB[kind][q]]]
    BY <1>5 DEF AddRelation, WriteRelation
  <2> HIDE DEF rel
  <2>4. ASSUME NEW k \in Kinds
        PROVE  /\ nextRelationIndex'[k] \in 1..(MaxRelations[k] + 1)
               /\ relationsDB'[k] \in [1..(nextRelationIndex'[k] - 1) -> RelationBlocks]
    <3>1. CASE k # kind
      BY <1>0, <2>3, <3>1 DEF RelationsType
    <3>2. CASE k = kind
      <4>0. MaxRelations[k] \in Nat
        BY BoundAssumption
      <4>1. nextRelationIndex'[k] = r + 1 /\ r + 1 \in 1..(MaxRelations[k] + 1)
        BY SMTT(30), <1>0, <2>1, <2>3, <3>2, <4>0 DEF RelationsType
      <4>2. DOMAIN relationsDB[k] \cup {r} = 1..r
        BY SMTT(30), <1>0, <2>1, <3>2, <4>0 DEF RelationsType
      <4>3. relationsDB'[k] = [q \in 1..r |-> IF q = r THEN rel ELSE relationsDB[k][q]]
        BY <1>0, <2>3, <3>2, <4>2 DEF RelationsType
      <4>4. \A q \in 1..r : q # r => relationsDB[k][q] \in RelationBlocks
        BY <1>0, <2>1, <3>2, <4>2 DEF RelationsType
      <4>5. (r + 1) - 1 = r
        BY SMTT(30), <2>1, <3>2, <4>0
      <4> QED BY <2>2, <4>1, <4>3, <4>4, <4>5
    <3> QED BY <3>1, <3>2
  <2>5. nextRelationIndex' \in [Kinds -> Nat] /\ DOMAIN relationsDB' = Kinds
    BY SMTT(30), <1>0, <2>1, <2>3 DEF RelationsType
  <2>6. RelationsType'
    BY <2>4, <2>5 DEF RelationsType
  <2>7. IndexType' /\ NodesType'
    BY <1>0, <1>5 DEF AddRelation, WriteRelation, IndexType, NodesType
  <2>8. FrameType' /\ HistoryType'
    BY <1>0, <1>5, <2>1 DEF AddRelation, WriteRelation, FrameType, HistoryType, RelationsType, Steps
  <2> QED BY <2>6, <2>7, <2>8 DEF TypeOK
<1>6. ASSUME NEW k \in Kinds, NEW a \in Key, NEW b \in Key, AddEdge(k, a, b)
      PROVE  TypeOK'
  <2>1. IndexType' /\ NodesType' /\ RelationsType'
    BY <1>0, <1>6 DEF AddEdge, IndexType, NodesType, RelationsType
  <2>2. FrameType' /\ HistoryType'
    BY <1>0, <1>6 DEF AddEdge, FrameType, HistoryType, Steps
  <2> QED BY <2>1, <2>2 DEF TypeOK
<1>7. ASSUME NEW s \in Sides, GetNode(s)
      PROVE  TypeOK'
  <2>1. pc' \in Steps
    BY <1>7 DEF GetNode, AfterNode, Steps
  <2>2. block' \in [Sides -> [addr : Nat, ref : [Kinds -> Nat]]]
    <3> DEFINE i == nodeIndex[edge[s]]
    <3>1. i \in Nat
      BY <1>0, <1>7 DEF GetNode, IndexType
    <3>2. CASE i \in DOMAIN nodesDB
      <4>1. nodesDB[i].ref \in [Kinds -> Nat]
        BY <1>0, <3>2 DEF NodesType, NodeBlocks
      <4>2. block' = [block EXCEPT ![s] = [addr |-> i, ref |-> nodesDB[i].ref]]
        BY <1>7, <3>2 DEF GetNode
      <4> QED BY <1>0, <3>1, <4>1, <4>2 DEF FrameType
    <3>3. CASE i \notin DOMAIN nodesDB
      BY <1>0, <1>7, <3>3 DEF GetNode, FrameType
    <3> QED BY <3>2, <3>3
  <2>3. IndexType' /\ NodesType' /\ RelationsType'
    BY <1>0, <1>7 DEF GetNode, IndexType, NodesType, RelationsType
  <2>4. FrameType' /\ HistoryType'
    BY <1>0, <1>7, <2>1, <2>2 DEF GetNode, FrameType, HistoryType
  <2> QED BY <2>3, <2>4 DEF TypeOK
<1>8. ASSUME NEW s \in Sides, AddNodeIndex(s)
      PROVE  TypeOK'
  <2>1. edge[s] \in Key
    BY SMTT(30), <1>0, <1>8 DEF AddNodeIndex, NodesReady, Adding, Sides
  <2>2. [key |-> edge[s], index |-> nextNodeIndex] \in IndexRecords
    BY <1>0, <2>1 DEF IndexType, IndexRecords
  <2>3. indexFile' \in Seq(IndexRecords)
    BY SMTT(30), <1>0, <1>8, <2>2 DEF AddNodeIndex, IndexType
  <2>4. IndexType'
    BY SMTT(30), <1>0, <1>8, <2>1, <2>3 DEF AddNodeIndex, IndexType
  <2>5. block' \in [Sides -> [addr : Nat, ref : [Kinds -> Nat]]]
    BY SMTT(30), <1>0, <1>8 DEF AddNodeIndex, IndexType, FrameType, NoRefs
  <2>6. NodesType' /\ RelationsType'
    BY SMTT(30), <1>0, <1>8 DEF AddNodeIndex, NodesType, RelationsType
  <2>7. FrameType'
    BY SMTT(30), <1>0, <1>8, <2>5 DEF AddNodeIndex, FrameType, Steps
  <2>8. HistoryType'
    BY SMTT(30), <1>0, <1>8 DEF AddNodeIndex, HistoryType
  <2> QED BY <2>4, <2>6, <2>7, <2>8 DEF TypeOK
<1>9. ASSUME NEW s \in Sides, SaveNode(s)
      PROVE  TypeOK'
  <2>1. edge[s] \in Key /\ block[s].addr \in Nat /\ block[s].ref \in [Kinds -> Nat]
    BY <1>0, <1>9 DEF SaveNode, NodesReady, Adding, FrameType, Sides
  <2>2. [nodeId |-> edge[s], ref |-> block[s].ref] \in NodeBlocks /\ ZeroBlock \in NodeBlocks
    BY <2>1 DEF NodeBlocks, ZeroBlock, NoRefs
  <2>3. NodesType'
    BY SMTT(30), <1>0, <1>9, <2>1, <2>2 DEF SaveNode, SaveBlock, NodesType
  <2>4. IndexType' /\ RelationsType'
    BY <1>0, <1>9 DEF SaveNode, IndexType, RelationsType
  <2>5. FrameType' /\ HistoryType'
    BY <1>0, <1>9 DEF SaveNode, AfterNode, FrameType, HistoryType, Steps
  <2> QED BY <2>3, <2>4, <2>5 DEF TypeOK
<1>10. ASSUME NEW s \in Sides, LinkPrevious(s)
       PROVE  TypeOK'
  <2>1. pc \in Linking(s) /\ CurrentHead(s) # 0
    BY <1>10 DEF LinkPrevious, Linking, LinkingSource, LinkingDestination
  <2>2. /\ DOMAIN relationsDB' = Kinds
        /\ \A k \in Kinds : relationsDB'[k] \in [DOMAIN relationsDB[k] -> RelationBlocks]
    <3>1. /\ kind \in Kinds /\ CurrentHead(s) \in DOMAIN relationsDB[kind]
          /\ SideOf(relationsDB[kind][CurrentHead(s)], block[s].addr) \in Sides
          /\ newRelation \in Nat
      BY <2>1, HeadFacts
    <3> QED BY SMTT(30), <1>0, <1>10, <3>1, WithPreFacts DEF LinkPrevious
  <2>3. RelationsType'
    BY <1>0, <1>10, <2>2 DEF LinkPrevious, RelationsType
  <2>4. IndexType' /\ NodesType'
    BY <1>0, <1>10 DEF LinkPrevious, IndexType, NodesType
  <2>5. FrameType' /\ HistoryType'
    BY <1>0, <1>10 DEF LinkPrevious, FrameType, HistoryType, Steps
  <2> QED BY <2>3, <2>4, <2>5 DEF TypeOK
<1>11. ASSUME NEW s \in Sides, LinkNext(s)
       PROVE  TypeOK'
  <2>1. pc \in Linking(s)
    BY <1>11 DEF LinkNext, Linking, LinkingSource, LinkingDestination
  <2>2. /\ DOMAIN relationsDB' = Kinds
        /\ \A k \in Kinds : relationsDB'[k] \in [DOMAIN relationsDB[k] -> RelationBlocks]
    <3>1. /\ kind \in Kinds /\ newRelation \in DOMAIN relationsDB[kind]
          /\ SideOf(relationsDB[kind][newRelation], block[s].addr) \in Sides
          /\ CurrentHead(s) \in Nat
      BY <2>1, HeadFacts DEF New
    <3> QED BY SMTT(30), <1>0, <1>11, <3>1, WithNextFacts DEF LinkNext
  <2>3. RelationsType'
    BY <1>0, <1>11, <2>2 DEF LinkNext, RelationsType
  <2>4. IndexType' /\ NodesType'
    BY <1>0, <1>11 DEF LinkNext, IndexType, NodesType
  <2>5. FrameType' /\ HistoryType'
    BY <1>0, <1>11 DEF LinkNext, FrameType, HistoryType, Steps
  <2> QED BY <2>3, <2>4, <2>5 DEF TypeOK
<1>12. ASSUME NEW s \in Sides, SetRelationHead(s)
       PROVE  TypeOK'
  <2>1. NodesType'
    BY ZenonT(60), <1>0, <1>12 DEF SetRelationHead, NodesType, FrameType, NodeBlocks
  <2>2. HistoryType'
    BY SMTT(30), <1>0, <1>12 DEF SetRelationHead, HistoryType, FrameType
  <2>3. IndexType' /\ RelationsType'
    BY <1>0, <1>12 DEF SetRelationHead, IndexType, RelationsType
  <2>4. FrameType'
    BY <1>0, <1>12 DEF SetRelationHead, FrameType, Steps
  <2> QED BY <2>1, <2>2, <2>3, <2>4 DEF TypeOK
<1>13. CASE UNCHANGED vars
  BY Zenon, <1>0, <1>13 DEF TypeOK, IndexType, NodesType, RelationsType, FrameType, HistoryType
<1> QED
  BY <1>1, <1>2, <1>3, <1>4, <1>5, <1>6, <1>7, <1>8, <1>9, <1>10, <1>11, <1>12, <1>13
     DEF Next, AddNode, UpdateRelation
-----------------------------------------------------------------------------
(* The adjacency lists, action by action. *)

Lists == ListsHoldOwnRelations /\ NewestFirst /\ BackLinks

\* A step after which every list is read as before.
SameLists ==
    \A k \in Kinds : \A n :
        /\ Linked(k, n)' = Linked(k, n)
        /\ \A r \in Linked(k, n) : NextOf(k, n, r)' = NextOf(k, n, r)

\* A step that writes neither file and links nothing leaves the lists alone.
LEMMA ListsUntouched ==
    ASSUME Lists, UNCHANGED <<nodesDB, relationsDB, linked>>
    PROVE  Lists' /\ SameLists
<1>1. ListsHoldOwnRelations'
  BY DEF Lists, ListsHoldOwnRelations
<1>2. \A k, n : Linked(k, n)' = Linked(k, n)
  BY DEF Linked
<1>3. \A k, n, r : NextOf(k, n, r)' = NextOf(k, n, r)
  BY DEF NextOf
<1>4. NewestFirst'
  BY <1>2, <1>3 DEF Lists, NewestFirst
<1>5. BackLinks'
  BY SMTT(30), <1>2, <1>3 DEF Lists, BackLinks
<1> QED BY <1>1, <1>2, <1>3, <1>4, <1>5 DEF Lists, SameLists

\* A new block belongs to no list, and neither do the holes in front of it.
LEMMA ListsSaveNode ==
    ASSUME StoreInv, NEW s \in Sides, SaveNode(s)
    PROVE  Lists' /\ SameLists
<1>1. ListsHoldOwnRelations /\ NewestFirst /\ BackLinks /\ NodesType
  BY DEF StoreInv, TypeOK
<1>2. UNCHANGED <<relationsDB, linked>>
  BY DEF SaveNode, files, memory, frame, counts, ghosts
<1>3. block[s].addr \in Nat /\ block[s].addr \notin DOMAIN nodesDB /\ block[s].ref = NoRefs
  BY DEF StoreInv, TypeOK, FrameType, SaveNode, NodesReady, Fresh, Sides
<1>4. /\ DOMAIN nodesDB \subseteq DOMAIN nodesDB'
      /\ \A n \in DOMAIN nodesDB : nodesDB'[n] = nodesDB[n]
      /\ \A n \in DOMAIN nodesDB' : n \notin DOMAIN nodesDB => nodesDB'[n].ref = NoRefs
  BY <1>3 DEF SaveNode, SaveBlock, ZeroBlock
<1>5. ListsHoldOwnRelations'
  BY <1>1, <1>2, <1>4 DEF ListsHoldOwnRelations
<1>6. ASSUME NEW k \in Kinds, NEW n \in DOMAIN nodesDB', n \notin DOMAIN nodesDB
      PROVE  Linked(k, n)' = {} /\ nodesDB'[n].ref[k] = 0
  <2>1. \A r : <<k, n, r>> \notin linked
    BY <1>1, <1>6 DEF ListsHoldOwnRelations
  <2> QED BY <1>2, <1>4, <1>6, <2>1 DEF Linked, NoRefs
<1>7. NewestFirst'
  <2>1. ASSUME NEW k \in Kinds, NEW n \in DOMAIN nodesDB'
        PROVE  /\ IsNewest(Linked(k, n), nodesDB[n].ref[k])'
               /\ \A r \in Linked(k, n)' :
                     IsNewest({q \in Linked(k, n)' : q < r}, NextOf(k, n, r)')
    <3>1. CASE n \in DOMAIN nodesDB
      BY Zenon, <1>1, <1>2, <1>4, <3>1 DEF NewestFirst, Linked, NextOf
    <3>2. CASE n \notin DOMAIN nodesDB
      BY <1>6, <3>2 DEF IsNewest
    <3> QED BY <3>1, <3>2
  <2> QED BY <2>1 DEF NewestFirst
<1>8. BackLinks'
  <2>1. ASSUME NEW k \in Kinds, NEW n \in DOMAIN nodesDB', NEW r \in Linked(k, n)'
        PROVE  n \in DOMAIN nodesDB /\ r \in Linked(k, n)
    BY <1>2, <1>6, <2>1 DEF Linked
  <2>2. \A k, n, r : NextOf(k, n, r)' = NextOf(k, n, r)
    BY <1>2 DEF NextOf
  <2> QED BY <1>1, <1>2, <2>1, <2>2 DEF BackLinks
<1>9. SameLists
  BY <1>2 DEF SameLists, Linked, NextOf
<1> QED BY <1>5, <1>7, <1>8, <1>9 DEF Lists

\* The new relation block is in no list yet; the others are as before.
LEMMA ListsAddRelation ==
    ASSUME StoreInv, AddRelation
    PROVE  Lists' /\ SameLists
<1> DEFINE r == nextRelationIndex[kind]
<1>1. /\ ListsHoldOwnRelations /\ NewestFirst /\ BackLinks
      /\ RelationsType /\ kind \in Kinds
  BY DEF StoreInv, TypeOK, FrameType
<1>2. UNCHANGED <<nodesDB, linked>>
  BY DEF AddRelation, WriteRelation, ghosts
<1>3. r \notin DOMAIN relationsDB[kind]
  BY SMTT(30), <1>1 DEF RelationsType
<1>4. /\ DOMAIN relationsDB' = Kinds
      /\ \A k \in Kinds : DOMAIN relationsDB[k] \subseteq DOMAIN relationsDB'[k]
      /\ \A k \in Kinds : \A q \in DOMAIN relationsDB[k] : relationsDB'[k][q] = relationsDB[k][q]
  BY <1>1, <1>3 DEF AddRelation, WriteRelation, RelationsType
<1>5. ListsHoldOwnRelations'
  <2>1. \A t \in linked : t[1] \in Kinds
    BY DEF StoreInv, TypeOK, HistoryType
  <2> QED BY <1>1, <1>2, <1>4, <2>1 DEF ListsHoldOwnRelations
<1>6. ASSUME NEW k \in Kinds, NEW n
      PROVE  Linked(k, n)' = Linked(k, n)
  <2>1. \A q : <<k, n, q>> \in linked => q \in DOMAIN relationsDB[k]
    BY <1>1 DEF ListsHoldOwnRelations
  <2> QED BY <1>2, <1>4, <2>1 DEF Linked
<1>7. \A k \in Kinds : \A n, q : q \in Linked(k, n) => NextOf(k, n, q)' = NextOf(k, n, q)
  BY <1>4 DEF NextOf, Linked
<1>8. NewestFirst'
  BY SMTT(30), <1>1, <1>2, <1>6, <1>7 DEF NewestFirst
<1>9. BackLinks'
  BY SMTT(30), <1>1, <1>2, <1>4, <1>6, <1>7 DEF BackLinks
<1> QED BY <1>5, <1>6, <1>7, <1>8, <1>9 DEF Lists, SameLists

\* A self loop is in the list of its node once its source end is threaded.
LEMMA SelfLoopFacts ==
    ASSUME StoreInv, pc \in LinkingDestination, SelfLoop
    PROVE  LET n == block["destination"].addr IN
           /\ newRelation \in Linked(kind, n)
           /\ NextOf(kind, n, newRelation) = CurrentHead("destination")
<1>1. newRelation \in DOMAIN relationsDB[kind]
  BY HeadFacts DEF Linking, Sides
<1> QED
  BY <1>1 DEF StoreInv, DestinationLinking, RelationReady, SelfLoop, Linked, NextOf, SideOf,
     New, Sides

\* Otherwise the copy of end s still has the head of the list, and the new
\* relation is not in that list.
LEMMA HeldFacts ==
    ASSUME StoreInv, NEW s \in Sides, pc \in Linking(s), ~(s = "destination" /\ SelfLoop)
    PROVE  /\ CurrentHead(s) = nodesDB[block[s].addr].ref[kind]
           /\ newRelation \notin Linked(kind, block[s].addr)
<1>1. CurrentHead(s) = nodesDB[block[s].addr].ref[kind]
  BY DEF StoreInv, NodesReady, DestinationLinking, Linking, Held, Sides, CurrentHead
<1>2. <<kind, block[s].addr, newRelation>> \notin linked
  BY DEF StoreInv, SourceLinking, DestinationLinking, Linking, SelfLoop, Sides
<1> QED BY <1>1, <1>2 DEF Linked

\* No relation but the new one leads to the head that is being replaced.
LEMMA PointsAtHead ==
    ASSUME StoreInv, NEW s \in Sides, pc \in Linking(s), CurrentHead(s) # 0,
           NEW r \in Linked(kind, block[s].addr),
           NextOf(kind, block[s].addr, r) = CurrentHead(s)
    PROVE  r = newRelation
<1> DEFINE n == block[s].addr
           h == CurrentHead(s)
           L == Linked(kind, n)
<1>1. kind \in Kinds /\ n \in DOMAIN nodesDB /\ h \in Nat /\ newRelation \in Nat
  BY HeadFacts
<1>2. r \in Nat /\ r <= newRelation
  BY SMTT(30), <1>1 DEF Linked, StoreInv, TypeOK, RelationsType, RelationReady, Linking
<1>3. h < r
  BY <1>1 DEF StoreInv, NewestFirst, IsNewest
<1>4. CASE s = "destination" /\ SelfLoop
  <2>1. newRelation \in L /\ NextOf(kind, n, newRelation) = h
    BY <1>4, SelfLoopFacts DEF Linking
  <2>2. \A q \in L : q < newRelation => q <= h
    BY Zenon, <1>1, <2>1 DEF StoreInv, NewestFirst, IsNewest
  <2> QED BY SMTT(30), <1>1, <1>2, <1>3, <2>2
<1>5. CASE ~(s = "destination" /\ SelfLoop)
  <2>1. h = nodesDB[n].ref[kind]
    BY <1>5, HeldFacts
  <2>2. r <= h
    BY <1>1, <2>1 DEF StoreInv, NewestFirst, IsNewest
  <2> QED BY SMTT(30), <1>1, <1>2, <1>3, <2>2
<1> QED BY <1>4, <1>5

\* A node that is an end of a relation is its source or its destination.
LEMMA SideOfEnd ==
    ASSUME NEW rel, NEW n, SideOf(rel, n) # "none"
    PROVE  SideOf(rel, n) \in Sides /\ rel.node[SideOf(rel, n)] = n
  BY DEF SideOf, Sides

\* The back reference of the old head is not part of any list yet.
LEMMA ListsLinkPrevious ==
    ASSUME StoreInv, NEW s \in Sides, LinkPrevious(s)
    PROVE  Lists' /\ SameLists
<1> DEFINE n0 == block[s].addr
           h == CurrentHead(s)
           side == SideOf(relationsDB[kind][h], n0)
<1>1. pc \in Linking(s) /\ h # 0
  BY DEF LinkPrevious, Linking, LinkingSource, LinkingDestination
<1>2. /\ kind \in Kinds /\ h \in DOMAIN relationsDB[kind] /\ side \in Sides
      /\ newRelation \in Nat
  BY <1>1, HeadFacts
<1>3. /\ relationsDB' = WithPre(kind, h, side, newRelation)
      /\ UNCHANGED <<nodesDB, linked>>
  BY DEF LinkPrevious, ghosts
<1>4. /\ TypeOK /\ RelationsType /\ ListsHoldOwnRelations /\ NewestFirst /\ BackLinks
      /\ \A t \in linked : t[1] \in Kinds
  BY DEF StoreInv, TypeOK, HistoryType
<1> HIDE DEF n0, h, side
<1>5. /\ DOMAIN relationsDB' = Kinds
      /\ \A k \in Kinds : DOMAIN relationsDB'[k] = DOMAIN relationsDB[k]
      /\ \A k \in Kinds : \A q \in DOMAIN relationsDB[k] :
            /\ relationsDB'[k][q].node = relationsDB[k][q].node
            /\ relationsDB'[k][q].next = relationsDB[k][q].next
            /\ \A t \in Sides : relationsDB'[k][q].pre[t] =
                  IF k = kind /\ q = h /\ t = side THEN newRelation
                  ELSE relationsDB[k][q].pre[t]
  BY SMTT(30), <1>2, <1>3, <1>4, WithPreFacts
<1>6. \A k \in Kinds : \A q \in DOMAIN relationsDB[k] : \A n :
         SideOf(relationsDB'[k][q], n) = SideOf(relationsDB[k][q], n)
  BY <1>5 DEF SideOf
<1>7. \A k \in Kinds : \A n : Linked(k, n)' = Linked(k, n)
  BY <1>3, <1>5 DEF Linked
<1>8. \A k \in Kinds : \A n : \A r \in Linked(k, n) : NextOf(k, n, r)' = NextOf(k, n, r)
  BY <1>5 DEF NextOf, Linked, SideOf
<1>9. ListsHoldOwnRelations'
  <2>1. ASSUME NEW t \in linked
        PROVE  /\ t[2] \in DOMAIN nodesDB /\ t[3] \in DOMAIN relationsDB'[t[1]]
               /\ SideOf(relationsDB'[t[1]][t[3]], t[2]) # "none"
    <3>1. t[1] \in Kinds /\ t[2] \in DOMAIN nodesDB /\ t[3] \in DOMAIN relationsDB[t[1]]
          /\ SideOf(relationsDB[t[1]][t[3]], t[2]) # "none"
      BY <1>4 DEF ListsHoldOwnRelations
    <3> QED BY <1>5, <3>1 DEF SideOf
  <2> QED BY <1>3, <2>1 DEF ListsHoldOwnRelations
<1>10. NewestFirst'
  <2>1. ASSUME NEW k \in Kinds, NEW n \in DOMAIN nodesDB
        PROVE  /\ IsNewest(Linked(k, n)', nodesDB[n].ref[k])
               /\ \A r \in Linked(k, n)' :
                     IsNewest({q \in Linked(k, n)' : q < r}, NextOf(k, n, r)')
    BY SMTT(30), <1>4, <1>7, <1>8 DEF NewestFirst
  <2> QED BY <1>3, <2>1 DEF NewestFirst
<1>11. BackLinks'
  <2>1. ASSUME NEW k \in Kinds, NEW n \in DOMAIN nodesDB, NEW r \in Linked(k, n),
               NextOf(k, n, r) # 0
        PROVE  LET q == NextOf(k, n, r) IN
               /\ q \in DOMAIN relationsDB'[k]
               /\ SideOf(relationsDB'[k][q], n) # "none"
               /\ relationsDB'[k][q].pre[SideOf(relationsDB'[k][q], n)] = r
    <3> DEFINE q == NextOf(k, n, r)
               t == SideOf(relationsDB[k][q], n)
    <3>1. q \in DOMAIN relationsDB[k] /\ t # "none" /\ relationsDB[k][q].pre[t] = r
      BY <1>4, <2>1 DEF BackLinks
    <3>2. t \in Sides /\ relationsDB[k][q].node[t] = n
      BY <3>1, SideOfEnd
    <3>3. ASSUME k = kind, q = h, t = side PROVE r = newRelation
      <4>1. n = n0
        <5>1. relationsDB[kind][h].node[side] = n0
          <6>1. side # "none"
            BY <1>2 DEF Sides
          <6> QED BY <6>1, SideOfEnd DEF side
        <5> QED BY <3>2, <3>3, <5>1
      <4> QED BY <1>1, <2>1, <3>3, <4>1, PointsAtHead DEF n0, h
    <3>4. relationsDB'[k][q].pre[t] = r
      BY <1>5, <3>1, <3>2, <3>3
    <3>5. SideOf(relationsDB'[k][q], n) = t
      BY <1>6, <3>1
    <3> QED BY <1>5, <3>1, <3>4, <3>5
  <2> QED BY SMTT(30), <1>3, <1>7, <1>8, <2>1 DEF BackLinks
<1> QED BY <1>7, <1>8, <1>9, <1>10, <1>11 DEF Lists, SameLists

\* The forward reference of the new relation is not part of any list yet; for a
\* self loop the same reference is written twice.
LEMMA ListsLinkNext ==
    ASSUME StoreInv, NEW s \in Sides, LinkNext(s)
    PROVE  Lists' /\ SameLists
<1> DEFINE n0 == block[s].addr
           h == CurrentHead(s)
           side == SideOf(relationsDB[kind][newRelation], n0)
<1>1. pc \in Linking(s)
  BY DEF LinkNext, Linking, LinkingSource, LinkingDestination
<1>2. /\ kind \in Kinds /\ newRelation \in DOMAIN relationsDB[kind] /\ side \in Sides
      /\ h \in Nat
  BY <1>1, HeadFacts DEF New
<1>3. /\ relationsDB' = WithNext(kind, newRelation, side, h)
      /\ UNCHANGED <<nodesDB, linked>>
  BY DEF LinkNext, ghosts
<1>4. /\ TypeOK /\ RelationsType /\ ListsHoldOwnRelations /\ NewestFirst /\ BackLinks
      /\ \A t \in linked : t[1] \in Kinds
  BY DEF StoreInv, TypeOK, HistoryType
<1> HIDE DEF n0, h, side
<1>5. /\ DOMAIN relationsDB' = Kinds
      /\ \A k \in Kinds : DOMAIN relationsDB'[k] = DOMAIN relationsDB[k]
      /\ \A k \in Kinds : \A q \in DOMAIN relationsDB[k] :
            /\ relationsDB'[k][q].node = relationsDB[k][q].node
            /\ relationsDB'[k][q].pre = relationsDB[k][q].pre
            /\ \A t \in Sides : relationsDB'[k][q].next[t] =
                  IF k = kind /\ q = newRelation /\ t = side THEN h
                  ELSE relationsDB[k][q].next[t]
  BY SMTT(30), <1>2, <1>3, <1>4, WithNextFacts
<1>6. \A k \in Kinds : \A q \in DOMAIN relationsDB[k] : \A n :
         SideOf(relationsDB'[k][q], n) = SideOf(relationsDB[k][q], n)
  BY <1>5 DEF SideOf
<1>7. \A k \in Kinds : \A n : Linked(k, n)' = Linked(k, n)
  BY <1>3, <1>5 DEF Linked
<1>8. ASSUME NEW k \in Kinds, NEW n, NEW r \in Linked(k, n)
      PROVE  NextOf(k, n, r)' = NextOf(k, n, r)
  <2> DEFINE t == SideOf(relationsDB[k][r], n)
  <2>1. r \in DOMAIN relationsDB[k] /\ <<k, n, r>> \in linked /\ t # "none"
    BY <1>4 DEF Linked, ListsHoldOwnRelations
  <2>2. t \in Sides /\ relationsDB[k][r].node[t] = n
    BY <2>1, SideOfEnd
  <2>3. ASSUME k = kind, r = newRelation, t = side
        PROVE  h = NextOf(k, n, r)
    <3>1. n = n0
      <4>1. relationsDB[kind][newRelation].node[side] = n0
        <5>1. side # "none"
          BY <1>2 DEF Sides
        <5> QED BY <5>1, SideOfEnd DEF side
      <4> QED BY <2>2, <2>3, <4>1
    <3>2. s = "destination" /\ SelfLoop
      BY <1>1, <2>1, <2>3, <3>1, HeldFacts DEF n0
    <3> QED BY <1>1, <2>3, <3>1, <3>2, SelfLoopFacts DEF n0, h, Linking
  <2>4. NextOf(k, n, r)' = relationsDB'[k][r].next[t]
    BY <1>5, <2>1 DEF NextOf, SideOf
  <2>5. NextOf(k, n, r) = relationsDB[k][r].next[t]
    BY DEF NextOf
  <2> HIDE DEF t
  <2> QED BY <1>5, <2>1, <2>2, <2>3, <2>4, <2>5
<1>9. ListsHoldOwnRelations'
  <2>1. ASSUME NEW t \in linked
        PROVE  /\ t[2] \in DOMAIN nodesDB /\ t[3] \in DOMAIN relationsDB'[t[1]]
               /\ SideOf(relationsDB'[t[1]][t[3]], t[2]) # "none"
    <3>1. t[1] \in Kinds /\ t[2] \in DOMAIN nodesDB /\ t[3] \in DOMAIN relationsDB[t[1]]
          /\ SideOf(relationsDB[t[1]][t[3]], t[2]) # "none"
      BY <1>4 DEF ListsHoldOwnRelations
    <3> QED BY <1>5, <3>1 DEF SideOf
  <2> QED BY <1>3, <2>1 DEF ListsHoldOwnRelations
<1>10. NewestFirst'
  <2>1. ASSUME NEW k \in Kinds, NEW n \in DOMAIN nodesDB
        PROVE  /\ IsNewest(Linked(k, n)', nodesDB[n].ref[k])
               /\ \A r \in Linked(k, n)' :
                     IsNewest({q \in Linked(k, n)' : q < r}, NextOf(k, n, r)')
    BY SMTT(30), <1>4, <1>7, <1>8 DEF NewestFirst
  <2> QED BY <1>3, <2>1 DEF NewestFirst
<1>11. BackLinks'
  <2>1. ASSUME NEW k \in Kinds, NEW n \in DOMAIN nodesDB, NEW r \in Linked(k, n),
               NextOf(k, n, r) # 0
        PROVE  LET q == NextOf(k, n, r) IN
               /\ q \in DOMAIN relationsDB'[k]
               /\ SideOf(relationsDB'[k][q], n) # "none"
               /\ relationsDB'[k][q].pre[SideOf(relationsDB'[k][q], n)] = r
    <3> DEFINE q == NextOf(k, n, r)
               t == SideOf(relationsDB[k][q], n)
    <3>1. q \in DOMAIN relationsDB[k] /\ t # "none" /\ relationsDB[k][q].pre[t] = r
      BY <1>4, <2>1 DEF BackLinks
    <3>2. SideOf(relationsDB'[k][q], n) = t
      BY <1>6, <3>1
    <3> QED BY <1>5, <3>1, <3>2
  <2> QED BY SMTT(30), <1>3, <1>7, <1>8, <2>1 DEF BackLinks
<1> QED BY <1>7, <1>8, <1>9, <1>10, <1>11 DEF Lists, SameLists

\* When the head is about to be written, the new relation leads to the old head
\* and the old head leads back.
LEMMA HeadReady ==
    ASSUME StoreInv, NEW s \in Sides, SetRelationHead(s)
    PROVE  /\ pc \in Linking(s)
           /\ NextOf(kind, block[s].addr, newRelation) = CurrentHead(s)
           /\ CurrentHead(s) # 0 => PreviousSet(s)
<1>1. pc \in Linking(s)
  BY DEF SetRelationHead, Linking, LinkingSource, LinkingDestination
<1>2. NextOf(kind, block[s].addr, newRelation) =
         New.next[SideOf(New, block[s].addr)]
  BY DEF NextOf, New
<1>3. CASE s = "source"
  <2>1. SideOf(New, block[s].addr) = "source"
    BY <1>1, <1>3 DEF StoreInv, RelationReady, SideOf, Linking, Sides
  <2> QED BY <1>1, <1>2, <1>3, <2>1
       DEF SetRelationHead, StoreInv, SourceLinking, Linking, LinkingSource
<1>4. CASE s = "destination" /\ SelfLoop
  <2>1. CurrentHead(s) # 0 => PreviousSet(s)
    BY <1>1, <1>4 DEF StoreInv, DestinationLinking, Linking
  <2> QED BY <1>1, <1>4, <2>1, SelfLoopFacts DEF Linking
<1>5. CASE s = "destination" /\ ~SelfLoop
  <2>1. SideOf(New, block[s].addr) = "destination"
    BY <1>1, <1>5 DEF StoreInv, RelationReady, SideOf, Linking, Sides, SelfLoop
  <2> QED BY <1>1, <1>2, <1>5, <2>1
       DEF SetRelationHead, StoreInv, DestinationLinking, Linking, LinkingDestination
<1> QED BY <1>3, <1>4, <1>5 DEF Sides

\* Writing the head puts the new relation in front of one list.
LEMMA ListsSetRelationHead ==
    ASSUME StoreInv, NEW s \in Sides, SetRelationHead(s)
    PROVE  Lists'
<1> DEFINE n0 == block[s].addr
           h == CurrentHead(s)
           L == Linked(kind, n0)
<1>1. /\ pc \in Linking(s)
      /\ NextOf(kind, n0, newRelation) = h
      /\ h # 0 => PreviousSet(s)
  BY HeadReady
<1>2. /\ kind \in Kinds /\ newRelation \in DOMAIN relationsDB[kind] /\ newRelation \in Nat
      /\ n0 \in DOMAIN nodesDB /\ h \in Nat /\ SideOf(New, n0) \in Sides
      /\ h # 0 => /\ h \in DOMAIN relationsDB[kind] /\ h \in L /\ h < newRelation
                  /\ SideOf(relationsDB[kind][h], n0) \in Sides
  BY <1>1, HeadFacts
<1>3. /\ nodesDB' = [nodesDB EXCEPT ![n0].ref[kind] = newRelation]
      /\ linked' = linked \cup {<<kind, n0, newRelation>>}
      /\ UNCHANGED relationsDB
  BY DEF SetRelationHead
<1>4. /\ NodesType /\ RelationsType /\ ListsHoldOwnRelations /\ NewestFirst /\ BackLinks
      /\ \A t \in linked : t[1] \in Kinds
  BY DEF StoreInv, TypeOK, HistoryType
<1>5. \A r \in L : r \in Nat /\ r <= newRelation
  BY SMTT(30), <1>1, <1>2 DEF Linked, StoreInv, TypeOK, RelationsType, RelationReady, Linking
<1>6. IsNewest({q \in L : q < newRelation}, h)
  <2>1. CASE s = "destination" /\ SelfLoop
    BY ZenonT(60), <1>1, <1>2, <1>4, <2>1, SelfLoopFacts DEF NewestFirst, Linking
  <2>2. CASE ~(s = "destination" /\ SelfLoop)
    <3>1. h = nodesDB[n0].ref[kind] /\ newRelation \notin L
      BY <1>1, <2>2, HeldFacts
    <3>2. \A q \in L : q < newRelation
      BY SMTT(30), <1>2, <1>5, <3>1
    <3>3. {q \in L : q < newRelation} = L
      BY <3>2
    <3> QED BY Zenon, <1>2, <1>4, <3>1, <3>3 DEF NewestFirst
  <2> QED BY <2>1, <2>2
<1>7. /\ DOMAIN nodesDB' = DOMAIN nodesDB
      /\ \A n \in DOMAIN nodesDB, k \in Kinds :
            nodesDB'[n].ref[k] = IF n = n0 /\ k = kind THEN newRelation
                                 ELSE nodesDB[n].ref[k]
  BY <1>2, <1>3, <1>4 DEF NodesType, NodeBlocks
<1>8. ASSUME NEW k \in Kinds, NEW n
      PROVE  Linked(k, n)' = IF k = kind /\ n = n0 THEN L \cup {newRelation} ELSE Linked(k, n)
  BY <1>2, <1>3 DEF Linked
<1>9. \A k, n, r : NextOf(k, n, r)' = NextOf(k, n, r)
  BY <1>3 DEF NextOf
<1>10. SideOf(relationsDB[kind][newRelation], n0) # "none"
  BY <1>2 DEF New, Sides
<1> HIDE DEF n0, h, L
<1>11. ListsHoldOwnRelations'
  <2>1. ASSUME NEW t \in linked'
        PROVE  /\ t[2] \in DOMAIN nodesDB' /\ t[3] \in DOMAIN relationsDB'[t[1]]
               /\ SideOf(relationsDB'[t[1]][t[3]], t[2]) # "none"
    <3>1. CASE t \in linked
      BY <1>3, <1>4, <1>7, <3>1 DEF ListsHoldOwnRelations
    <3>2. CASE t = <<kind, n0, newRelation>>
      BY <1>2, <1>3, <1>7, <1>10, <3>2
    <3> QED BY <1>3, <3>1, <3>2
  <2> QED BY <2>1 DEF ListsHoldOwnRelations
<1>12. NewestFirst'
  <2>1. ASSUME NEW k \in Kinds, NEW n \in DOMAIN nodesDB, ~(k = kind /\ n = n0)
        PROVE  /\ IsNewest(Linked(k, n)', nodesDB'[n].ref[k])
               /\ \A r \in Linked(k, n)' :
                     IsNewest({q \in Linked(k, n)' : q < r}, NextOf(k, n, r)')
    <3>1. Linked(k, n)' = Linked(k, n) /\ nodesDB'[n].ref[k] = nodesDB[n].ref[k]
      BY <1>7, <1>8, <2>1
    <3> QED BY <1>4, <1>9, <3>1 DEF NewestFirst
  <2>2. ASSUME NEW k \in Kinds, NEW n \in DOMAIN nodesDB, k = kind, n = n0
        PROVE  IsNewest(Linked(k, n)', nodesDB'[n].ref[k])
    <3>1. Linked(k, n)' = L \cup {newRelation} /\ nodesDB'[n].ref[k] = newRelation
      BY <1>7, <1>8, <2>2
    <3> QED BY SMTT(30), <1>2, <1>5, <3>1 DEF IsNewest
  <2>3. ASSUME NEW k \in Kinds, NEW n \in DOMAIN nodesDB, k = kind, n = n0,
               NEW r \in Linked(k, n)'
        PROVE  IsNewest({q \in Linked(k, n)' : q < r}, NextOf(k, n, r)')
    <3>0. Linked(k, n)' = L \cup {newRelation} /\ L = Linked(k, n)
      BY <1>8, <2>3 DEF L
    <3>1. CASE r = newRelation
      <4>1. {q \in Linked(k, n)' : q < r} = {q \in L : q < newRelation}
        BY SMTT(30), <1>2, <3>0, <3>1
      <4> QED BY <1>1, <1>6, <1>9, <2>3, <3>1, <4>1
    <3>2. CASE r # newRelation
      <4>1. r \in L /\ r \in Nat /\ ~(newRelation < r)
        BY SMTT(30), <1>2, <1>5, <2>3, <3>0, <3>2
      <4>2. {q \in Linked(k, n)' : q < r} = {q \in L : q < r}
        BY <1>2, <3>0, <4>1
      <4> QED BY <1>4, <1>9, <3>0, <4>1, <4>2 DEF NewestFirst
    <3> QED BY <3>1, <3>2
  <2> QED BY <1>7, <2>1, <2>2, <2>3 DEF NewestFirst
<1>13. BackLinks'
  <2>1. ASSUME NEW k \in Kinds, NEW n \in DOMAIN nodesDB, NEW r \in Linked(k, n)',
               NextOf(k, n, r) # 0
        PROVE  LET q == NextOf(k, n, r) IN
               /\ q \in DOMAIN relationsDB[k]
               /\ SideOf(relationsDB[k][q], n) # "none"
               /\ relationsDB[k][q].pre[SideOf(relationsDB[k][q], n)] = r
    <3>1. CASE r \in Linked(k, n)
      BY <1>4, <2>1, <3>1 DEF BackLinks
    <3>2. CASE r \notin Linked(k, n)
      <4>1. k = kind /\ n = n0 /\ r = newRelation
        BY <1>8, <2>1, <3>2 DEF L
      <4>2. NextOf(k, n, r) = h /\ h # 0
        BY <1>1, <2>1, <4>1
      <4>3. h \in DOMAIN relationsDB[kind] /\ SideOf(relationsDB[kind][h], n0) # "none"
        BY <1>2, <4>2 DEF Sides
      <4>4. relationsDB[kind][h].pre[SideOf(relationsDB[kind][h], n0)] = newRelation
        BY <1>1, <4>2 DEF PreviousSet, h, n0
      <4> QED BY <4>1, <4>2, <4>3, <4>4
    <3> QED BY <3>1, <3>2
  <2> QED BY SMTT(30), <1>3, <1>7, <1>9, <2>1 DEF BackLinks
<1> QED BY <1>11, <1>12, <1>13 DEF Lists


-----------------------------------------------------------------------------
(* Walks along a list: what a reader sees. *)

\* What is met from every relation on, when g is met from its successor on.
EdgeStep(db, n, fuel, g) ==
    [r \in Nat |->
        IF r = 0 \/ fuel = 0 \/ SideOf(db[r], n) = "none" THEN <<>>
        ELSE <<r>> \o g[db[r].next[SideOf(db[r], n)]]]

\* A walk is what its recursive definition says.
LEMMA EdgeWalkDef ==
    ASSUME NEW db, NEW n, NEW max \in Nat
    PROVE  EdgeWalk(db, n, max) =
              [fuel \in 0..max |-> EdgeStep(db, n, fuel, EdgeWalk(db, n, max)[fuel - 1])]
<1> DEFINE Step(g, fuel) == EdgeStep(db, n, fuel, g)
           Def(w, m) == w = [fuel \in 0..m |-> Step(w[fuel - 1], fuel)]
           T == {m \in Nat : \E w : Def(w, m)}
<1>1. 0 \in T
  <2>1. \A g, h : Step(g, 0) = Step(h, 0)
    BY DEF EdgeStep
  <2>2. Def([fuel \in 0..0 |-> Step(<<>>, 0)], 0)
    BY SMTT(30), <2>1
  <2> QED BY <2>2
<1>2. ASSUME NEW m \in T PROVE m + 1 \in T
  <2> HIDE DEF Step
  <2>1. PICK w : Def(w, m)
    BY <1>2
  <2> DEFINE v == [fuel \in 0..(m + 1) |-> IF fuel <= m THEN w[fuel] ELSE Step(w[m], m + 1)]
  <2>2. ASSUME NEW fuel \in 0..(m + 1) PROVE v[fuel] = Step(v[fuel - 1], fuel)
    <3>1. CASE fuel = m + 1
      BY SMTT(30), <3>1
    <3>2. CASE fuel \in 1..m
      BY SMTT(30), <2>1, <3>2
    <3>3. CASE fuel = 0
      <4>1. v[0] = Step(w[0 - 1], 0)
        BY SMTT(30), <2>1
      <4>2. \A g, h : Step(g, 0) = Step(h, 0)
        BY DEF Step, EdgeStep
      <4> QED BY <3>3, <4>1, <4>2
    <3> QED BY SMTT(30), <3>1, <3>2, <3>3
  <2>3. v = [fuel \in 0..(m + 1) |-> v[fuel]]
    OBVIOUS
  <2> HIDE DEF v
  <2>4. Def(v, m + 1)
    BY <2>2, <2>3
  <2>5. \E u : Def(u, m + 1)
    BY <2>4
  <2> HIDE DEF Def
  <2> QED BY SMTT(30), <2>5
<1>3. T = Nat
  <2> HIDE DEF T
  <2>1. T \in SUBSET Nat
    BY DEF T
  <2> QED BY <1>1, <1>2, <2>1, SetInduction
<1>4. PICK w : Def(w, max)
  BY <1>3
<1> QED BY <1>4 DEF EdgeWalk, EdgeStep

\* One step of a walk.
LEMMA EdgeWalkStep ==
    ASSUME NEW db, NEW n, NEW max \in Nat, NEW fuel \in 0..max, NEW r \in Nat
    PROVE  LET w == EdgeWalk(db, n, max) IN
           w[fuel][r] = IF r = 0 \/ fuel = 0 \/ SideOf(db[r], n) = "none" THEN <<>>
                        ELSE <<r>> \o w[fuel - 1][db[r].next[SideOf(db[r], n)]]
<1> DEFINE w == EdgeWalk(db, n, max)
<1>1. w = [f \in 0..max |-> EdgeStep(db, n, f, w[f - 1])]
  BY SMTT(30), EdgeWalkDef
<1> HIDE DEF w
<1>2. w[fuel] = EdgeStep(db, n, fuel, w[fuel - 1])
  BY <1>1
<1>3. w[fuel][r] = IF r = 0 \/ fuel = 0 \/ SideOf(db[r], n) = "none" THEN <<>>
                   ELSE <<r>> \o w[fuel - 1][db[r].next[SideOf(db[r], n)]]
  BY <1>2 DEF EdgeStep
<1> QED BY <1>3 DEF w

\* The same for every step at once.
FollowsNext(w, db, n, max) ==
    \A fuel \in 0..max, r \in Nat :
        w[fuel][r] = IF r = 0 \/ fuel = 0 \/ SideOf(db[r], n) = "none" THEN <<>>
                     ELSE <<r>> \o w[fuel - 1][db[r].next[SideOf(db[r], n)]]

\* The walk of getEdgeNodes is one.
LEMMA EdgeWalkFollowsNext ==
    ASSUME NEW db, NEW n, NEW max \in Nat
    PROVE  FollowsNext(EdgeWalk(db, n, max), db, n, max)
BY EdgeWalkStep DEF FollowsNext

\* The relations L form a list of node n in file db: each leads to an older one of
\* them, or to none.
Threaded(db, n, L) ==
    /\ L \subseteq Nat \ {0}
    /\ \A r \in L : LET q == db[r].next[SideOf(db[r], n)] IN
           SideOf(db[r], n) # "none" /\ (q = 0 \/ (q \in L /\ q < r))

\* A walk meets nothing but relations of the list.
LEMMA WalkMeetsList ==
    ASSUME NEW db, NEW n, NEW L, Threaded(db, n, L), NEW max \in Nat
    PROVE  \A fuel \in 0..max : \A r \in L \cup {0} : EdgeWalk(db, n, max)[fuel][r] \in Seq(L)
<1> DEFINE w == EdgeWalk(db, n, max)
           P(fuel) == \A r \in L \cup {0} : w[fuel][r] \in Seq(L)
           T == {fuel \in Nat : fuel <= max => P(fuel)}
<1> HIDE DEF w
<1>1. FollowsNext(w, db, n, max)
  BY EdgeWalkFollowsNext DEF w
<1>2. L \cup {0} \subseteq Nat
  BY SMTT(30) DEF Threaded
<1>3. 0 \in T
  <2>1. ASSUME NEW r \in L \cup {0} PROVE w[0][r] = <<>>
    <3>1. 0 \in 0..max /\ r \in Nat
      BY SMTT(30), <1>2
    <3> QED BY <1>1, <3>1 DEF FollowsNext
  <2>2. <<>> \in Seq(L)
    BY SMTT(30)
  <2> QED BY <2>1, <2>2
<1>4. ASSUME NEW f \in T PROVE f + 1 \in T
  <2>1. SUFFICES ASSUME f + 1 <= max, NEW r \in L \cup {0} PROVE w[f + 1][r] \in Seq(L)
    BY SMTT(30)
  <2>2. P(f) /\ f + 1 \in 0..max /\ (f + 1) - 1 = f
    BY SMTT(30), <1>4, <2>1
  <2> DEFINE q == db[r].next[SideOf(db[r], n)]
  <2>3. w[f + 1][r] = IF r = 0 \/ SideOf(db[r], n) = "none" THEN <<>> ELSE <<r>> \o w[f][q]
    BY SMTT(30), <1>1, <1>2, <2>2 DEF FollowsNext
  <2>4. r # 0 => r \in L /\ q \in L \cup {0}
    BY DEF Threaded
  <2>5. r # 0 => w[f][q] \in Seq(L)
    BY <2>2, <2>4
  <2> HIDE DEF q
  <2>6. r # 0 => <<r>> \o w[f][q] \in Seq(L)
    BY SMTT(30), <2>4, <2>5
  <2> QED BY SMTT(30), <2>3, <2>6
<1>5. T = Nat
  <2> HIDE DEF T
  <2>1. T \in SUBSET Nat
    BY DEF T
  <2> QED BY <1>3, <1>4, <2>1, SetInduction
<1>6. ASSUME NEW fuel \in 0..max PROVE P(fuel)
  <2>1. fuel \in T
    BY SMTT(30), <1>5
  <2> QED BY SMTT(30), <2>1
<1> QED BY <1>6 DEF w

\* Two files in which the relations of a list lead on alike show the same list, and
\* fuel for as many steps as the first relation has predecessors in the file is enough.
LEMMA WalksAgree ==
    ASSUME NEW db, NEW eb, NEW n, NEW L, Threaded(db, n, L), Threaded(eb, n, L), NEW max \in Nat,
           \A r \in L : eb[r].next[SideOf(eb[r], n)] = db[r].next[SideOf(db[r], n)]
    PROVE  \A r \in L \cup {0} : \A f, g \in 0..max : r <= f /\ r <= g =>
              EdgeWalk(eb, n, max)[g][r] = EdgeWalk(db, n, max)[f][r]
<1> DEFINE w == EdgeWalk(db, n, max)
           v == EdgeWalk(eb, n, max)
           P(r) == \A f, g \in 0..max : r <= f /\ r <= g => v[g][r] = w[f][r]
           T == {j \in Nat : \A r \in L \cup {0} : r <= j => P(r)}
<1> HIDE DEF w, v
<1>1. FollowsNext(w, db, n, max)
  BY EdgeWalkFollowsNext DEF w
<1>2. FollowsNext(v, eb, n, max)
  BY EdgeWalkFollowsNext DEF v
<1>3. L \cup {0} \subseteq Nat
  BY SMTT(30) DEF Threaded
<1>4. P(0)
  BY <1>1, <1>2 DEF FollowsNext
<1>5. 0 \in T
  <2>1. \A r \in L \cup {0} : r <= 0 => r = 0
    BY SMTT(30), <1>3
  <2> HIDE DEF P
  <2> QED BY <1>4, <2>1
<1>6. ASSUME NEW j \in T PROVE j + 1 \in T
  <2>1. SUFFICES ASSUME NEW r \in L \cup {0}, r <= j + 1 PROVE P(r)
    <3> HIDE DEF P
    <3> QED BY SMTT(30)
  <2>2. CASE r <= j
    <3> HIDE DEF P
    <3> QED BY <1>6, <2>2
  <2>3. CASE r = j + 1
    <3>1. r \in L /\ r \in Nat /\ r # 0
      BY SMTT(30), <1>3, <2>3
    <3> DEFINE q == db[r].next[SideOf(db[r], n)]
    <3>2. /\ q = 0 \/ (q \in L /\ q < r)
          /\ SideOf(db[r], n) # "none" /\ SideOf(eb[r], n) # "none"
          /\ eb[r].next[SideOf(eb[r], n)] = q
      BY <3>1 DEF Threaded
    <3> HIDE DEF q
    <3>3. q \in L \cup {0} /\ q <= j /\ q \in Nat
      <4>1. q \in L \cup {0} /\ q \in Nat /\ j \in Nat
        BY <1>3, <3>2
      <4> QED BY SMTT(30), <2>3, <3>1, <3>2, <4>1
    <3>4. P(q)
      <4> HIDE DEF P
      <4> QED BY <1>6, <3>3
    <3>5. ASSUME NEW f \in 0..max, NEW g \in 0..max, r <= f, r <= g
          PROVE  v[g][r] = w[f][r]
      <4>1. f - 1 \in 0..max /\ g - 1 \in 0..max /\ q <= f - 1 /\ q <= g - 1 /\ f # 0 /\ g # 0
        BY SMTT(30), <2>3, <3>1, <3>3, <3>5
      <4>2. w[f][r] = <<r>> \o w[f - 1][q] /\ v[g][r] = <<r>> \o v[g - 1][q]
        <5>1. db[r].next[SideOf(db[r], n)] = q /\ eb[r].next[SideOf(eb[r], n)] = q
          BY <3>2 DEF q
        <5>2. w[f][r] = IF r = 0 \/ f = 0 \/ SideOf(db[r], n) = "none" THEN <<>>
                        ELSE <<r>> \o w[f - 1][db[r].next[SideOf(db[r], n)]]
          BY <1>1, <3>1 DEF FollowsNext
        <5>3. v[g][r] = IF r = 0 \/ g = 0 \/ SideOf(eb[r], n) = "none" THEN <<>>
                        ELSE <<r>> \o v[g - 1][eb[r].next[SideOf(eb[r], n)]]
          BY <1>2, <3>1 DEF FollowsNext
        <5> QED BY <3>1, <3>2, <4>1, <5>1, <5>2, <5>3
      <4> QED BY <3>4, <4>1, <4>2
    <3> QED BY <3>5
  <2> QED BY SMTT(30), <1>3, <2>1, <2>2, <2>3
<1>7. T = Nat
  <2> HIDE DEF T
  <2>1. T \in SUBSET Nat
    BY DEF T
  <2> QED BY <1>5, <1>6, <2>1, SetInduction
<1>8. ASSUME NEW r \in L \cup {0} PROVE P(r)
  <2>1. r \in T /\ r <= r
    BY SMTT(30), <1>3, <1>7
  <2> HIDE DEF P
  <2> QED BY <2>1
<1> QED BY <1>8 DEF w, v

\* In every state the relations of a node form a list that starts at its head.
LEMMA ListThreaded ==
    ASSUME StoreInv, NEW k \in Kinds, NEW n \in DOMAIN nodesDB
    PROVE  /\ Threaded(relationsDB[k], n, Linked(k, n))
           /\ nodesDB[n].ref[k] \in Linked(k, n) \cup {0}
           /\ nodesDB[n].ref[k] \in 0..MaxRelations[k]
           /\ \A r \in Linked(k, n) : r \in 1..MaxRelations[k]
           /\ MaxRelations[k] \in Nat
<1> DEFINE L == Linked(k, n)
<1>1. MaxRelations[k] \in Nat /\ \A r \in L : r \in 1..MaxRelations[k]
  BY SMTT(30), BoundAssumption DEF StoreInv, TypeOK, RelationsType, Linked
<1>2. nodesDB[n].ref[k] \in L \cup {0}
  BY DEF StoreInv, NewestFirst, IsNewest
<1>3. ASSUME NEW r \in L
      PROVE  LET q == relationsDB[k][r].next[SideOf(relationsDB[k][r], n)] IN
             SideOf(relationsDB[k][r], n) # "none" /\ (q = 0 \/ (q \in L /\ q < r))
  <2>1. SideOf(relationsDB[k][r], n) # "none"
    BY DEF Linked, StoreInv, ListsHoldOwnRelations
  <2>2. IsNewest({q \in L : q < r}, NextOf(k, n, r))
    BY DEF StoreInv, NewestFirst
  <2> QED BY <2>1, <2>2 DEF IsNewest, NextOf
<1>4. Threaded(relationsDB[k], n, L)
  BY SMTT(30), <1>1, <1>3 DEF Threaded
<1> QED BY SMTT(30), <1>1, <1>2, <1>4

\* A list holds relations of its node, which are no newer than the newest of the file.
LEMMA ListHolds ==
    ASSUME StoreInv, NEW k \in Kinds, NEW n \in DOMAIN nodesDB
    PROVE  /\ EdgeNodes(k, n) \in Seq(Linked(k, n))
           /\ \A i \in DOMAIN EdgeNodes(k, n) : EdgeNodes(k, n)[i] \in Linked(k, n)
<1> DEFINE max == MaxRelations[k] + 1
<1>1. max \in Nat /\ max \in 0..max
  BY SMTT(30), ListThreaded
<1>2. EdgeNodes(k, n) \in Seq(Linked(k, n))
  BY <1>1, ListThreaded, WalkMeetsList DEF EdgeNodes
<1> QED BY SMTT(30), <1>2

\* A step that leaves the head of a node and what its relations lead to alone leaves
\* the list that a reader sees.
SameList(k, n) ==
    /\ n \in DOMAIN nodesDB /\ n \in DOMAIN nodesDB'
    /\ nodesDB'[n].ref[k] = nodesDB[n].ref[k]
    /\ Linked(k, n)' = Linked(k, n)
    /\ \A r \in Linked(k, n) : NextOf(k, n, r)' = NextOf(k, n, r)

\* A list that an action leaves alone reads as before.
LEMMA ListUnchanged ==
    ASSUME NEW k \in Kinds, NEW n
    PROVE  StoreInv /\ StoreInv' /\ SameList(k, n) => EdgeNodes(k, n)' = EdgeNodes(k, n)
<1> DEFINE List == Threaded(relationsDB[k], n, Linked(k, n))
<1>1. StoreInv /\ n \in DOMAIN nodesDB => List
  BY ListThreaded
<1>2. (StoreInv /\ n \in DOMAIN nodesDB => List)'
  BY <1>1, PTL
<1>3. SUFFICES ASSUME StoreInv, StoreInv', SameList(k, n)
               PROVE  EdgeNodes(k, n)' = EdgeNodes(k, n)
  OBVIOUS
<1> DEFINE max == MaxRelations[k] + 1
           h == nodesDB[n].ref[k]
           L == Linked(k, n)
<1>4. /\ Threaded(relationsDB[k], n, L) /\ h \in L \cup {0}
      /\ max \in Nat /\ max \in 0..max /\ h <= max
  BY SMTT(30), <1>3, ListThreaded DEF SameList
<1>5. Threaded(relationsDB'[k], n, L)
  BY <1>2, <1>3 DEF SameList
<1>6. \A r \in L : relationsDB'[k][r].next[SideOf(relationsDB'[k][r], n)] =
                   relationsDB[k][r].next[SideOf(relationsDB[k][r], n)]
  BY <1>3 DEF NextOf, SameList
<1> HIDE DEF max, h, L
<1>7. EdgeWalk(relationsDB'[k], n, max)[max][h] = EdgeWalk(relationsDB[k], n, max)[max][h]
  BY SMTT(30), <1>4, <1>5, <1>6, WalksAgree
<1> QED BY <1>3, <1>7 DEF EdgeNodes, max, h, SameList

-----------------------------------------------------------------------------
(* How far the running addEdge has got, action by action. *)

Flight == NodesReady /\ RelationReady /\ SourceLinking /\ DestinationLinking

\* Between two edges nothing is in flight.
LEMMA FlightOver ==
    ASSUME pc' \in {"idle", "closed", "undefined"}
    PROVE  Flight'
  BY DEF Flight, NodesReady, RelationReady, SourceLinking, DestinationLinking, Adding,
     LinkingSource, LinkingDestination

\* addLocalEdge and addCentralEdge start with the source node.
LEMMA FlightAddEdge ==
    ASSUME StoreInv, NEW k \in Kinds, NEW a \in Key, NEW b \in Key, AddEdge(k, a, b)
    PROVE  Flight'
<1>1. pc' = "addSource" /\ edge' \in [Sides -> Key] /\ nextRelationIndex'[kind'] <= MaxRelations[kind']
  BY DEF AddEdge, memory
<1> QED
  BY <1>1 DEF Flight, NodesReady, RelationReady, SourceLinking, DestinationLinking, Adding,
     LinkingSource, LinkingDestination

\* addNode finds the vertex in the index and loads its block.
LEMMA FlightGetNode ==
    ASSUME StoreInv, NEW s \in Sides, GetNode(s)
    PROVE  Flight'
<1>1. CASE pc' = "undefined"
  BY <1>1, FlightOver
<1>2. CASE pc' # "undefined"
  <2> DEFINE i == nodeIndex[edge[s]]
  <2>1. /\ i \in DOMAIN nodesDB
        /\ block' = [block EXCEPT ![s] = [addr |-> i, ref |-> nodesDB[i].ref]]
        /\ pc' = AfterNode(s) /\ UNCHANGED <<nodesDB, edge, kind, nextRelationIndex>>
        /\ pc = (IF s = "source" THEN "addSource" ELSE "addDestination")
    BY <1>2 DEF GetNode, files, memory
  <2>2. block \in [Sides -> [addr : Nat, ref : [Kinds -> Nat]]]
    BY DEF StoreInv, TypeOK, FrameType
  <2>3. /\ Held(s)'
        /\ \A t \in Sides : t # s /\ Held(t) => Held(t)'
    BY <2>1, <2>2 DEF Held
  <2>4. NodesReady'
    <3>1. edge' \in [Sides -> Key] /\ nextRelationIndex'[kind'] <= MaxRelations[kind']
      BY <2>1 DEF StoreInv, NodesReady, Adding
    <3>2. CASE s = "source"
      BY <2>1, <2>3, <3>1, <3>2 DEF NodesReady, AfterNode, LinkingSource
    <3>3. CASE s = "destination"
      <4>1. Held("source")
        BY <2>1, <3>3 DEF StoreInv, NodesReady
      <4>2. Held("source")'
        BY <2>3, <3>3, <4>1 DEF Sides
      <4> QED BY <2>1, <2>3, <3>1, <3>3, <4>2 DEF NodesReady, AfterNode, LinkingSource
    <3> QED BY <3>2, <3>3 DEF Sides
  <2> QED BY <2>1, <2>4 DEF Flight, RelationReady, SourceLinking, DestinationLinking,
       LinkingSource, LinkingDestination, AfterNode
<1> QED BY <1>1, <1>2

\* addNode gives a new vertex the next number, which no block has yet.
LEMMA FlightAddNodeIndex ==
    ASSUME StoreInv, NEW s \in Sides, AddNodeIndex(s)
    PROVE  Flight' /\ NodeNumbering'
<1>1. /\ block' = [block EXCEPT ![s] = [addr |-> nextNodeIndex, ref |-> NoRefs]]
      /\ nextNodeIndex' = nextNodeIndex + 1
      /\ indexFile' = Append(indexFile, [key |-> edge[s], index |-> nextNodeIndex])
      /\ pc = (IF s = "source" THEN "addSource" ELSE "addDestination")
      /\ pc' = (IF s = "source" THEN "saveSource" ELSE "saveDestination")
      /\ UNCHANGED <<nodesDB, edge, kind, nextRelationIndex>>
  BY DEF AddNodeIndex
<1>2. /\ block \in [Sides -> [addr : Nat, ref : [Kinds -> Nat]]]
      /\ nextNodeIndex \in Nat /\ indexFile \in Seq(IndexRecords)
      /\ NodeNumbering
  BY DEF StoreInv, TypeOK, FrameType, IndexType
<1>3. NodeNumbering'
  <2>1. Len(indexFile') = Len(indexFile) + 1 /\ DOMAIN indexFile' = 1..(Len(indexFile) + 1)
        /\ Len(indexFile) \in Nat /\ DOMAIN indexFile = 1..Len(indexFile)
    BY SMTT(30), <1>1, <1>2
  <2>2. ASSUME NEW i \in DOMAIN indexFile'
        PROVE  indexFile'[i].index < i
    <3>1. CASE i \in DOMAIN indexFile
      BY SMTT(30), <1>1, <1>2, <2>1, <3>1 DEF NodeNumbering
    <3>2. CASE i = Len(indexFile) + 1
      BY SMTT(30), <1>1, <1>2, <2>1, <3>2 DEF NodeNumbering
    <3> QED BY SMTT(30), <2>1, <3>1, <3>2
  <2>3. nextNodeIndex' <= Len(indexFile')
    BY SMTT(30), <1>1, <1>2, <2>1 DEF NodeNumbering
  <2>4. \A n \in DOMAIN nodesDB' : n < nextNodeIndex'
    <3>1. DOMAIN nodesDB \subseteq Nat
      BY DEF StoreInv, TypeOK, NodesType
    <3> QED BY SMTT(30), <1>1, <1>2, <3>1 DEF NodeNumbering
  <2> QED BY <2>2, <2>3, <2>4 DEF NodeNumbering
<1>4. Fresh(s)' /\ block'[s].ref = NoRefs
  <2>1. nextNodeIndex \notin DOMAIN nodesDB
    BY SMTT(30), <1>2 DEF NodeNumbering
  <2> QED BY <1>1, <1>2, <2>1 DEF Fresh
<1>5. edge' \in [Sides -> Key] /\ nextRelationIndex'[kind'] <= MaxRelations[kind']
  BY <1>1 DEF StoreInv, NodesReady, Adding
<1>6. s = "destination" => Held("source")'
  <2>1. s = "destination" => Held("source")
    BY <1>1 DEF StoreInv, NodesReady
  <2> QED BY <1>1, <1>2, <2>1 DEF Held, Sides
<1>7. NodesReady'
  BY <1>1, <1>4, <1>5, <1>6 DEF NodesReady, LinkingSource, Sides
<1> QED BY <1>1, <1>3, <1>7 DEF Flight, RelationReady, SourceLinking, DestinationLinking,
     LinkingSource, LinkingDestination

\* addNode writes the block of the new vertex.
LEMMA FlightSaveNode ==
    ASSUME StoreInv, NEW s \in Sides, SaveNode(s)
    PROVE  Flight' /\ NodeNumbering'
<1>1. /\ nodesDB' = SaveBlock(nodesDB, block[s].addr, [nodeId |-> edge[s], ref |-> block[s].ref])
      /\ pc = (IF s = "source" THEN "saveSource" ELSE "saveDestination")
      /\ pc' = AfterNode(s)
      /\ UNCHANGED <<indexFile, block, edge, kind, nextRelationIndex, nextNodeIndex>>
  BY DEF SaveNode, memory, frame
<1>2. /\ block[s].addr \in Nat /\ nextNodeIndex \in Nat /\ NodeNumbering
      /\ block[s].addr + 1 = nextNodeIndex /\ block[s].addr \notin DOMAIN nodesDB
  BY <1>1 DEF StoreInv, TypeOK, FrameType, IndexType, NodesReady, Fresh, Sides
<1>3. /\ DOMAIN nodesDB' = DOMAIN nodesDB \cup 0..block[s].addr
      /\ nodesDB'[block[s].addr].ref = block[s].ref
      /\ \A n \in DOMAIN nodesDB : nodesDB'[n] = nodesDB[n]
  BY SMTT(30), <1>1, <1>2 DEF SaveBlock
<1>4. NodeNumbering'
  BY SMTT(30), <1>1, <1>2, <1>3 DEF NodeNumbering
<1>5. Held(s)' /\ (s = "destination" => Held("source")')
  <2>1. s = "destination" => Held("source")
    BY <1>1 DEF StoreInv, NodesReady
  <2> QED BY SMTT(30), <1>1, <1>2, <1>3, <2>1 DEF Held
<1>6. edge' \in [Sides -> Key] /\ nextRelationIndex'[kind'] <= MaxRelations[kind']
  BY <1>1 DEF StoreInv, NodesReady, Adding
<1>7. NodesReady'
  BY <1>1, <1>5, <1>6 DEF NodesReady, LinkingSource, AfterNode, Sides
<1> QED BY <1>1, <1>4, <1>7 DEF Flight, RelationReady, SourceLinking, DestinationLinking,
     LinkingSource, LinkingDestination, AfterNode

\* The new relation block is written before anything points to it.
LEMMA FlightAddRelation ==
    ASSUME StoreInv, AddRelation
    PROVE  Flight'
<1> DEFINE r == nextRelationIndex[kind]
<1>1. /\ pc = "addRelation" /\ pc' = "linkSource" /\ newRelation' = r
      /\ nextRelationIndex' = [nextRelationIndex EXCEPT ![kind] = r + 1]
      /\ relationsDB' = [relationsDB EXCEPT ![kind] =
             [q \in DOMAIN relationsDB[kind] \cup {r} |->
                IF q = r THEN [node |-> [s \in Sides |-> block[s].addr],
                               next |-> NoLinks, pre |-> NoLinks]
                ELSE relationsDB[kind][q]]]
      /\ UNCHANGED <<nodesDB, kind, edge, block, linked>>
  BY DEF AddRelation, WriteRelation, ghosts
<1>2. kind \in Kinds /\ RelationsType /\ r \in Nat /\ r # 0 /\ r \notin DOMAIN relationsDB[kind]
  BY SMTT(30) DEF StoreInv, TypeOK, FrameType, RelationsType
<1>3. New' = [node |-> [s \in Sides |-> block[s].addr], next |-> NoLinks, pre |-> NoLinks]
  BY <1>1, <1>2 DEF New, RelationsType
<1>4. Held("source")' /\ Held("destination")'
  BY <1>1 DEF StoreInv, NodesReady, Held
<1>5. \A t \in linked' : t[1] = kind' => t[3] # newRelation'
  BY <1>1, <1>2 DEF StoreInv, ListsHoldOwnRelations
<1>6. newRelation' + 1 = nextRelationIndex'[kind'] /\ newRelation' # 0
  BY <1>1, <1>2 DEF RelationsType
<1>7. NodesReady'
  BY <1>1, <1>4 DEF NodesReady, Adding, LinkingSource
<1>8. RelationReady'
  BY <1>1, <1>3, <1>6 DEF RelationReady, Sides
<1>9. SourceLinking' /\ DestinationLinking'
  BY <1>1, <1>3, <1>5 DEF SourceLinking, DestinationLinking, LinkingSource, LinkingDestination,
     NoLinks, Sides
<1> QED BY <1>7, <1>8, <1>9 DEF Flight

\* The old head of a list learns its new predecessor.
LEMMA FlightLinkPrevious ==
    ASSUME StoreInv, NEW s \in Sides, LinkPrevious(s)
    PROVE  Flight'
<1> DEFINE n0 == block[s].addr
           h == CurrentHead(s)
           side == SideOf(relationsDB[kind][h], n0)
<1>1. /\ pc \in Linking(s) /\ h # 0
      /\ pc = (IF s = "source" THEN "linkSource" ELSE "linkDestination")
      /\ pc' = (IF s = "source" THEN "nextSource" ELSE "nextDestination")
      /\ UNCHANGED <<nodesDB, nextRelationIndex, kind, edge, block, newRelation, linked>>
  BY DEF LinkPrevious, Linking, LinkingSource, LinkingDestination, memory, frame, ghosts
<1>2. /\ kind \in Kinds /\ h \in DOMAIN relationsDB[kind] /\ side \in Sides
      /\ newRelation \in Nat /\ newRelation \in DOMAIN relationsDB[kind] /\ TypeOK
  BY <1>1, HeadFacts DEF StoreInv
<1>3. relationsDB' = WithPre(kind, h, side, newRelation)
  BY DEF LinkPrevious
<1> HIDE DEF n0, h, side
<1>4. \A q \in DOMAIN relationsDB[kind] :
         /\ relationsDB'[kind][q].node = relationsDB[kind][q].node
         /\ relationsDB'[kind][q].next = relationsDB[kind][q].next
         /\ \A t \in Sides : relationsDB'[kind][q].pre[t] =
               IF q = h /\ t = side THEN newRelation ELSE relationsDB[kind][q].pre[t]
  BY SMTT(30), <1>2, <1>3, WithPreFacts
<1>5. New'.node = New.node /\ New'.next = New.next
  BY <1>1, <1>2, <1>4 DEF New
<1>6. CurrentHead(s)' = h /\ \A t \in Sides : CurrentHead(t)' = CurrentHead(t)
  BY <1>1 DEF CurrentHead, h
<1>7. PreviousSet(s)'
  <2>1. SideOf(relationsDB'[kind][h], n0) = side
    BY <1>2, <1>4 DEF SideOf, side
  <2>2. relationsDB'[kind][h].pre[side] = newRelation
    BY <1>2, <1>4
  <2> QED BY <1>1, <1>6, <2>1, <2>2 DEF PreviousSet, n0
<1>8. \A t \in Sides : Held(t) => Held(t)'
  BY <1>1 DEF Held
<1>9. NodesReady' /\ RelationReady'
  <2>1. RelationReady'
    BY <1>1, <1>5 DEF StoreInv, RelationReady, Linking
  <2>2. pc' \in LinkingSource => Held("source") /\ Held("destination")
    BY <1>1 DEF StoreInv, NodesReady, LinkingSource, LinkingDestination
  <2>3. NodesReady'
    BY <1>1, <1>8, <2>2 DEF NodesReady, Adding, LinkingSource, Sides
  <2> QED BY <2>1, <2>3
<1>10. CASE s = "source"
  <2>1. SourceLinking'
    BY <1>1, <1>5, <1>7, <1>10 DEF StoreInv, SourceLinking, LinkingSource
  <2> QED BY <1>1, <1>9, <1>10, <2>1 DEF Flight, DestinationLinking, LinkingDestination
<1>11. CASE s = "destination"
  <2>1. pc \in LinkingDestination /\ pc' \in LinkingDestination /\ DestinationLinking
        /\ pc' = "nextDestination" /\ pc = "linkDestination"
    BY <1>1, <1>11 DEF StoreInv, LinkingDestination
  <2>2. SelfLoop' = SelfLoop /\ CurrentHead("destination")' = CurrentHead("destination")
        /\ CurrentHead("destination") # 0
    BY <1>1, <1>6, <1>11 DEF SelfLoop, Sides, h
  <2>3. DestinationLinking'
    BY <1>1, <1>5, <1>7, <1>8, <1>11, <2>1, <2>2 DEF DestinationLinking, Sides
  <2> QED BY <1>9, <2>1, <2>3 DEF Flight, SourceLinking, LinkingSource
<1> QED BY <1>10, <1>11 DEF Sides

\* The new relation learns the old head of the list.
LEMMA FlightLinkNext ==
    ASSUME StoreInv, NEW s \in Sides, LinkNext(s)
    PROVE  Flight'
<1> DEFINE n0 == block[s].addr
           h == CurrentHead(s)
           side == SideOf(relationsDB[kind][newRelation], n0)
<1>1. /\ pc \in Linking(s)
      /\ pc = (IF s = "source" THEN "nextSource" ELSE "nextDestination")
      /\ pc' = (IF s = "source" THEN "headSource" ELSE "headDestination")
      /\ UNCHANGED <<nodesDB, nextRelationIndex, kind, edge, block, newRelation, linked>>
  BY DEF LinkNext, Linking, LinkingSource, LinkingDestination, memory, frame, ghosts
<1>2. /\ kind \in Kinds /\ newRelation \in DOMAIN relationsDB[kind] /\ side \in Sides
      /\ h \in Nat /\ TypeOK
      /\ h # 0 => h \in DOMAIN relationsDB[kind]
  BY <1>1, HeadFacts DEF New, StoreInv
<1>3. relationsDB' = WithNext(kind, newRelation, side, h)
  BY DEF LinkNext
<1>4. side = IF s = "destination" /\ ~SelfLoop THEN "destination" ELSE "source"
  BY <1>1, <1>2 DEF StoreInv, RelationReady, Linking, SideOf, SelfLoop, New, Sides
<1> HIDE DEF n0, h, side
<1>5. \A q \in DOMAIN relationsDB[kind] :
         /\ relationsDB'[kind][q].node = relationsDB[kind][q].node
         /\ relationsDB'[kind][q].pre = relationsDB[kind][q].pre
         /\ \A t \in Sides : relationsDB'[kind][q].next[t] =
               IF q = newRelation /\ t = side THEN h ELSE relationsDB[kind][q].next[t]
  BY SMTT(30), <1>2, <1>3, WithNextFacts
<1>6. /\ New'.node = New.node /\ New'.pre = New.pre
      /\ \A t \in Sides : New'.next[t] = IF t = side THEN h ELSE New.next[t]
  BY <1>1, <1>2, <1>5 DEF New
<1>7. \A t \in Sides : CurrentHead(t)' = CurrentHead(t) /\ (Held(t) => Held(t)')
  BY <1>1 DEF CurrentHead, Held
<1>8. CurrentHead(s) # 0 /\ PreviousSet(s)
  BY <1>1 DEF StoreInv, SourceLinking, DestinationLinking, LinkingSource, LinkingDestination, Sides,
     PreviousSet
<1>9. PreviousSet(s)'
  <2>1. h # 0 /\ h \in DOMAIN relationsDB[kind]
    BY <1>2, <1>8 DEF h
  <2>2. SideOf(relationsDB'[kind][h], n0) = SideOf(relationsDB[kind][h], n0)
        /\ relationsDB'[kind][h].pre = relationsDB[kind][h].pre
    BY <1>5, <2>1 DEF SideOf
  <2>3. relationsDB[kind][h].pre[SideOf(relationsDB[kind][h], n0)] = newRelation
    BY <1>8 DEF PreviousSet, h, n0
  <2>4. CurrentHead(s)' = h
    BY <1>7 DEF h
  <2> QED BY <1>1, <2>1, <2>2, <2>3, <2>4 DEF PreviousSet, n0
<1>10. NodesReady' /\ RelationReady'
  <2>1. RelationReady'
    BY <1>1, <1>6 DEF StoreInv, RelationReady, Linking
  <2>2. pc' \in LinkingSource => Held("source") /\ Held("destination")
    BY <1>1 DEF StoreInv, NodesReady, LinkingSource, LinkingDestination
  <2>3. NodesReady'
    BY <1>1, <1>7, <2>2 DEF NodesReady, Adding, LinkingSource, Sides
  <2> QED BY <2>1, <2>3
<1>11. CASE s = "source"
  <2>1. New'.next["source"] = h /\ New'.next["destination"] = New.next["destination"]
    BY <1>4, <1>6, <1>11 DEF Sides
  <2>2. SourceLinking'
    BY <1>1, <1>7, <1>9, <1>11, <2>1 DEF StoreInv, SourceLinking, LinkingSource, h, Sides
  <2> QED BY <1>1, <1>10, <1>11, <2>2 DEF Flight, DestinationLinking, LinkingDestination
<1>12. CASE s = "destination"
  <2>1. pc \in LinkingDestination /\ DestinationLinking
        /\ pc' = "headDestination" /\ pc = "nextDestination"
    BY <1>1, <1>12 DEF StoreInv, LinkingDestination
  <2>2. SelfLoop' = SelfLoop /\ CurrentHead("destination")' = h /\ h # 0
    BY <1>1, <1>7, <1>8, <1>12 DEF SelfLoop, Sides, h
  <2>3. IF SelfLoop THEN New'.next["source"] = h ELSE New'.next["destination"] = h
    BY <1>4, <1>6, <1>12 DEF Sides
  <2>4. DestinationLinking'
    BY <1>1, <1>7, <1>9, <1>12, <2>1, <2>2, <2>3 DEF DestinationLinking, Sides
  <2> QED BY <1>10, <2>1, <2>4 DEF Flight, SourceLinking, LinkingSource
<1> QED BY <1>11, <1>12 DEF Sides

\* The node block takes the new relation as the head of its list.
LEMMA FlightSetRelationHead ==
    ASSUME StoreInv, NEW s \in Sides, SetRelationHead(s)
    PROVE  Flight'
<1> DEFINE n0 == block[s].addr
           h == CurrentHead(s)
<1>1. CASE s = "destination"
  BY <1>1, FlightOver DEF SetRelationHead
<1>2. CASE s = "source"
  <2>1. /\ pc \in LinkingSource /\ pc' = "linkDestination"
        /\ nodesDB' = [nodesDB EXCEPT ![n0].ref[kind] = newRelation]
        /\ linked' = linked \cup {<<kind, n0, newRelation>>}
        /\ UNCHANGED <<relationsDB, nextRelationIndex, kind, edge, block, newRelation>>
    BY <1>2 DEF SetRelationHead, LinkingSource, memory, frame
  <2>2. /\ pc \in Linking(s)
        /\ NextOf(kind, n0, newRelation) = h
        /\ h # 0 => PreviousSet(s)
    BY HeadReady
  <2>3. Held("source") /\ Held("destination") /\ RelationReady /\ SourceLinking
    BY <2>1 DEF StoreInv, NodesReady
  <2>4. SideOf(New, n0) = "source"
    BY <1>2, <2>1, <2>3 DEF RelationReady, SideOf, Sides
  <2>5. New' = New /\ New.next["source"] = h /\ SelfLoop' = SelfLoop
        /\ CurrentHead("destination")' = CurrentHead("destination")
    BY <2>1, <2>2, <2>4 DEF New, NextOf, SelfLoop, CurrentHead
  <2>6. DOMAIN nodesDB' = DOMAIN nodesDB
        /\ \A n \in DOMAIN nodesDB : n # n0 => nodesDB'[n] = nodesDB[n]
    BY <2>1
  <2>7. SelfLoop => CurrentHead("destination") = h
                    /\ (h # 0 => PreviousSet("destination")')
    <3> SUFFICES ASSUME SelfLoop PROVE CurrentHead("destination") = h
                    /\ (h # 0 => PreviousSet("destination")')
      OBVIOUS
    <3>1. CurrentHead("destination") = h
      BY <1>2, <2>3 DEF Held, SelfLoop, CurrentHead
    <3>2. ASSUME h # 0 PROVE PreviousSet("destination")'
      <4>1. PreviousSet("source")
        BY <1>2, <2>2, <3>2
      <4>2. CurrentHead("destination") = CurrentHead("source")
            /\ block["destination"].addr = block["source"].addr
        BY <1>2, <3>1 DEF SelfLoop
      <4>3. PreviousSet("destination")
        BY <4>1, <4>2 DEF PreviousSet
      <4> QED BY <2>1, <4>3 DEF PreviousSet, CurrentHead
    <3> QED BY <3>1, <3>2
  <2>8. ~SelfLoop => Held("destination")' /\ New.next["destination"] = 0
    BY <1>2, <2>1, <2>3, <2>6 DEF Held, SelfLoop, SourceLinking
  <2>9. /\ <<kind', block'["source"].addr, newRelation'>> \in linked'
        /\ \A t \in linked' :
              t[1] = kind' /\ t[3] = newRelation' => t[2] = block'["source"].addr
        /\ block'["destination"].addr \in DOMAIN nodesDB'
    BY SMTT(30), <1>2, <2>1, <2>3, <2>6 DEF SourceLinking, Held
  <2>10. DestinationLinking'
    BY <2>1, <2>5, <2>7, <2>8, <2>9 DEF DestinationLinking
  <2>11. RelationReady'
    BY <2>1, <2>3, <2>5 DEF RelationReady
  <2>12. NodesReady' /\ SourceLinking'
    BY <2>1 DEF NodesReady, SourceLinking, Adding, LinkingSource
  <2> QED BY <2>10, <2>11, <2>12 DEF Flight
<1> QED BY <1>1, <1>2 DEF Sides

-----------------------------------------------------------------------------
(* The invariant is inductive. *)

\* Opening never hands out the number of a block that is in the file.
LEMMA NodeNumberingKept ==
    ASSUME StoreInv, [Next]_vars, 
           \A s \in Sides : ~AddNodeIndex(s) /\ ~SaveNode(s)
    PROVE  NodeNumbering'
<1>0. NodeNumbering /\ IndexType
  BY DEF StoreInv, TypeOK
<1>1. CASE UNCHANGED <<indexFile, nextNodeIndex>> /\ DOMAIN nodesDB' \subseteq DOMAIN nodesDB
  BY Zenon, <1>0, <1>1 DEF NodeNumbering
<1>2. CASE OpenAppend
  <2>1. UNCHANGED <<indexFile, nodesDB>> /\ nextNodeIndex' = Len(indexFile)
    BY <1>2 DEF OpenAppend, files
  <2>2. Len(indexFile) \in Nat /\ nextNodeIndex \in Nat /\ \A n \in DOMAIN nodesDB : n \in Nat
    BY SMTT(30), <1>0 DEF IndexType, StoreInv, TypeOK, NodesType
  <2> QED BY SMTT(30), <1>0, <2>1, <2>2 DEF NodeNumbering
<1>3. CASE OpenTruncate
  <2>1. UNCHANGED indexFile /\ nextNodeIndex' = 0 /\ DOMAIN nodesDB' = {}
    BY <1>3 DEF OpenTruncate
  <2>2. Len(indexFile) \in Nat
    BY SMTT(30), <1>0 DEF IndexType
  <2> QED BY SMTT(30), <1>0, <2>1, <2>2 DEF NodeNumbering
<1>4. CASE \E s \in Sides : SetRelationHead(s)
  <2>1. UNCHANGED <<indexFile, nextNodeIndex>> /\ DOMAIN nodesDB' = DOMAIN nodesDB
    BY <1>4 DEF SetRelationHead, memory
  <2> QED BY <1>1, <2>1
<1>5. CASE Stop \/ Crash \/ AddRelation \/ UNCHANGED vars
           \/ (\E k \in Kinds, a, b \in Key : AddEdge(k, a, b))
           \/ (\E s \in Sides : GetNode(s) \/ LinkPrevious(s) \/ LinkNext(s))
  <2>1. UNCHANGED <<indexFile, nextNodeIndex, nodesDB>>
    BY <1>5 DEF Stop, Crash, AddRelation, WriteRelation, AddEdge, GetNode, LinkPrevious, LinkNext,
       vars, files, memory
  <2> QED BY <1>1, <2>1
<1> QED BY <1>2, <1>3, <1>4, <1>5 DEF Next, AddNode, UpdateRelation

\* An empty store satisfies the invariant.
LEMMA InvInit == Init => StoreInv
<1> SUFFICES ASSUME Init PROVE StoreInv
  OBVIOUS
<1>1. TypeOK
  BY TypeInit
<1>2. NodeNumbering
  BY SMTT(30) DEF Init, NodeNumbering
<1>3. NodesReady /\ RelationReady /\ SourceLinking /\ DestinationLinking
  BY DEF Init, NodesReady, RelationReady, SourceLinking, DestinationLinking, Adding,
     LinkingSource, LinkingDestination
<1>4. ListsHoldOwnRelations /\ NewestFirst /\ BackLinks
  BY Zenon DEF Init, ListsHoldOwnRelations, NewestFirst, BackLinks
<1> QED BY <1>1, <1>2, <1>3, <1>4 DEF StoreInv

\* Every write of addEdge, every crash and every opening keeps the invariant.
LEMMA InvNext == ASSUME StoreInv, [Next]_vars PROVE StoreInv'
<1>0. Lists /\ Flight /\ NodeNumbering
  BY DEF StoreInv, Lists, Flight
<1>1. TypeOK'
  BY TypeNext
<1>2. NodeNumbering'
  BY NodeNumberingKept, FlightAddNodeIndex, FlightSaveNode
<1>3. CASE OpenAppend \/ Stop \/ Crash
  <2>1. Flight'
    BY <1>3, FlightOver DEF OpenAppend, Stop, Crash
  <2>2. UNCHANGED <<nodesDB, relationsDB, linked>>
    BY <1>3 DEF OpenAppend, Stop, Crash, files, ghosts
  <2> QED BY <1>0, <1>1, <1>2, <2>1, <2>2, ListsUntouched DEF StoreInv, Flight, Lists
<1>4. CASE OpenTruncate
  <2>1. Flight'
    BY <1>4, FlightOver DEF OpenTruncate
  <2>2. DOMAIN nodesDB' = {} /\ linked' = {}
    BY <1>4 DEF OpenTruncate
  <2>3. Lists'
    BY <2>2 DEF Lists, ListsHoldOwnRelations, NewestFirst, BackLinks
  <2> QED BY <1>1, <1>2, <2>1, <2>3 DEF StoreInv, Flight, Lists
<1>5. CASE AddRelation
  BY <1>1, <1>2, <1>5, FlightAddRelation, ListsAddRelation DEF StoreInv, Flight, Lists
<1>6. ASSUME NEW k \in Kinds, NEW a \in Key, NEW b \in Key, AddEdge(k, a, b)
      PROVE  StoreInv'
  <2>1. UNCHANGED <<nodesDB, relationsDB, linked>>
    BY <1>6 DEF AddEdge, files, ghosts
  <2> QED BY <1>0, <1>1, <1>2, <1>6, <2>1, FlightAddEdge, ListsUntouched DEF StoreInv, Flight, Lists
<1>7. ASSUME NEW s \in Sides, GetNode(s) \/ AddNodeIndex(s)
      PROVE  StoreInv'
  <2>1. UNCHANGED <<nodesDB, relationsDB, linked>>
    BY <1>7 DEF GetNode, AddNodeIndex, files, ghosts
  <2>2. Flight'
    BY <1>7, FlightGetNode, FlightAddNodeIndex
  <2> QED BY <1>0, <1>1, <1>2, <2>1, <2>2, ListsUntouched DEF StoreInv, Flight, Lists
<1>8. ASSUME NEW s \in Sides, SaveNode(s)
      PROVE  StoreInv'
  BY <1>1, <1>2, <1>8, FlightSaveNode, ListsSaveNode DEF StoreInv, Flight, Lists
<1>9. ASSUME NEW s \in Sides, LinkPrevious(s)
      PROVE  StoreInv'
  BY <1>1, <1>2, <1>9, FlightLinkPrevious, ListsLinkPrevious DEF StoreInv, Flight, Lists
<1>10. ASSUME NEW s \in Sides, LinkNext(s)
       PROVE  StoreInv'
  BY <1>1, <1>2, <1>10, FlightLinkNext, ListsLinkNext DEF StoreInv, Flight, Lists
<1>11. ASSUME NEW s \in Sides, SetRelationHead(s)
       PROVE  StoreInv'
  BY <1>1, <1>2, <1>11, FlightSetRelationHead, ListsSetRelationHead DEF StoreInv, Flight, Lists
<1>12. CASE UNCHANGED vars
  <2>1. Flight'
    BY Zenon, <1>0, <1>12 DEF Flight, NodesReady, RelationReady, SourceLinking, DestinationLinking, Held,
       Fresh, New, SelfLoop, PreviousSet, CurrentHead, vars, files, memory, frame, ghosts
  <2> QED BY <1>0, <1>1, <1>2, <1>12, <2>1, ListsUntouched
       DEF StoreInv, Flight, Lists, vars, files, ghosts
<1> QED BY <1>3, <1>4, <1>5, <1>6, <1>7, <1>8, <1>9, <1>10, <1>11, <1>12
     DEF Next, AddNode, UpdateRelation

-----------------------------------------------------------------------------
(* Theorems *)

\* Every reachable state of the store, at every write of addEdge and after every
\* crash and reopening, satisfies the inductive invariant.
THEOREM StoreInvariant == Spec => []StoreInv
<1>1. Init => StoreInv
  BY InvInit
<1>2. StoreInv /\ [Next]_vars => StoreInv'
  BY InvNext
<1> QED BY <1>1, <1>2, PTL DEF Spec

\* The files and the counters of NodeManager keep their types, and the relation
\* blocks stay numbered without gaps, so that the constructor's arithmetic on
\* the file size gives the next free block.
THEOREM TypeCorrect == Spec => []TypeOK
<1>1. StoreInv => TypeOK
  BY DEF StoreInv
<1> QED BY <1>1, StoreInvariant, PTL

\* NodeBlock::update{Local,Central}Relation never meets a relation in a list of
\* a node that does not have the node as an end.
THEOREM ListsOwnTheirRelations == Spec => []ListsHoldOwnRelations
<1>1. StoreInv => ListsHoldOwnRelations
  BY DEF StoreInv
<1> QED BY <1>1, StoreInvariant, PTL

\* The list of every node runs from its newest relation to its oldest, whatever
\* the number of vertices, relations, crashes and truncations.
THEOREM ListsRunNewestFirst == Spec => []NewestFirst
<1>1. StoreInv => NewestFirst
  BY DEF StoreInv
<1> QED BY <1>1, StoreInvariant, PTL

\* The lists are doubly linked: each relation is the previous one of its next.
THEOREM ListsAreDoublyLinked == Spec => []BackLinks
<1>1. StoreInv => BackLinks
  BY DEF StoreInv
<1> QED BY <1>1, StoreInvariant, PTL
-----------------------------------------------------------------------------
(* What the store keeps: committed edges, the vertex of every block, and the   *)
(* index entries of undamaged vertices.                                        *)

\* No step of the store takes a committed edge out of a list.
LEMMA CommittedNext ==
    ASSUME StoreInv, [Next]_vars, CommittedEdgesStay
    PROVE  CommittedEdgesStay'
<1>0. /\ \A c \in committed : c[1] \in Kinds
      /\ RelationsType /\ TypeOK
  BY DEF StoreInv, TypeOK, HistoryType
<1>1. ASSUME committed' = committed, linked \subseteq linked',
             \A k \in Kinds : \A q \in DOMAIN relationsDB[k] :
                 /\ q \in DOMAIN relationsDB'[k]
                 /\ relationsDB'[k][q].node = relationsDB[k][q].node
      PROVE  CommittedEdgesStay'
  <2>1. ASSUME NEW c \in committed
        PROVE  /\ c[2] \in DOMAIN relationsDB'[c[1]]
               /\ \A s \in Sides : <<c[1], relationsDB'[c[1]][c[2]].node[s], c[2]>> \in linked'
    <3>1. c[1] \in Kinds /\ c[2] \in DOMAIN relationsDB[c[1]]
          /\ \A s \in Sides : <<c[1], relationsDB[c[1]][c[2]].node[s], c[2]>> \in linked
      BY <1>0 DEF CommittedEdgesStay
    <3> QED BY <1>1, <3>1
  <2> QED BY <1>1, <2>1 DEF CommittedEdgesStay
<1>2. CASE UNCHANGED <<committed, linked, relationsDB>>
  BY <1>1, <1>2
<1>3. CASE OpenTruncate
  BY <1>3 DEF OpenTruncate, CommittedEdgesStay
<1>4. CASE AddRelation
  <2>1. /\ UNCHANGED <<committed, linked>>
        /\ \A k \in Kinds : \A q \in DOMAIN relationsDB[k] :
               q \in DOMAIN relationsDB'[k] /\ (k # kind \/ q # nextRelationIndex[kind] =>
                  relationsDB'[k][q] = relationsDB[k][q])
    BY <1>0, <1>4 DEF AddRelation, WriteRelation, ghosts, RelationsType
  <2>2. kind \in Kinds /\ nextRelationIndex[kind] \notin DOMAIN relationsDB[kind]
    BY SMTT(30), <1>0 DEF TypeOK, FrameType, RelationsType
  <2> QED BY <1>1, <2>1, <2>2
<1>5. ASSUME NEW s \in Sides, LinkPrevious(s)
      PROVE  CommittedEdgesStay'
  <2>1. pc \in Linking(s) /\ CurrentHead(s) # 0 /\ UNCHANGED <<committed, linked>>
    BY ZenonT(60), <1>5 DEF LinkPrevious, Linking, LinkingSource, LinkingDestination, ghosts
  <2> DEFINE h == CurrentHead(s)
             side == SideOf(relationsDB[kind][h], block[s].addr)
  <2>2. /\ kind \in Kinds /\ h \in DOMAIN relationsDB[kind] /\ side \in Sides
        /\ newRelation \in Nat
    BY <2>1, HeadFacts
  <2>3. relationsDB' = WithPre(kind, h, side, newRelation)
    BY <1>5 DEF LinkPrevious
  <2> HIDE DEF h, side
  <2> QED BY SMTT(30), <1>0, <1>1, <2>1, <2>2, <2>3, WithPreFacts
<1>6. ASSUME NEW s \in Sides, LinkNext(s)
      PROVE  CommittedEdgesStay'
  <2>1. pc \in Linking(s) /\ UNCHANGED <<committed, linked>>
    BY <1>6 DEF LinkNext, Linking, LinkingSource, LinkingDestination, ghosts
  <2> DEFINE h == CurrentHead(s)
             side == SideOf(relationsDB[kind][newRelation], block[s].addr)
  <2>2. /\ kind \in Kinds /\ newRelation \in DOMAIN relationsDB[kind] /\ side \in Sides
        /\ h \in Nat
    BY <2>1, HeadFacts DEF New
  <2>3. relationsDB' = WithNext(kind, newRelation, side, h)
    BY <1>6 DEF LinkNext
  <2> HIDE DEF h, side
  <2> QED BY SMTT(30), <1>0, <1>1, <2>1, <2>2, <2>3, WithNextFacts
<1>7. CASE SetRelationHead("source")
  BY <1>1, <1>7 DEF SetRelationHead
<1>8. CASE SetRelationHead("destination")
  <2>1. /\ committed' = committed \cup {<<kind, newRelation>>}
        /\ linked' = linked \cup {<<kind, block["destination"].addr, newRelation>>}
        /\ UNCHANGED relationsDB /\ pc \in LinkingDestination
    BY <1>8 DEF SetRelationHead, LinkingDestination
  <2>2. /\ newRelation \in DOMAIN relationsDB[kind]
        /\ \A s \in Sides : relationsDB[kind][newRelation].node[s] = block[s].addr
    BY <2>1, HeadFacts DEF Linking, Sides, StoreInv, RelationReady, New
  <2>3. <<kind, block["source"].addr, newRelation>> \in linked
    BY <2>1 DEF StoreInv, DestinationLinking
  <2> SUFFICES ASSUME NEW c \in committed'
               PROVE  /\ c[2] \in DOMAIN relationsDB[c[1]]
                      /\ \A s \in Sides : <<c[1], relationsDB[c[1]][c[2]].node[s], c[2]>> \in linked'
    BY <2>1 DEF CommittedEdgesStay
  <2>4. CASE c \in committed
    <3>1. /\ c[2] \in DOMAIN relationsDB[c[1]]
          /\ \A s \in Sides : <<c[1], relationsDB[c[1]][c[2]].node[s], c[2]>> \in linked
      BY <2>4 DEF CommittedEdgesStay
    <3> QED BY <2>1, <3>1
  <2>5. CASE c = <<kind, newRelation>>
    <3>1. c[1] = kind /\ c[2] = newRelation
      BY SMTT(30), <2>5
    <3>2. ASSUME NEW s \in Sides
          PROVE  <<kind, relationsDB[kind][newRelation].node[s], newRelation>> \in linked'
      <4>1. relationsDB[kind][newRelation].node[s] = block[s].addr
        BY <2>2
      <4>2. s = "source" \/ s = "destination"
        BY DEF Sides
      <4> QED BY <2>1, <2>3, <4>1, <4>2
    <3> QED BY <2>2, <3>1, <3>2
  <2> QED BY <2>1, <2>4, <2>5
<1>9. CASE OpenAppend \/ Stop \/ Crash \/ UNCHANGED vars
           \/ (\E k \in Kinds, a, b \in Key : AddEdge(k, a, b))
           \/ (\E s \in Sides : AddNode(s))
  BY ZenonT(60), <1>2, <1>9 DEF OpenAppend, Stop, Crash, AddEdge, AddNode, GetNode, AddNodeIndex, SaveNode,
     vars, files, ghosts
<1> QED BY <1>3, <1>4, <1>5, <1>6, <1>7, <1>8, <1>9 DEF Next, UpdateRelation, Sides

\* An edge whose addLocalEdge or addCentralEdge has returned is in the lists of
\* both its ends for good.
THEOREM CommittedEdgesAreKept == Spec => []CommittedEdgesStay
<1>1. Init => CommittedEdgesStay
  BY DEF Init, CommittedEdgesStay
<1>2. StoreInv /\ [Next]_vars /\ CommittedEdgesStay => CommittedEdgesStay'
  BY CommittedNext
<1> QED BY <1>1, <1>2, StoreInvariant, PTL DEF Spec

\* No step but a truncation changes the vertex of a block.
LEMMA VertexKept ==
    ASSUME StoreInv, [Next]_vars
    PROVE  \A i \in DOMAIN nodesDB \cap DOMAIN nodesDB' : nodesDB'[i].nodeId = nodesDB[i].nodeId
<1>1. CASE \E s \in Sides : SaveNode(s)
  <2>1. PICK s \in Sides : SaveNode(s)
    BY <1>1
  <2>2. block[s].addr \notin DOMAIN nodesDB
    BY <2>1 DEF StoreInv, SaveNode, NodesReady, Fresh, Sides
  <2> QED BY <2>1, <2>2 DEF SaveNode, SaveBlock
<1>2. CASE \E s \in Sides : SetRelationHead(s)
  <2>1. NodesType
    BY DEF StoreInv, TypeOK
  <2> QED BY SMTT(30), <1>2, <2>1 DEF SetRelationHead, NodesType, NodeBlocks
<1>3. CASE OpenTruncate
  BY <1>3 DEF OpenTruncate
<1>4. CASE OpenAppend \/ Stop \/ Crash \/ AddRelation \/ UNCHANGED vars
           \/ (\E k \in Kinds, a, b \in Key : AddEdge(k, a, b))
           \/ (\E s \in Sides : GetNode(s) \/ AddNodeIndex(s) \/ LinkPrevious(s) \/ LinkNext(s))
  BY Zenon, <1>4 DEF OpenAppend, Stop, Crash, AddRelation, WriteRelation, AddEdge, GetNode, AddNodeIndex,
     LinkPrevious, LinkNext, vars, files
<1> QED BY <1>1, <1>2, <1>3, <1>4 DEF Next, AddNode, UpdateRelation

\* Node numbers are never handed out twice between two truncations: saving a
\* NodeBlock never overwrites the block of another vertex.
THEOREM VertexBlocksAreKept == Spec => BlocksKeepTheirVertex
<1>1. StoreInv /\ [Next]_vars =>
        [\A i \in DOMAIN nodesDB \cap DOMAIN nodesDB' :
            nodesDB[i].nodeId # Zero => nodesDB'[i].nodeId = nodesDB[i].nodeId]_vars
  BY VertexKept
<1> QED BY <1>1, StoreInvariant, PTL DEF Spec, BlocksKeepTheirVertex

-----------------------------------------------------------------------------
(* The node index across reopenings. *)

\* An appended record overrides the records of its key and no others.
LEMMA ReadNodeIndexAppend ==
    ASSUME NEW recs \in Seq(IndexRecords), NEW rec \in IndexRecords
    PROVE  LET f == ReadNodeIndex(recs)
               g == ReadNodeIndex(Append(recs, rec))
           IN  /\ DOMAIN g = DOMAIN f \cup {rec.key}
               /\ g[rec.key] = rec.index
               /\ \A x \in DOMAIN f : x # rec.key => g[x] = f[x]
<1> DEFINE more == Append(recs, rec)
           f == ReadNodeIndex(recs)
           g == ReadNodeIndex(more)
           n == Len(recs) + 1
<1>1. /\ more \in Seq(IndexRecords) /\ Len(recs) \in Nat
      /\ DOMAIN recs = 1..Len(recs) /\ DOMAIN more = 1..n
      /\ more[n] = rec /\ \A j \in DOMAIN recs : more[j] = recs[j]
  BY SMTT(30)
<1>2. /\ DOMAIN f = {recs[j].key : j \in DOMAIN recs}
      /\ DOMAIN g = {more[j].key : j \in DOMAIN more}
  BY DEF ReadNodeIndex
<1>3. \A j \in DOMAIN more : j \in DOMAIN recs \/ j = n
  BY SMTT(30), <1>1
<1>4. n \in DOMAIN more /\ \A j \in DOMAIN recs : j \in DOMAIN more /\ j \in Nat /\ j < n
  BY SMTT(30), <1>1
<1> HIDE DEF more, f, g, n
<1>5. DOMAIN g = DOMAIN f \cup {rec.key}
  BY <1>1, <1>2, <1>3, <1>4
<1>6. g[rec.key] = rec.index
  <2>1. PICK j \in DOMAIN more : /\ \A m \in DOMAIN more : more[m].key = rec.key => m <= j
                                 /\ g[rec.key] = more[j].index
    BY <1>1, <1>4, ReadNodeIndexLast DEF g
  <2>2. j = n
    BY SMTT(30), <1>1, <1>3, <1>4, <2>1 DEF n
  <2> QED BY <1>1, <2>1, <2>2
<1>7. ASSUME NEW x \in DOMAIN f, x # rec.key PROVE g[x] = f[x]
  <2>1. PICK i \in DOMAIN recs : recs[i].key = x
    BY <1>2
  <2>2. PICK j \in DOMAIN recs :
           /\ recs[j].key = x /\ \A m \in DOMAIN recs : recs[m].key = x => m <= j
           /\ f[x] = recs[j].index
    BY <2>1, ReadNodeIndexLast DEF f
  <2>3. i \in DOMAIN more /\ more[i].key = x
    BY <1>1, <1>4, <2>1
  <2>4. PICK l \in DOMAIN more :
           /\ more[l].key = x /\ \A m \in DOMAIN more : more[m].key = x => m <= l
           /\ g[x] = more[l].index
    BY Zenon, <1>1, <2>3, ReadNodeIndexLast DEF g
  <2>5. l \in DOMAIN recs
    BY <1>1, <1>3, <1>7, <2>4
  <2>6. l <= j /\ j <= l /\ l \in Nat /\ j \in Nat
    BY <1>1, <1>4, <2>2, <2>4, <2>5
  <2>7. l = j
    BY SMTT(30), <2>6
  <2> QED BY <1>1, <2>2, <2>4, <2>5, <2>7
<1> QED BY <1>5, <1>6, <1>7 DEF f, g, more

\* The index of an empty store is empty in memory and on disk.
LEMMA IndexInit == Init => IndexInv
<1> SUFFICES ASSUME Init PROVE IndexInv
  OBVIOUS
<1>1. DOMAIN ReadNodeIndex(indexFile) = {}
  BY SMTT(30) DEF Init, ReadNodeIndex
<1> QED BY <1>1 DEF Init, IndexInv, Saving

\* Every step keeps index file, map and blocks in agreement for undamaged vertices.
LEMMA IndexNext ==
    ASSUME StoreInv, [Next]_vars, IndexInv
    PROVE  IndexInv'
<1> DEFINE onDisk == ReadNodeIndex(indexFile)
           Stored(x) == onDisk[x] \in DOMAIN nodesDB /\ nodesDB[onDisk[x]].nodeId = x
<1>0. /\ \A s \in Sides : Saving(s) =>
            edge[s] \in DOMAIN onDisk /\ onDisk[edge[s]] = block[s].addr
      /\ \A x \in DOMAIN onDisk \ damaged :
            (\E s \in Sides : Saving(s) /\ x = edge[s]) \/ Stored(x)
      /\ pc # "closed" => \A x \in DOMAIN nodeIndex \ damaged :
            x \in DOMAIN onDisk /\ nodeIndex[x] = onDisk[x]
  BY DEF IndexInv
<1>1. IndexType /\ NodesType
  BY DEF StoreInv, TypeOK
<1>2. ASSUME UNCHANGED indexFile, \A s \in Sides : ~Saving(s)', damaged \subseteq damaged',
             \A x \in DOMAIN onDisk \ damaged' : Stored(x)',
             pc' # "closed" => \A x \in DOMAIN nodeIndex' \ damaged' :
                  x \in DOMAIN onDisk /\ nodeIndex'[x] = onDisk[x]
      PROVE  IndexInv'
  <2>1. ReadNodeIndex(indexFile)' = onDisk
    BY <1>2
  <2> QED BY <1>2, <2>1 DEF IndexInv
<1>3. ASSUME pc \notin {"saveSource", "saveDestination"},
             pc' \notin {"saveSource", "saveDestination"},
             pc # "closed" \/ pc' = "closed",
             UNCHANGED <<indexFile, damaged, nodeIndex>>,
             DOMAIN nodesDB' = DOMAIN nodesDB,
             \A i \in DOMAIN nodesDB : nodesDB'[i].nodeId = nodesDB[i].nodeId
      PROVE  IndexInv'
  <2>1. \A s \in Sides : ~Saving(s)' /\ ~Saving(s)
    BY <1>3 DEF Saving
  <2>2. \A x \in DOMAIN onDisk \ damaged' : Stored(x)'
    BY ZenonT(60), <1>0, <1>3, <2>1
  <2> QED BY Zenon, <1>0, <1>2, <1>3, <2>1, <2>2
<1>4. CASE OpenAppend
  <2>1. /\ UNCHANGED <<indexFile, nodesDB, damaged>> /\ nodeIndex' = onDisk
        /\ pc \in {"closed", "idle"} /\ pc' = "idle"
    BY <1>4 DEF OpenAppend, files, ghosts
  <2>2. \A s \in Sides : ~Saving(s)' /\ ~Saving(s)
    BY <2>1 DEF Saving
  <2>3. \A x \in DOMAIN onDisk \ damaged' : Stored(x)'
    BY <1>0, <2>1, <2>2
  <2> HIDE DEF onDisk
  <2> QED BY <1>2, <2>1, <2>2, <2>3
<1>5. CASE OpenTruncate
  <2>1. /\ UNCHANGED indexFile /\ DOMAIN nodeIndex' = {} /\ pc' = "idle"
        /\ damaged' = {indexFile[i].key : i \in DOMAIN indexFile}
    BY <1>5 DEF OpenTruncate
  <2>2. \A s \in Sides : ~Saving(s)'
    BY <2>1 DEF Saving
  <2>3. DOMAIN onDisk = damaged'
    BY <2>1 DEF ReadNodeIndex
  <2>4. ReadNodeIndex(indexFile)' = onDisk
    BY <2>1
  <2> HIDE DEF onDisk
  <2> QED BY ZenonT(60), <2>1, <2>2, <2>3, <2>4 DEF IndexInv
<1>6. CASE Crash
  <2>1. /\ UNCHANGED <<indexFile, nodesDB, nodeIndex, edge>> /\ pc' = "closed"
        /\ damaged \subseteq damaged'
        /\ pc = "saveSource" => edge["source"] \in damaged'
        /\ pc = "saveDestination" => edge["destination"] \in damaged'
    BY <1>6 DEF Crash, files, memory, frame
  <2>2. \A s \in Sides : ~Saving(s)' /\ (Saving(s) => edge[s] \in damaged')
    BY <2>1 DEF Saving, Sides
  <2>3. \A x \in DOMAIN onDisk \ damaged' : Stored(x)'
    BY <1>0, <2>1, <2>2
  <2> QED BY <1>2, <2>1, <2>2, <2>3
<1>7. ASSUME NEW s \in Sides, AddNodeIndex(s)
      PROVE  IndexInv'
  <2> DEFINE rec == [key |-> edge[s], index |-> nextNodeIndex]
             after == ReadNodeIndex(Append(indexFile, rec))
  <2>1. /\ indexFile' = Append(indexFile, rec)
        /\ DOMAIN nodeIndex' = DOMAIN nodeIndex \cup {edge[s]}
        /\ nodeIndex'[edge[s]] = nextNodeIndex
        /\ \A x \in DOMAIN nodeIndex : x # edge[s] => nodeIndex'[x] = nodeIndex[x]
        /\ block' = [block EXCEPT ![s] = [addr |-> nextNodeIndex, ref |-> NoRefs]]
        /\ pc = (IF s = "source" THEN "addSource" ELSE "addDestination")
        /\ pc' = (IF s = "source" THEN "saveSource" ELSE "saveDestination")
        /\ damaged' = damaged \ {edge[s]}
        /\ UNCHANGED <<nodesDB, edge>>
    BY <1>7 DEF AddNodeIndex
  <2>2. rec \in IndexRecords /\ block \in [Sides -> [addr : Nat, ref : [Kinds -> Nat]]]
    BY <1>1, <2>1 DEF IndexRecords, IndexType, StoreInv, NodesReady, Adding, TypeOK, FrameType
  <2>3. /\ DOMAIN after = DOMAIN onDisk \cup {edge[s]}
        /\ after[edge[s]] = nextNodeIndex
        /\ \A x \in DOMAIN onDisk : x # edge[s] => after[x] = onDisk[x]
    <3>1. indexFile \in Seq(IndexRecords)
      BY <1>1 DEF IndexType
    <3> HIDE DEF rec
    <3>2. /\ DOMAIN after = DOMAIN onDisk \cup {rec.key}
          /\ after[rec.key] = rec.index
          /\ \A x \in DOMAIN onDisk : x # rec.key => after[x] = onDisk[x]
      BY ZenonT(60), <2>2, <3>1, ReadNodeIndexAppend
    <3>3. rec.key = edge[s] /\ rec.index = nextNodeIndex
      BY DEF rec
    <3> QED BY <3>2, <3>3
  <2>4. ReadNodeIndex(indexFile)' = after
    BY <2>1
  <2>5. \A t \in Sides : (Saving(t)' <=> t = s) /\ ~Saving(t)
    BY <2>1 DEF Saving, Sides
  <2>6. block'[s].addr = nextNodeIndex
    BY <2>1, <2>2
  <2> HIDE DEF rec, after, onDisk
  <2>7. \A x \in DOMAIN after \ damaged' :
           \/ x = edge[s]
           \/ after[x] \in DOMAIN nodesDB' /\ nodesDB'[after[x]].nodeId = x
    BY ZenonT(60), <1>0, <2>1, <2>3, <2>5
  <2>8. \A x \in DOMAIN nodeIndex' \ damaged' : x \in DOMAIN after /\ nodeIndex'[x] = after[x]
    BY ZenonT(60), <1>0, <2>1, <2>3
  <2>9. \A t \in Sides : Saving(t)' =>
           edge'[t] \in DOMAIN after /\ after[edge'[t]] = block'[t].addr
    BY <2>1, <2>3, <2>5, <2>6
  <2> QED BY ZenonT(60), <2>1, <2>4, <2>5, <2>7, <2>8, <2>9 DEF IndexInv
<1>8. ASSUME NEW s \in Sides, SaveNode(s)
      PROVE  IndexInv'
  <2>1. /\ nodesDB' = SaveBlock(nodesDB, block[s].addr, [nodeId |-> edge[s], ref |-> block[s].ref])
        /\ pc = (IF s = "source" THEN "saveSource" ELSE "saveDestination")
        /\ pc' = AfterNode(s)
        /\ UNCHANGED <<indexFile, damaged, nodeIndex>>
    BY <1>8 DEF SaveNode, memory, ghosts
  <2>2. \A t \in Sides : ~Saving(t)' /\ (Saving(t) <=> t = s)
    BY <2>1 DEF Saving, AfterNode, Sides
  <2>3. block[s].addr \in Nat
    BY DEF StoreInv, TypeOK, FrameType
  <2>4. block[s].addr \notin DOMAIN nodesDB
    BY <1>8 DEF StoreInv, SaveNode, NodesReady, Fresh, Sides
  <2>5. /\ block[s].addr \in DOMAIN nodesDB' /\ nodesDB'[block[s].addr].nodeId = edge[s]
        /\ \A i \in DOMAIN nodesDB : i \in DOMAIN nodesDB' /\ nodesDB'[i] = nodesDB[i]
    BY SMTT(30), <2>1, <2>3, <2>4 DEF SaveBlock
  <2>6. ReadNodeIndex(indexFile)' = onDisk
    BY <2>1
  <2>7. pc # "closed"
    BY <2>1
  <2> HIDE DEF onDisk
  <2>8. \A x \in DOMAIN onDisk \ damaged' :
           onDisk[x] \in DOMAIN nodesDB' /\ nodesDB'[onDisk[x]].nodeId = x
    BY SMTT(30), <1>0, <2>1, <2>2, <2>5
  <2> QED BY ZenonT(60), <1>0, <2>1, <2>2, <2>6, <2>7, <2>8 DEF IndexInv
<1>9. CASE Stop \/ AddRelation \/ (\E k \in Kinds, a, b \in Key : AddEdge(k, a, b))
           \/ (\E s \in Sides : GetNode(s) \/ LinkPrevious(s) \/ LinkNext(s))
  BY <1>3, <1>9 DEF Stop, AddRelation, WriteRelation, AddEdge, GetNode, AfterNode, LinkPrevious,
     LinkNext, files, memory, ghosts
<1>10. CASE \E s \in Sides : SetRelationHead(s)
  <2>1. /\ DOMAIN nodesDB' = DOMAIN nodesDB
        /\ \A i \in DOMAIN nodesDB : nodesDB'[i].nodeId = nodesDB[i].nodeId
    BY SMTT(30), <1>1, <1>10 DEF SetRelationHead, NodesType, NodeBlocks
  <2> QED BY <1>3, <1>10, <2>1 DEF SetRelationHead, memory
<1>11. CASE UNCHANGED vars
  BY Zenon, <1>11 DEF IndexInv, Saving, vars, files, memory, frame, ghosts
<1> QED BY <1>4, <1>5, <1>6, <1>7, <1>8, <1>9, <1>10, <1>11 DEF Next, AddNode, UpdateRelation

\* A key none of whose index records lost its block is found at a block that
\* holds it, in memory and when readNodeIndex rebuilds the index.
THEOREM UndamagedKeysAreFound == Spec => []IndexFindsUndamaged
<1>1. IndexInv => IndexFindsUndamaged
  BY DEF IndexInv, IndexFindsUndamaged, Saving, Sides
<1>2. Init => IndexInv
  BY IndexInit
<1>3. StoreInv /\ [Next]_vars /\ IndexInv => IndexInv'
  BY IndexNext
<1> QED BY <1>1, <1>2, <1>3, StoreInvariant, PTL DEF Spec


-----------------------------------------------------------------------------
(* Edges that are in one list only. *)

\* The relations of a file are finitely many.
LEMMA FiniteHalves ==
    ASSUME StoreInv, NEW k \in Kinds
    PROVE  /\ IsFiniteSet(HalfLinked(k)) /\ IsFiniteSet(Abandoned(k))
           /\ Cardinality(HalfLinked(k)) \in Nat /\ Cardinality(Abandoned(k)) \in Nat
<1>1. DOMAIN relationsDB[k] = 1..(nextRelationIndex[k] - 1) /\ nextRelationIndex[k] - 1 \in Int
  BY SMTT(30), BoundAssumption DEF StoreInv, TypeOK, RelationsType
<1>2. IsFiniteSet(DOMAIN relationsDB[k])
  <2> DEFINE m == nextRelationIndex[k] - 1
  <2>1. DOMAIN relationsDB[k] = 1..m /\ m \in Int /\ 1 \in Int
    BY SMTT(30), <1>1
  <2> HIDE DEF m
  <2> QED BY ZenonT(30), <2>1, FS_Interval
<1>3. HalfLinked(k) \subseteq DOMAIN relationsDB[k] /\ Abandoned(k) \subseteq DOMAIN relationsDB[k]
  BY DEF HalfLinked, Abandoned
<1> QED BY <1>2, <1>3, FS_Subset, FS_CardinalityType

\* A step that leaves the ends of every relation and the lists alone, and no edge in
\* flight, leaves the abandoned edges alone.
LEMMA SameEntries ==
    ASSUME StoreInv, linked' = linked, NEW k \in Kinds,
           \A r \in DOMAIN relationsDB[k] :
               r \in DOMAIN relationsDB'[k] /\ relationsDB'[k][r].node = relationsDB[k][r].node
    PROVE  HalfLinked(k)' = HalfLinked(k)
<1>1. \A r \in DOMAIN relationsDB[k] : Entries(k, r)' = Entries(k, r)
  BY DEF Entries
<1>2. ASSUME NEW r \in DOMAIN relationsDB'[k], r \notin DOMAIN relationsDB[k]
      PROVE  Entries(k, r)' \cap linked = {}
  BY SMTT(30), <1>2 DEF Entries, StoreInv, ListsHoldOwnRelations
<1> QED BY <1>1, <1>2 DEF HalfLinked

\* Entering a relation into a list changes nothing for the other relations.
LEMMA OneEntry ==
    ASSUME StoreInv, NEW s \in Sides, SetRelationHead(s), NEW k \in Kinds
    PROVE  /\ k # kind => HalfLinked(k)' = HalfLinked(k)
           /\ HalfLinked(k)' \ {newRelation} = HalfLinked(k) \ {newRelation}
<1>1. /\ linked' = linked \cup {<<kind, block[s].addr, newRelation>>}
      /\ UNCHANGED relationsDB
  BY DEF SetRelationHead
<1>2. \A r : Entries(k, r)' = Entries(k, r)
  BY <1>1 DEF Entries
<1>3. ASSUME NEW r \in DOMAIN relationsDB[k], k # kind \/ r # newRelation
      PROVE  Entries(k, r) \cap linked' = Entries(k, r) \cap linked
  BY SMTT(30), <1>1, <1>3 DEF Entries
<1>4. ASSUME NEW r \in DOMAIN relationsDB[k], k # kind \/ r # newRelation
      PROVE  r \in HalfLinked(k)' <=> r \in HalfLinked(k)
  <2>1. Entries(k, r) \subseteq linked' <=> Entries(k, r) \subseteq linked
    BY <1>3, <1>4
  <2> QED BY <1>1, <1>2, <1>3, <1>4, <2>1 DEF HalfLinked
<1>5. HalfLinked(k)' \subseteq DOMAIN relationsDB[k] /\ HalfLinked(k) \subseteq DOMAIN relationsDB[k]
  BY <1>1 DEF HalfLinked
<1>6. k # kind => HalfLinked(k)' = HalfLinked(k)
  BY <1>4, <1>5
<1> QED BY <1>4, <1>5, <1>6

\* Only a crash abandons an edge, and it abandons one.
LEMMA AbandonedNext ==
    ASSUME StoreInv, StoreInv', [Next]_vars, AbandonedInv
    PROVE  AbandonedInv'
<1>0. /\ RelationsType /\ TypeOK /\ kind \in Kinds /\ crashes \in Nat
      /\ "local" \in Kinds /\ "central" \in Kinds
  BY DEF StoreInv, TypeOK, FrameType, HistoryType, Kinds
<1>1. ASSUME crashes' = crashes, \A k \in Kinds : Abandoned(k)' = Abandoned(k)
      PROVE  AbandonedInv'
  <2>1. Abandoned("local")' = Abandoned("local") /\ Abandoned("central")' = Abandoned("central")
    BY <1>0, <1>1
  <2> QED BY <1>1, <2>1 DEF AbandonedInv
<1>2. ASSUME UNCHANGED <<crashes, linked>>, \A k \in Kinds : InFlight(k)' = InFlight(k),
             \A k \in Kinds : \A r \in DOMAIN relationsDB[k] :
                 r \in DOMAIN relationsDB'[k] /\ relationsDB'[k][r].node = relationsDB[k][r].node
      PROVE  AbandonedInv'
  <2>1. \A k \in Kinds : HalfLinked(k)' = HalfLinked(k)
    BY <1>2, SameEntries
  <2>2. \A k \in Kinds : Abandoned(k)' = Abandoned(k)
    BY <1>2, <2>1 DEF Abandoned
  <2> QED BY <1>1, <1>2, <2>2
<1>3. CASE OpenTruncate
  <2>1. \A k \in Kinds : HalfLinked(k)' = {}
    BY <1>3 DEF OpenTruncate, HalfLinked
  <2>2. Abandoned("local")' = {} /\ Abandoned("central")' = {} /\ crashes' = crashes
    BY <1>0, <1>3, <2>1 DEF Abandoned, OpenTruncate
  <2>3. Cardinality({}) = 0
    BY FS_EmptySet
  <2> QED BY SMTT(30), <1>0, <2>2, <2>3 DEF AbandonedInv
<1>4. CASE AddRelation
  <2>1. /\ UNCHANGED <<crashes, linked, kind>> /\ pc = "addRelation" /\ pc' = "linkSource"
        /\ \A k \in Kinds : \A q \in DOMAIN relationsDB[k] :
               q \in DOMAIN relationsDB'[k] /\ (k # kind \/ q # nextRelationIndex[kind] =>
                  relationsDB'[k][q] = relationsDB[k][q])
    BY <1>0, <1>4 DEF AddRelation, WriteRelation, ghosts, counts, RelationsType
  <2>2. nextRelationIndex[kind] \notin DOMAIN relationsDB[kind]
    BY SMTT(30), <1>0 DEF RelationsType
  <2>3. \A k \in Kinds : InFlight(k)' = InFlight(k)
    BY <2>1 DEF InFlight, LinkingDestination
  <2> QED BY <1>2, <2>1, <2>2, <2>3
<1>5. ASSUME NEW s \in Sides, LinkPrevious(s)
      PROVE  AbandonedInv'
  <2>1. /\ pc \in Linking(s) /\ CurrentHead(s) # 0
        /\ UNCHANGED <<crashes, linked, kind, newRelation>>
        /\ pc = (IF s = "source" THEN "linkSource" ELSE "linkDestination")
        /\ pc' = (IF s = "source" THEN "nextSource" ELSE "nextDestination")
    BY ZenonT(60), <1>5 DEF LinkPrevious, Linking, LinkingSource, LinkingDestination, ghosts, counts, frame
  <2> DEFINE h == CurrentHead(s)
             side == SideOf(relationsDB[kind][h], block[s].addr)
  <2>2. /\ h \in DOMAIN relationsDB[kind] /\ side \in Sides
        /\ newRelation \in Nat
    BY <2>1, HeadFacts
  <2>3. relationsDB' = WithPre(kind, h, side, newRelation)
    BY <1>5 DEF LinkPrevious
  <2>4. \A k \in Kinds : InFlight(k)' = InFlight(k)
    BY <2>1 DEF InFlight, LinkingDestination
  <2> HIDE DEF h, side
  <2> QED BY SMTT(30), <1>0, <1>2, <2>1, <2>2, <2>3, <2>4, WithPreFacts
<1>6. ASSUME NEW s \in Sides, LinkNext(s)
      PROVE  AbandonedInv'
  <2>1. /\ pc \in Linking(s) /\ UNCHANGED <<crashes, linked, kind, newRelation>>
        /\ pc = (IF s = "source" THEN "nextSource" ELSE "nextDestination")
        /\ pc' = (IF s = "source" THEN "headSource" ELSE "headDestination")
    BY ZenonT(60), <1>6 DEF LinkNext, Linking, LinkingSource, LinkingDestination, ghosts, counts, frame
  <2> DEFINE h == CurrentHead(s)
             side == SideOf(relationsDB[kind][newRelation], block[s].addr)
  <2>2. newRelation \in DOMAIN relationsDB[kind] /\ side \in Sides /\ h \in Nat
    BY <2>1, HeadFacts DEF New
  <2>3. relationsDB' = WithNext(kind, newRelation, side, h)
    BY <1>6 DEF LinkNext
  <2>4. \A k \in Kinds : InFlight(k)' = InFlight(k)
    BY <2>1 DEF InFlight, LinkingDestination
  <2> HIDE DEF h, side
  <2> QED BY SMTT(30), <1>0, <1>2, <2>1, <2>2, <2>3, <2>4, WithNextFacts
<1>7. CASE SetRelationHead("source")
  <2>1. /\ pc \in LinkingSource /\ pc' = "linkDestination"
        /\ UNCHANGED <<crashes, kind, newRelation>>
    BY <1>7 DEF SetRelationHead, LinkingSource, counts, frame
  <2>2. newRelation \notin HalfLinked(kind)
    <3>1. Entries(kind, newRelation) \cap linked = {}
      BY SMTT(30), <2>1 DEF StoreInv, SourceLinking, Entries
    <3> QED BY <3>1 DEF HalfLinked
  <2>3. ASSUME NEW k \in Kinds PROVE Abandoned(k)' = Abandoned(k)
    <3>1. InFlight(k) = {} /\ InFlight(k)' = IF k = kind THEN {newRelation} ELSE {}
      BY <2>1 DEF InFlight, LinkingSource, LinkingDestination
    <3>2. /\ k # kind => HalfLinked(k)' = HalfLinked(k)
          /\ HalfLinked(k)' \ {newRelation} = HalfLinked(k) \ {newRelation}
      BY <1>7, OneEntry DEF Sides
    <3> QED BY <2>2, <3>1, <3>2 DEF Abandoned
  <2> QED BY <1>1, <2>1, <2>3
<1>8. CASE SetRelationHead("destination")
  <2>1. /\ pc \in LinkingDestination /\ pc' = "idle"
        /\ UNCHANGED <<crashes, kind, newRelation, relationsDB>>
        /\ linked' = linked \cup {<<kind, block["destination"].addr, newRelation>>}
    BY <1>8 DEF SetRelationHead, LinkingDestination, counts, frame
  <2>2. ASSUME NEW k \in Kinds, k = kind PROVE newRelation \notin HalfLinked(k)'
    <3>1. \A s \in Sides : relationsDB[kind][newRelation].node[s] = block[s].addr
      BY <2>1 DEF StoreInv, RelationReady, New
    <3>2. <<kind, block["source"].addr, newRelation>> \in linked
      BY <2>1 DEF StoreInv, DestinationLinking
    <3>3. \A r : r = newRelation => Entries(k, r)' \subseteq linked'
      BY <2>1, <2>2, <3>1, <3>2 DEF Entries, Sides
    <3> QED BY <3>3 DEF HalfLinked
  <2>3. ASSUME NEW k \in Kinds PROVE Abandoned(k)' = Abandoned(k)
    <3>1. InFlight(k)' = {} /\ InFlight(k) = IF k = kind THEN {newRelation} ELSE {}
      BY <2>1 DEF InFlight, LinkingDestination
    <3>2. /\ k # kind => HalfLinked(k)' = HalfLinked(k)
          /\ HalfLinked(k)' \ {newRelation} = HalfLinked(k) \ {newRelation}
      BY <1>8, OneEntry DEF Sides
    <3> QED BY <2>2, <3>1, <3>2 DEF Abandoned
  <2> QED BY <1>1, <2>1, <2>3
<1>9. CASE Crash
  <2>1. UNCHANGED <<relationsDB, linked>> /\ pc' = "closed"
    BY <1>9 DEF Crash, files
  <2>2. \A k \in Kinds : HalfLinked(k)' = HalfLinked(k) /\ InFlight(k)' = {}
    BY <2>1 DEF HalfLinked, Entries, InFlight, LinkingDestination
  <2>3. \A k \in Kinds : Abandoned(k)' = HalfLinked(k)
    BY <2>2 DEF Abandoned
  <2>4. CASE pc \notin LinkingDestination
    <3>1. \A k \in Kinds : Abandoned(k)' = Abandoned(k)
      BY <2>3, <2>4 DEF Abandoned, InFlight
    <3>2. Abandoned("local")' = Abandoned("local") /\ Abandoned("central")' = Abandoned("central")
      BY <1>0, <3>1
    <3>3. /\ crashes' \in {crashes, crashes + 1}
          /\ Cardinality(Abandoned("local")) \in Nat /\ Cardinality(Abandoned("central")) \in Nat
      BY <1>0, <1>9, FiniteHalves DEF Crash
    <3> QED BY SMTT(30), <1>0, <3>2, <3>3 DEF AbandonedInv
  <2>5. CASE pc \in LinkingDestination
    <3>1. crashes' = crashes + 1
      BY <1>9, <2>5 DEF Crash, LinkingDestination
    <3>2. ASSUME NEW k \in Kinds
          PROVE  /\ Cardinality(Abandoned(k)) \in Nat /\ Cardinality(Abandoned(k)') \in Nat
                 /\ k # kind => Cardinality(Abandoned(k)') = Cardinality(Abandoned(k))
                 /\ Cardinality(Abandoned(k)') <= Cardinality(Abandoned(k)) + 1
      <4>1. /\ IsFiniteSet(HalfLinked(k)) /\ Cardinality(HalfLinked(k)) \in Nat
            /\ Cardinality(Abandoned(k)) \in Nat
        BY FiniteHalves
      <4>2. CASE k # kind
        <5>1. Abandoned(k) = HalfLinked(k)
          BY <4>2 DEF Abandoned, InFlight
        <5> QED BY SMTT(30), <2>3, <4>1, <4>2, <5>1
      <4>3. CASE k = kind
        <5>1. Abandoned(k) = HalfLinked(k) \ {newRelation}
          BY <2>5, <4>3 DEF Abandoned, InFlight
        <5>2. Cardinality(HalfLinked(k) \ {newRelation}) =
                 IF newRelation \in HalfLinked(k) THEN Cardinality(HalfLinked(k)) - 1
                 ELSE Cardinality(HalfLinked(k))
          BY <4>1, FS_RemoveElement
        <5> QED BY SMTT(30), <2>3, <4>1, <4>3, <5>1, <5>2
      <4> QED BY <4>2, <4>3
    <3>3. kind = "local" \/ kind = "central"
      BY <1>0 DEF Kinds
    <3>4. Cardinality(Abandoned("local"))' = Cardinality(Abandoned("local")')
          /\ Cardinality(Abandoned("central"))' = Cardinality(Abandoned("central")')
      OBVIOUS
    <3> QED BY SMTT(30), <1>0, <3>1, <3>2, <3>3, <3>4 DEF AbandonedInv
  <2> QED BY <2>4, <2>5
<1>10. CASE OpenAppend \/ Stop \/ UNCHANGED vars
           \/ (\E k \in Kinds, a, b \in Key : AddEdge(k, a, b))
           \/ (\E s \in Sides : AddNode(s))
  <2>1. UNCHANGED <<crashes, linked, relationsDB>>
    BY ZenonT(60), <1>10 DEF OpenAppend, Stop, AddEdge, AddNode, GetNode, AddNodeIndex, SaveNode,
       vars, files, ghosts, counts
  <2>2. \A k \in Kinds : InFlight(k)' = InFlight(k)
    <3>1. CASE UNCHANGED vars
      BY <3>1 DEF vars, frame, InFlight
    <3>2. CASE ~UNCHANGED vars
      <4>1. pc \notin LinkingDestination /\ pc' \notin LinkingDestination
        BY ZenonT(60), <1>10, <3>2 DEF OpenAppend, Stop, AddEdge, AddNode, GetNode, AddNodeIndex,
           SaveNode, AfterNode, LinkingDestination, Sides
      <4> QED BY <4>1 DEF InFlight
    <3> QED BY <3>1, <3>2
  <2> QED BY <1>2, <2>1, <2>2
<1> QED BY <1>3, <1>4, <1>5, <1>6, <1>7, <1>8, <1>9, <1>10 DEF Next, UpdateRelation, Sides

\* However often the process stops, and wherever, no more edges are seen from one of
\* their ends only than it stopped in mid-flight (and the one being added).
THEOREM HalfLinkedEdgesAreFew == Spec => []HalfLinkedEdgesNeedACrash
<1>1. Init => AbandonedInv
  <2>1. SUFFICES ASSUME Init PROVE AbandonedInv
    OBVIOUS
  <2>2. Abandoned("local") = {} /\ Abandoned("central") = {} /\ crashes = 0
    BY <2>1 DEF Init, Abandoned, HalfLinked, Kinds
  <2> QED BY SMTT(30), <2>2, FS_EmptySet DEF AbandonedInv
<1>2. StoreInv /\ StoreInv' /\ [Next]_vars /\ AbandonedInv => AbandonedInv'
  BY AbandonedNext
<1>3. StoreInv /\ AbandonedInv => HalfLinkedEdgesNeedACrash
  <2>1. SUFFICES ASSUME StoreInv, AbandonedInv PROVE HalfLinkedEdgesNeedACrash
    OBVIOUS
  <2>2. kind \in Kinds /\ crashes \in Nat /\ "local" \in Kinds /\ "central" \in Kinds
    BY <2>1 DEF StoreInv, TypeOK, FrameType, HistoryType, Kinds
  <2>3. ASSUME NEW k \in Kinds
        PROVE  /\ Cardinality(HalfLinked(k)) \in Nat /\ Cardinality(Abandoned(k)) \in Nat
               /\ Cardinality(HalfLinked(k)) <=
                     Cardinality(Abandoned(k)) +
                        IF pc \in LinkingDestination /\ k = kind THEN 1 ELSE 0
    <3>1. /\ IsFiniteSet(HalfLinked(k)) /\ Cardinality(HalfLinked(k)) \in Nat
          /\ Cardinality(Abandoned(k)) \in Nat
      BY <2>1, FiniteHalves
    <3>2. CASE pc \in LinkingDestination /\ k = kind
      <4>1. Abandoned(k) = HalfLinked(k) \ {newRelation}
        BY <3>2 DEF Abandoned, InFlight
      <4>2. Cardinality(HalfLinked(k) \ {newRelation}) =
               IF newRelation \in HalfLinked(k) THEN Cardinality(HalfLinked(k)) - 1
               ELSE Cardinality(HalfLinked(k))
        BY <3>1, FS_RemoveElement
      <4> QED BY SMTT(30), <3>1, <3>2, <4>1, <4>2
    <3>3. CASE ~(pc \in LinkingDestination /\ k = kind)
      <4>1. Abandoned(k) = HalfLinked(k)
        BY <3>3 DEF Abandoned, InFlight
      <4> QED BY SMTT(30), <3>1, <3>3, <4>1
    <3> QED BY <3>2, <3>3
  <2>4. pc \in LinkingDestination => pc \notin {"idle", "closed"}
    BY DEF LinkingDestination
  <2> QED BY SMTT(30), <2>1, <2>2, <2>3, <2>4 DEF HalfLinkedEdgesNeedACrash, AbandonedInv, Kinds
<1> QED BY <1>1, <1>2, <1>3, StoreInvariant, PTL DEF Spec

-----------------------------------------------------------------------------
(* The index file stays short: node numbers stay in range. *)

\* The keys of the index file are finitely many.
LEMMA FiniteIndex ==
    ASSUME StoreInv
    PROVE  /\ Cardinality(Key) \in Nat /\ Len(indexFile) \in Nat /\ truncations \in Nat
           /\ IsFiniteSet(DOMAIN nodeIndex) /\ Cardinality(DOMAIN nodeIndex) \in Nat
           /\ Cardinality(DOMAIN nodeIndex) <= Cardinality(Key)
<1>1. DOMAIN nodeIndex \subseteq Key /\ Len(indexFile) \in Nat /\ truncations \in Nat
  BY SMTT(30) DEF StoreInv, TypeOK, IndexType, HistoryType
<1> QED BY <1>1, KeyAssumption, FS_Subset, FS_CardinalityType

\* Only addNode for a key that memory does not know appends an index record.
LEMMA IndexBoundNext ==
    ASSUME StoreInv, StoreInv', [Next]_vars, IndexBound
    PROVE  IndexBound'
<1> DEFINE C == Cardinality(Key)
           K == {indexFile[i].key : i \in DOMAIN indexFile}
<1>0. /\ C \in Nat /\ Len(indexFile) \in Nat /\ truncations \in Nat
      /\ IsFiniteSet(DOMAIN nodeIndex) /\ Cardinality(DOMAIN nodeIndex) \in Nat
      /\ Cardinality(DOMAIN nodeIndex) <= C /\ C * truncations \in Nat
      /\ indexFile \in Seq(IndexRecords) /\ MaxTruncations \in Nat
  <2>1. C \in Nat /\ truncations \in Nat
    BY FiniteIndex
  <2>2. C * truncations \in Nat
    BY SMTT(30), <2>1
  <2> QED BY <2>1, <2>2, FiniteIndex, BoundAssumption DEF StoreInv, TypeOK, IndexType
<1>1. CASE UNCHANGED <<indexFile, nodeIndex, truncations>>
  BY <1>1 DEF IndexBound
<1>2. CASE OpenAppend
  <2>1. UNCHANGED <<indexFile, truncations>> /\ DOMAIN nodeIndex' = K
    BY <1>2 DEF OpenAppend, ReadNodeIndex, files, counts
  <2>2. K \subseteq Key
    <3>1. \A i \in DOMAIN indexFile : indexFile[i] \in IndexRecords
      BY <1>0, SeqElement
    <3>2. \A i \in DOMAIN indexFile : indexFile[i].key \in Key
      BY <3>1 DEF IndexRecords
    <3> QED BY <3>2
  <2>3. IsFiniteSet(K) /\ DOMAIN nodeIndex \subseteq K
    BY <2>2, KeyAssumption, FS_Subset DEF IndexBound
  <2> HIDE DEF C, K
  <2>4. Cardinality(DOMAIN nodeIndex) <= Cardinality(K) /\ Cardinality(K) \in Nat
    BY <2>3, FS_Subset, FS_CardinalityType
  <2>5. Len(indexFile) <= C * truncations + Cardinality(DOMAIN nodeIndex)
    BY DEF IndexBound, C
  <2>6. Len(indexFile) <= C * truncations + Cardinality(K)
    <3> DEFINE p == C * truncations
    <3>1. p \in Nat /\ Len(indexFile) <= p + Cardinality(DOMAIN nodeIndex)
      BY <1>0, <2>5
    <3> HIDE DEF p
    <3>2. Len(indexFile) <= p + Cardinality(K)
      BY SMTT(30), <1>0, <2>4, <3>1
    <3> QED BY <3>2 DEF p
  <2> QED BY <2>1, <2>6 DEF IndexBound, C, K
<1>3. CASE OpenTruncate
  <2>1. /\ UNCHANGED indexFile /\ DOMAIN nodeIndex' = {} /\ truncations' = truncations + 1
        /\ truncations < MaxTruncations
    BY <1>3 DEF OpenTruncate
  <2>2. Cardinality({}) = 0
    BY FS_EmptySet
  <2>3. C * (truncations + 1) = C * truncations + C
    BY SMTT(30), <1>0
  <2> HIDE DEF C, K
  <2>4. Len(indexFile) <= C * (truncations + 1) + 0
    BY SMTT(30), <1>0, <2>3 DEF IndexBound, C
  <2>5. truncations + 1 <= MaxTruncations
    BY SMTT(30), <1>0, <2>1
  <2> QED BY <2>1, <2>2, <2>4, <2>5 DEF IndexBound, C
<1>4. ASSUME NEW s \in Sides, AddNodeIndex(s)
      PROVE  IndexBound'
  <2>1. /\ edge[s] \notin DOMAIN nodeIndex /\ UNCHANGED truncations
        /\ DOMAIN nodeIndex' = DOMAIN nodeIndex \cup {edge[s]}
        /\ indexFile' = Append(indexFile, [key |-> edge[s], index |-> nextNodeIndex])
    BY <1>4 DEF AddNodeIndex, counts
  <2>2. Cardinality(DOMAIN nodeIndex') = Cardinality(DOMAIN nodeIndex) + 1
    BY <1>0, <2>1, FS_AddElement
  <2>3. Len(indexFile') = Len(indexFile) + 1
    BY SMTT(30), <1>0, <2>1
  <2>4. DOMAIN nodeIndex' \subseteq {indexFile'[i].key : i \in DOMAIN indexFile'}
    <3>1. DOMAIN nodeIndex \subseteq K
      BY DEF IndexBound
    <3>2. /\ \A i \in DOMAIN indexFile : i \in DOMAIN indexFile' /\ indexFile'[i] = indexFile[i]
          /\ Len(indexFile') \in DOMAIN indexFile'
          /\ indexFile'[Len(indexFile')].key = edge[s]
      BY SMTT(30), <1>0, <2>1, <2>3
    <3> QED BY SMTT(30), <2>1, <3>1, <3>2
  <2> HIDE DEF C
  <2>5. Len(indexFile) <= C * truncations + Cardinality(DOMAIN nodeIndex)
    BY DEF IndexBound, C
  <2>6. Len(indexFile') <= C * truncations + Cardinality(DOMAIN nodeIndex')
    <3> DEFINE p == C * truncations
    <3>1. p \in Nat /\ Len(indexFile) <= p + Cardinality(DOMAIN nodeIndex)
      BY <1>0, <2>5
    <3> HIDE DEF p
    <3>2. Len(indexFile') <= p + Cardinality(DOMAIN nodeIndex')
      BY SMTT(30), <1>0, <2>2, <2>3, <3>1
    <3> QED BY <3>2 DEF p
  <2>7. truncations' <= MaxTruncations
    BY <2>1 DEF IndexBound
  <2> QED BY <2>1, <2>4, <2>6, <2>7 DEF IndexBound, C
<1>5. CASE Stop \/ Crash \/ AddRelation \/ UNCHANGED vars
           \/ (\E k \in Kinds, a, b \in Key : AddEdge(k, a, b))
           \/ (\E s \in Sides : GetNode(s) \/ SaveNode(s) \/ UpdateRelation(s))
  BY ZenonT(60), <1>1, <1>5 DEF Stop, Crash, AddRelation, WriteRelation, AddEdge, GetNode, SaveNode,
     UpdateRelation, LinkPrevious, LinkNext, SetRelationHead, vars, files, memory, counts
<1> QED BY <1>2, <1>3, <1>4, <1>5 DEF Next, AddNode

\* A node never gets a number beyond one record for each key and truncation.
LEMMA NodeInRange ==
    ASSUME StoreInv, IndexBound, NEW n \in Nat, n < nextNodeIndex
    PROVE  n \in 0..(Cardinality(Key) * (MaxTruncations + 1))
<1> DEFINE C == Cardinality(Key)
           p == C * truncations
           q == C * (MaxTruncations + 1)
<1>1. /\ C \in Nat /\ Len(indexFile) \in Nat /\ truncations \in Nat
      /\ Cardinality(DOMAIN nodeIndex) \in Nat /\ Cardinality(DOMAIN nodeIndex) <= C
      /\ MaxTruncations \in Nat /\ truncations <= MaxTruncations
      /\ nextNodeIndex \in Nat /\ nextNodeIndex <= Len(indexFile)
  BY FiniteIndex, BoundAssumption DEF IndexBound, StoreInv, NodeNumbering, TypeOK, IndexType
<1>2. p \in Nat /\ q \in Nat
  BY SMTT(30), <1>1
<1>3. p + C <= q
  <2> HIDE DEF C
  <2>1. PICK d \in Nat : MaxTruncations = truncations + d
    <3>1. MaxTruncations - truncations \in Nat
      BY SMTT(30), <1>1
    <3> QED BY SMTT(30), <1>1, <3>1
  <2>2. q = p + C * d + C /\ C * d \in Nat
    BY SMTT(30), <1>1, <2>1
  <2> QED BY SMTT(30), <1>1, <1>2, <2>2
<1>4. Len(indexFile) <= p + Cardinality(DOMAIN nodeIndex)
  BY DEF IndexBound
<1> HIDE DEF C, p, q
<1>5. n <= q
  BY SMTT(30), <1>1, <1>2, <1>3, <1>4
<1> QED BY SMTT(30), <1>2, <1>5 DEF q, C

-----------------------------------------------------------------------------
(* The store implements AdjacencyLists, step by step. *)

\* A step that changes neither the numbers of the nodes nor any list is a stutter.
LEMMA StutterStep ==
    ASSUME StoreInv, StoreInv', DOMAIN nodesDB' = DOMAIN nodesDB,
           \A k \in Kinds : \A n \in DOMAIN nodesDB : SameList(k, n)
    PROVE  UNCHANGED ListsSeen
<1>1. \A k \in Kinds : \A n \in DOMAIN nodesDB : EdgeNodes(k, n)' = EdgeNodes(k, n)
  BY ListUnchanged
<1> QED BY <1>1 DEF ListsSeen

\* So is every step that leaves the lists and the node file alone.
LEMMA QuietStep ==
    ASSUME StoreInv, StoreInv', SameLists, UNCHANGED nodesDB
    PROVE  UNCHANGED ListsSeen
  BY StutterStep DEF SameLists, SameList

\* The nodes of the abstract specification are the blocks of the node file.
LEMMA NodesSeen == Adjacency!Nodes = DOMAIN nodesDB
<1>1. (CHOOSE k \in Kinds : TRUE) \in Kinds
  BY DEF Kinds
<1> QED BY <1>1 DEF Adjacency!Nodes, ListsSeen

\* Saving a node block adds the node, and the holes before it, with empty lists.
LEMMA SaveNodeAdds ==
    ASSUME StoreInv, StoreInv', IndexBound, NEW s \in Sides, SaveNode(s)
    PROVE  Adjacency!Next
<1> DEFINE a == block[s].addr
<1>1. /\ a \in Nat /\ a < nextNodeIndex /\ a \notin DOMAIN nodesDB /\ block[s].ref = NoRefs
      /\ nodesDB' = SaveBlock(nodesDB, a, [nodeId |-> edge[s], ref |-> block[s].ref])
      /\ UNCHANGED relationsDB
  <2>1. a \in Nat /\ nextNodeIndex \in Nat
    BY DEF StoreInv, TypeOK, FrameType, IndexType
  <2>2. a + 1 = nextNodeIndex /\ a \notin DOMAIN nodesDB /\ block[s].ref = NoRefs
    BY DEF StoreInv, SaveNode, NodesReady, Fresh, Sides
  <2>3. /\ nodesDB' = SaveBlock(nodesDB, a, [nodeId |-> edge[s], ref |-> block[s].ref])
        /\ UNCHANGED relationsDB
    BY DEF SaveNode
  <2> QED BY SMTT(30), <2>1, <2>2, <2>3
<1>2. /\ DOMAIN nodesDB' = DOMAIN nodesDB \cup 0..a
      /\ \A n \in DOMAIN nodesDB : nodesDB'[n] = nodesDB[n]
      /\ \A n \in DOMAIN nodesDB' : n \notin DOMAIN nodesDB => nodesDB'[n].ref = NoRefs
  BY <1>1 DEF SaveBlock, ZeroBlock
<1>3. SameLists
  BY ListsSaveNode
<1>4. ASSUME NEW k \in Kinds, NEW n \in DOMAIN nodesDB
      PROVE  EdgeNodes(k, n)' = EdgeNodes(k, n)
  <2>1. SameList(k, n)
    BY <1>2, <1>3 DEF SameLists, SameList
  <2> QED BY <2>1, ListUnchanged
<1>5. ASSUME NEW k \in Kinds, NEW n \in DOMAIN nodesDB', n \notin DOMAIN nodesDB
      PROVE  EdgeNodes(k, n)' = <<>>
  <2> DEFINE max == MaxRelations[k] + 1
  <2>1. max \in Nat /\ max \in 0..max /\ 0 \in Nat
    BY SMTT(30), BoundAssumption
  <2>2. nodesDB'[n].ref[k] = 0
    BY <1>2, <1>5 DEF NoRefs
  <2> HIDE DEF max
  <2>3. EdgeWalk(relationsDB'[k], n, max)[max][0] = <<>>
    <3>1. FollowsNext(EdgeWalk(relationsDB'[k], n, max), relationsDB'[k], n, max)
      BY <2>1, EdgeWalkFollowsNext
    <3> QED BY <2>1, <3>1 DEF FollowsNext
  <2> QED BY <2>2, <2>3 DEF EdgeNodes, max
<1>6. Adjacency!AddNodes(0..a)
  <2>1. ListsSeen' = [k \in Kinds |-> [n \in DOMAIN nodesDB \cup 0..a |-> EdgeNodes(k, n)']]
    BY <1>2 DEF ListsSeen
  <2>2. \A k \in Kinds : \A n \in DOMAIN nodesDB \cup 0..a :
           EdgeNodes(k, n)' = IF n \in DOMAIN nodesDB THEN ListsSeen[k][n] ELSE <<>>
    BY <1>2, <1>4, <1>5 DEF ListsSeen
  <2>3. ListsSeen' = [k \in Kinds |-> [n \in DOMAIN nodesDB \cup 0..a |->
                         IF n \in DOMAIN nodesDB THEN ListsSeen[k][n] ELSE <<>>]]
    BY <2>1, <2>2
  <2> QED BY <2>3, NodesSeen DEF Adjacency!AddNodes
<1>7. a \in 0..(Cardinality(Key) * (MaxTruncations + 1))
  BY <1>1, NodeInRange
<1> QED BY <1>6, <1>7 DEF Adjacency!Next

\* Emptying the files empties the lists.
LEMMA TruncateClears ==
    ASSUME OpenTruncate
    PROVE  Adjacency!Next
<1>1. DOMAIN nodesDB' = {}
  BY DEF OpenTruncate
<1>2. ListsSeen' = [k \in Kinds |-> [n \in {} |-> <<>>]]
  BY <1>1 DEF ListsSeen
<1> QED BY <1>2 DEF Adjacency!Next, Adjacency!Clear, Adjacency!Empty

\* What writing the head of a list changes, and the end of a self loop that is
\* already in its list.
LEMMA HeadWritten ==
    ASSUME StoreInv, NEW s \in Sides, SetRelationHead(s)
    PROVE  LET a == block[s].addr IN
           /\ kind \in Kinds /\ a \in DOMAIN nodesDB /\ newRelation \in 1..MaxRelations[kind]
           /\ newRelation \in DOMAIN relationsDB[kind]
           /\ pc \in Linking(s) /\ SideOf(relationsDB[kind][newRelation], a) # "none"
           /\ NextOf(kind, a, newRelation) = CurrentHead(s)
           /\ DOMAIN nodesDB' = DOMAIN nodesDB /\ UNCHANGED relationsDB
           /\ \A n \in DOMAIN nodesDB, k \in Kinds :
                 nodesDB'[n].ref[k] = IF n = a /\ k = kind THEN newRelation ELSE nodesDB[n].ref[k]
           /\ \A k \in Kinds : \A n :
                 k # kind \/ n # a \/ newRelation \in Linked(k, n) => Linked(k, n)' = Linked(k, n)
           /\ \A k, n, r : NextOf(k, n, r)' = NextOf(k, n, r)
           /\ \A n : \A r \in Linked(kind, n) : r \in Nat /\ r <= newRelation
<1> DEFINE a == block[s].addr
<1>1. pc \in Linking(s) /\ NextOf(kind, a, newRelation) = CurrentHead(s)
  BY HeadReady
<1>2. /\ kind \in Kinds /\ newRelation \in DOMAIN relationsDB[kind] /\ newRelation \in Nat
      /\ a \in DOMAIN nodesDB /\ SideOf(New, a) \in Sides
  BY <1>1, HeadFacts
<1>3. /\ nodesDB' = [nodesDB EXCEPT ![a].ref[kind] = newRelation]
      /\ linked' = linked \cup {<<kind, a, newRelation>>}
      /\ UNCHANGED relationsDB
  BY DEF SetRelationHead
<1>4. NodesType /\ RelationsType
  BY DEF StoreInv, TypeOK
<1>5. /\ DOMAIN nodesDB' = DOMAIN nodesDB
      /\ \A n \in DOMAIN nodesDB, k \in Kinds :
            nodesDB'[n].ref[k] = IF n = a /\ k = kind THEN newRelation ELSE nodesDB[n].ref[k]
  BY <1>2, <1>3, <1>4 DEF NodesType, NodeBlocks
<1>6. ASSUME NEW k \in Kinds, NEW n, k # kind \/ n # a \/ newRelation \in Linked(k, n)
      PROVE  Linked(k, n)' = Linked(k, n)
  <2>1. ASSUME NEW r \in DOMAIN relationsDB[k]
        PROVE  <<k, n, r>> \in linked' <=> <<k, n, r>> \in linked
    BY <1>3, <1>6 DEF Linked
  <2> QED BY <1>3, <2>1 DEF Linked
<1>8. \A k, n, r : NextOf(k, n, r)' = NextOf(k, n, r)
  BY <1>3 DEF NextOf
<1>9. \A n : \A r \in Linked(kind, n) : r \in Nat /\ r <= newRelation
  BY SMTT(30), <1>1, <1>2 DEF Linked, StoreInv, TypeOK, RelationsType, RelationReady, Linking
<1>10. newRelation \in 1..MaxRelations[kind]
  BY SMTT(30), <1>2, <1>4, BoundAssumption DEF RelationsType
<1>11. SideOf(relationsDB[kind][newRelation], a) # "none"
  BY <1>2 DEF New, Sides
<1> QED BY <1>1, <1>2, <1>3, <1>5, <1>6, <1>8, <1>9, <1>10, <1>11

\* Writing the head of a list puts the new relation in front of what a reader sees.
LEMMA HeadPushes ==
    ASSUME StoreInv, NEW s \in Sides, SetRelationHead(s), ~(s = "destination" /\ SelfLoop),
           NEW k, k = kind, NEW a, a = block[s].addr
    PROVE  EdgeNodes(k, a)' = <<newRelation>> \o EdgeNodes(k, a)
<1> DEFINE m == MaxRelations[k]
           max == m + 1
           L == Linked(k, a)
           h == nodesDB[a].ref[k]
           db == relationsDB[k]
           w == EdgeWalk(db, a, max)
<1>1. /\ k \in Kinds /\ a \in DOMAIN nodesDB /\ newRelation \in 1..m
      /\ SideOf(db[newRelation], a) # "none" /\ NextOf(k, a, newRelation) = h
      /\ UNCHANGED relationsDB /\ nodesDB'[a].ref[k] = newRelation
  BY HeadWritten, HeldFacts
<1>2. Threaded(db, a, L) /\ h \in L \cup {0} /\ h \in 0..m /\ m \in Nat
  BY <1>1, ListThreaded
<1>3. EdgeNodes(k, a)' = w[max][newRelation] /\ EdgeNodes(k, a) = w[max][h]
  BY <1>1 DEF EdgeNodes
<1>4. db[newRelation].next[SideOf(db[newRelation], a)] = h
  BY <1>1 DEF NextOf
<1>5. FollowsNext(w, db, a, max)
  BY SMTT(30), <1>2, EdgeWalkFollowsNext
<1>6. max \in 0..max /\ m \in 0..max /\ max - 1 = m /\ max # 0 /\ max \in Nat
      /\ newRelation \in Nat /\ newRelation # 0 /\ h <= m /\ h <= max
  <2>1. newRelation \in 1..m /\ h \in 0..m /\ m \in Nat
    BY <1>1, <1>2
  <2> HIDE DEF m, L, h, db, w
  <2> QED BY SMTT(30), <2>1
<1>7. w[m][h] = w[max][h]
  <2> HIDE DEF m, max, L, h, db
  <2> QED BY SMTT(30), <1>2, <1>6, WalksAgree
<1> HIDE DEF m, max, L, h, db, w
<1>8. w[max][newRelation] =
         IF newRelation = 0 \/ max = 0 \/ SideOf(db[newRelation], a) = "none" THEN <<>>
         ELSE <<newRelation>> \o w[max - 1][db[newRelation].next[SideOf(db[newRelation], a)]]
  BY <1>5, <1>6 DEF FollowsNext
<1> QED BY <1>1, <1>3, <1>4, <1>6, <1>7, <1>8

\* The second end of a self loop finds the relation at the head already; any other
\* head that is written is a push.
LEMMA SetHeadStep ==
    ASSUME StoreInv, StoreInv', NEW s \in Sides, SetRelationHead(s)
    PROVE  Adjacency!Next \/ UNCHANGED ListsSeen
<1>0. PICK k, a : k = kind /\ a = block[s].addr
  OBVIOUS
<1>1. /\ k \in Kinds /\ a \in DOMAIN nodesDB /\ newRelation \in 1..MaxRelations[k]
      /\ newRelation \in DOMAIN relationsDB[k] /\ pc \in Linking(s)
      /\ DOMAIN nodesDB' = DOMAIN nodesDB
      /\ \A n \in DOMAIN nodesDB, j \in Kinds :
            nodesDB'[n].ref[j] = IF n = a /\ j = k THEN newRelation ELSE nodesDB[n].ref[j]
      /\ \A j \in Kinds : \A n :
            j # k \/ n # a \/ newRelation \in Linked(j, n) => Linked(j, n)' = Linked(j, n)
      /\ \A j, n, r : NextOf(j, n, r)' = NextOf(j, n, r)
      /\ \A n : \A r \in Linked(k, n) : r \in Nat /\ r <= newRelation
  BY SMTT(30), <1>0, HeadWritten
<1>2. CASE s = "destination" /\ SelfLoop
  <2>1. newRelation \in Linked(k, a)
    BY <1>0, <1>1, <1>2, SelfLoopFacts DEF Linking
  <2>2. nodesDB[a].ref[k] = newRelation
    <3>1. IsNewest(Linked(k, a), nodesDB[a].ref[k])
      BY <1>1 DEF StoreInv, NewestFirst
    <3>2. nodesDB[a].ref[k] \in Linked(k, a) /\ newRelation <= nodesDB[a].ref[k]
      BY <2>1, <3>1 DEF IsNewest
    <3> QED BY SMTT(30), <1>1, <3>2
  <2>3. \A j \in Kinds : \A n \in DOMAIN nodesDB : SameList(j, n)
    BY <1>1, <2>1, <2>2 DEF SameList
  <2> QED BY <1>1, <2>3, StutterStep
<1>3. CASE ~(s = "destination" /\ SelfLoop)
  <2>1. EdgeNodes(k, a)' = <<newRelation>> \o EdgeNodes(k, a)
    BY <1>0, <1>3, HeadPushes
  <2>2. ASSUME NEW j \in Kinds, NEW n \in DOMAIN nodesDB, j # k \/ n # a
        PROVE  EdgeNodes(j, n)' = EdgeNodes(j, n)
    <3>1. SameList(j, n)
      BY <1>1, <2>2 DEF SameList
    <3> QED BY <3>1, ListUnchanged
  <2>3. ListsSeen' = [ListsSeen EXCEPT ![k][a] = <<newRelation>> \o @]
    <3> DEFINE new(j, n) == IF j = k /\ n = a THEN <<newRelation>> \o ListsSeen[j][n]
                            ELSE ListsSeen[j][n]
    <3>1. \A j \in Kinds : \A n \in DOMAIN nodesDB : EdgeNodes(j, n)' = new(j, n)
      BY <1>1, <2>1, <2>2 DEF ListsSeen
    <3>2. ListsSeen' = [j \in Kinds |-> [n \in DOMAIN nodesDB |-> new(j, n)]]
      BY <1>1, <3>1 DEF ListsSeen
    <3>3. [ListsSeen EXCEPT ![k][a] = <<newRelation>> \o @] =
             [j \in Kinds |-> [n \in DOMAIN nodesDB |-> new(j, n)]]
      BY <1>1 DEF ListsSeen
    <3> QED BY <3>2, <3>3
  <2>4. ASSUME NEW n \in DOMAIN nodesDB, NEW i \in DOMAIN ListsSeen[k][n]
        PROVE  ListsSeen[k][n][i] \in Linked(k, n)
    <3>1. ListsSeen[k][n] = EdgeNodes(k, n)
      BY <1>1 DEF ListsSeen
    <3> QED BY <1>1, <2>4, <3>1, ListHolds
  <2>5. newRelation \notin Linked(k, a)
    BY <1>0, <1>1, <1>3, HeldFacts
  <2>6. newRelation \in 1..(MaxRelations["local"] + MaxRelations["central"])
    BY SMTT(30), <1>1, BoundAssumption DEF Kinds
  <2>7. Adjacency!Push(k, a, newRelation)
    BY <1>1, <2>3, <2>4, <2>5, NodesSeen DEF Adjacency!Push
  <2> QED BY <1>1, <2>6, <2>7, NodesSeen DEF Adjacency!Next
<1> QED BY <1>2, <1>3

\* Every step of the store is a step of AdjacencyLists or leaves the lists alone.
LEMMA StepImplements ==
    ASSUME StoreInv, StoreInv', IndexBound, [Next]_vars
    PROVE  Adjacency!Next \/ UNCHANGED ListsSeen
<1>0. Lists
  BY DEF StoreInv, Lists
<1>1. CASE OpenTruncate
  BY <1>1, TruncateClears
<1>2. CASE AddRelation
  <2>1. UNCHANGED nodesDB
    BY <1>2 DEF AddRelation, WriteRelation
  <2> QED BY <1>2, <2>1, ListsAddRelation, QuietStep
<1>3. ASSUME NEW s \in Sides, SaveNode(s) PROVE Adjacency!Next
  BY <1>3, SaveNodeAdds
<1>4. ASSUME NEW s \in Sides, LinkPrevious(s) PROVE UNCHANGED ListsSeen
  <2>1. UNCHANGED nodesDB
    BY <1>4 DEF LinkPrevious
  <2> QED BY <1>4, <2>1, ListsLinkPrevious, QuietStep
<1>5. ASSUME NEW s \in Sides, LinkNext(s) PROVE UNCHANGED ListsSeen
  <2>1. UNCHANGED nodesDB
    BY <1>5 DEF LinkNext
  <2> QED BY <1>5, <2>1, ListsLinkNext, QuietStep
<1>6. ASSUME NEW s \in Sides, SetRelationHead(s) PROVE Adjacency!Next \/ UNCHANGED ListsSeen
  BY <1>6, SetHeadStep
<1>7. CASE OpenAppend \/ Stop \/ Crash \/ UNCHANGED vars
           \/ (\E k \in Kinds, a, b \in Key : AddEdge(k, a, b))
           \/ (\E s \in Sides : GetNode(s) \/ AddNodeIndex(s))
  <2>1. UNCHANGED <<nodesDB, relationsDB, linked>>
    BY ZenonT(60), <1>7 DEF OpenAppend, Stop, Crash, AddEdge, GetNode, AddNodeIndex, vars, files, ghosts
  <2> QED BY <1>0, <2>1, ListsUntouched, QuietStep
<1> QED BY <1>1, <1>2, <1>3, <1>4, <1>5, <1>6, <1>7 DEF Next, AddNode, UpdateRelation

\* The index file holds at most one record per vertex and truncation, so that no node
\* gets a number beyond them.
THEOREM IndexStaysBounded == Spec => []IndexBound
<1>1. Init => IndexBound
  <2>1. Cardinality({}) = 0 /\ Cardinality(Key) \in Nat
    BY FS_EmptySet, KeyAssumption, FS_CardinalityType
  <2>2. Cardinality(Key) * 0 = 0
    BY SMTT(30), <2>1
  <2> QED BY SMTT(30), <2>1, <2>2, BoundAssumption DEF Init, IndexBound
<1>2. StoreInv /\ StoreInv' /\ [Next]_vars /\ IndexBound => IndexBound'
  BY IndexBoundNext
<1> QED BY <1>1, <1>2, StoreInvariant, PTL DEF Spec

\* The lists that get{Local,Central}EdgeNodes reads implement AdjacencyLists: whatever
\* the number of vertices and relations, and wherever the process stops between two
\* writes, a list changes only by getting one new relation at its head.
THEOREM ListsImplementAdjacency == Spec => ListsGrowAtTheHead
<1>1. Init => Adjacency!Init
  BY DEF Init, Adjacency!Init, Adjacency!Empty, ListsSeen
<1>2. StoreInv /\ StoreInv' /\ IndexBound /\ [Next]_vars => [Adjacency!Next]_ListsSeen
  BY StepImplements
<1> QED BY <1>1, <1>2, StoreInvariant, IndexStaysBounded, PTL DEF Spec, ListsGrowAtTheHead, Adjacency!Spec
==============================================================================
