--------------------------- MODULE PropertyChain ---------------------------
(***************************************************************************)
(* The property chains of the native store (nativestore/PropertyLink,      *)
(* MetaPropertyLink; the node's side in NodeBlock::addProperty and         *)
(* addMetaProperty; the order of the calls in                              *)
(* JasmineGraphIncrementalLocalStore).                                     *)
(*                                                                         *)
(* A chain is a singly linked list of blocks of one file.  The node block  *)
(* holds the address of its first link (`head', on disk), and every        *)
(* NodeBlock object holds a copy of it (`ref', in memory).  insert() walks *)
(* from the copy, appends at the tail and returns the address of the       *)
(* FORMER tail, which becomes the object's copy: from then on the object   *)
(* starts its walks in the middle of the chain, and the node block still   *)
(* names the first link.                                                   *)
(*                                                                         *)
(* An edge brings two objects to life, one per end, both loaded before the *)
(* first property is added; the source's properties are added first.  Each *)
(* end adds its properties in the order of their names (the order of the   *)
(* keys of a JSON object).  A crash may come between the write of a link   *)
(* and the write of the pointer that makes it part of a chain.             *)
(*                                                                         *)
(* Addresses are block numbers; 0 is "no link".                            *)
(***************************************************************************)
EXTENDS Integers, FiniteSets, FiniteSetsExt

CONSTANTS
    Owners,        \* the nodes whose chains are followed
    NNames,        \* property names are 1..NNames, in the order of the keys
    Values,        \* property values (positive numbers)
    MaxLinks       \* bound on the blocks of the file

ASSUME ChainAssumption ==
    /\ NNames \in Nat \ {0} /\ MaxLinks \in Nat \ {0}
    /\ Values \subseteq Nat \ {0}
    /\ "none" \notin Owners

VARIABLES
    meta,    \* the file is MetaPropertyLink's (TRUE) or PropertyLink's
    links,   \* the property file: block number -> link, or NoLink
    head,    \* on disk: propRef (metaPropRef) of every node block
    nextPropertyIndex, \* in memory: the block the next link is written to
    objs,    \* in memory: the NodeBlock objects of the edge being added
    phase,   \* the end whose properties are being added
    pending, \* the insertion whose link is written and not yet reachable
    owed,    \* history: the properties that each node has to keep
    done     \* history: the last addMetaProperty of the edge that returned

vars == <<meta, links, head, nextPropertyIndex, objs, phase, pending, owed, done>>
disk == <<meta, links, head>>
history == <<owed, done>>

Names == 1..NNames
Blocks == 1..MaxLinks
Ends == {"src", "dst"}
NoLink == [name |-> 0, value |-> 0, next |-> 0]
Link == [name : Names, value : Values, next : 0..MaxLinks]
NoObj == [owner |-> "none", ref |-> 0, lastName |-> 0]
NoCall == [owner |-> "none", name |-> 0, value |-> 0]
NoPending == [kind |-> "none", tail |-> 0, addr |-> 0]

\* A walk with next() through a property file from block a: the block of every
\* position, 0 once the chain has ended.  A chain without a cycle has ended at
\* position MaxLinks.
Walk(file, a) ==
    LET w[i \in 0..MaxLinks] ==
            IF i = 0 THEN a
            ELSE LET k == w[i - 1] IN IF k = 0 THEN 0 ELSE file[k].next
    IN  w

Positions(file, a) == LET w == Walk(file, a) IN {i \in 0..MaxLinks : w[i] # 0}

\* The positions of a walk from a that hold name n.
PositionsOf(file, a, n) ==
    {i \in Positions(file, a) : file[Walk(file, a)[i]].name = n}

\* The blocks of the chain that begins at block a.
Chain(file, a) == {Walk(file, a)[i] : i \in Positions(file, a)}

\* getAllProperties() of a node whose chain begins at block a: of equal names the
\* first wins (try_emplace).  0: the node has no property n.
Read(file, a, n) ==
    LET at == PositionsOf(file, a, n)
    IN  IF at = {} THEN 0 ELSE file[Walk(file, a)[Min(at)]].value

\* The same for a node loaded from disk.
getProperty(v, n) == Read(links, head[v], n)
Readable(v) == {n \in Names : getProperty(v, n) # 0}

\* Block k of the file now holds link l.
Written(k, l) == [links EXCEPT ![k] = l]

\* Mutant of FileBlocks: block 0, which is never written, is not counted.
FileBlocksWritten == LET used == {k \in Blocks : links[k] # NoLink}
                     IN  IF used = {} THEN 0 ELSE Max(used)

\* NodeManager's constructor: the number of the next block from the file's
\* size; block 0 is never written, so an empty file gives 1.
FileBlocks == LET used == {k \in Blocks : links[k] # NoLink}
              IN  IF used = {} THEN 0 ELSE Max(used) + 1

ReopenedIndex == IF FileBlocks = 0 THEN 1 ELSE FileBlocks

Init ==
    /\ meta \in BOOLEAN
    /\ links = [k \in Blocks |-> NoLink]
    /\ head = [v \in Owners |-> 0]
    /\ nextPropertyIndex = 1
    /\ objs = [x \in Ends |-> NoObj]
    /\ phase = "idle"
    /\ pending = NoPending
    /\ owed = [v \in Owners |-> {}]
    /\ done = NoCall

----------------------------------------------------------------------------
\* addLocalEdge / addCentralEdge: both ends are loaded from disk.  An end may be
\* a vertex that is not followed here.  What can be read of a node when an edge
\* begins, the node has to keep.
Loaded(v) == IF v \in Owners THEN [owner |-> v, ref |-> head[v], lastName |-> 0] ELSE NoObj

AddEdge(s, d) ==
    /\ phase = "idle"
    /\ objs' = [src |-> Loaded(s), dst |-> Loaded(d)]
    /\ phase' = "src"
    /\ owed' = [v \in Owners |-> Readable(v)]
    /\ done' = NoCall
    /\ UNCHANGED <<disk, nextPropertyIndex, pending>>

\* addSourceProperties returns, then addDestinationProperties; the objects are
\* deleted at the end of the edge.
EndDone ==
    /\ phase \in Ends /\ pending = NoPending
    /\ phase' = IF phase = "src" THEN "dst" ELSE "idle"
    /\ objs' = [objs EXCEPT ![phase] = NoObj]
    /\ UNCHANGED <<disk, nextPropertyIndex, pending, history>>

\* The object whose properties are being added, and the object after a call
\* that set its reference to r for name n.
Current == objs[phase]
Moved(r, n) == [objs EXCEPT ![phase] = [owner |-> @.owner, ref |-> r, lastName |-> n]]

\* What is owed once name n became reachable: n too, unless the node is also the
\* other end of the edge and that end's object, loaded before, knows of no chain.
StartsOver(v) == phase = "src" /\ objs["dst"].owner = v /\ objs["dst"].ref = 0
Owing(v, n) == IF StartsOver(v) THEN owed ELSE [owed EXCEPT ![v] = @ \cup {n}]

Returned(v, n, val) ==
    IF meta THEN [owner |-> v, name |-> n, value |-> val] ELSE NoCall

\* The next name of the end's properties; the only meta property is the
\* partition id.
Adding(n) ==
    /\ phase \in Ends /\ pending = NoPending
    /\ Current # NoObj
    /\ n > Current.lastName
    /\ meta => n = 1

\* addProperty on a node without properties, first half (PropertyLink::create):
\* the link is written, the node does not name it yet.
Create(n, val) ==
    /\ Adding(n) /\ Current.ref = 0
    /\ nextPropertyIndex <= MaxLinks
    /\ links' = Written(nextPropertyIndex, [name |-> n, value |-> val, next |-> 0])
    /\ nextPropertyIndex' = nextPropertyIndex + 1
    /\ pending' = [kind |-> "create", tail |-> 0, addr |-> nextPropertyIndex]
    /\ UNCHANGED <<meta, head, objs, phase, history>>

\* Second half: the node block on disk names the link.
SetHead ==
    /\ pending.kind = "create"
    /\ LET l == links[pending.addr]
           v == Current.owner
       IN  /\ head' = [head EXCEPT ![v] = pending.addr]
           /\ objs' = Moved(pending.addr, l.name)
           /\ owed' = Owing(v, l.name)
           /\ done' = Returned(v, l.name, l.value)
    /\ pending' = NoPending
    /\ UNCHANGED <<meta, links, nextPropertyIndex, phase>>

\* Mutant of InsertExisting: the walk meets the name and leaves the link as it is,
\* in both kinds of chain.
InsertExistingIgnored(n, val) ==
    /\ Adding(n) /\ Current.ref # 0
    /\ LET at == PositionsOf(links, Current.ref, n)
       IN  /\ at # {}
           /\ objs' = Moved(Walk(links, Current.ref)[Min(at)], n)
    /\ done' = Returned(Current.owner, n, val)
    /\ UNCHANGED <<meta, links, head, nextPropertyIndex, phase, pending, owed>>

\* The file after insert() met link k of the same name: MetaPropertyLink writes
\* the new value into it, PropertyLink leaves it as it is.
Updated(k, val) ==
    IF meta THEN Written(k, [links[k] EXCEPT !.value = val]) ELSE links

\* insert() meets a link of the same name and returns its address.
InsertExisting(n, val) ==
    /\ Adding(n) /\ Current.ref # 0
    /\ LET at == PositionsOf(links, Current.ref, n)
           k == Walk(links, Current.ref)[Min(at)]
           v == Current.owner
       IN  /\ at # {}
           /\ links' = Updated(k, val)
           /\ objs' = Moved(k, n)
           /\ done' = Returned(v, n, val)
    /\ UNCHANGED <<meta, head, nextPropertyIndex, phase, pending, owed>>

\* Mutant of InsertWrite: the new link is hung on the link the walk started from.
InsertWriteAtRef(n, val) ==
    /\ Adding(n) /\ Current.ref # 0
    /\ PositionsOf(links, Current.ref, n) = {}
    /\ nextPropertyIndex <= MaxLinks
    /\ links' = Written(nextPropertyIndex, [name |-> n, value |-> val, next |-> 0])
    /\ pending' = [kind |-> "append", tail |-> Current.ref, addr |-> nextPropertyIndex]
    /\ UNCHANGED <<meta, head, nextPropertyIndex, objs, phase, history>>

\* insert() reaches the tail, first half: the new link is written.
InsertWrite(n, val) ==
    /\ Adding(n) /\ Current.ref # 0
    /\ PositionsOf(links, Current.ref, n) = {}
    /\ nextPropertyIndex <= MaxLinks
    /\ links' = Written(nextPropertyIndex, [name |-> n, value |-> val, next |-> 0])
    /\ pending' = [kind |-> "append",
                   tail |-> Walk(links, Current.ref)[Max(Positions(links, Current.ref))],
                   addr |-> nextPropertyIndex]
    /\ UNCHANGED <<meta, head, nextPropertyIndex, objs, phase, history>>

\* Second half: the former tail names the new link, the file is flushed, the
\* number is taken; the address of the former tail is returned.
InsertLink ==
    /\ pending.kind = "append"
    /\ LET l == links[pending.addr]
           v == Current.owner
       IN  /\ links' = Written(pending.tail, [links[pending.tail] EXCEPT !.next = pending.addr])
           /\ objs' = Moved(pending.tail, l.name)
           /\ owed' = Owing(v, l.name)
           /\ done' = Returned(v, l.name, l.value)
    /\ nextPropertyIndex' = nextPropertyIndex + 1
    /\ pending' = NoPending
    /\ UNCHANGED <<meta, head, phase>>

\* The process ends at any point; the store is opened again over its files.
Crash ==
    /\ nextPropertyIndex' = ReopenedIndex
    /\ objs' = [x \in Ends |-> NoObj]
    /\ phase' = "idle"
    /\ pending' = NoPending
    /\ UNCHANGED <<disk, history>>

AddProperty(n, val) ==
    \/ Create(n, val)
    \/ InsertExisting(n, val)
    \/ InsertWrite(n, val)

Next ==
    \/ \E s \in Owners, d \in Owners \cup {"none"} : AddEdge(s, d) \/ AddEdge(d, s)
    \/ \E n \in Names, val \in Values : AddProperty(n, val)
    \/ SetHead
    \/ InsertLink
    \/ EndDone
    \/ Crash

Spec == Init /\ [][Next]_vars

----------------------------------------------------------------------------
(* Properties *)

ChainBlocks(v) == Chain(links, head[v])

\* The chains on disk stay well formed through moved references, self loops and
\* crashes between a link and its pointer (PropertyLink::insert, create,
\* NodeBlock::addProperty): no chain has a cycle, no link of a chain is unwritten,
\* no two nodes share a link, and the next link goes to a block of no chain, which is
\* not block 0.
ChainsSound ==
    /\ \A v \in Owners : Walk(links, head[v])[MaxLinks] = 0
    /\ \A v \in Owners : \A k \in ChainBlocks(v) : links[k] # NoLink
    /\ \A v, w \in Owners : v # w => ChainBlocks(v) \cap ChainBlocks(w) = {}
    /\ nextPropertyIndex # 0 /\ \A v \in Owners : nextPropertyIndex \notin ChainBlocks(v)

\* A property of a node stays readable through every later edge and crash, although
\* later insertions start in the middle of the chain (NodeBlock.cpp:128) and may
\* append a second link of its name.  What a self loop itself gives to its first end
\* is owed only once the loop is over: the second object may have been loaded before
\* the first one created the chain, and then starts a new chain in its place.
PropertiesStay ==
    ~meta => \A v \in Owners : owed[v] \subseteq Readable(v)

\* The meta property of a node has the value of the last addMetaProperty that
\* returned (MetaPropertyLink::insert updates in place), also when the node is
\* both ends of the edge and its second object still knows no chain, and after a
\* crash in a later call.
LastWriteWins ==
    done # NoCall => getProperty(done.owner, done.name) = done.value

----------------------------------------------------------------------------
(* The inductive invariant: blocks are numbered in the order of every chain,   *)
(* and what is about to be linked is in no chain yet.                          *)

Object == [owner : Owners, ref : 0..MaxLinks, lastName : 0..NNames]
Call == [owner : Owners, name : Names, value : Values]

TypeOK ==
    /\ meta \in BOOLEAN
    /\ links \in [Blocks -> Link \cup {NoLink}]
    /\ head \in [Owners -> 0..MaxLinks]
    /\ nextPropertyIndex \in 1..(MaxLinks + 1)
    /\ objs \in [Ends -> Object \cup {NoObj}]
    /\ phase \in Ends \cup {"idle"}
    /\ pending \in [kind : {"none", "create", "append"}, tail : 0..MaxLinks, addr : 0..MaxLinks]
    /\ owed \in [Owners -> SUBSET Names]
    /\ done \in Call \cup {NoCall}

\* A link only leads to a later block, so that no chain can have a cycle.
Ascending(file) == \A k \in Blocks : file[k].next # 0 => k < file[k].next

\* Every written block is numbered below the next one, but for one that is still to
\* be linked; that one is in no chain, and no block is in two.
FileInv ==
    /\ Ascending(links)
    /\ \A k \in Blocks :
          links[k] # NoLink =>
            k < nextPropertyIndex \/ (pending.kind = "append" /\ k = pending.addr)
    /\ \A v \in Owners : \A k \in ChainBlocks(v) : links[k] # NoLink /\ k # pending.addr
    /\ \A v, w \in Owners : v # w => ChainBlocks(v) \cap ChainBlocks(w) = {}

\* An object walks its own node's chain; a node is owed nothing as long as one of its
\* objects knows no chain, since that object would start a new one.  The first end
\* starts one only where there is none.
ObjectsInv ==
    /\ \A x \in Ends : objs[x] # NoObj =>
          /\ objs[x].ref # 0 => objs[x].ref \in ChainBlocks(objs[x].owner)
          /\ objs[x].ref = 0 => owed[objs[x].owner] = {}
    /\ objs["src"] # NoObj =>
          phase = "src" /\ (objs["src"].ref = 0 => head[objs["src"].owner] = 0)
    /\ objs["dst"] # NoObj => phase \in Ends

\* A link that was written and is not yet reachable names no other, and is about to be
\* named by the node block or by the tail of the current object's chain.
PendingInv ==
    /\ pending.kind = "none" => pending = NoPending
    /\ pending.kind # "none" =>
          /\ phase \in Ends /\ Current # NoObj
          /\ pending.addr \in Blocks /\ links[pending.addr] \in Link
          /\ links[pending.addr].next = 0
    /\ pending.kind = "create" => Current.ref = 0 /\ nextPropertyIndex = pending.addr + 1
    /\ pending.kind = "append" =>
          /\ Current.ref # 0 /\ nextPropertyIndex = pending.addr
          /\ pending.tail \in ChainBlocks(Current.owner) /\ links[pending.tail].next = 0

\* A chain of meta properties is one link.
MetaInv ==
    meta => /\ \A k \in Blocks : links[k].next = 0 /\ links[k].name \in {0, 1}
            /\ pending.kind # "append"

\* What is read is what the history says it should be.
ReadInv ==
    /\ PropertiesStay
    /\ done # NoCall => meta
    /\ LastWriteWins

ChainInv == TypeOK /\ FileInv /\ ObjectsInv /\ PendingInv /\ MetaInv /\ ReadInv
=============================================================================
