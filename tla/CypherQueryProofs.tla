------------------------- MODULE CypherQueryProofs -------------------------
(***************************************************************************)
(* The distributed query, for any number of partitions, any tables and any  *)
(* sizes of buffers and heap: no row is lost or doubled on its way, the     *)
(* answer is complete, and the rows of an ascending query come in order.    *)
(***************************************************************************)
EXTENDS CypherQuery, TLAPS

\* Most steps are set reasoning; those with arithmetic or sequences name SMT.
USE ZenonT(60)

-----------------------------------------------------------------------------
(* Sequences of rows. *)

Just(x) == IF x.n # 0 THEN {x} ELSE {}

\* The first row of a sequence and the others.
LEMMA HeadTail ==
  ASSUME NEW S, NEW s \in Seq(S), s # <<>>
  PROVE  /\ Len(s) \in Nat \ {0} /\ Head(s) = s[1] /\ Head(s) \in S /\ 1 \in DOMAIN s
         /\ Tail(s) \in Seq(S) /\ Len(Tail(s)) = Len(s) - 1
         /\ \A i \in DOMAIN Tail(s) : i \in Nat \ {0} /\ i + 1 \in DOMAIN s /\ Tail(s)[i] = s[i + 1]
         /\ \A i \in DOMAIN s : i \in Nat \ {0} /\ (i = 1 \/ i - 1 \in DOMAIN Tail(s))
         /\ Range(s) = {Head(s)} \cup Range(Tail(s))
<1>1. /\ Len(s) \in Nat \ {0} /\ Head(s) = s[1] /\ Head(s) \in S /\ 1 \in DOMAIN s
      /\ Tail(s) \in Seq(S) /\ Len(Tail(s)) = Len(s) - 1
  BY SMTT(30)
<1>2. \A i \in DOMAIN Tail(s) : i \in Nat \ {0} /\ i + 1 \in DOMAIN s /\ Tail(s)[i] = s[i + 1]
  BY SMTT(30)
<1>3. \A i \in DOMAIN s : i \in Nat \ {0} /\ (i = 1 \/ i - 1 \in DOMAIN Tail(s))
  BY SMTT(30)
<1>4. Range(s) = {Head(s)} \cup Range(Tail(s))
  BY SMTT(30), <1>1, <1>2, <1>3 DEF Range
<1> QED BY <1>1, <1>2, <1>3, <1>4

\* Taking the first row.
LEMMA TakeHead ==
  ASSUME NEW S, NEW s \in Seq(S), s # <<>>
  PROVE  /\ Rows(s) = Just(Head(s)) \cup Rows(Tail(s))
         /\ NoneTwice(s) => NoneTwice(Tail(s)) /\ Head(s) \notin Rows(Tail(s))
         /\ InOrder(s) => InOrder(Tail(s)) /\ Before(Just(Head(s)), Rows(Tail(s)))
<1>1. Rows(s) = Just(Head(s)) \cup Rows(Tail(s))
  BY SMTT(30), HeadTail DEF Rows, Just
<1> DEFINE t == Tail(s)
<1>2. /\ Len(s) \in Nat \ {0} /\ Head(s) = s[1] /\ 1 \in DOMAIN s
      /\ \A i \in DOMAIN t : i \in Nat \ {0} /\ i + 1 \in DOMAIN s /\ t[i] = s[i + 1]
  BY SMTT(30), HeadTail
<1>3. ASSUME NoneTwice(s) PROVE NoneTwice(t) /\ Head(s) \notin Rows(t)
  <2> HIDE DEF t
  <2>1. NoneTwice(t)
    <3>1. SUFFICES ASSUME NEW i \in DOMAIN t, NEW j \in DOMAIN t, t[i] = t[j], t[i].n # 0
                   PROVE  i = j
      BY DEF NoneTwice
    <3>2. i + 1 = j + 1
      BY SMTT(30), <1>2, <1>3, <3>1 DEF NoneTwice
    <3> QED BY SMTT(30), <1>2, <3>2
  <2>2. \A i \in DOMAIN t : t[i] # Head(s) \/ t[i].n = 0
    BY SMTT(30), <1>2, <1>3 DEF NoneTwice
  <2> QED BY <2>1, <2>2 DEF Rows, Range
<1>4. ASSUME InOrder(s) PROVE InOrder(t) /\ Before(Just(Head(s)), Rows(t))
  <2> HIDE DEF t
  <2>1. InOrder(t)
    BY SMTT(30), <1>2, <1>4 DEF InOrder
  <2>2. \A i \in DOMAIN t : Head(s).n # 0 /\ t[i].n # 0 => Head(s).key <= t[i].key
    BY SMTT(30), <1>2, <1>4 DEF InOrder
  <2> QED BY <2>1, <2>2 DEF Before, Just, Rows, Range
<1> QED BY <1>1, <1>3, <1>4

\* Adding a row at the end.
LEMMA AddLast ==
  ASSUME NEW S, NEW s \in Seq(S), NEW x \in S
  PROVE  /\ Append(s, x) \in Seq(S) /\ Append(s, x) # <<>> /\ Len(Append(s, x)) = Len(s) + 1
         /\ s \o <<x>> = Append(s, x)
         /\ Range(Append(s, x)) = Range(s) \cup {x}
         /\ \A i \in DOMAIN Append(s, x) :
              \/ i \in DOMAIN s /\ i < Len(s) + 1 /\ Append(s, x)[i] = s[i]
              \/ i = Len(s) + 1 /\ Append(s, x)[i] = x
         /\ Rows(Append(s, x)) = Rows(s) \cup Just(x)
         /\ NoneTwice(s) /\ Just(x) \cap Rows(s) = {} => NoneTwice(Append(s, x))
         /\ InOrder(s) /\ Before(Rows(s), Just(x)) => InOrder(Append(s, x))
<1> DEFINE t == Append(s, x)
<1>1. t \in Seq(S) /\ t # <<>> /\ Len(t) = Len(s) + 1 /\ s \o <<x>> = t /\ Len(s) \in Nat
  BY SMTT(30)
<1>2. /\ \A i \in DOMAIN t : \/ i \in DOMAIN s /\ i < Len(s) + 1 /\ t[i] = s[i]
                             \/ i = Len(s) + 1 /\ t[i] = x
      /\ \A i \in DOMAIN s : i \in DOMAIN t /\ i \in Nat /\ t[i] = s[i]
      /\ Len(s) + 1 \in DOMAIN t /\ t[Len(s) + 1] = x
  BY SMTT(30)
<1> HIDE DEF t
<1>3. Range(t) = Range(s) \cup {x}
  BY <1>2 DEF Range
<1>4. Rows(t) = Rows(s) \cup Just(x)
  BY <1>3 DEF Rows, Just
<1>5. ASSUME NoneTwice(s), Just(x) \cap Rows(s) = {} PROVE NoneTwice(t)
  <2>1. \A i \in DOMAIN s : s[i].n # 0 => s[i] # x
    BY <1>5 DEF Rows, Range, Just
  <2> QED BY <1>2, <1>5, <2>1 DEF NoneTwice
<1>6. ASSUME InOrder(s), Before(Rows(s), Just(x)) PROVE InOrder(t)
  <2>1. \A i \in DOMAIN s : s[i].n # 0 /\ x.n # 0 => s[i].key <= x.key
    BY <1>6 DEF Before, Rows, Range, Just
  <2> QED BY SMTT(30), <1>1, <1>2, <1>6, <2>1 DEF InOrder
<1> QED BY <1>1, <1>2, <1>3, <1>4, <1>5, <1>6 DEF t

\* Nothing and one row.
LEMMA Singles ==
  /\ Range(<<>>) = {} /\ Rows(<<>>) = {} /\ NoneTwice(<<>>) /\ InOrder(<<>>)
  /\ \A x : Range(<<x>>) = {x} /\ Rows(<<x>>) = Just(x)
<1>1. Range(<<>>) = {} /\ \A x : Range(<<x>>) = {x}
  BY SMTT(30) DEF Range
<1> QED BY SMTT(30), <1>1 DEF Rows, NoneTwice, InOrder, Just

\* A place for one row is empty or holds one.
LEMMA AtMostOne ==
  ASSUME NEW S, NEW s \in Seq(S), Len(s) <= 1
  PROVE  s = <<>> \/ (s = <<Head(s)>> /\ Head(s) \in S /\ s # <<>>)
<1>1. CASE Len(s) = 0
  BY SMTT(30), <1>1
<1>2. CASE Len(s) = 1
  BY SMTT(30), <1>2
<1>3. Len(s) = 0 \/ Len(s) = 1
  <2> DEFINE n == Len(s)
  <2>1. n \in Nat /\ n <= 1
    BY SMTT(30)
  <2> HIDE DEF n
  <2>2. n = 0 \/ n = 1
    BY SMTT(30), <2>1
  <2> QED BY <2>2 DEF n
<1> QED BY <1>1, <1>2, <1>3

\* What flushHeapToRunFile writes: the rows of the heap, each once, and in order when
\* the query is ascending.
LEMMA PopOrdersFacts ==
  ASSUME NEW p, NEW rows, \A r \in rows : r.n # 0 /\ r.key \in Int, NEW run \in PopOrders(p, rows)
  PROVE  /\ run \in Seq(rows) /\ Rows(run) = rows /\ NoneTwice(run)
         /\ query.order = "ASC" => InOrder(run)
<1>0. /\ \E m \in 0 .. Len(table[p]) : run \in Bijection(1..m, rows)
      /\ \A i \in DOMAIN run : run[i] \in Top({run[j] : j \in i .. Len(run)}, HeapLess)
  BY DEF PopOrders
<1>1. PICK m \in 0 .. Len(table[p]) : run \in Bijection(1..m, rows)
  BY <1>0
<1>2. /\ m \in Nat
      /\ run \in [1..m -> rows] /\ IsInjective(run) /\ \A r \in rows : \E i \in 1..m : run[i] = r
  BY SMTT(30), <1>1 DEF Bijection, Injection, Surjection
<1>3. run \in Seq(rows) /\ Len(run) = m /\ DOMAIN run = 1..m
  BY SMTT(30), <1>2
<1>4. NoneTwice(run)
  BY <1>2, <1>3 DEF NoneTwice, IsInjective
<1>5. Range(run) = rows
  BY SMTT(30), <1>2, <1>3 DEF Range
<1>6. Rows(run) = rows
  BY <1>5 DEF Rows
<1>7. ASSUME query.order = "ASC" PROVE InOrder(run)
  <2>1. SUFFICES ASSUME NEW i \in 1..m, NEW j \in 1..m, i < j PROVE run[i].key <= run[j].key
    BY <1>3 DEF InOrder
  <2>2. run[j] \in {run[k] : k \in i .. Len(run)} \ {run[i]}
    BY SMTT(30), <1>2, <1>3, <2>1 DEF IsInjective
  <2>3. HeapLess(run[i], run[j]) => HeapLess(run[j], run[i])
    BY <1>0, <1>3, <2>2 DEF Top
  <2>4. run[i].key \in Int /\ run[j].key \in Int
    BY <1>2
  <2> QED BY SMTT(30), <1>7, <2>3, <2>4 DEF HeapLess, RowLess
<1> QED BY <1>3, <1>4, <1>6, <1>7

-----------------------------------------------------------------------------
(* Moving rows between places. *)

Apart(C) == \A a, b \in Places : a # b => C[a] \cap C[b] = {}
Within(C, S) == \A a \in Places : C[a] \subseteq S
Somewhere(C, r) == \E a \in Places : r \in C[a]

\* A move from one place to another neither doubles a row nor loses one.
LEMMA Moves ==
  ASSUME NEW C, NEW D, NEW a \in Places, NEW b \in Places, a # b, NEW X, X \subseteq C[a],
         D[a] = C[a] \ X, D[b] = C[b] \cup X, \A c \in Places \ {a, b} : D[c] = C[c]
  PROVE  /\ Apart(C) => Apart(D)
         /\ \A S : Within(C, S) => Within(D, S)
         /\ \A r : Somewhere(C, r) => Somewhere(D, r)
<1>1. Apart(C) => Apart(D)
  BY SMTT(30) DEF Apart
<1>2. \A S : Within(C, S) => Within(D, S)
  BY DEF Within
<1>3. \A r : Somewhere(C, r) => Somewhere(D, r)
  BY DEF Somewhere
<1> QED BY <1>1, <1>2, <1>3

\* A row that is dropped is in fewer places.
LEMMA Drops ==
  ASSUME NEW C, NEW D, \A c \in Places : D[c] \subseteq C[c]
  PROVE  /\ Apart(C) => Apart(D)
         /\ \A S : Within(C, S) => Within(D, S)
  BY DEF Apart, Within

\* The places by name.
LEMMA StoredAt ==
  ASSUME NEW p
  PROVE  /\ Stored(p)["reply"] = From(p, Rows(reply))
         /\ Stored(p)["queue"] = From(p, mergeQueue)
         /\ Stored(p)["pool"] = Rows(pool[p]) /\ Stored(p)["hand"] = Rows(hand[p])
         /\ Stored(p)["held"] = Rows(held[p]) /\ Stored(p)["out"] = Rows(out[p])
         /\ Stored(p)["runs"] = AllRows(runs[p])
         /\ Stored(p)["heap"] = heap[p] /\ Stored(p)["rest"] = Rows(rest[p])
  BY DEF Stored, Places

\* The same of the next state.
LEMMA StoredNext ==
  ASSUME NEW p
  PROVE  /\ Stored(p)'["reply"] = From(p, Rows(reply'))
         /\ Stored(p)'["queue"] = From(p, mergeQueue')
         /\ Stored(p)'["pool"] = Rows(pool'[p]) /\ Stored(p)'["hand"] = Rows(hand'[p])
         /\ Stored(p)'["held"] = Rows(held'[p]) /\ Stored(p)'["out"] = Rows(out'[p])
         /\ Stored(p)'["runs"] = AllRows(runs'[p])
         /\ Stored(p)'["heap"] = heap'[p] /\ Stored(p)'["rest"] = Rows(rest'[p])
  BY DEF Stored, Places, Rows, From, AllRows, Range

-----------------------------------------------------------------------------
(* Who changes what. *)

\* A step of another partition.
Quiet(q) ==
  /\ table'[q] = table[q] /\ rest'[q] = rest[q] /\ heap'[q] = heap[q] /\ usage'[q] = usage[q]
  /\ runs'[q] = runs[q] /\ phase'[q] = phase[q] /\ out'[q] = out[q] /\ held'[q] = held[q]
  /\ link'[q] = link[q] /\ hand'[q] = hand[q] /\ receiver'[q] = receiver[q] /\ pool'[q] = pool[q]
  /\ q \in lost' <=> q \in lost
Elsewhere(p) == Domains' /\ lost' \subseteq lost \cup {p} /\ \A q \in Partition \ {p} : Quiet(q)

\* A step of the threads of partition p leaves the other partitions alone.
LEMMA WorkerElsewhere ==
  ASSUME TypeOK, NEW p \in Partition,
         Operators(p) \/ Handler(p) \/ Receiver(p) \/ Disconnect(p) \/ BreakInMessage(p)
  PROVE  Elsewhere(p) /\ UNCHANGED <<query, table, master>>
<1>0. Domains
  BY DEF TypeOK
<1>1. CASE Forward(p)
  BY <1>0, <1>1 DEF Forward, Emit, Elsewhere, Quiet, Domains, fixed, sort, receiving, master
<1>2. CASE ReadRow(p)
  <2>1. \E rows : UNCHANGED <<sort, lost>> \/ (UNCHANGED <<runs, lost>> /\ heap' = [heap EXCEPT ![p] = rows])
               \/ FlushHeap(p, rows)
    BY <1>2 DEF ReadRow
  <2>2. usage' = usage \/ \E u : usage' = [usage EXCEPT ![p] = u]
    BY <1>2 DEF ReadRow, sort
  <2>3. /\ heap' = heap \/ \E x : heap' = [heap EXCEPT ![p] = x]
        /\ runs' = runs \/ \E x : runs' = [runs EXCEPT ![p] = x]
        /\ lost' = lost \/ lost' = lost \cup {p}
    BY <2>1 DEF FlushHeap, sort
  <2>4. /\ \E x : rest' = [rest EXCEPT ![p] = x]
        /\ UNCHANGED <<query, table, phase, out, held, link, hand, receiver, pool, master>>
    BY <1>2 DEF ReadRow, fixed, receiving
  <2> QED BY <1>0, <2>2, <2>3, <2>4 DEF Elsewhere, Quiet, Domains
<1>3. CASE ReadEnd(p)
  <2>1. /\ heap' = heap \/ \E x : heap' = [heap EXCEPT ![p] = x]
        /\ runs' = runs \/ \E x : runs' = [runs EXCEPT ![p] = x]
        /\ lost' = lost \/ lost' = lost \cup {p}
        /\ \E x : phase' = [phase EXCEPT ![p] = x]
    BY <1>3 DEF ReadEnd, FlushHeap
  <2>2. UNCHANGED <<query, table, rest, usage, out, held, link, hand, receiver, pool, master>>
    BY <1>3 DEF ReadEnd, fixed, receiving
  <2> QED BY <1>0, <2>1, <2>2 DEF Elsewhere, Quiet, Domains
<1>4. CASE DrainHeap(p)
  BY <1>0, <1>4 DEF DrainHeap, Emit, Elsewhere, Quiet, Domains, fixed, receiving, master
<1>5. CASE MergeRuns(p)
  <2>1. /\ runs' = runs \/ \E x : runs' = [runs EXCEPT ![p] = x]
        /\ \E x : out' = [out EXCEPT ![p] = x]
        /\ phase' = phase \/ \E x : phase' = [phase EXCEPT ![p] = x]
    BY <1>5 DEF MergeRuns, Emit
  <2>2. UNCHANGED <<query, table, rest, heap, usage, held, link, hand, receiver, pool, master, lost>>
    BY <1>5 DEF MergeRuns, fixed, receiving
  <2> QED BY <1>0, <2>1, <2>2 DEF Elsewhere, Quiet, Domains
<1>6. CASE Handler(p)
  BY <1>0, <1>6 DEF Handler, TakeRow, Publish, PublishFails, Elsewhere, Quiet, Domains, fixed, sort,
     receiving, master
<1>7. CASE Receiver(p)
  BY <1>0, <1>7 DEF Receiver, AddRow, StopReceiving, Elsewhere, Quiet, Domains, fixed, worker, sort,
     receiving, master
<1>8. CASE Disconnect(p) \/ BreakInMessage(p)
  BY <1>0, <1>8 DEF Disconnect, BreakInMessage, Elsewhere, Quiet, Domains, fixed, worker, sort,
     receiving, master
<1> QED BY <1>1, <1>2, <1>3, <1>4, <1>5, <1>6, <1>7, <1>8 DEF Operators

\* The master changes nothing of a partition but the buffer it takes a row from.
LEMMA MasterElsewhere ==
  ASSUME TypeOK, Master \/ WriteFails
  PROVE  /\ Elsewhere(cursor)
         /\ UNCHANGED <<query, table, worker, link, hand, receiver, lost>>
         /\ pool' = pool \/ pool' = [pool EXCEPT ![cursor] = Tail(@)]
<1>0. Domains /\ cursor \in Partition
  BY DEF TypeOK, MasterType
<1>1. /\ UNCHANGED <<query, table, worker, link, hand, receiver, lost>>
      /\ pool' = pool \/ pool' = [pool EXCEPT ![cursor] = Tail(@)]
  <2>1. CASE Poll
    BY <2>1 DEF Poll, TakeFromPool, fixed, worker, sort
  <2>2. CASE WriteFails \/ FirstRow \/ NextRow
    BY <2>2 DEF WriteFails, FirstRow, NextRow, TakeFromPool, fixed, worker, sort
  <2>3. CASE PollEnds \/ WriteTop \/ MergeEnds \/ Respond
    BY <2>3 DEF PollEnds, WriteTop, MergeEnds, Respond, fixed, worker, sort, receiving
  <2> QED BY <2>1, <2>2, <2>3 DEF Master
<1> QED BY <1>0, <1>1 DEF Elsewhere, Quiet, Domains, worker, sort

-----------------------------------------------------------------------------
(* The parts of a step. *)

\* Real rows, the close flag and what a broken message leaves.
LEMMA RowFacts ==
  ASSUME NEW p \in Partition
  PROVE  /\ \A r \in RowOf(p) : /\ r \in Row /\ r.n # 0 /\ r.part = p /\ r.key \in Int
                                /\ r # End /\ r # Garbage(p) /\ Just(r) = {r}
         /\ End.n = 0 /\ Garbage(p).n = 0 /\ End # Garbage(p) /\ Garbage(p) \in Row
         /\ Just(End) = {} /\ Just(Garbage(p)) = {}
  BY SMTT(30), QueryAssumption DEF RowOf, Row, Partition, End, Garbage, NoKey, Just

\* What arrives from partition p is a row of it, the close flag or garbage.
LEMMA RowIfAny ==
  ASSUME NEW p \in Partition, NEW x \in RowOf(p) \cup {End, Garbage(p)}
  PROVE  \A r \in Just(x) : r \in Row /\ r.n # 0 /\ r.part = p
<1>1. CASE x \in RowOf(p)
  BY SMTT(30), <1>1, RowFacts
<1>2. CASE x \in {End, Garbage(p)}
  BY <1>2, RowFacts
<1> QED BY <1>1, <1>2

\* What a step of partition p's threads does to the partition.
Calm(p) ==
  /\ Spent(p) => Spent(p)'
  /\ link'[p] = "up" => link[p] = "up" /\ (Spent(p)' => Spent(p))
  /\ phase'[p] = "reading" => phase[p] = "reading"
  /\ Sorting /\ phase[p] # "reading" => ToCome(p)' \subseteq ToCome(p)
Types(p) == SortType(p) /\ StreamType(p)
PartNext(p) == Types(p)' /\ Conserved(p)' /\ PartInv(p)' /\ Calm(p)

\* An operator emits a row or the close flag: what its buffer then holds.
LEMMA EmitBuffer ==
  ASSUME NEW p \in Partition, NEW x \in RowOf(p) \cup {End}, StreamType(p),
         out'[p] = Append(out[p], x)
  PROVE  /\ out'[p] \in Seq(RowOf(p) \cup {End}) /\ out'[p] # <<>> /\ Len(out'[p]) = Len(out[p]) + 1
         /\ Len(out[p]) \in Nat /\ Range(out'[p]) = Range(out[p]) \cup {x}
         /\ \A i \in DOMAIN out'[p] : \/ i \in DOMAIN out[p] /\ out'[p][i] = out[p][i]
                                      \/ i = Len(out[p]) + 1 /\ out'[p][i] = x
         /\ Rows(out'[p]) = Rows(out[p]) \cup Just(x)
         /\ NoneTwice(out[p]) /\ Just(x) \cap Rows(out[p]) = {} => NoneTwice(out'[p])
         /\ InOrder(out[p]) /\ Before(Rows(out[p]), Just(x)) => InOrder(out'[p])
         /\ Just(End) = {}
<1> DEFINE s == out[p]
           S == RowOf(p) \cup {End}
<1>1. s \in Seq(S) /\ x \in S /\ out'[p] = Append(s, x)
  BY DEF StreamType
<1>2. Just(End) = {}
  BY RowFacts
<1> HIDE DEF s, S
<1>3. /\ Append(s, x) \in Seq(S) /\ Append(s, x) # <<>> /\ Len(Append(s, x)) = Len(s) + 1
      /\ Range(Append(s, x)) = Range(s) \cup {x}
      /\ \A i \in DOMAIN Append(s, x) :
           \/ i \in DOMAIN s /\ Append(s, x)[i] = s[i]
           \/ i = Len(s) + 1 /\ Append(s, x)[i] = x
      /\ Rows(Append(s, x)) = Rows(s) \cup Just(x)
      /\ NoneTwice(s) /\ Just(x) \cap Rows(s) = {} => NoneTwice(Append(s, x))
      /\ InOrder(s) /\ Before(Rows(s), Just(x)) => InOrder(Append(s, x))
  BY SMTT(30), <1>1, AddLast
<1>4. Len(s) \in Nat
  BY SMTT(30), <1>1
<1> QED BY <1>1, <1>2, <1>3, <1>4 DEF s, S

\* ... what rows it holds.
LEMMA EmitRows ==
  ASSUME NEW p \in Partition, NEW x \in RowOf(p) \cup {End}, StreamType(p),
         out'[p] = Append(out[p], x)
  PROVE  /\ Rows(out'[p]) = Rows(out[p]) \cup Just(x)
         /\ NoneTwice(out[p]) /\ Just(x) \cap Rows(out[p]) = {} => NoneTwice(out'[p])
         /\ Just(End) = {}
  BY EmitBuffer

\* ... what the stream is like.
LEMMA EmitStream ==
  ASSUME NEW p \in Partition, NEW x \in RowOf(p) \cup {End}, StreamType(p), StreamInv(p),
         out'[p] = Append(out[p], x), held'[p] = held[p], hand'[p] = hand[p], pool'[p] = pool[p],
         link'[p] = link[p], receiver'[p] = receiver[p],
         phase[p] # "done", phase'[p] # "done" <=> x # End
  PROVE  StreamType(p)' /\ StreamInv(p)' /\ ~Spent(p) /\ ~Spent(p)'
<1>0. /\ out[p] \in Seq(RowOf(p) \cup {End}) /\ Len(out[p]) \in Nat
      /\ x # Garbage(p)
  BY SMTT(30), RowFacts DEF StreamType
<1>1. /\ out'[p] \in Seq(RowOf(p) \cup {End}) /\ out'[p] # <<>> /\ Len(out'[p]) = Len(out[p]) + 1
      /\ Range(out'[p]) = Range(out[p]) \cup {x}
      /\ \A i \in DOMAIN out'[p] : \/ i \in DOMAIN out[p] /\ out'[p][i] = out[p][i]
                                   \/ i = Len(out[p]) + 1 /\ out'[p][i] = x
  BY EmitBuffer
<1>2. StreamType(p)'
  BY <1>1 DEF StreamType, RowOf, Row
<1>3. /\ End \notin Range(out[p]) /\ End \notin Range(held[p])
      /\ End \notin Range(hand[p]) /\ End \notin Range(pool[p])
  BY DEF StreamInv, NoEnd
<1>4. /\ \A i \in DOMAIN out[p] : out[p][i] # End
      /\ \A i \in DOMAIN pool[p] : pool[p][i] # End
      /\ held[p] # <<End>> /\ hand[p] # <<End>>
  BY SMTT(30), <1>3, Singles DEF Range
<1>5. NoEnd(p)' <=> x # End
  BY <1>1, <1>3 DEF NoEnd
<1>6. StreamInv(p)'
  BY <1>1, <1>4, <1>5 DEF StreamInv, Nothing
<1> QED BY <1>2, <1>5, <1>6 DEF Spent

\* ... and in what order.
LEMMA EmitOrder ==
  ASSUME NEW p \in Partition, NEW x \in RowOf(p) \cup {End}, StreamType(p), OrderAt(p),
         out'[p] = Append(out[p], x), held'[p] = held[p], hand'[p] = hand[p], pool'[p] = pool[p],
         link'[p] = link[p],
         Just(x) \subseteq Left(p), Left(p)' \subseteq Left(p), Before(Just(x), Left(p)'),
         \A i \in DOMAIN runs'[p] : InOrder(runs'[p][i])
  PROVE  OrderAt(p)' /\ ToCome(p)' \subseteq ToCome(p)
<1>1. /\ Rows(out'[p]) = Rows(out[p]) \cup Just(x)
      /\ InOrder(out[p]) /\ Before(Rows(out[p]), Just(x)) => InOrder(out'[p])
  BY EmitBuffer
<1>2. Before(Rows(out[p]), Just(x)) /\ Before(Rows(out'[p]), Left(p)')
  BY <1>1 DEF OrderAt, Before
<1>3. AfterHeld(p)' \subseteq AfterHeld(p)
  BY <1>1 DEF AfterHeld, Rows
<1>4. AfterHand(p)' \subseteq AfterHand(p) /\ AfterPool(p)' \subseteq AfterPool(p)
  BY <1>3 DEF AfterHand, AfterPool, Rows
<1>5. ToCome(p)' \subseteq ToCome(p)
  BY <1>4 DEF ToCome, Rows
<1>6. OrderAt(p)'
  BY <1>1, <1>2, <1>3, <1>4 DEF OrderAt, Before, InOrder, Rows
<1> QED BY <1>5, <1>6

\* No place of partition p holds a row twice.
RunsNeat(seqs) ==
  \A i, j \in DOMAIN seqs :
    NoneTwice(seqs[i]) /\ (i # j => Rows(seqs[i]) \cap Rows(seqs[j]) = {})
Neat(p) ==
  NoneTwice(pool[p]) /\ NoneTwice(out[p]) /\ NoneTwice(rest[p]) /\ RunsNeat(runs[p])

\* The places of partition p that a step leaves alone.
LEMMA SamePlaces ==
  ASSUME NEW p
  PROVE  /\ reply' = reply => Stored(p)'["reply"] = Stored(p)["reply"]
         /\ mergeQueue' = mergeQueue => Stored(p)'["queue"] = Stored(p)["queue"]
         /\ pool'[p] = pool[p] => Stored(p)'["pool"] = Stored(p)["pool"]
         /\ hand'[p] = hand[p] => Stored(p)'["hand"] = Stored(p)["hand"]
         /\ held'[p] = held[p] => Stored(p)'["held"] = Stored(p)["held"]
         /\ out'[p] = out[p] => Stored(p)'["out"] = Stored(p)["out"]
         /\ runs'[p] = runs[p] => Stored(p)'["runs"] = Stored(p)["runs"]
         /\ heap'[p] = heap[p] => Stored(p)'["heap"] = Stored(p)["heap"]
         /\ rest'[p] = rest[p] => Stored(p)'["rest"] = Stored(p)["rest"]
<1>1. reply' = reply => Stored(p)'["reply"] = Stored(p)["reply"]
  BY SMTT(30), StoredAt, StoredNext
<1>2. mergeQueue' = mergeQueue => Stored(p)'["queue"] = Stored(p)["queue"]
  BY SMTT(30), StoredAt, StoredNext
<1>3. runs'[p] = runs[p] => Stored(p)'["runs"] = Stored(p)["runs"]
  BY SMTT(30), StoredAt, StoredNext
<1>4. /\ pool'[p] = pool[p] => Stored(p)'["pool"] = Stored(p)["pool"]
      /\ hand'[p] = hand[p] => Stored(p)'["hand"] = Stored(p)["hand"]
      /\ held'[p] = held[p] => Stored(p)'["held"] = Stored(p)["held"]
  BY SMTT(30), StoredAt, StoredNext
<1>5. /\ out'[p] = out[p] => Stored(p)'["out"] = Stored(p)["out"]
      /\ heap'[p] = heap[p] => Stored(p)'["heap"] = Stored(p)["heap"]
      /\ rest'[p] = rest[p] => Stored(p)'["rest"] = Stored(p)["rest"]
  BY SMTT(30), StoredAt, StoredNext
<1> QED BY <1>1, <1>2, <1>3, <1>4, <1>5

\* An operator that keeps its rows keeps the place they are at.
LEMMA OutPlace ==
  ASSUME NEW p, Rows(out'[p]) = Rows(out[p])
  PROVE  Stored(p)'["out"] = Stored(p)["out"]
  BY SMTT(30), StoredAt, StoredNext

\* The rows X move from place a to place b.
Moved(p, a, b, X) ==
  /\ a \in Places /\ b \in Places /\ a # b /\ X \subseteq Stored(p)[a]
  /\ Stored(p)'[a] = Stored(p)[a] \ X /\ Stored(p)'[b] = Stored(p)[b] \cup X
  /\ \A c \in Places \ {a, b} : Stored(p)'[c] = Stored(p)[c]

\* A step that moves rows from one place to another conserves them.
LEMMA MoveConserves ==
  ASSUME NEW p, NEW a, NEW b, NEW X, Moved(p, a, b, X), Conserved(p), Neat(p)', UNCHANGED <<query, table>>,
         pc = "terminated" => pc' = "terminated", link'[p] = "up" => link[p] = "up"
  PROVE  Conserved(p)'
<1> DEFINE C == Stored(p)
           D == Stored(p)'
<1>1. /\ Apart(C) /\ Within(C, Range(table[p]))
      /\ pc # "terminated" /\ link[p] = "up" =>
           \A r \in Range(table[p]) : Sortable(r) => Somewhere(C, r)
  BY DEF Conserved, InOnePlace, Apart, Within, Somewhere
<1> HIDE DEF C, D
<1>2. /\ Apart(C) => Apart(D)
      /\ \A S : Within(C, S) => Within(D, S)
      /\ \A r : Somewhere(C, r) => Somewhere(D, r)
  BY Moves DEF C, D, Moved
<1>3. table'[p] = table[p] /\ \A r : Sortable(r)' <=> Sortable(r)
  BY DEF Sortable, Ordered
<1>4. InOnePlace(p)'
  BY <1>1, <1>2 DEF InOnePlace, Neat, RunsNeat, Apart, D
<1>5. \A c \in Places : D[c] \subseteq Range(table'[p])
  BY <1>1, <1>2, <1>3 DEF Within
<1>6. pc' # "terminated" /\ link'[p] = "up" =>
        \A r \in Range(table'[p]) : Sortable(r)' => \E c \in Places : r \in D[c]
  BY <1>1, <1>2, <1>3 DEF Somewhere
<1> QED BY <1>4, <1>5, <1>6 DEF Conserved, D, Sortable, Ordered, Range

\* A step that drops rows conserves the others.
LEMMA DropConserves ==
  ASSUME NEW p, \A c \in Places : Stored(p)'[c] \subseteq Stored(p)[c],
         Conserved(p), Neat(p)', UNCHANGED <<query, table>>,
         pc' # "terminated" /\ link'[p] = "up" =>
           /\ pc # "terminated" /\ link[p] = "up"
           /\ \A c \in Places : \A r \in Stored(p)[c] : Sortable(r) => r \in Stored(p)'[c]
  PROVE  Conserved(p)'
<1> DEFINE C == Stored(p)
           D == Stored(p)'
<1>1. /\ Apart(C) /\ Within(C, Range(table[p]))
      /\ pc # "terminated" /\ link[p] = "up" =>
           \A r \in Range(table[p]) : Sortable(r) => Somewhere(C, r)
  BY DEF Conserved, InOnePlace, Apart, Within, Somewhere
<1> HIDE DEF C, D
<1>2. Apart(D) /\ Within(D, Range(table[p]))
  BY <1>1, Drops DEF C, D
<1>3. table'[p] = table[p] /\ \A r : Sortable(r)' <=> Sortable(r)
  BY DEF Sortable, Ordered
<1>4. InOnePlace(p)'
  BY <1>2 DEF InOnePlace, Neat, RunsNeat, Apart, D
<1>5. \A c \in Places : D[c] \subseteq Range(table'[p])
  BY <1>2, <1>3 DEF Within
<1>6. pc' # "terminated" /\ link'[p] = "up" =>
        \A r \in Range(table'[p]) : Sortable(r)' => \E c \in Places : r \in D[c]
  BY <1>1, <1>3 DEF Somewhere, C, D
<1> QED BY <1>4, <1>5, <1>6 DEF Conserved, D, Sortable, Ordered, Range

\* What conservation says of single places.
LEMMA ConservedNeat ==
  ASSUME NEW p, Conserved(p)
  PROVE  Neat(p) /\ \A a, b \in Places : a # b => Stored(p)[a] \cap Stored(p)[b] = {}
  BY DEF Conserved, InOnePlace, Neat, RunsNeat

-----------------------------------------------------------------------------
(* The operators, one lemma per action: what the action does to its partition. *)

\* Projection and ProduceResult.
LEMMA ForwardPart ==
  ASSUME TypeOK, NEW p \in Partition, Conserved(p), PartInv(p), Forward(p)
  PROVE  PartNext(p)
<1>1. Domains /\ SortType(p) /\ StreamType(p) /\ ~Ordered /\ phase[p] = "reading"
  BY DEF TypeOK, Forward
<1>2. /\ heap'[p] = heap[p] /\ usage'[p] = usage[p] /\ runs'[p] = runs[p] /\ held'[p] = held[p]
      /\ link'[p] = link[p] /\ hand'[p] = hand[p] /\ receiver'[p] = receiver[p] /\ pool'[p] = pool[p]
      /\ UNCHANGED <<query, table, pc, reply, mergeQueue>>
  BY DEF Forward, fixed, sort, receiving, master
<1>3. StreamInv(p) /\ SortInv(p) /\ ~Sorting /\ ~Sorting' /\ ~Ordered'
  BY <1>1, <1>2 DEF PartInv, Sorting, Ordered
<1>4. CASE rest[p] = <<>>
  <2>1. out'[p] = Append(out[p], End) /\ phase'[p] = "done" /\ rest'[p] = rest[p]
    BY <1>1, <1>4 DEF Forward, Emit, Domains
  <2>2. StreamType(p)' /\ StreamInv(p)' /\ ~Spent(p) /\ ~Spent(p)'
    BY <1>1, <1>2, <1>3, <2>1, EmitStream
  <2>3. SortType(p)'
    BY <1>1, <1>2, <2>1 DEF SortType, Phases, RowOf
  <2>4. SortInv(p)'
    BY SMTT(30), <1>1, <1>2, <1>3, <1>4, <2>1 DEF SortInv
  <2>5. Rows(out'[p]) = Rows(out[p]) /\ (NoneTwice(out[p]) => NoneTwice(out'[p]))
    BY <1>1, <2>1, EmitRows
  <2>6. Neat(p)'
    BY <1>2, <2>1, <2>5, ConservedNeat DEF Neat
  <2>7. \A c \in Places : Stored(p)'[c] = Stored(p)[c]
    <3>1. Stored(p)'["out"] = Stored(p)["out"]
      BY <2>5, OutPlace
    <3> QED BY SMTT(30), <1>2, <2>1, <3>1, SamePlaces DEF Places
  <2>8. Conserved(p)'
    BY <1>2, <2>6, <2>7, DropConserves
  <2> QED BY <1>1, <1>2, <1>3, <2>1, <2>2, <2>3, <2>4, <2>8 DEF PartNext, Types, PartInv, Calm
<1>5. CASE rest[p] # <<>>
  <2> DEFINE x == Head(rest[p])
  <2>0. x \in RowOf(p)
    BY <1>1, <1>5, HeadTail DEF SortType
  <2>1. out'[p] = Append(out[p], x) /\ phase'[p] = "reading" /\ rest'[p] = Tail(rest[p])
    BY <1>1, <1>5 DEF Forward, Emit, Domains
  <2> HIDE DEF x
  <2>2. StreamType(p)' /\ StreamInv(p)' /\ ~Spent(p) /\ ~Spent(p)'
    BY <1>1, <1>2, <1>3, <2>0, <2>1, EmitStream, RowFacts
  <2>3. SortType(p)'
    BY SMTT(30), <1>1, <1>2, <1>5, <2>1, HeadTail DEF SortType, Phases, RowOf
  <2>4. SortInv(p)'
    BY <1>1, <1>2, <1>3, <2>1 DEF SortInv
  <2>5. /\ Rows(rest[p]) = {x} \cup Rows(rest'[p]) /\ x \notin Rows(rest'[p]) /\ NoneTwice(rest'[p])
    BY SMTT(30), <1>1, <1>5, <2>0, <2>1, RowFacts, TakeHead, ConservedNeat DEF SortType, Neat, x
  <2>6. x \notin Rows(out[p])
    <3>1. Stored(p)["rest"] \cap Stored(p)["out"] = {}
      BY ConservedNeat DEF Places
    <3> QED BY <2>5, <3>1, StoredAt
  <2>7. Rows(out'[p]) = Rows(out[p]) \cup {x} /\ NoneTwice(out'[p])
    <3>1. NoneTwice(out[p]) /\ Just(x) = {x}
      BY <2>0, RowFacts, ConservedNeat DEF Neat
    <3>2. Just(x) \cap Rows(out[p]) = {} /\ x \in RowOf(p) \cup {End}
      BY <2>0, <2>6, <3>1
    <3>3. /\ Rows(out'[p]) = Rows(out[p]) \cup Just(x)
          /\ NoneTwice(out[p]) /\ Just(x) \cap Rows(out[p]) = {} => NoneTwice(out'[p])
      BY <1>1, <2>1, <3>2, EmitRows
    <3> QED BY <3>1, <3>2, <3>3
  <2>8. Neat(p)'
    BY <1>2, <2>5, <2>7, ConservedNeat DEF Neat
  <2>9. Moved(p, "rest", "out", {x})
    BY SMTT(30), <1>2, <2>5, <2>7, StoredAt, StoredNext, SamePlaces DEF Moved, Places
  <2>10. Conserved(p)'
    BY <1>2, <2>8, <2>9, MoveConserves
  <2> QED BY <1>1, <1>2, <1>3, <2>1, <2>2, <2>3, <2>4, <2>10 DEF PartNext, Types, PartInv, Calm
<1> QED BY <1>4, <1>5

\* A flush: rows of two places go to a third.
LEMMA Gathers ==
  ASSUME NEW C, NEW D, NEW X, X \subseteq C["rest"],
         D["rest"] = C["rest"] \ X, D["heap"] = {}, D["runs"] = C["runs"] \cup C["heap"] \cup X,
         \A c \in Places \ {"rest", "heap", "runs"} : D[c] = C[c]
  PROVE  /\ Apart(C) => Apart(D)
         /\ \A S : Within(C, S) => Within(D, S)
         /\ \A r : Somewhere(C, r) => Somewhere(D, r)
<1> DEFINE B == [c \in Places |-> IF c = "rest" THEN C[c] \ X
                                 ELSE IF c = "heap" THEN C[c] \cup X ELSE C[c]]
<1>1. /\ B["rest"] = C["rest"] \ X /\ B["heap"] = C["heap"] \cup X
      /\ \A c \in Places \ {"rest", "heap"} : B[c] = C[c]
      /\ "rest" \in Places /\ "heap" \in Places /\ "runs" \in Places
  BY DEF Places
<1> HIDE DEF B
<1>2. /\ Apart(C) => Apart(B)
      /\ \A S : Within(C, S) => Within(B, S)
      /\ \A r : Somewhere(C, r) => Somewhere(B, r)
  BY <1>1, Moves
<1>3. /\ D["heap"] = B["heap"] \ B["heap"] /\ D["runs"] = B["runs"] \cup B["heap"]
      /\ \A c \in Places \ {"heap", "runs"} : D[c] = B[c]
  BY <1>1
<1>4. /\ Apart(B) => Apart(D)
      /\ \A S : Within(B, S) => Within(D, S)
      /\ \A r : Somewhere(B, r) => Somewhere(D, r)
  BY <1>1, <1>3, Moves
<1> QED BY <1>2, <1>4

\* flushHeapToRunFile adds a run.
LEMMA AppendRun ==
  ASSUME NEW S, NEW seqs \in Seq(Seq(S)), NEW run \in Seq(S)
  PROVE  /\ Append(seqs, run) \in Seq(Seq(S)) /\ Append(seqs, run) # <<>>
         /\ AllRows(Append(seqs, run)) = AllRows(seqs) \cup Rows(run)
         /\ RunsNeat(seqs) /\ NoneTwice(run) /\ Rows(run) \cap AllRows(seqs) = {} =>
              RunsNeat(Append(seqs, run))
         /\ (\A i \in DOMAIN seqs : InOrder(seqs[i])) /\ InOrder(run) =>
              \A i \in DOMAIN Append(seqs, run) : InOrder(Append(seqs, run)[i])
<1> DEFINE t == Append(seqs, run)
<1>1. t \in Seq(Seq(S)) /\ t # <<>>
  BY SMTT(30), AddLast
<1>2. /\ \A i \in DOMAIN t : \/ i \in DOMAIN seqs /\ i # Len(seqs) + 1 /\ t[i] = seqs[i]
                             \/ i = Len(seqs) + 1 /\ t[i] = run
      /\ \A i \in DOMAIN seqs : i \in DOMAIN t /\ t[i] = seqs[i]
      /\ Len(seqs) + 1 \in DOMAIN t /\ t[Len(seqs) + 1] = run
  BY SMTT(30)
<1> HIDE DEF t
<1>3. AllRows(t) = AllRows(seqs) \cup Rows(run)
  BY <1>2 DEF AllRows
<1>4. \A i \in DOMAIN seqs : Rows(seqs[i]) \subseteq AllRows(seqs)
  BY DEF AllRows
<1>5. ASSUME RunsNeat(seqs), NoneTwice(run), Rows(run) \cap AllRows(seqs) = {} PROVE RunsNeat(t)
  <2>1. \A i \in DOMAIN seqs : Rows(seqs[i]) \cap Rows(run) = {}
    BY <1>4, <1>5
  <2> QED BY <1>2, <1>5, <2>1 DEF RunsNeat
<1>6. (\A i \in DOMAIN seqs : InOrder(seqs[i])) /\ InOrder(run) => \A i \in DOMAIN t : InOrder(t[i])
  BY <1>2
<1> QED BY <1>1, <1>3, <1>5, <1>6 DEF t

\* What a flush does.
LEMMA FlushPart ==
  ASSUME Domains, NEW p \in Partition, SortType(p), NEW rows, rows \subseteq RowOf(p),
         RunsNeat(runs[p]), rows \cap AllRows(runs[p]) = {}, FlushHeap(p, rows)
  PROVE  /\ runs'[p] \in Seq(Seq(RowOf(p))) /\ heap'[p] \subseteq rows
         /\ RunsNeat(runs'[p])
         /\ Sorting /\ (\A i \in DOMAIN runs[p] : InOrder(runs[p][i])) =>
              \A i \in DOMAIN runs'[p] : InOrder(runs'[p][i])
         /\ \/ heap'[p] = {} /\ AllRows(runs'[p]) = AllRows(runs[p]) \cup rows
            \/ heap'[p] = rows /\ runs'[p] = runs[p] /\ p \in lost'
<1>0. /\ \A r \in rows : r.n # 0 /\ r.key \in Int
      /\ runs[p] \in Seq(Seq(RowOf(p)))
  BY RowFacts DEF SortType
<1>1. CASE \E run \in PopOrders(p, rows) :
             /\ runs' = [runs EXCEPT ![p] = IF rows = {} THEN @ ELSE Append(@, run)]
             /\ heap' = [heap EXCEPT ![p] = {}]
  <2>1. PICK run \in PopOrders(p, rows) :
             /\ runs' = [runs EXCEPT ![p] = IF rows = {} THEN @ ELSE Append(@, run)]
             /\ heap' = [heap EXCEPT ![p] = {}]
    BY <1>1
  <2>2. run \in Seq(rows) /\ Rows(run) = rows /\ NoneTwice(run) /\ (query.order = "ASC" => InOrder(run))
    BY <1>0, PopOrdersFacts
  <2>3. run \in Seq(RowOf(p))
    BY SMTT(30), <2>2
  <2>4. heap'[p] = {}
    BY <2>1 DEF Domains
  <2>5. CASE rows = {}
    BY <1>0, <2>1, <2>4, <2>5 DEF Domains
  <2>6. CASE rows # {}
    <3>1. runs'[p] = Append(runs[p], run)
      BY <2>1, <2>6 DEF Domains
    <3>2. /\ Append(runs[p], run) \in Seq(Seq(RowOf(p)))
          /\ AllRows(Append(runs[p], run)) = AllRows(runs[p]) \cup Rows(run)
          /\ RunsNeat(Append(runs[p], run))
          /\ (\A i \in DOMAIN runs[p] : InOrder(runs[p][i])) /\ InOrder(run) =>
              \A i \in DOMAIN Append(runs[p], run) : InOrder(Append(runs[p], run)[i])
      BY <1>0, <2>2, <2>3, AppendRun
    <3> QED BY <2>2, <2>4, <3>1, <3>2 DEF Sorting
  <2> QED BY <2>5, <2>6
<1>2. CASE heap' = [heap EXCEPT ![p] = rows] /\ lost' = lost \cup {p} /\ UNCHANGED runs
  BY <1>0, <1>2 DEF Domains
<1> QED BY <1>1, <1>2 DEF FlushHeap

\* Nothing is on its way while the sort reads.
LEMMA ReadStream ==
  ASSUME NEW p \in Partition, StreamType(p), Nothing(p), phase[p] = "reading", phase'[p] # "done",
         out'[p] = out[p], held'[p] = held[p], hand'[p] = hand[p], pool'[p] = pool[p],
         link'[p] = link[p], receiver'[p] = receiver[p]
  PROVE  /\ StreamType(p)' /\ StreamInv(p)' /\ Nothing(p)' /\ ~Spent(p) /\ ~Spent(p)'
         /\ (\A i \in DOMAIN runs'[p] : InOrder(runs'[p][i])) => OrderAt(p)'
<1>1. StreamType(p)' /\ Nothing(p)'
  BY DEF StreamType, Nothing, RowOf, Row
<1>2. NoEnd(p)'
  BY <1>1, Singles DEF NoEnd, Nothing
<1>3. StreamInv(p)'
  BY SMTT(30), <1>1, <1>2, Singles DEF StreamInv, Nothing
<1>4. (\A i \in DOMAIN runs'[p] : InOrder(runs'[p][i])) => OrderAt(p)'
  BY <1>1, Singles DEF OrderAt, Nothing, Before, InOrder, Rows, Range
<1> QED BY <1>1, <1>3, <1>4 DEF Spent

\* A flush conserves the rows.
LEMMA GatherConserves ==
  ASSUME NEW p, NEW X, X \subseteq Stored(p)["rest"], Stored(p)'["rest"] = Stored(p)["rest"] \ X,
         Stored(p)'["heap"] = {}, Stored(p)'["runs"] = Stored(p)["runs"] \cup Stored(p)["heap"] \cup X,
         \A c \in Places \ {"rest", "heap", "runs"} : Stored(p)'[c] = Stored(p)[c],
         Conserved(p), Neat(p)', UNCHANGED <<query, table, pc>>, link'[p] = link[p]
  PROVE  Conserved(p)'
<1> DEFINE C == Stored(p)
           D == Stored(p)'
<1>1. /\ Apart(C) /\ Within(C, Range(table[p]))
      /\ pc # "terminated" /\ link[p] = "up" =>
           \A r \in Range(table[p]) : Sortable(r) => Somewhere(C, r)
  BY DEF Conserved, InOnePlace, Apart, Within, Somewhere
<1> HIDE DEF C, D
<1>2. /\ Apart(C) => Apart(D)
      /\ \A S : Within(C, S) => Within(D, S)
      /\ \A r : Somewhere(C, r) => Somewhere(D, r)
  BY Gathers DEF C, D
<1>3. table'[p] = table[p] /\ \A r : Sortable(r)' <=> Sortable(r)
  BY DEF Sortable, Ordered
<1>4. InOnePlace(p)'
  BY <1>1, <1>2 DEF InOnePlace, Neat, RunsNeat, Apart, D
<1>5. \A c \in Places : D[c] \subseteq Range(table'[p])
  BY <1>1, <1>2, <1>3 DEF Within
<1>6. pc' # "terminated" /\ link'[p] = "up" =>
        \A r \in Range(table'[p]) : Sortable(r)' => \E c \in Places : r \in D[c]
  BY <1>1, <1>2, <1>3 DEF Somewhere
<1> QED BY <1>4, <1>5, <1>6 DEF Conserved, D, Sortable, Ordered, Range

\* OrderBy takes a row.
LEMMA ReadRowPart ==
  ASSUME TypeOK, NEW p \in Partition, Conserved(p), PartInv(p), ReadRow(p)
  PROVE  PartNext(p)
<1> DEFINE x == Head(rest[p])
           rows == heap[p] \cup {x}
<1>1. Domains /\ SortType(p) /\ StreamType(p) /\ Ordered /\ phase[p] = "reading" /\ rest[p] # <<>>
  BY DEF TypeOK, ReadRow
<1>2. /\ rest'[p] = Tail(rest[p]) /\ phase'[p] = phase[p] /\ out'[p] = out[p] /\ held'[p] = held[p]
      /\ link'[p] = link[p] /\ hand'[p] = hand[p] /\ receiver'[p] = receiver[p] /\ pool'[p] = pool[p]
      /\ UNCHANGED <<query, table, pc, reply, mergeQueue>>
  BY <1>1 DEF ReadRow, fixed, receiving, master, Domains
<1>3. StreamInv(p) /\ SortInv(p) /\ Nothing(p) /\ Ordered' /\ (Sorting' <=> Sorting)
      /\ (Sorting => OrderAt(p))
  BY <1>1, <1>2 DEF PartInv, Sorting, Ordered, SortInv
<1>4. /\ x \in RowOf(p) /\ rest'[p] \in Seq(RowOf(p))
      /\ Rows(rest[p]) = {x} \cup Rows(rest'[p]) /\ x \notin Rows(rest'[p]) /\ NoneTwice(rest'[p])
  <2>1. x \in RowOf(p) /\ rest'[p] \in Seq(RowOf(p))
    BY SMTT(30), <1>1, <1>2, HeadTail DEF SortType
  <2>2. Just(x) = {x} /\ NoneTwice(rest[p])
    BY <2>1, RowFacts, ConservedNeat DEF Neat
  <2>3. rest[p] \in Seq(RowOf(p)) /\ rest'[p] = Tail(rest[p])
    BY <1>1, <1>2 DEF SortType
  <2>4. /\ Rows(rest[p]) = Just(x) \cup Rows(Tail(rest[p]))
        /\ NoneTwice(Tail(rest[p])) /\ x \notin Rows(Tail(rest[p]))
    BY <1>1, <2>2, <2>3, TakeHead
  <2> QED BY <2>1, <2>2, <2>3, <2>4
<1>5. /\ StreamType(p)' /\ StreamInv(p)' /\ Nothing(p)' /\ ~Spent(p) /\ ~Spent(p)'
      /\ (\A i \in DOMAIN runs'[p] : InOrder(runs'[p][i])) => OrderAt(p)'
  BY <1>1, <1>2, <1>3, ReadStream
<1>6. SortInv(p)'
  BY <1>1, <1>2, <1>3, <1>5 DEF SortInv
<1>7. NoneTwice(pool'[p]) /\ NoneTwice(out'[p]) /\ NoneTwice(rest'[p]) /\ RunsNeat(runs[p])
  BY <1>2, <1>4, ConservedNeat DEF Neat
<1>8. \A c \in Places \ {"rest", "heap", "runs"} : Stored(p)'[c] = Stored(p)[c]
  BY <1>2, SamePlaces DEF Places
<1>9. /\ Stored(p)["rest"] = {x} \cup Rows(rest'[p]) /\ Stored(p)'["rest"] = Stored(p)["rest"] \ {x}
      /\ {x} \subseteq Stored(p)["rest"]
  BY SMTT(30), <1>4, StoredAt, StoredNext
<1>10. rows \subseteq RowOf(p) /\ rows \cap AllRows(runs[p]) = {}
  <2>1. rows \subseteq RowOf(p)
    BY <1>1, <1>4 DEF SortType
  <2>2. Stored(p)["rest"] \cap Stored(p)["runs"] = {} /\ Stored(p)["heap"] \cap Stored(p)["runs"] = {}
    BY ConservedNeat DEF Places
  <2> QED BY <1>4, <2>1, <2>2, StoredAt
<1> HIDE DEF x, rows
<1>11. \/ x.key = NoKey /\ UNCHANGED <<sort, lost>>
       \/ heap' = [heap EXCEPT ![p] = rows] /\ runs' = runs
       \/ FlushHeap(p, rows)
  BY DEF ReadRow, x, rows
<1>12. usage'[p] \in Nat
  <2>1. usage[p] \in Nat
    BY <1>1 DEF SortType
  <2> QED BY SMTT(30), <1>1, <2>1 DEF ReadRow, sort, Domains
<1>13. SUFFICES /\ heap'[p] \subseteq RowOf(p) /\ runs'[p] \in Seq(Seq(RowOf(p)))
                /\ Sorting => \A i \in DOMAIN runs'[p] : InOrder(runs'[p][i])
                /\ Conserved(p)'
  <2>1. SUFFICES ASSUME heap'[p] \subseteq RowOf(p), runs'[p] \in Seq(Seq(RowOf(p))),
                        Sorting => \A i \in DOMAIN runs'[p] : InOrder(runs'[p][i]),
                        Conserved(p)'
                 PROVE  PartNext(p)
    OBVIOUS
  <2>2. SortType(p)'
    BY <1>1, <1>2, <1>4, <1>12, <2>1 DEF SortType, Phases, RowOf
  <2> QED BY <1>1, <1>2, <1>3, <1>5, <1>6, <2>1, <2>2 DEF PartNext, Types, PartInv, Calm
<1>14. Sorting => \A i \in DOMAIN runs[p] : InOrder(runs[p][i])
  BY <1>3 DEF OrderAt
<1>15. CASE x.key = NoKey /\ UNCHANGED <<sort, lost>>
  <2>1. heap'[p] = heap[p] /\ runs'[p] = runs[p]
    BY <1>15 DEF sort
  <2>2. Neat(p)'
    BY <1>7, <2>1 DEF Neat
  <2>3. \A c \in Places \ {"rest"} : Stored(p)'[c] = Stored(p)[c]
    BY <1>8, <2>1, SamePlaces DEF Places
  <2>4. ~Sortable(x)
    BY <1>1, <1>15 DEF Sortable
  <2>5. /\ \A c \in Places : Stored(p)'[c] \subseteq Stored(p)[c]
        /\ \A c \in Places : \A r \in Stored(p)[c] : Sortable(r) => r \in Stored(p)'[c]
    BY <1>9, <2>3, <2>4
  <2>6. Conserved(p)'
    BY <1>2, <2>2, <2>5, DropConserves
  <2> QED BY <1>1, <1>14, <2>1, <2>6 DEF SortType
<1>16. ASSUME heap'[p] = rows, runs'[p] = runs[p] PROVE Conserved(p)'
  <2>1. Neat(p)'
    BY <1>7, <1>16 DEF Neat
  <2>2. Moved(p, "rest", "heap", {x})
    <3>1. Stored(p)'["heap"] = Stored(p)["heap"] \cup {x} /\ Stored(p)'["runs"] = Stored(p)["runs"]
      BY SMTT(30), <1>16, StoredAt, StoredNext DEF rows
    <3> QED BY <1>8, <1>9, <3>1 DEF Moved, Places
  <2> QED BY <1>2, <2>1, <2>2, MoveConserves
<1>17. CASE heap' = [heap EXCEPT ![p] = rows] /\ runs' = runs
  <2>1. heap'[p] = rows /\ runs'[p] = runs[p]
    BY <1>1, <1>17 DEF Domains
  <2> QED BY <1>1, <1>10, <1>14, <1>16, <2>1 DEF SortType
<1>18. CASE FlushHeap(p, rows)
  <2>1. /\ runs'[p] \in Seq(Seq(RowOf(p))) /\ heap'[p] \subseteq rows
        /\ RunsNeat(runs'[p])
        /\ Sorting => \A i \in DOMAIN runs'[p] : InOrder(runs'[p][i])
        /\ \/ heap'[p] = {} /\ AllRows(runs'[p]) = AllRows(runs[p]) \cup rows
           \/ heap'[p] = rows /\ runs'[p] = runs[p] /\ p \in lost'
    BY <1>1, <1>7, <1>10, <1>14, <1>18, FlushPart
  <2>2. ASSUME heap'[p] = {}, AllRows(runs'[p]) = AllRows(runs[p]) \cup rows PROVE Conserved(p)'
    <3>1. Neat(p)'
      BY <1>7, <2>1 DEF Neat
    <3>2. /\ Stored(p)'["heap"] = {}
          /\ Stored(p)'["runs"] = Stored(p)["runs"] \cup Stored(p)["heap"] \cup {x}
      BY SMTT(30), <2>2, StoredAt, StoredNext DEF rows
    <3> QED BY <1>2, <1>8, <1>9, <3>1, <3>2, GatherConserves
  <2> QED BY <1>10, <1>16, <2>1, <2>2
<1> QED BY <1>11, <1>15, <1>17, <1>18

\* OrderBy meets the close flag.
LEMMA ReadEndPart ==
  ASSUME TypeOK, NEW p \in Partition, Conserved(p), PartInv(p), ReadEnd(p)
  PROVE  PartNext(p)
<1>1. Domains /\ SortType(p) /\ StreamType(p) /\ Ordered /\ phase[p] = "reading" /\ rest[p] = <<>>
  BY DEF TypeOK, ReadEnd
<1>2. /\ rest'[p] = rest[p] /\ usage'[p] = usage[p] /\ out'[p] = out[p] /\ held'[p] = held[p]
      /\ link'[p] = link[p] /\ hand'[p] = hand[p] /\ receiver'[p] = receiver[p] /\ pool'[p] = pool[p]
      /\ UNCHANGED <<query, table, pc, reply, mergeQueue>>
  BY <1>1 DEF ReadEnd, fixed, receiving, master, Domains
<1>3. StreamInv(p) /\ SortInv(p) /\ Nothing(p) /\ Ordered' /\ (Sorting' <=> Sorting)
      /\ (Sorting => OrderAt(p))
  BY <1>1, <1>2 DEF PartInv, Sorting, Ordered, SortInv
<1>4. NoneTwice(pool'[p]) /\ NoneTwice(out'[p]) /\ NoneTwice(rest'[p]) /\ RunsNeat(runs[p])
  BY <1>2, ConservedNeat DEF Neat
<1>5. \A c \in Places \ {"heap", "runs"} : Stored(p)'[c] = Stored(p)[c]
  BY <1>2, SamePlaces DEF Places
<1>6. Sorting => \A i \in DOMAIN runs[p] : InOrder(runs[p][i])
  BY <1>3 DEF OrderAt
<1>7. CASE runs[p] # <<>>
  <2>1. FlushHeap(p, heap[p]) /\ phase'[p] = "merging"
    BY <1>1, <1>7 DEF ReadEnd, Domains
  <2>2. heap[p] \subseteq RowOf(p) /\ heap[p] \cap AllRows(runs[p]) = {}
    <3>1. Stored(p)["heap"] \cap Stored(p)["runs"] = {}
      BY ConservedNeat DEF Places
    <3> QED BY <1>1, <3>1, StoredAt DEF SortType
  <2>3. /\ runs'[p] \in Seq(Seq(RowOf(p))) /\ heap'[p] \subseteq heap[p]
        /\ RunsNeat(runs'[p])
        /\ Sorting => \A i \in DOMAIN runs'[p] : InOrder(runs'[p][i])
        /\ \/ heap'[p] = {} /\ AllRows(runs'[p]) = AllRows(runs[p]) \cup heap[p]
           \/ heap'[p] = heap[p] /\ runs'[p] = runs[p] /\ p \in lost'
    BY <1>1, <1>4, <1>6, <2>1, <2>2, FlushPart
  <2>4. /\ StreamType(p)' /\ StreamInv(p)' /\ Nothing(p)' /\ ~Spent(p) /\ ~Spent(p)'
        /\ (\A i \in DOMAIN runs'[p] : InOrder(runs'[p][i])) => OrderAt(p)'
    BY <1>1, <1>2, <1>3, <2>1, ReadStream
  <2>5. SortType(p)'
    BY <1>1, <1>2, <2>1, <2>2, <2>3 DEF SortType, Phases, RowOf
  <2>6. SortInv(p)'
    BY <1>1, <1>2, <1>3, <2>1, <2>3 DEF SortInv
  <2>7. Neat(p)'
    BY <1>4, <2>3 DEF Neat
  <2>8. Conserved(p)'
    <3>1. CASE heap'[p] = {} /\ AllRows(runs'[p]) = AllRows(runs[p]) \cup heap[p]
      <4>1. /\ Stored(p)'["heap"] = Stored(p)["heap"] \ heap[p] /\ heap[p] \subseteq Stored(p)["heap"]
            /\ Stored(p)'["runs"] = Stored(p)["runs"] \cup heap[p]
        BY <3>1, StoredAt, StoredNext
      <4>2. Moved(p, "heap", "runs", heap[p])
        BY <1>5, <4>1 DEF Moved, Places
      <4> QED BY <1>2, <2>7, <4>2, MoveConserves
    <3>2. CASE heap'[p] = heap[p] /\ runs'[p] = runs[p]
      <4>1. \A c \in Places : Stored(p)'[c] = Stored(p)[c]
        BY <1>5, <3>2, SamePlaces DEF Places
      <4> QED BY <1>2, <2>7, <4>1, DropConserves
    <3> QED BY <2>3, <3>1, <3>2
  <2> QED BY <1>1, <1>2, <1>3, <2>1, <2>3, <2>4, <2>5, <2>6, <2>8 DEF PartNext, Types, PartInv, Calm
<1>8. CASE runs[p] = <<>>
  <2>1. phase'[p] = "draining" /\ heap'[p] = heap[p] /\ runs'[p] = runs[p]
    BY <1>1, <1>8 DEF ReadEnd, Domains
  <2>4. /\ StreamType(p)' /\ StreamInv(p)' /\ Nothing(p)' /\ ~Spent(p) /\ ~Spent(p)'
        /\ (\A i \in DOMAIN runs'[p] : InOrder(runs'[p][i])) => OrderAt(p)'
    BY <1>1, <1>2, <1>3, <2>1, ReadStream
  <2>5. SortType(p)'
    BY <1>1, <1>2, <2>1 DEF SortType, Phases, RowOf
  <2>6. SortInv(p)'
    BY <1>1, <1>2, <1>3, <1>8, <2>1 DEF SortInv
  <2>7. Neat(p)'
    BY <1>4, <2>1 DEF Neat
  <2>8. \A c \in Places : Stored(p)'[c] = Stored(p)[c]
    BY <1>5, <2>1, SamePlaces DEF Places
  <2>9. Conserved(p)'
    BY <1>2, <2>7, <2>8, DropConserves
  <2> QED BY <1>1, <1>2, <1>3, <1>6, <2>1, <2>4, <2>5, <2>6, <2>9 DEF PartNext, Types, PartInv, Calm
<1> QED BY <1>7, <1>8

\* The merge takes the first row h of the i-th run, and the runs t remain.
TakesFrom(S, seqs, i, h, t) ==
  /\ \A r \in S : r.n # 0
  /\ seqs \in Seq(Seq(S)) /\ RunsNeat(seqs) /\ i \in DOMAIN seqs /\ seqs[i] # <<>>
  /\ h = Head(seqs[i]) /\ t = [seqs EXCEPT ![i] = Tail(@)]

\* One row of a run is taken by the merge.
LEMMA TakeFromRun ==
  ASSUME NEW S, NEW seqs, NEW i, NEW h, NEW t, TakesFrom(S, seqs, i, h, t)
  PROVE  /\ h \in S /\ h \in AllRows(seqs) /\ t \in Seq(Seq(S)) /\ RunsNeat(t)
         /\ AllRows(t) = AllRows(seqs) \ {h}
         /\ (\A j \in DOMAIN seqs : InOrder(seqs[j])) => \A j \in DOMAIN t : InOrder(t[j])
<1> USE DEF TakesFrom
<1>1. seqs[i] \in Seq(S)
  BY SMTT(30)
<1>2. h \in S /\ Tail(seqs[i]) \in Seq(S)
  BY <1>1, HeadTail
<1>3. t \in Seq(Seq(S)) /\ DOMAIN t = DOMAIN seqs /\ t[i] = Tail(seqs[i])
      /\ \A j \in DOMAIN seqs \ {i} : t[j] = seqs[j]
  BY SMTT(30), <1>2
<1>4. Just(h) = {h}
  BY <1>2 DEF Just
<1>5. /\ Rows(seqs[i]) = Just(h) \cup Rows(Tail(seqs[i]))
      /\ NoneTwice(seqs[i]) => NoneTwice(Tail(seqs[i])) /\ h \notin Rows(Tail(seqs[i]))
      /\ InOrder(seqs[i]) => InOrder(Tail(seqs[i]))
  BY <1>1, TakeHead
<1>6. NoneTwice(seqs[i])
  BY DEF RunsNeat
<1>7. Rows(seqs[i]) = {h} \cup Rows(t[i]) /\ h \notin Rows(t[i]) /\ NoneTwice(t[i])
  BY <1>3, <1>4, <1>5, <1>6
<1>8. RunsNeat(t)
  BY <1>3, <1>7 DEF RunsNeat
<1>9. \A j \in DOMAIN seqs \ {i} : h \notin Rows(seqs[j])
  BY <1>7 DEF RunsNeat
<1>10. AllRows(t) = AllRows(seqs) \ {h} /\ h \in AllRows(seqs)
  <2>1. \A r : r \in AllRows(t) <=> \E j \in DOMAIN seqs : r \in Rows(t[j])
    BY <1>3 DEF AllRows
  <2>2. \A r : r \in AllRows(seqs) <=> \E j \in DOMAIN seqs : r \in Rows(seqs[j])
    BY DEF AllRows
  <2>3. \A r : r \in AllRows(t) => r \in AllRows(seqs) /\ r # h
    BY SMTT(30), <1>3, <1>7, <1>9, <2>1, <2>2
  <2>4. \A r \in AllRows(seqs) : r # h => r \in AllRows(t)
    BY <1>3, <1>7, <2>1, <2>2
  <2> QED BY <1>7, <2>2, <2>3, <2>4
<1>11. (\A j \in DOMAIN seqs : InOrder(seqs[j])) => \A j \in DOMAIN t : InOrder(t[j])
  BY <1>3, <1>5
<1> QED BY <1>2, <1>3, <1>8, <1>10, <1>11

\* The heap is drained.
LEMMA DrainHeapPart ==
  ASSUME TypeOK, NEW p \in Partition, Conserved(p), PartInv(p), DrainHeap(p)
  PROVE  PartNext(p)
<1>1. Domains /\ SortType(p) /\ StreamType(p) /\ phase[p] = "draining"
  BY DEF TypeOK, DrainHeap
<1>2. /\ rest'[p] = rest[p] /\ usage'[p] = usage[p] /\ runs'[p] = runs[p] /\ held'[p] = held[p]
      /\ link'[p] = link[p] /\ hand'[p] = hand[p] /\ receiver'[p] = receiver[p] /\ pool'[p] = pool[p]
      /\ UNCHANGED <<query, table, pc, reply, mergeQueue, lost>>
  BY <1>1 DEF DrainHeap, fixed, receiving, master, Domains
<1>3. /\ StreamInv(p) /\ SortInv(p) /\ Ordered /\ Ordered' /\ (Sorting' <=> Sorting)
      /\ runs[p] = <<>> /\ rest[p] = <<>> /\ (Sorting => OrderAt(p))
  BY <1>1, <1>2 DEF PartInv, Sorting, Ordered, SortInv
<1>4. Left(p) = heap[p] /\ Neat(p)
  BY <1>1, ConservedNeat DEF Left
<1>5. Sorting => \A i \in DOMAIN runs'[p] : InOrder(runs'[p][i])
  BY SMTT(30), <1>2, <1>3
<1>6. CASE heap[p] = {} /\ Emit(p, End) /\ phase' = [phase EXCEPT ![p] = "done"] /\ heap' = heap
  <2>1. out'[p] = Append(out[p], End) /\ phase'[p] = "done" /\ heap'[p] = {}
    BY <1>1, <1>6 DEF Emit, Domains
  <2>2. StreamType(p)' /\ StreamInv(p)' /\ ~Spent(p) /\ ~Spent(p)'
    BY <1>1, <1>2, <1>3, <2>1, EmitStream
  <2>3. SortType(p)'
    BY <1>1, <1>2, <1>6, <2>1 DEF SortType, Phases, RowOf
  <2>4. SortInv(p)'
    BY SMTT(30), <1>2, <1>3, <2>1 DEF SortInv
  <2>5. Rows(out'[p]) = Rows(out[p]) /\ NoneTwice(out'[p])
    BY <1>1, <1>4, <2>1, EmitRows DEF Neat
  <2>6. Neat(p)'
    BY <1>2, <1>4, <2>5 DEF Neat
  <2>7. \A c \in Places : Stored(p)'[c] = Stored(p)[c]
    <3>1. Stored(p)'["out"] = Stored(p)["out"]
      BY <2>5, OutPlace
    <3> QED BY SMTT(30), <1>2, <1>6, <2>1, <3>1, SamePlaces DEF Places
  <2>8. Conserved(p)'
    BY <1>2, <2>6, <2>7, DropConserves
  <2>9. Left(p)' = {} /\ Just(End) = {}
    BY <2>1, RowFacts DEF Left
  <2>10. Sorting => OrderAt(p)' /\ ToCome(p)' \subseteq ToCome(p)
    <3>1. Before(Just(End), Left(p)')
      BY <2>9 DEF Before
    <3> QED BY <1>1, <1>2, <1>3, <1>5, <2>1, <2>9, <3>1, EmitOrder
  <2> QED BY <1>1, <1>2, <1>3, <2>1, <2>2, <2>3, <2>4, <2>8, <2>10 DEF PartNext, Types, PartInv, Calm
<1>7. ASSUME NEW x \in Top(heap[p], HeapLess), Emit(p, x), heap' = [heap EXCEPT ![p] = @ \ {x}], phase' = phase
      PROVE  PartNext(p)
  <2>0. x \in heap[p] /\ x \in RowOf(p) /\ Just(x) = {x} /\ x # End
    BY <1>1, <1>7, RowFacts DEF Top, SortType
  <2>1. out'[p] = Append(out[p], x) /\ phase'[p] = "draining" /\ heap'[p] = heap[p] \ {x}
    BY <1>1, <1>7 DEF Emit, Domains
  <2>2. StreamType(p)' /\ StreamInv(p)' /\ ~Spent(p) /\ ~Spent(p)'
    BY <1>1, <1>2, <1>3, <2>0, <2>1, EmitStream
  <2>3. SortType(p)'
    BY <1>1, <1>2, <2>1 DEF SortType, Phases, RowOf
  <2>4. SortInv(p)'
    BY <1>2, <1>3, <2>1 DEF SortInv
  <2>5. Rows(out'[p]) = Rows(out[p]) \cup {x} /\ NoneTwice(out'[p])
    <3>1. Stored(p)["heap"] \cap Stored(p)["out"] = {}
      BY ConservedNeat DEF Places
    <3>2. Just(x) \cap Rows(out[p]) = {} /\ x \in RowOf(p) \cup {End}
      BY <2>0, <3>1, StoredAt
    <3>3. /\ Rows(out'[p]) = Rows(out[p]) \cup Just(x)
          /\ NoneTwice(out[p]) /\ Just(x) \cap Rows(out[p]) = {} => NoneTwice(out'[p])
      BY <1>1, <2>1, <3>2, EmitRows
    <3> QED BY <1>4, <2>0, <3>2, <3>3 DEF Neat
  <2>6. Neat(p)'
    BY <1>2, <1>4, <2>5 DEF Neat
  <2>7. Moved(p, "heap", "out", {x})
    <3>1. /\ {x} \subseteq Stored(p)["heap"] /\ Stored(p)'["heap"] = Stored(p)["heap"] \ {x}
          /\ Stored(p)'["out"] = Stored(p)["out"] \cup {x}
      BY <2>0, <2>1, <2>5, StoredAt, StoredNext
    <3> QED BY <1>2, <3>1, SamePlaces DEF Moved, Places
  <2>8. Conserved(p)'
    BY <1>2, <2>6, <2>7, MoveConserves
  <2>9. Left(p)' = heap[p] \ {x}
    BY <2>1 DEF Left
  <2>10. ASSUME Sorting PROVE OrderAt(p)' /\ ToCome(p)' \subseteq ToCome(p)
    <3>1. ASSUME NEW s \in heap[p] \ {x} PROVE x.key <= s.key
      <4>1. HeapLess(x, s) => HeapLess(s, x)
        BY <1>7, <3>1 DEF Top
      <4>2. x.key \in Int /\ s.key \in Int
        BY <1>1, <2>0, <3>1, RowFacts DEF SortType
      <4>3. HeapLess(x, s) <=> x.key > s.key
        BY <2>10 DEF HeapLess, RowLess, Sorting
      <4>4. HeapLess(s, x) <=> s.key > x.key
        BY <2>10 DEF HeapLess, RowLess, Sorting
      <4> QED BY SMTT(30), <4>1, <4>2, <4>3, <4>4
    <3>2. Before(Just(x), Left(p)')
      BY <2>0, <2>9, <3>1 DEF Before
    <3>3. Just(x) \subseteq Left(p) /\ Left(p)' \subseteq Left(p)
      BY <1>4, <2>0, <2>9
    <3> QED BY <1>1, <1>2, <1>3, <1>5, <2>0, <2>1, <2>10, <3>2, <3>3, EmitOrder
  <2> QED BY <1>1, <1>2, <1>3, <2>1, <2>2, <2>3, <2>4, <2>8, <2>10 DEF PartNext, Types, PartInv, Calm
<1> QED BY <1>6, <1>7 DEF DrainHeap

\* The runs are merged.
LEMMA MergeRunsPart ==
  ASSUME TypeOK, NEW p \in Partition, Conserved(p), PartInv(p), MergeRuns(p)
  PROVE  PartNext(p)
<1> DEFINE open == {i \in DOMAIN runs[p] : runs[p][i] # <<>>}
<1>1. Domains /\ SortType(p) /\ StreamType(p) /\ phase[p] = "merging"
  BY DEF TypeOK, MergeRuns
<1>2. /\ rest'[p] = rest[p] /\ usage'[p] = usage[p] /\ heap'[p] = heap[p] /\ held'[p] = held[p]
      /\ link'[p] = link[p] /\ hand'[p] = hand[p] /\ receiver'[p] = receiver[p] /\ pool'[p] = pool[p]
      /\ UNCHANGED <<query, table, pc, reply, mergeQueue, lost>>
  BY <1>1 DEF MergeRuns, fixed, receiving, master, Domains
<1>3. /\ StreamInv(p) /\ SortInv(p) /\ Ordered /\ Ordered' /\ (Sorting' <=> Sorting)
      /\ rest[p] = <<>> /\ (Sorting => OrderAt(p)) /\ (heap[p] # {} => p \in lost)
  BY <1>1, <1>2 DEF PartInv, Sorting, Ordered, SortInv
<1>4. Left(p) = AllRows(runs[p]) /\ Neat(p)
  BY <1>1, StoredAt, ConservedNeat DEF Left
<1>5. Sorting => \A i \in DOMAIN runs[p] : InOrder(runs[p][i])
  BY <1>3 DEF OrderAt
<1>6. CASE open = {} /\ Emit(p, End) /\ phase' = [phase EXCEPT ![p] = "done"] /\ runs' = runs
  <2>1. /\ out'[p] = Append(out[p], End) /\ phase'[p] = "done" /\ runs'[p] = runs[p]
        /\ \A i \in DOMAIN runs[p] : runs[p][i] = <<>>
    BY <1>1, <1>6 DEF Emit, Domains
  <2>2. StreamType(p)' /\ StreamInv(p)' /\ ~Spent(p) /\ ~Spent(p)'
    BY <1>1, <1>2, <1>3, <2>1, EmitStream
  <2>3. SortType(p)'
    BY <1>1, <1>2, <2>1 DEF SortType, Phases, RowOf
  <2>4. SortInv(p)'
    BY <1>2, <1>3, <2>1 DEF SortInv
  <2>5. Rows(out'[p]) = Rows(out[p]) /\ NoneTwice(out'[p])
    BY <1>1, <1>4, <2>1, EmitRows DEF Neat
  <2>6. Neat(p)'
    BY <1>2, <1>4, <2>1, <2>5 DEF Neat
  <2>7. \A c \in Places : Stored(p)'[c] = Stored(p)[c]
    <3>1. Stored(p)'["out"] = Stored(p)["out"]
      BY <2>5, OutPlace
    <3> QED BY <1>2, <2>1, <3>1, SamePlaces DEF Places
  <2>8. Conserved(p)'
    BY <1>2, <2>6, <2>7, DropConserves
  <2>9. Left(p)' = {} /\ Just(End) = {}
    BY <2>1, RowFacts DEF Left
  <2>10. Sorting => OrderAt(p)' /\ ToCome(p)' \subseteq ToCome(p)
    <3>1. Before(Just(End), Left(p)')
      BY <2>9 DEF Before
    <3> QED BY <1>1, <1>2, <1>3, <1>5, <2>1, <2>9, <3>1, EmitOrder
  <2> QED BY <1>1, <1>2, <1>3, <2>1, <2>2, <2>3, <2>4, <2>8, <2>10 DEF PartNext, Types, PartInv, Calm
<1>7. ASSUME NEW i \in open, Head(runs[p][i]) \in Top({Head(runs[p][j]) : j \in open}, RunLess),
             Emit(p, Head(runs[p][i])), runs' = [runs EXCEPT ![p][i] = Tail(@)], phase' = phase
      PROVE  PartNext(p)
  <2> DEFINE x == Head(runs[p][i])
  <2>0. /\ x \in RowOf(p) /\ x \in AllRows(runs[p]) /\ runs'[p] \in Seq(Seq(RowOf(p))) /\ RunsNeat(runs'[p])
        /\ AllRows(runs'[p]) = AllRows(runs[p]) \ {x}
        /\ (\A j \in DOMAIN runs[p] : InOrder(runs[p][j])) => \A j \in DOMAIN runs'[p] : InOrder(runs'[p][j])
    <3>1. runs'[p] = [runs[p] EXCEPT ![i] = Tail(@)]
      BY <1>1, <1>7 DEF Domains
    <3>2. runs[p] \in Seq(Seq(RowOf(p))) /\ RunsNeat(runs[p]) /\ \A r \in RowOf(p) : r.n # 0
      BY <1>1, <1>4, RowFacts DEF SortType, Neat
    <3>3. i \in DOMAIN runs[p] /\ runs[p][i] # <<>>
      BY <1>7
    <3> DEFINE S == RowOf(p)
               seqs == runs[p]
               t == runs'[p]
    <3>4. /\ \A r \in S : r.n # 0
          /\ seqs \in Seq(Seq(S)) /\ RunsNeat(seqs) /\ i \in DOMAIN seqs /\ seqs[i] # <<>>
      BY <3>2, <3>3
    <3>5. t = [seqs EXCEPT ![i] = Tail(@)] /\ x = Head(seqs[i])
      BY <3>1
    <3> HIDE DEF S, seqs, t, x
    <3>6. /\ x \in S /\ x \in AllRows(seqs) /\ t \in Seq(Seq(S)) /\ RunsNeat(t)
          /\ AllRows(t) = AllRows(seqs) \ {x}
          /\ (\A j \in DOMAIN seqs : InOrder(seqs[j])) => \A j \in DOMAIN t : InOrder(t[j])
      <4>1. TakesFrom(S, seqs, i, x, t)
        BY <3>4, <3>5 DEF TakesFrom
      <4> QED BY <4>1, TakeFromRun
    <3> QED BY <3>6 DEF S, seqs, t
  <2>1. out'[p] = Append(out[p], x) /\ phase'[p] = "merging"
    BY <1>1, <1>7 DEF Emit, Domains
  <2>a. Just(x) = {x} /\ x # End
    BY <2>0, RowFacts
  <2>10. ASSUME Sorting PROVE Before(Just(x), AllRows(runs[p]) \ {x})
    <3>1. ASSUME NEW j \in DOMAIN runs[p], NEW s \in Rows(runs[p][j]) PROVE x.key <= s.key
      <4>1. runs[p][j] \in Seq(RowOf(p)) /\ runs[p][j] # <<>>
        BY SMTT(30), <1>1, <3>1, Singles DEF SortType
      <4> DEFINE h == Head(runs[p][j])
      <4>2. h \in RowOf(p)
        BY <4>1, HeadTail
      <4>3. Rows(runs[p][j]) = {h} \cup Rows(Tail(runs[p][j])) /\ Before({h}, Rows(Tail(runs[p][j])))
        <5> DEFINE z == runs[p][j]
        <5>1. z \in Seq(RowOf(p)) /\ z # <<>> /\ InOrder(z) /\ h = Head(z)
          BY <1>5, <2>10, <4>1
        <5>2. Just(h) = {h}
          BY <4>2, RowFacts
        <5> HIDE DEF z, h
        <5>3. /\ Rows(z) = Just(Head(z)) \cup Rows(Tail(z))
              /\ InOrder(z) => Before(Just(Head(z)), Rows(Tail(z)))
          BY <5>1, TakeHead
        <5>4. Rows(z) = {h} \cup Rows(Tail(z)) /\ Before({h}, Rows(Tail(z)))
          BY <5>1, <5>2, <5>3
        <5> QED BY <5>4 DEF z
      <4>4. s \in RowOf(p)
        BY SMTT(30), <3>1, <4>1 DEF Rows, Range
      <4>5. h.key \in Int /\ s.key \in Int /\ x.key \in Int
        BY <2>0, <4>2, <4>4, RowFacts
      <4>6. h.key <= s.key
        BY SMTT(30), <3>1, <4>3, <4>5 DEF Before
      <4>7. h \in {Head(runs[p][k]) : k \in open}
        BY <4>1
      <4>8. h # x => (RunLess(x, h) => RunLess(h, x))
        BY <1>7, <4>7 DEF Top
      <4>9. x.key <= h.key
        BY SMTT(30), <2>10, <4>5, <4>8 DEF RunLess, Sorting
      <4> HIDE DEF h
      <4> QED BY SMTT(30), <4>5, <4>6, <4>9
    <3>2. \A s \in AllRows(runs[p]) : \E j \in DOMAIN runs[p] : s \in Rows(runs[p][j])
      BY DEF AllRows
    <3> HIDE DEF x
    <3> QED BY <2>a, <3>1, <3>2 DEF Before
  <2> HIDE DEF x, open
  <2>2. StreamType(p)' /\ StreamInv(p)' /\ ~Spent(p) /\ ~Spent(p)'
    BY <1>1, <1>2, <1>3, <2>0, <2>1, <2>a, EmitStream
  <2>3. SortType(p)'
    BY <1>1, <1>2, <2>0, <2>1 DEF SortType, Phases, RowOf
  <2>4. SortInv(p)'
    BY <1>2, <1>3, <2>1 DEF SortInv
  <2>5. Rows(out'[p]) = Rows(out[p]) \cup {x} /\ NoneTwice(out'[p])
    <3>1. Stored(p)["runs"] \cap Stored(p)["out"] = {}
      BY ConservedNeat DEF Places
    <3>2. Just(x) \cap Rows(out[p]) = {} /\ x \in RowOf(p) \cup {End}
      BY <2>0, <2>a, <3>1, StoredAt
    <3>3. /\ Rows(out'[p]) = Rows(out[p]) \cup Just(x)
          /\ NoneTwice(out[p]) /\ Just(x) \cap Rows(out[p]) = {} => NoneTwice(out'[p])
      BY <1>1, <2>1, <3>2, EmitRows
    <3> QED BY <1>4, <2>a, <3>2, <3>3 DEF Neat
  <2>6. Neat(p)'
    BY <1>2, <1>4, <2>0, <2>5 DEF Neat
  <2>7. Moved(p, "runs", "out", {x})
    <3>1. /\ {x} \subseteq Stored(p)["runs"] /\ Stored(p)'["runs"] = Stored(p)["runs"] \ {x}
          /\ Stored(p)'["out"] = Stored(p)["out"] \cup {x}
      BY <2>0, <2>5, StoredAt, StoredNext
    <3> QED BY <1>2, <3>1, SamePlaces DEF Moved, Places
  <2>8. Conserved(p)'
    BY <1>2, <2>6, <2>7, MoveConserves
  <2>9. Left(p)' = AllRows(runs[p]) \ {x}
    <3>1. Stored(p)'["runs"] = AllRows(runs'[p])
      BY StoredNext
    <3> QED BY <2>0, <2>1, <3>1 DEF Left
  <2>11. ASSUME Sorting PROVE OrderAt(p)' /\ ToCome(p)' \subseteq ToCome(p)
    <3>1. Just(x) \subseteq Left(p) /\ Left(p)' \subseteq Left(p) /\ Before(Just(x), Left(p)')
      BY <1>4, <2>0, <2>a, <2>9, <2>10, <2>11
    <3>2. \A j \in DOMAIN runs'[p] : InOrder(runs'[p][j])
      BY <1>5, <2>0, <2>11
    <3> QED BY <1>1, <1>2, <1>3, <2>0, <2>1, <2>11, <3>1, <3>2, EmitOrder
  <2> QED BY <1>1, <1>2, <1>3, <2>1, <2>2, <2>3, <2>4, <2>8, <2>11 DEF PartNext, Types, PartInv, Calm
<1> QED BY <1>6, <1>7 DEF MergeRuns

-----------------------------------------------------------------------------
(* The handler, the connection and the receiver. *)

\* What those threads leave alone.
SortAside(p) ==
  /\ rest'[p] = rest[p] /\ heap'[p] = heap[p] /\ usage'[p] = usage[p] /\ runs'[p] = runs[p]
  /\ phase'[p] = phase[p] /\ UNCHANGED <<query, table, lost>>
Aside(p) == SortAside(p) /\ UNCHANGED <<pc, reply, mergeQueue>>

\* The sort does not see what becomes of the rows it has emitted.
LEMMA AsideSort ==
  ASSUME NEW p \in Partition, SortAside(p), SortType(p), SortInv(p), Nothing(p) => Nothing(p)'
  PROVE  SortType(p)' /\ SortInv(p)' /\ Left(p)' = Left(p) /\ (Sorting' <=> Sorting)
<1>1. SortType(p)'
  BY DEF SortType, RowOf, SortAside
<1>2. Ordered' <=> Ordered
  BY DEF Ordered, SortAside
<1>3. SortInv(p)'
  BY <1>2 DEF SortInv, SortAside
<1>4. Stored(p)'["runs"] = Stored(p)["runs"]
  BY SamePlaces DEF SortAside
<1>5. Left(p)' = Left(p)
  BY <1>4 DEF Left, SortAside
<1> QED BY <1>1, <1>3, <1>5 DEF Sorting, SortAside

\* What a step has to show of a partition.
LEMMA AsidePart ==
  ASSUME NEW p \in Partition, Aside(p), SortType(p), SortInv(p), Nothing(p) => Nothing(p)',
         StreamType(p)', StreamInv(p)', Conserved(p)',
         Sorting => OrderAt(p)' /\ ToCome(p)' \subseteq ToCome(p),
         NoEnd(p) => NoEnd(p)', link'[p] = "up" => link[p] = "up" /\ (NoEnd(p)' => NoEnd(p))
  PROVE  PartNext(p)
<1>1. SortType(p)' /\ SortInv(p)' /\ (Sorting' <=> Sorting)
  BY AsideSort DEF Aside, SortAside
<1> QED BY <1>1 DEF PartNext, Types, PartInv, Calm, Spent, Aside, SortAside

\* handleRequest takes a row.
LEMMA TakeRowPart ==
  ASSUME TypeOK, NEW p \in Partition, Conserved(p), PartInv(p), TakeRow(p)
  PROVE  PartNext(p)
<1> DEFINE x == Head(out[p])
<1>1. Domains /\ SortType(p) /\ StreamType(p) /\ held[p] = <<>> /\ out[p] # <<>>
  BY DEF TypeOK, TakeRow
<1>2. /\ Aside(p) /\ held'[p] = <<x>> /\ out'[p] = Tail(out[p]) /\ link'[p] = link[p]
      /\ hand'[p] = hand[p] /\ receiver'[p] = receiver[p] /\ pool'[p] = pool[p]
  BY <1>1 DEF TakeRow, Aside, SortAside, fixed, sort, receiving, master, Domains
<1>3. StreamInv(p) /\ SortInv(p) /\ ~Nothing(p) /\ (Sorting => OrderAt(p)) /\ Neat(p)
  BY <1>1, ConservedNeat DEF PartInv, Nothing
<1>4. /\ x \in RowOf(p) \cup {End} /\ out'[p] \in Seq(RowOf(p) \cup {End})
      /\ Len(out[p]) \in Nat \ {0} /\ Len(out'[p]) = Len(out[p]) - 1 /\ x = out[p][1] /\ 1 \in DOMAIN out[p]
      /\ \A i \in DOMAIN out'[p] : i \in Nat \ {0} /\ i + 1 \in DOMAIN out[p] /\ out'[p][i] = out[p][i + 1]
      /\ Range(out[p]) = {x} \cup Range(out'[p])
  BY SMTT(30), <1>1, <1>2, HeadTail DEF StreamType
<1>5. /\ Rows(out[p]) = Just(x) \cup Rows(out'[p]) /\ NoneTwice(out'[p]) /\ x \notin Rows(out'[p])
      /\ InOrder(out[p]) => InOrder(out'[p]) /\ Before(Just(x), Rows(out'[p]))
  <2>1. out[p] \in Seq(RowOf(p) \cup {End}) /\ NoneTwice(out[p])
    BY <1>1, <1>3 DEF StreamType, Neat
  <2> QED BY SMTT(30), <1>1, <1>2, <2>1, TakeHead
<1>6. Range(held'[p]) = {x} /\ Rows(held'[p]) = Just(x) /\ Range(held[p]) = {} /\ Rows(held[p]) = {}
  BY <1>1, <1>2, Singles
<1>7. Range(held'[p]) \cup Range(out'[p]) = Range(held[p]) \cup Range(out[p])
  BY <1>4, <1>6
<1>8. held'[p] \in Seq(RowOf(p) \cup {End}) /\ Len(held'[p]) <= 1 /\ (held'[p] = <<End>> => x = End)
  BY SMTT(30), <1>2, <1>4
<1> HIDE DEF x
<1>9. NoEnd(p)' <=> NoEnd(p)
  BY <1>2, <1>7 DEF NoEnd
<1>10. StreamType(p)'
  BY <1>1, <1>2, <1>4, <1>8 DEF StreamType, RowOf, Row
<1>11. StreamInv(p)'
  <2>1. \A i \in DOMAIN out'[p] : out'[p][i] = End => i = Len(out'[p])
    BY SMTT(30), <1>3, <1>4 DEF StreamInv
  <2>2. x = End => out'[p] = <<>>
    <3>1. \A i \in DOMAIN out[p] : out[p][i] = End => i = Len(out[p])
      BY <1>3 DEF StreamInv
    <3>2. x = End => Len(out[p]) = 1
      BY <1>4, <3>1
    <3>3. x = End => Len(out'[p]) = 0
      BY SMTT(30), <1>4, <3>2
    <3> QED BY SMTT(30), <1>4, <3>3
  <2>3. hand[p] # <<End>> /\ \A i \in DOMAIN pool[p] : pool[p][i] # End
    BY <1>1, <1>3 DEF StreamInv
  <2> QED BY <1>1, <1>2, <1>3, <1>8, <1>9, <2>1, <2>2, <2>3 DEF StreamInv, Aside, SortAside
<1>12. Conserved(p)'
  <2>1. Neat(p)'
    BY <1>2, <1>3, <1>5 DEF Neat, Aside, SortAside
  <2>2. /\ Just(x) \subseteq Stored(p)["out"] /\ Stored(p)'["out"] = Stored(p)["out"] \ Just(x)
        /\ Stored(p)'["held"] = Stored(p)["held"] \cup Just(x)
    <3>1. /\ Stored(p)["out"] = Rows(out[p]) /\ Stored(p)'["out"] = Rows(out'[p])
          /\ Stored(p)["held"] = Rows(held[p]) /\ Stored(p)'["held"] = Rows(held'[p])
      BY StoredAt, StoredNext
    <3> QED BY SMTT(30), <1>5, <1>6, <3>1 DEF Just
  <2>3. Moved(p, "out", "held", Just(x))
    BY SMTT(30), <1>2, <2>2, SamePlaces DEF Moved, Places, Aside, SortAside
  <2> QED BY <1>2, <2>1, <2>3, MoveConserves DEF Aside, SortAside
<1>13. ASSUME Sorting PROVE OrderAt(p)' /\ ToCome(p)' \subseteq ToCome(p)
  <2>1. Left(p)' = Left(p)
    BY <1>1, <1>2, <1>3, AsideSort DEF Aside, SortAside
  <2>2. AfterHeld(p)' = Rows(out'[p]) \cup Left(p) /\ AfterHand(p)' = AfterHand(p)
    BY <1>5, <1>6, <2>1 DEF AfterHeld, AfterHand, Rows
  <2>3. AfterPool(p)' = AfterPool(p) /\ ToCome(p)' = ToCome(p)
    BY <1>2, <2>2 DEF AfterPool, ToCome, Rows
  <2>4. Before(Just(x), AfterHeld(p)')
    BY <1>3, <1>5, <1>13, <2>2 DEF OrderAt, Before
  <2>5. Before(Rows(out'[p]), Left(p)) /\ InOrder(out'[p])
    BY <1>3, <1>5, <1>13 DEF OrderAt, Before
  <2> QED BY <1>2, <1>3, <1>6, <1>13, <2>1, <2>2, <2>3, <2>4, <2>5 DEF OrderAt, Aside, SortAside, InOrder, Rows, Before
<1> QED BY <1>1, <1>2, <1>3, <1>9, <1>10, <1>11, <1>12, <1>13, AsidePart

\* dataPublishToMaster succeeds.
LEMMA PublishPart ==
  ASSUME TypeOK, NEW p \in Partition, Conserved(p), PartInv(p), Publish(p)
  PROVE  PartNext(p)
<1>1. Domains /\ SortType(p) /\ StreamType(p) /\ held[p] # <<>> /\ hand[p] = <<>> /\ link[p] = "up"
  BY DEF TypeOK, Publish
<1>2. /\ Aside(p) /\ hand'[p] = held[p] /\ held'[p] = <<>> /\ link'[p] = link[p]
      /\ out'[p] = out[p] /\ receiver'[p] = receiver[p] /\ pool'[p] = pool[p]
  BY <1>1 DEF Publish, Aside, SortAside, fixed, sort, receiving, master, Domains
<1>3. StreamInv(p) /\ SortInv(p) /\ ~Nothing(p) /\ (Sorting => OrderAt(p)) /\ Neat(p)
  BY <1>1, ConservedNeat DEF PartInv, Nothing
<1>4. Range(<<>>) = {} /\ Rows(<<>>) = {}
  BY Singles
<1>5. NoEnd(p)' <=> NoEnd(p)
  BY <1>1, <1>2, <1>4 DEF NoEnd
<1>6. StreamType(p)'
  BY SMTT(30), <1>1, <1>2 DEF StreamType, RowOf, Row
<1>7. StreamInv(p)'
  <2>1. \A i \in DOMAIN pool[p] : pool[p][i] # End
    BY <1>1, <1>3 DEF StreamInv
  <2>2. Garbage(p) \notin Range(pool[p])
    BY <1>1, <1>3 DEF StreamInv
  <2>3. Garbage(p) \notin Range(held[p])
    BY SMTT(30), <1>1, RowFacts DEF StreamType, Range
  <2>4. \A i \in DOMAIN pool[p] : pool[p][i] # Garbage(p)
    BY <2>2 DEF Range
  <2> QED BY <1>1, <1>2, <1>3, <1>5, <2>1, <2>2, <2>3, <2>4 DEF StreamInv, Aside, SortAside
<1>8. Conserved(p)'
  <2>1. Neat(p)'
    BY <1>2, <1>3 DEF Neat, Aside, SortAside
  <2>2. /\ Stored(p)["hand"] = {} /\ Stored(p)'["held"] = {} /\ Stored(p)'["hand"] = Stored(p)["held"]
    <3>1. Rows(hand[p]) = {} /\ Rows(held'[p]) = {} /\ Rows(hand'[p]) = Rows(held[p])
      BY <1>1, <1>2, <1>4
    <3> QED BY SMTT(30), <3>1, StoredAt, StoredNext
  <2>3. Moved(p, "held", "hand", Stored(p)["held"])
    BY <1>2, <2>2, SamePlaces DEF Moved, Places, Aside, SortAside
  <2> QED BY <1>2, <2>1, <2>3, MoveConserves DEF Aside, SortAside
<1>9. ASSUME Sorting PROVE OrderAt(p)' /\ ToCome(p)' \subseteq ToCome(p)
  <2>1. Left(p)' = Left(p)
    BY <1>1, <1>2, <1>3, AsideSort DEF Aside, SortAside
  <2>2. AfterHeld(p)' = AfterHeld(p) /\ AfterHand(p)' = AfterHeld(p)
    BY <1>2, <1>4, <2>1 DEF AfterHeld, AfterHand, Rows
  <2>3. AfterPool(p)' = AfterPool(p) /\ ToCome(p)' = ToCome(p)
    BY <1>1, <1>2, <1>4, <2>2 DEF AfterPool, AfterHand, ToCome, Rows
  <2> QED BY <1>2, <1>3, <1>4, <1>9, <2>1, <2>2, <2>3 DEF OrderAt, Aside, SortAside, InOrder, Rows, Before
<1> QED BY <1>1, <1>2, <1>3, <1>5, <1>6, <1>7, <1>8, <1>9, AsidePart

\* dataPublishToMaster fails.
LEMMA PublishFailsPart ==
  ASSUME TypeOK, NEW p \in Partition, Conserved(p), PartInv(p), PublishFails(p)
  PROVE  PartNext(p)
<1>1. Domains /\ SortType(p) /\ StreamType(p) /\ held[p] # <<>> /\ link[p] = "down"
  BY DEF TypeOK, PublishFails
<1>2. /\ Aside(p) /\ held'[p] = <<>> /\ link'[p] = link[p] /\ hand'[p] = hand[p]
      /\ out'[p] = out[p] /\ receiver'[p] = receiver[p] /\ pool'[p] = pool[p]
  BY <1>1 DEF PublishFails, Aside, SortAside, fixed, sort, receiving, master, Domains
<1>3. StreamInv(p) /\ SortInv(p) /\ ~Nothing(p) /\ (Sorting => OrderAt(p)) /\ Neat(p)
  BY <1>1, ConservedNeat DEF PartInv, Nothing
<1>4. Range(<<>>) = {} /\ Rows(<<>>) = {}
  BY Singles
<1>5. NoEnd(p) => NoEnd(p)'
  BY <1>2, <1>4 DEF NoEnd
<1>6. StreamType(p)'
  BY SMTT(30), <1>1, <1>2 DEF StreamType, RowOf, Row
<1>7. StreamInv(p)'
  BY SMTT(30), <1>1, <1>2, <1>3, <1>5 DEF StreamInv, Aside, SortAside
<1>8. Conserved(p)'
  <2>1. Neat(p)'
    BY <1>2, <1>3 DEF Neat, Aside, SortAside
  <2>2. Stored(p)'["held"] = {}
    <3>1. Rows(held'[p]) = {}
      BY <1>2, <1>4
    <3> QED BY <3>1, StoredNext
  <2>3. \A c \in Places : Stored(p)'[c] \subseteq Stored(p)[c]
    BY <1>2, <2>2, SamePlaces DEF Places, Aside, SortAside
  <2> QED BY <1>1, <1>2, <2>1, <2>3, DropConserves DEF Aside, SortAside
<1>9. ASSUME Sorting PROVE OrderAt(p)' /\ ToCome(p)' \subseteq ToCome(p)
  <2>1. Left(p)' = Left(p)
    BY <1>1, <1>2, <1>3, AsideSort DEF Aside, SortAside
  <2>2. AfterHeld(p)' = AfterHeld(p) /\ AfterHand(p)' \subseteq AfterHand(p)
    BY <1>2, <1>4, <2>1 DEF AfterHeld, AfterHand, Rows
  <2>3. AfterPool(p)' \subseteq AfterPool(p) /\ ToCome(p)' \subseteq ToCome(p)
    BY <1>1, <1>2, <2>2 DEF AfterPool, ToCome, Rows
  <2> QED BY <1>2, <1>3, <1>4, <1>9, <2>1, <2>2, <2>3 DEF OrderAt, Aside, SortAside, InOrder, Rows, Before
<1> QED BY <1>1, <1>2, <1>3, <1>5, <1>6, <1>7, <1>8, <1>9, AsidePart

\* The connection breaks between two messages, or the receiver stops at the break.
LEMMA BreakPart ==
  ASSUME TypeOK, NEW p \in Partition, Conserved(p), PartInv(p), Disconnect(p) \/ StopReceiving(p)
  PROVE  PartNext(p)
<1>1. Domains /\ SortType(p) /\ StreamType(p)
  BY DEF TypeOK
<1>2. /\ Aside(p) /\ held'[p] = held[p] /\ hand'[p] = hand[p] /\ out'[p] = out[p] /\ pool'[p] = pool[p]
      /\ link'[p] = "down" /\ receiver'[p] \in {"running", "stopped"}
  <2>1. CASE Disconnect(p)
    BY <1>1, <2>1 DEF Disconnect, Aside, SortAside, fixed, worker, sort, receiving, master, Domains, StreamType
  <2>2. CASE StopReceiving(p)
    BY <1>1, <2>2 DEF StopReceiving, Aside, SortAside, fixed, worker, sort, master, Domains
  <2> QED BY <2>1, <2>2
<1>3. StreamInv(p) /\ SortInv(p) /\ (Sorting => OrderAt(p)) /\ Neat(p)
  BY ConservedNeat DEF PartInv
<1>4. (NoEnd(p)' <=> NoEnd(p)) /\ (Nothing(p) => Nothing(p)')
  BY <1>2 DEF NoEnd, Nothing
<1>5. StreamType(p)'
  BY <1>1, <1>2 DEF StreamType, RowOf, Row
<1>6. StreamInv(p)'
  BY <1>2, <1>3, <1>4 DEF StreamInv, Aside, SortAside
<1>7. Conserved(p)'
  <2>1. Neat(p)'
    BY <1>2, <1>3 DEF Neat, Aside, SortAside
  <2>2. \A c \in Places : Stored(p)'[c] = Stored(p)[c]
    BY SMTT(30), <1>2, SamePlaces DEF Places, Aside, SortAside
  <2> QED BY <1>2, <2>1, <2>2, DropConserves DEF Aside, SortAside
<1>8. ASSUME Sorting PROVE OrderAt(p)' /\ ToCome(p)' \subseteq ToCome(p)
  <2>1. Left(p)' = Left(p)
    BY <1>1, <1>2, <1>3, <1>4, AsideSort DEF Aside, SortAside
  <2>2. AfterHeld(p)' = AfterHeld(p) /\ AfterHand(p)' = AfterHand(p) /\ AfterPool(p)' = AfterPool(p)
    BY <1>2, <2>1 DEF AfterHeld, AfterHand, AfterPool, Rows
  <2>3. ToCome(p)' \subseteq ToCome(p)
    BY <1>2 DEF ToCome, Rows
  <2> QED BY <1>2, <1>3, <1>8, <2>1, <2>2, <2>3 DEF OrderAt, Aside, SortAside, InOrder, Rows, Before
<1> QED BY <1>1, <1>2, <1>3, <1>4, <1>5, <1>6, <1>7, <1>8, AsidePart

\* The connection breaks inside a message.
LEMMA BreakInMessagePart ==
  ASSUME TypeOK, NEW p \in Partition, Conserved(p), PartInv(p), BreakInMessage(p)
  PROVE  PartNext(p)
<1>1. Domains /\ SortType(p) /\ StreamType(p) /\ held[p] # <<>> /\ hand[p] = <<>> /\ link[p] = "up"
  BY DEF TypeOK, BreakInMessage
<1>2. /\ Aside(p) /\ held'[p] = <<>> /\ hand'[p] = <<Garbage(p)>> /\ link'[p] = "down"
      /\ out'[p] = out[p] /\ receiver'[p] = receiver[p] /\ pool'[p] = pool[p]
  BY <1>1 DEF BreakInMessage, Aside, SortAside, fixed, sort, receiving, master, Domains
<1>3. StreamInv(p) /\ SortInv(p) /\ ~Nothing(p) /\ (Sorting => OrderAt(p)) /\ Neat(p)
  BY <1>1, ConservedNeat DEF PartInv, Nothing
<1>4. /\ Range(held'[p]) = {} /\ Rows(held'[p]) = {} /\ Rows(hand[p]) = {}
      /\ Range(hand'[p]) = {Garbage(p)} /\ Rows(hand'[p]) = {} /\ Garbage(p) # End
      /\ hand'[p] # <<End>>
  <2>1. Garbage(p) # End /\ Just(Garbage(p)) = {}
    BY RowFacts
  <2>2. Range(held'[p]) = {} /\ Rows(held'[p]) = {} /\ Rows(hand[p]) = {}
    BY <1>1, <1>2, Singles
  <2>3. Range(hand'[p]) = {Garbage(p)} /\ Rows(hand'[p]) = Just(Garbage(p))
    BY <1>2, Singles
  <2> QED BY SMTT(30), <1>2, <2>1, <2>2, <2>3
<1>5. NoEnd(p) => NoEnd(p)'
  BY <1>2, <1>4 DEF NoEnd
<1>6. StreamType(p)'
  <2>1. hand'[p] \in Seq(RowOf(p) \cup {End, Garbage(p)}) /\ Len(hand'[p]) <= 1
    BY SMTT(30), <1>2
  <2>2. held'[p] \in Seq(RowOf(p) \cup {End}) /\ Len(held'[p]) <= 1
    BY SMTT(30), <1>2
  <2> QED BY <1>1, <1>2, <2>1, <2>2 DEF StreamType, RowOf, Row, Garbage, End
<1>7. StreamInv(p)'
  <2>1. \A i \in DOMAIN pool[p] : pool[p][i] # End
    BY <1>1, <1>3 DEF StreamInv
  <2>2. \A i \in DOMAIN pool[p] : pool[p][i] # Garbage(p)
    BY <1>1, <1>3 DEF StreamInv, Range
  <2> QED BY <1>1, <1>2, <1>3, <1>4, <1>5, <2>1, <2>2 DEF StreamInv, Aside, SortAside
<1>8. Conserved(p)'
  <2>1. Neat(p)'
    BY <1>2, <1>3 DEF Neat, Aside, SortAside
  <2>2. Stored(p)'["held"] = {} /\ Stored(p)'["hand"] = {}
    BY <1>4, StoredNext
  <2>3. \A c \in Places : Stored(p)'[c] \subseteq Stored(p)[c]
    BY <1>2, <2>2, SamePlaces DEF Places, Aside, SortAside
  <2> QED BY <1>1, <1>2, <2>1, <2>3, DropConserves DEF Aside, SortAside
<1>9. ASSUME Sorting PROVE OrderAt(p)' /\ ToCome(p)' \subseteq ToCome(p)
  <2>1. Left(p)' = Left(p)
    BY <1>1, <1>2, <1>3, AsideSort DEF Aside, SortAside
  <2>2. AfterHeld(p)' = AfterHeld(p) /\ AfterHand(p)' \subseteq AfterHand(p)
    BY <1>2, <1>4, <2>1 DEF AfterHeld, AfterHand, Rows
  <2>3. AfterPool(p)' \subseteq AfterPool(p) /\ ToCome(p)' \subseteq ToCome(p)
    BY <1>1, <1>2, <1>4, <2>2 DEF AfterPool, ToCome, Rows
  <2> QED BY <1>2, <1>3, <1>4, <1>9, <2>1, <2>2, <2>3 DEF OrderAt, Aside, SortAside, InOrder, Rows, Before
<1> QED BY <1>1, <1>2, <1>3, <1>5, <1>6, <1>7, <1>8, <1>9, AsidePart

\* The receiver adds the row it holds.
LEMMA AddRowPart ==
  ASSUME TypeOK, NEW p \in Partition, Conserved(p), PartInv(p), AddRow(p)
  PROVE  PartNext(p)
<1> DEFINE x == Head(hand[p])
           S == RowOf(p) \cup {End, Garbage(p)}
<1>1. Domains /\ SortType(p) /\ StreamType(p) /\ hand[p] # <<>>
  BY DEF TypeOK, AddRow
<1>2. /\ Aside(p) /\ pool'[p] = pool[p] \o hand[p] /\ hand'[p] = <<>> /\ link'[p] = link[p]
      /\ out'[p] = out[p] /\ held'[p] = held[p] /\ receiver'[p] \in {"running", "stopped"}
  BY <1>1 DEF AddRow, Aside, SortAside, fixed, worker, sort, master, Domains, StreamType
<1>3. StreamInv(p) /\ SortInv(p) /\ ~Nothing(p) /\ (Sorting => OrderAt(p)) /\ Neat(p)
  BY <1>1, ConservedNeat DEF PartInv, Nothing
<1>4. hand[p] = <<x>> /\ x \in S
  BY <1>1, AtMostOne DEF StreamType
<1>5. pool[p] \in Seq(S) /\ pool[p] \o <<x>> = pool'[p]
  BY <1>1, <1>2, <1>4 DEF StreamType
<1> HIDE DEF x, S
<1>6. /\ pool'[p] = Append(pool[p], x) /\ pool'[p] \in Seq(S) /\ Len(pool'[p]) = Len(pool[p]) + 1
      /\ Range(pool'[p]) = Range(pool[p]) \cup {x}
      /\ \A i \in DOMAIN pool'[p] : \/ i \in DOMAIN pool[p] /\ pool'[p][i] = pool[p][i]
                                    \/ i = Len(pool[p]) + 1 /\ pool'[p][i] = x
      /\ Rows(pool'[p]) = Rows(pool[p]) \cup Just(x)
      /\ NoneTwice(pool[p]) /\ Just(x) \cap Rows(pool[p]) = {} => NoneTwice(pool'[p])
      /\ InOrder(pool[p]) /\ Before(Rows(pool[p]), Just(x)) => InOrder(pool'[p])
  <2> DEFINE s == pool[p]
  <2>1. s \in Seq(S) /\ s \o <<x>> = pool'[p]
    BY <1>5
  <2> HIDE DEF s
  <2>2. /\ Append(s, x) \in Seq(S) /\ Len(Append(s, x)) = Len(s) + 1 /\ s \o <<x>> = Append(s, x)
        /\ Range(Append(s, x)) = Range(s) \cup {x}
        /\ \A i \in DOMAIN Append(s, x) :
             \/ i \in DOMAIN s /\ Append(s, x)[i] = s[i]
             \/ i = Len(s) + 1 /\ Append(s, x)[i] = x
        /\ Rows(Append(s, x)) = Rows(s) \cup Just(x)
        /\ NoneTwice(s) /\ Just(x) \cap Rows(s) = {} => NoneTwice(Append(s, x))
        /\ InOrder(s) /\ Before(Rows(s), Just(x)) => InOrder(Append(s, x))
    BY SMTT(30), <1>4, <2>1, AddLast
  <2>3. pool'[p] = Append(s, x)
    BY <2>1, <2>2
  <2> QED BY <2>2, <2>3 DEF s
<1>7. /\ Range(hand[p]) = {x} /\ Rows(hand[p]) = Just(x) /\ Range(hand'[p]) = {} /\ Rows(hand'[p]) = {}
  BY <1>2, <1>4, Singles
<1>8. NoEnd(p)' <=> NoEnd(p)
  BY <1>2, <1>6, <1>7 DEF NoEnd
<1>9. StreamType(p)'
  <2>1. hand'[p] \in Seq(RowOf(p) \cup {End, Garbage(p)}) /\ Len(hand'[p]) <= 1
    BY SMTT(30), <1>2
  <2> QED BY <1>1, <1>2, <1>6, <2>1 DEF StreamType, RowOf, Row, Garbage, End, S
<1>10. StreamInv(p)'
  <2>1. /\ \A i \in DOMAIN pool[p] : pool[p][i] # End
        /\ \A i \in DOMAIN pool[p] : pool[p][i] # Garbage(p)
    BY <1>1, <1>3 DEF StreamInv
  <2>2. x = End => out[p] = <<>> /\ held[p] = <<>>
    BY <1>3, <1>4 DEF StreamInv
  <2>3. Garbage(p) \in Range(pool'[p]) => link[p] = "down"
    BY <1>3, <1>6, <1>7 DEF StreamInv
  <2>4. \A i \in DOMAIN pool'[p] : pool'[p][i] \in {End, Garbage(p)} => i = Len(pool'[p]) /\ pool'[p][i] = x
    BY <1>6, <2>1
  <2>5. hand'[p] # <<End>>
    BY SMTT(30), <1>2
  <2> QED BY <1>2, <1>3, <1>7, <1>8, <2>2, <2>3, <2>4, <2>5 DEF StreamInv, Aside, SortAside
<1>11. Conserved(p)'
  <2>1. Stored(p)["hand"] \cap Stored(p)["pool"] = {}
    BY ConservedNeat DEF Places
  <2>2. Just(x) \cap Rows(pool[p]) = {}
    BY <1>7, <2>1, StoredAt
  <2>3. Neat(p)'
    BY <1>2, <1>3, <1>6, <2>2 DEF Neat, Aside, SortAside
  <2>4. /\ Just(x) = Stored(p)["hand"] /\ Stored(p)'["hand"] = {}
        /\ Stored(p)'["pool"] = Stored(p)["pool"] \cup Just(x)
    BY <1>6, <1>7, StoredAt, StoredNext
  <2>5. Moved(p, "hand", "pool", Just(x))
    BY SMTT(30), <1>2, <2>4, SamePlaces DEF Moved, Places, Aside, SortAside
  <2> QED BY <1>2, <2>3, <2>5, MoveConserves DEF Aside, SortAside
<1>12. ASSUME Sorting PROVE OrderAt(p)' /\ ToCome(p)' \subseteq ToCome(p)
  <2>1. Left(p)' = Left(p)
    BY <1>1, <1>2, <1>3, AsideSort DEF Aside, SortAside
  <2>2. AfterHeld(p)' = AfterHeld(p) /\ AfterHand(p)' = AfterHand(p)
    BY <1>2, <2>1 DEF AfterHeld, AfterHand, Rows
  <2>3. AfterPool(p)' = AfterHand(p) /\ ToCome(p)' \subseteq ToCome(p) /\ AfterPool(p) = Just(x) \cup AfterHand(p)
    BY <1>2, <1>6, <1>7, <2>2 DEF AfterPool, ToCome, Rows
  <2>4. Before(Rows(pool[p]), Just(x)) /\ Before(Rows(pool'[p]), AfterHand(p))
    BY <1>3, <1>6, <1>7, <1>12, <2>3 DEF OrderAt, Before
  <2>5. InOrder(pool'[p])
    BY <1>3, <1>6, <1>12, <2>4 DEF OrderAt
  <2> QED BY <1>2, <1>3, <1>7, <1>12, <2>1, <2>2, <2>3, <2>4, <2>5 DEF OrderAt, Aside, SortAside, InOrder, Rows, Before
<1> QED BY <1>1, <1>2, <1>3, <1>8, <1>9, <1>10, <1>11, <1>12, AsidePart

-----------------------------------------------------------------------------
(* The whole system, when the threads of a partition move. *)

\* A partition that a step leaves alone.
LEMMA QuietPart ==
  ASSUME NEW q \in Partition, Quiet(q), UNCHANGED query
  PROVE  /\ Types(q) => Types(q)'
         /\ PartInv(q) => PartInv(q)'
         /\ Spent(q)' <=> Spent(q)
         /\ ToCome(q)' = ToCome(q)
         /\ Neat(q)' <=> Neat(q)
         /\ \A c \in Places \ {"reply", "queue"} : Stored(q)'[c] = Stored(q)[c]
<1>1. Types(q) => Types(q)'
  BY DEF Types, SortType, StreamType, RowOf, Row, Quiet
<1>2. /\ (NoEnd(q)' <=> NoEnd(q)) /\ (Nothing(q)' <=> Nothing(q))
      /\ (Ordered' <=> Ordered) /\ (Sorting' <=> Sorting)
  BY DEF NoEnd, Nothing, Quiet, Ordered, Sorting
<1>3. StreamInv(q) => StreamInv(q)'
  BY <1>2 DEF StreamInv, Quiet
<1>4. SortInv(q) => SortInv(q)'
  BY <1>2 DEF SortInv, Quiet
<1>5. \A c \in Places \ {"reply", "queue"} : Stored(q)'[c] = Stored(q)[c]
  BY SamePlaces DEF Places, Quiet
<1>6. Left(q)' = Left(q)
  BY <1>5 DEF Left, Quiet, Places
<1>7. AfterHeld(q)' = AfterHeld(q) /\ AfterHand(q)' = AfterHand(q) /\ AfterPool(q)' = AfterPool(q)
  BY <1>6 DEF AfterHeld, AfterHand, AfterPool, Rows, Quiet
<1>8. ToCome(q)' = ToCome(q)
  BY <1>7 DEF ToCome, Rows, Quiet
<1>9. OrderAt(q) => OrderAt(q)'
  BY <1>6, <1>7 DEF OrderAt, InOrder, Before, Rows, Quiet
<1>10. Neat(q)' <=> Neat(q)
  BY DEF Neat, Quiet
<1> QED BY <1>1, <1>2, <1>3, <1>4, <1>5, <1>8, <1>9, <1>10 DEF PartInv, Spent, Quiet

\* ... has its rows conserved when the master does not touch them.
LEMMA QuietConserved ==
  ASSUME NEW q \in Partition, Quiet(q), UNCHANGED <<query, table>>, Conserved(q),
         pc = "terminated" => pc' = "terminated",
         From(q, Rows(reply')) = From(q, Rows(reply)), From(q, mergeQueue') = From(q, mergeQueue)
  PROVE  Conserved(q)'
<1>1. Neat(q)'
  BY ConservedNeat, QuietPart
<1>2. Stored(q)'["reply"] = Stored(q)["reply"] /\ Stored(q)'["queue"] = Stored(q)["queue"]
  BY SMTT(30), StoredAt, StoredNext
<1>3. \A c \in Places \ {"reply", "queue"} : Stored(q)'[c] = Stored(q)[c]
  BY QuietPart
<1>4. \A c \in Places : Stored(q)'[c] = Stored(q)[c]
  BY <1>2, <1>3
<1> QED BY <1>1, <1>4, DropConserves DEF Quiet

LOCAL INSTANCE Induction

\* Counting partitions.
LEMMA Counting ==
  ASSUME NEW k \in Nat, NEW S, NEW T, S \subseteq T, T \subseteq Partition, AtLeast(k, S)
  PROVE  /\ AtLeast(k, T)
         /\ k >= N => S = Partition
         /\ \A c \in T \ S : AtLeast(k + 1, T)
<1>1. PICK f \in [1..k -> S] : \A i, j \in 1..k : f[i] = f[j] => i = j
  BY DEF AtLeast, Injection, IsInjective
<1>2. AtLeast(k, T)
  <2>1. f \in [1..k -> T]
    BY <1>1
  <2> QED BY <1>1, <2>1 DEF AtLeast, Injection, IsInjective
<1>3. ASSUME k >= N PROVE S = Partition
  <2> DEFINE g == [i \in 1..N |-> f[i]]
  <2>1. N \in Nat /\ \A i \in 1..N : i \in 1..k
    BY SMTT(30), <1>3, QueryAssumption
  <2>2. g \in [1..N -> 1..N]
    BY <1>1, <2>1 DEF Partition
  <2>3. \A i, j \in 1..N : g[i] = g[j] => i = j
    BY <1>1, <2>1
  <2>4. \A c \in 1..N : \E i \in 1..N : g[i] = c
    <3> HIDE DEF g
    <3> QED BY <2>1, <2>2, <2>3, Pigeonhole
  <2>5. \A i \in 1..N : g[i] \in S
    BY <1>1, <2>1
  <2> HIDE DEF g
  <2> QED BY <2>4, <2>5 DEF Partition
<1>4. ASSUME NEW c \in T \ S PROVE AtLeast(k + 1, T)
  <2> DEFINE g == [i \in 1..k + 1 |-> IF i = k + 1 THEN c ELSE f[i]]
  <2>1. \A i \in 1..k + 1 : i = k + 1 \/ (i \in 1..k /\ i # k + 1)
    BY SMTT(30)
  <2>2. g \in [1..k + 1 -> T]
    BY <1>1, <2>1
  <2>3. \A i, j \in 1..k + 1 : g[i] = g[j] => i = j
    BY SMTT(30), <1>1, <1>4, <2>1
  <2> HIDE DEF g
  <2> QED BY <2>2, <2>3 DEF AtLeast, Injection, IsInjective
<1> QED BY <1>2, <1>3, <1>4

\* A step of a partition's threads, or of none, keeps the whole invariant.
LEMMA WorkerNext ==
  ASSUME CypherInv, NEW p \in Partition, Elsewhere(p), UNCHANGED <<query, table, master>>, PartNext(p)
  PROVE  CypherInv'
<1>1. UNCHANGED <<pc, cursor, mergeQueue, closeFlag, reply>> /\ (Sorting' <=> Sorting) /\ (Ordered' <=> Ordered)
  BY DEF master, Sorting, Ordered
<1>2. \A q \in Partition : Types(q)' /\ PartInv(q)' /\ Conserved(q)' /\ Calm(q)
  <2>1. SUFFICES ASSUME NEW q \in Partition, q # p
                 PROVE  Types(q)' /\ PartInv(q)' /\ Conserved(q)' /\ Calm(q)
    BY DEF PartNext
  <2>2. Quiet(q) /\ Types(q) /\ PartInv(q) /\ Conserved(q)
    BY <2>1 DEF Elsewhere, CypherInv, TypeOK, Types, RowsConserved
  <2>3. Types(q)' /\ PartInv(q)' /\ (Spent(q)' <=> Spent(q)) /\ ToCome(q)' = ToCome(q)
    BY <2>2, QuietPart
  <2>4. Conserved(q)'
    BY <1>1, <2>2, QuietConserved
  <2> QED BY <2>2, <2>3, <2>4 DEF Calm, Quiet
<1>3. TypeOK'
  <2>1. MasterType'
    BY <1>1 DEF MasterType, CypherInv, TypeOK, Elsewhere, Steps, Ordered, Range
  <2> QED BY <1>2, <2>1 DEF TypeOK, Types, Elsewhere
<1>4. RowsConserved'
  BY <1>1, <1>2 DEF RowsConserved, CypherInv
<1>5. \A q \in Partition : /\ Started(q)' <=> Started(q)
                           /\ Awaited(q)' <=> Awaited(q)
                           /\ Queued(q)' <=> Queued(q)
  BY <1>1 DEF Started, Awaited, Queued
<1>6. \A q \in Partition : /\ Spent(q) => Spent(q)'
                           /\ link'[q] = "up" => link[q] = "up" /\ (Spent(q)' => Spent(q))
                           /\ phase'[q] = "reading" => phase[q] = "reading"
                           /\ Sorting /\ phase[q] # "reading" => ToCome(q)' \subseteq ToCome(q)
  BY <1>2 DEF Calm
<1>7. MasterInv'
  <2> DEFINE S == {q \in Partition : Spent(q)}
             T == {q \in Partition : Spent(q)'}
  <2>1. AtLeast(closeFlag', T)
    <3>1. S \subseteq T /\ T \subseteq Partition
      BY <1>6
    <3>2. AtLeast(closeFlag, S) /\ closeFlag \in Nat
      BY DEF CypherInv, MasterInv, TypeOK, MasterType
    <3> HIDE DEF S, T
    <3> QED BY <1>1, <3>1, <3>2, Counting
  <2>2. /\ pc' \in {"join", "responded"} => \A q \in Partition : link'[q] = "up" => Spent(q)'
        /\ pc' = "first" => reply' = <<>>
        /\ \A r, s \in mergeQueue' : r.part = s.part => r = s
    BY <1>1, <1>6 DEF CypherInv, MasterInv
  <2>3. ASSUME NEW q \in Partition
        PROVE  /\ Queued(q)' => Ordered' /\ Started(q)' /\ ~Awaited(q)'
               /\ Queued(q)' /\ link'[q] = "up" => ~Spent(q)'
               /\ Ordered' /\ Started(q)' => phase'[q] # "reading"
               /\ pc' \in {"first", "merge", "next"} /\ Started(q)' /\ ~Awaited(q)' /\ link'[q] = "up" =>
                    Queued(q)' \/ Spent(q)'
    BY <1>1, <1>5, <1>6, <2>3 DEF CypherInv, MasterInv
  <2> QED BY <2>1, <2>2, <2>3 DEF MasterInv
<1>8. Sorting' => MergeInv'
  <2>1. SUFFICES ASSUME Sorting, MergeInv PROVE MergeInv'
    BY <1>1 DEF CypherInv
  <2>2. \A q \in Partition : Started(q) => ToCome(q)' \subseteq ToCome(q)
    <3>1. Ordered
      BY <2>1 DEF Ordered, Sorting
    <3> QED BY <1>6, <2>1, <3>1 DEF CypherInv, MasterInv
  <2>3. \A q \in Partition : Awaited(q) => Started(q)
    BY DEF Awaited, Started
  <2>4. \A q \in Partition :
          /\ pc' \in {"first", "merge", "next"} /\ Started(q)' /\ ~Awaited(q)' =>
               Queued(q)' \/ ToCome(q)' = {}
          /\ Awaited(q)' => Before(Rows(reply'), ToCome(q)')
    BY <1>1, <1>5, <2>1, <2>2, <2>3 DEF MergeInv, Before
  <2>5. ASSUME NEW r \in mergeQueue PROVE r.part \in Partition /\ Before({r}, ToCome(r.part)')
    <3>1. PICK q : q = r.part
      OBVIOUS
    <3>2. q \in Partition
      BY <3>1 DEF CypherInv, TypeOK, MasterType, Row
    <3>3. Started(q)
      BY <3>1, <3>2 DEF CypherInv, MasterInv, Queued
    <3>4. Before({r}, ToCome(q))
      BY <2>1, <3>1 DEF MergeInv
    <3>5. Before({r}, ToCome(q)')
      BY <2>2, <3>2, <3>3, <3>4 DEF Before
    <3> QED BY <3>1, <3>2, <3>5
  <2> QED BY <1>1, <2>1, <2>4, <2>5 DEF MergeInv, Before, InOrder, Rows
<1> QED BY <1>2, <1>3, <1>4, <1>7, <1>8 DEF CypherInv

\* Stuttering.
LEMMA UnchangedNext ==
  ASSUME CypherInv, UNCHANGED vars
  PROVE  CypherInv'
<1> DEFINE p == 1
<1>0. p \in Partition
  BY SMTT(30), QueryAssumption DEF Partition
<1> HIDE DEF p
<1>1. UNCHANGED <<query, table, rest, heap, usage, runs, phase, out, held, link, hand, receiver, pool,
                  pc, cursor, mergeQueue, closeFlag, reply, lost>>
  BY DEF vars, fixed, worker, sort, receiving, master
<1>2. Elsewhere(p) /\ Quiet(p)
  BY <1>1 DEF Elsewhere, Quiet, Domains, CypherInv, TypeOK
<1>3. Types(p)' /\ PartInv(p)' /\ (Spent(p)' <=> Spent(p)) /\ ToCome(p)' = ToCome(p)
  BY <1>0, <1>1, <1>2, QuietPart DEF CypherInv, TypeOK, Types
<1>4. Conserved(p)'
  BY <1>0, <1>1, <1>2, QuietConserved DEF CypherInv, RowsConserved
<1>5. PartNext(p)
  BY <1>1, <1>3, <1>4 DEF PartNext, Calm
<1> QED BY <1>0, <1>1, <1>2, <1>5, WorkerNext DEF master

\* A step of one of a partition's threads.
LEMMA ThreadNext ==
  ASSUME CypherInv, NEW p \in Partition,
         Operators(p) \/ Handler(p) \/ Receiver(p) \/ Disconnect(p) \/ BreakInMessage(p)
  PROVE  CypherInv'
<1>1. TypeOK /\ Conserved(p) /\ PartInv(p)
  BY DEF CypherInv, RowsConserved
<1>2. Elsewhere(p) /\ UNCHANGED <<query, table, master>>
  BY <1>1, WorkerElsewhere
<1>3. PartNext(p)
  <2>1. CASE Operators(p)
    BY <1>1, <2>1, ForwardPart, ReadRowPart, ReadEndPart, DrainHeapPart, MergeRunsPart DEF Operators
  <2>2. CASE Handler(p)
    BY <1>1, <2>2, TakeRowPart, PublishPart, PublishFailsPart DEF Handler
  <2>3. CASE Receiver(p) \/ Disconnect(p) \/ BreakInMessage(p)
    BY <1>1, <2>3, AddRowPart, BreakPart, BreakInMessagePart DEF Receiver
  <2> QED BY <2>1, <2>2, <2>3
<1> QED BY <1>2, <1>3, WorkerNext

-----------------------------------------------------------------------------
(* The master. *)

\* Everything of partition c but its buffer stays as it is.
PoolOnly(c) ==
  /\ SortAside(c) /\ out'[c] = out[c] /\ held'[c] = held[c] /\ hand'[c] = hand[c]
  /\ link'[c] = link[c] /\ receiver'[c] = receiver[c]

\* What the master gets with the row x from the buffer of partition c.
Took(c, x) ==
  /\ x \in RowOf(c) \cup {End, Garbage(c)} /\ Types(c)' /\ PartInv(c)' /\ Neat(c)'
  /\ Rows(pool[c]) = Just(x) \cup Rows(pool'[c]) /\ x \notin Rows(pool'[c])
  /\ Ordered => phase[c] # "reading"
  /\ link[c] = "up" => ~Spent(c)
  /\ x = End => Spent(c)' /\ ~Spent(c)
  /\ x # End => (Spent(c)' <=> Spent(c))
  /\ x = Garbage(c) => link[c] = "down"
  /\ x \notin RowOf(c) => ToCome(c)' = {}
  /\ Just(x) \subseteq ToCome(c) /\ ToCome(c)' \subseteq ToCome(c)
  /\ Sorting => Before(Just(x), ToCome(c)')

\* Taking the first row of a buffer.
LEMMA TakePool ==
  ASSUME TypeOK, NEW c \in Partition, Conserved(c), PartInv(c), PoolOnly(c),
         NEW x, x = Head(pool[c]), pool[c] # <<>>, pool'[c] = Tail(pool[c])
  PROVE  Took(c, x)
<1> DEFINE S == RowOf(c) \cup {End, Garbage(c)}
           s == pool[c]
           t == pool'[c]
<1>1. SortType(c) /\ StreamType(c) /\ StreamInv(c) /\ SortInv(c) /\ (Sorting => OrderAt(c)) /\ ~Nothing(c) /\ Neat(c)
  BY ConservedNeat DEF TypeOK, PartInv, Nothing
<1>2. s \in Seq(S) /\ s # <<>> /\ x = Head(s) /\ t = Tail(s) /\ NoneTwice(s)
  BY <1>1 DEF StreamType, Neat
<1>3. SortAside(c) /\ out'[c] = out[c] /\ held'[c] = held[c] /\ hand'[c] = hand[c]
      /\ link'[c] = link[c] /\ receiver'[c] = receiver[c] /\ phase'[c] = phase[c]
  BY DEF PoolOnly, SortAside
<1> HIDE DEF S, s, t
<1>4. /\ Len(s) \in Nat \ {0} /\ x = s[1] /\ x \in S /\ 1 \in DOMAIN s
      /\ t \in Seq(S) /\ Len(t) = Len(s) - 1
      /\ \A i \in DOMAIN t : i \in Nat \ {0} /\ i + 1 \in DOMAIN s /\ t[i] = s[i + 1]
      /\ Range(s) = {x} \cup Range(t)
  <2>1. /\ Len(s) \in Nat \ {0} /\ Head(s) = s[1] /\ Head(s) \in S /\ 1 \in DOMAIN s
        /\ Tail(s) \in Seq(S) /\ Len(Tail(s)) = Len(s) - 1
        /\ \A i \in DOMAIN Tail(s) : i \in Nat \ {0} /\ i + 1 \in DOMAIN s /\ Tail(s)[i] = s[i + 1]
        /\ \A i \in DOMAIN s : i \in Nat \ {0} /\ (i = 1 \/ i - 1 \in DOMAIN Tail(s))
        /\ Range(s) = {Head(s)} \cup Range(Tail(s))
    <3>1. s \in Seq(S) /\ s # <<>>
      BY <1>2
    <3> QED BY <3>1, HeadTail
  <2>2. x = Head(s) /\ t = Tail(s)
    BY <1>2
  <2> QED BY <2>1, <2>2
<1>5. /\ Rows(s) = Just(x) \cup Rows(t) /\ NoneTwice(t) /\ x \notin Rows(t)
      /\ InOrder(s) => InOrder(t) /\ Before(Just(x), Rows(t))
  BY <1>2, TakeHead
<1>6. /\ \A i \in DOMAIN s : s[i] = End => i = Len(s) /\ out[c] = <<>> /\ held[c] = <<>> /\ hand[c] = <<>>
      /\ \A i \in DOMAIN s : s[i] = Garbage(c) => i = Len(s) /\ hand[c] = <<>>
      /\ Garbage(c) \in Range(s) => link[c] = "down"
  BY <1>1 DEF StreamInv, s
<1>7. x \in {End, Garbage(c)} => t = <<>> /\ hand[c] = <<>>
  <2>1. x \in {End, Garbage(c)} => Len(s) = 1 /\ hand[c] = <<>>
    BY <1>4, <1>6
  <2>2. Len(s) = 1 => Len(t) = 0
    BY SMTT(30), <1>4
  <2> QED BY SMTT(30), <1>4, <2>1, <2>2
<1>8. x = End => /\ out[c] = <<>> /\ held[c] = <<>> /\ phase[c] = "done" /\ NoEnd(c)' /\ ~NoEnd(c)
  <2>1. SUFFICES ASSUME x = End
                 PROVE  out[c] = <<>> /\ held[c] = <<>> /\ phase[c] = "done" /\ NoEnd(c)' /\ ~NoEnd(c)
    OBVIOUS
  <2>2. out[c] = <<>> /\ held[c] = <<>> /\ hand[c] = <<>> /\ t = <<>>
    BY <1>4, <1>6, <1>7, <2>1
  <2>3. ~NoEnd(c)
    BY <1>4, <2>1 DEF NoEnd, s
  <2>4. NoEnd(c)'
    BY <1>3, <2>2, Singles DEF NoEnd, t
  <2> QED BY <1>1, <2>2, <2>3, <2>4 DEF StreamInv
<1>9. x # End => (NoEnd(c)' <=> NoEnd(c))
  BY <1>3, <1>4 DEF NoEnd, s, t
<1>10. x = Garbage(c) => link[c] = "down"
  BY <1>4, <1>6
<1>11. SortType(c)' /\ SortInv(c)' /\ Left(c)' = Left(c) /\ (Sorting' <=> Sorting)
  BY <1>1, <1>3, AsideSort
<1>12. StreamType(c)'
  BY <1>1, <1>3, <1>4 DEF StreamType, RowOf, Row, Garbage, End, S, t
<1>13. StreamInv(c)'
  <2>1. \A i \in DOMAIN t : t[i] = End => i = Len(t) /\ out[c] = <<>> /\ held[c] = <<>> /\ hand[c] = <<>>
    BY SMTT(30), <1>4, <1>6
  <2>2. \A i \in DOMAIN t : t[i] = Garbage(c) => i = Len(t) /\ hand[c] = <<>>
    BY SMTT(30), <1>4, <1>6
  <2>3. Garbage(c) \in Range(hand[c]) \cup Range(t) => link[c] = "down"
    BY <1>1, <1>4, <1>6 DEF StreamInv
  <2>4. NoEnd(c) => NoEnd(c)'
    BY <1>8, <1>9
  <2>5. phase[c] = "done" /\ link[c] = "up" /\ NoEnd(c)' => x = End
    BY <1>1, <1>9 DEF StreamInv
  <2>6. x = End => Nothing(c)'
    BY <1>3, <1>7, <1>8 DEF Nothing, t
  <2> QED BY <1>1, <1>3, <2>1, <2>2, <2>3, <2>4, <2>5, <2>6 DEF StreamInv, t
<1>14. AfterHand(c)' = AfterHand(c) /\ AfterPool(c)' = AfterPool(c) /\ AfterHeld(c)' = AfterHeld(c)
  BY <1>3, <1>11 DEF AfterHand, AfterHeld, AfterPool, Rows
<1>15. ToCome(c) = Just(x) \cup ToCome(c)'
  BY <1>3, <1>5, <1>14 DEF ToCome, Rows, s, t
<1>16. x \notin RowOf(c) => ToCome(c)' = {}
  <2>1. x = End => AfterHand(c) = {}
    BY <1>8, Singles DEF AfterHand, AfterHeld, Left
  <2>2. x \notin RowOf(c) => x \in {End, Garbage(c)}
    BY <1>4 DEF S
  <2>3. x \notin RowOf(c) => Rows(t) = {} /\ Rows(hand[c]) = {}
    BY <1>7, <2>2, Singles
  <2>4. ToCome(c)' = Rows(t) \cup Rows(hand[c]) \cup (IF link[c] = "up" THEN AfterHand(c) ELSE {})
    BY <1>3, <1>14 DEF ToCome, Rows, t
  <2> QED BY <1>10, <2>1, <2>2, <2>3, <2>4
<1>17. Sorting => OrderAt(c)' /\ Before(Just(x), ToCome(c)')
  <2>1. SUFFICES ASSUME Sorting, OrderAt(c) PROVE OrderAt(c)' /\ Before(Just(x), ToCome(c)')
    BY <1>1
  <2>2. InOrder(t) /\ Before(Just(x), Rows(t)) /\ Before(Rows(s), AfterPool(c))
    BY <1>5, <2>1 DEF OrderAt, s
  <2>3. ToCome(c)' \subseteq Rows(t) \cup AfterPool(c)
    BY <1>3, <1>14 DEF ToCome, AfterPool, Rows, t
  <2>4. Before(Just(x), ToCome(c)') /\ Before(Rows(t), AfterPool(c))
    BY <1>5, <2>2, <2>3 DEF Before
  <2>5. OrderAt(c)'
    BY <1>3, <1>11, <1>14, <2>1, <2>2, <2>4 DEF OrderAt, SortAside, InOrder, Rows, Before, t
  <2> QED BY <2>4, <2>5
<1>18. Neat(c)'
  BY <1>1, <1>3, <1>5 DEF Neat, SortAside, t
<1>19. (Ordered => phase[c] # "reading") /\ (link[c] = "up" => ~Spent(c))
  BY <1>1 DEF SortInv, StreamInv, Spent
<1>20. x \in RowOf(c) \cup {End, Garbage(c)} /\ Rows(pool[c]) = Just(x) \cup Rows(pool'[c]) /\ x \notin Rows(pool'[c])
  BY <1>4, <1>5 DEF S, s, t
<1> QED BY <1>3, <1>8, <1>9, <1>10, <1>11, <1>12, <1>13, <1>15, <1>16, <1>17, <1>18, <1>19, <1>20
        DEF Took, Types, PartInv, Spent

\* A step of the master: partition c alone may have lost the first row of its buffer.
AtMaster(c) ==
  /\ c \in Partition /\ c = cursor /\ Domains' /\ PoolOnly(c) /\ \A q \in Partition \ {c} : Quiet(q)
  /\ UNCHANGED <<query, table, link, phase, lost>>

\* Every step of the thread of execute is such a step.
LEMMA MasterAt ==
  ASSUME TypeOK, Master \/ WriteFails, NEW c, c = cursor
  PROVE  /\ AtMaster(c)
         /\ pool' = pool => \A q \in Partition : Quiet(q)
<1>1. c \in Partition /\ Elsewhere(c) /\ UNCHANGED <<query, table, worker, link, hand, receiver, lost>>
  BY MasterElsewhere DEF TypeOK, MasterType
<1> QED BY <1>1 DEF AtMaster, Elsewhere, PoolOnly, SortAside, Quiet, worker, sort

\* A row taken from a buffer is written to the client or put in the queue: none is lost.
LEMMA TakeConserves ==
  ASSUME CypherInv, NEW c, AtMaster(c), NEW x, Took(c, x), pc # "terminated",
         \/ Rows(reply') = Rows(reply) \cup Just(x) /\ mergeQueue' = mergeQueue
         \/ reply' = reply /\ mergeQueue' = mergeQueue \cup Just(x)
  PROVE  \A q \in Partition : Conserved(q)'
<1>1. c \in Partition /\ UNCHANGED <<query, table, link>> /\ PoolOnly(c) /\ \A q \in Partition : Conserved(q)
  BY DEF AtMaster, CypherInv, RowsConserved
<1>2. \A r \in Just(x) : r.part = c /\ r.n # 0
  BY <1>1, RowIfAny DEF Took
<1>3. ASSUME NEW q \in Partition \ {c} PROVE Conserved(q)'
  <2>1. From(q, Rows(reply')) = From(q, Rows(reply)) /\ From(q, mergeQueue') = From(q, mergeQueue)
    BY <1>2 DEF From
  <2> QED BY <1>1, <2>1, QuietConserved DEF AtMaster
<1>4. /\ Stored(c)'["hand"] = Stored(c)["hand"] /\ Stored(c)'["held"] = Stored(c)["held"]
      /\ Stored(c)'["out"] = Stored(c)["out"] /\ Stored(c)'["runs"] = Stored(c)["runs"]
      /\ Stored(c)'["heap"] = Stored(c)["heap"] /\ Stored(c)'["rest"] = Stored(c)["rest"]
  BY <1>1, SamePlaces DEF PoolOnly, SortAside
<1>5. Just(x) \subseteq Stored(c)["pool"] /\ Stored(c)'["pool"] = Stored(c)["pool"] \ Just(x)
  <2>1. Stored(c)["pool"] = Rows(pool[c]) /\ Stored(c)'["pool"] = Rows(pool'[c])
    BY StoredAt, StoredNext
  <2> QED BY SMTT(30), <2>1 DEF Took, Just
<1>6. CASE Rows(reply') = Rows(reply) \cup Just(x) /\ mergeQueue' = mergeQueue
  <2>1. From(c, Rows(reply')) = From(c, Rows(reply)) \cup Just(x)
    BY <1>2, <1>6 DEF From
  <2>2. Stored(c)'["reply"] = Stored(c)["reply"] \cup Just(x) /\ Stored(c)'["queue"] = Stored(c)["queue"]
    <3>1. /\ Stored(c)["reply"] = From(c, Rows(reply)) /\ Stored(c)'["reply"] = From(c, Rows(reply'))
          /\ Stored(c)["queue"] = From(c, mergeQueue) /\ Stored(c)'["queue"] = From(c, mergeQueue')
      BY StoredAt, StoredNext
    <3> QED BY <1>6, <2>1, <3>1
  <2>3. Moved(c, "pool", "reply", Just(x))
    BY <1>4, <1>5, <2>2 DEF Moved, Places
  <2>4. Conserved(c)'
    BY <1>1, <2>3, MoveConserves DEF Took
  <2> QED BY <1>3, <2>4
<1>7. CASE reply' = reply /\ mergeQueue' = mergeQueue \cup Just(x)
  <2>1. From(c, mergeQueue') = From(c, mergeQueue) \cup Just(x)
    BY <1>2, <1>7 DEF From
  <2>2. Stored(c)'["queue"] = Stored(c)["queue"] \cup Just(x) /\ Stored(c)'["reply"] = Stored(c)["reply"]
    <3>1. /\ Stored(c)["reply"] = From(c, Rows(reply)) /\ Stored(c)'["reply"] = From(c, Rows(reply'))
          /\ Stored(c)["queue"] = From(c, mergeQueue) /\ Stored(c)'["queue"] = From(c, mergeQueue')
      BY StoredAt, StoredNext
    <3> QED BY <1>7, <2>1, <3>1
  <2>3. Moved(c, "pool", "queue", Just(x))
    BY <1>4, <1>5, <2>2 DEF Moved, Places
  <2>4. Conserved(c)'
    BY <1>1, <2>3, MoveConserves DEF Took
  <2> QED BY <1>3, <2>4
<1> QED BY <1>6, <1>7

\* The master never counts a close flag that no partition has sent.
LEMMA CountSpent ==
  ASSUME CypherInv, NEW c, AtMaster(c), NEW x, Took(c, x), Count(x)
  PROVE  /\ closeFlag' \in Nat /\ AtLeast(closeFlag', {q \in Partition : Spent(q)'})
         /\ closeFlag' >= N => \A q \in Partition : Spent(q)'
<1> DEFINE S == {q \in Partition : Spent(q)}
           T == {q \in Partition : Spent(q)'}
<1>1. c \in Partition /\ \A q \in Partition \ {c} : Spent(q)' <=> Spent(q)
  BY QuietPart DEF AtMaster
<1>2. closeFlag \in Nat /\ AtLeast(closeFlag, S)
  BY DEF CypherInv, TypeOK, MasterType, MasterInv
<1>3. /\ x = End => T = S \cup {c} /\ c \in Partition \ S
      /\ x # End => T = S
  BY <1>1 DEF Took
<1>4. S \subseteq T /\ T \subseteq T /\ T \subseteq Partition
  BY <1>3
<1> HIDE DEF S, T
<1>5. AtLeast(closeFlag, T) /\ \A d \in T \ S : AtLeast(closeFlag + 1, T)
  BY <1>2, <1>4, Counting
<1>6. closeFlag' \in Nat /\ AtLeast(closeFlag', T)
  BY SMTT(30), <1>2, <1>3, <1>5 DEF Count, IsEnd
<1>7. closeFlag' >= N => T = Partition
  BY <1>4, <1>6, Counting
<1> QED BY <1>6, <1>7 DEF T

\* What the invariant says of the partitions after a row was taken.
LEMMA TakeParts ==
  ASSUME CypherInv, NEW c, AtMaster(c), NEW x, Took(c, x)
  PROVE  \A q \in Partition : Types(q)' /\ PartInv(q)'
<1>1. ASSUME NEW q \in Partition \ {c} PROVE Types(q)' /\ PartInv(q)'
  BY QuietPart DEF AtMaster, CypherInv, TypeOK, Types
<1> QED BY <1>1 DEF Took

\* The rows a partition may still send are rows.
LEMMA ToComeRows ==
  ASSUME NEW q \in Partition, Types(q)
  PROVE  ToCome(q) \subseteq RowOf(q)
<1>1. ASSUME NEW s \in Seq(RowOf(q) \cup {End, Garbage(q)}) PROVE Rows(s) \subseteq RowOf(q)
  BY SMTT(30), RowFacts DEF Rows, Range
<1>2. Rows(pool[q]) \subseteq RowOf(q) /\ Rows(hand[q]) \subseteq RowOf(q)
  BY <1>1 DEF Types, StreamType
<1>3. ASSUME NEW s \in Seq(RowOf(q) \cup {End}) PROVE Rows(s) \subseteq RowOf(q)
  BY SMTT(30), RowFacts DEF Rows, Range
<1>4. Rows(held[q]) \subseteq RowOf(q) /\ Rows(out[q]) \subseteq RowOf(q)
  BY <1>3 DEF Types, StreamType
<1>5. AllRows(runs[q]) \subseteq RowOf(q)
  BY SMTT(30) DEF Types, SortType, AllRows, Rows, Range
<1>6. Left(q) \subseteq RowOf(q)
  BY <1>5, StoredAt DEF Left, Types, SortType
<1> QED BY <1>2, <1>4, <1>6 DEF ToCome, AfterHand, AfterHeld

\* The merge looks at the buffer of partition c, for the first time or once more.
Looked(c) ==
  /\ Ordered /\ pc \in {"first", "next"} /\ pc' \in {"first", "merge", "join"}
  /\ pc' = "first" => pc = "first"
  /\ pc' = "join" => closeFlag' >= N
  /\ Awaited(c) \/ (pc = "first" /\ ~Started(c))
  /\ \A q \in Partition : /\ Started(q)' <=> Started(q) \/ q = c
                          /\ ~Awaited(q)'
                          /\ Awaited(q) => q = c

\* A row that enters the priority queue leaves it in order.
LEMMA PushInv ==
  ASSUME CypherInv, NEW c, AtMaster(c), NEW x, Took(c, x), Count(x), Looked(c),
         mergeQueue' = mergeQueue \cup Just(x), reply' = reply
  PROVE  MasterInv' /\ (Sorting => MergeInv')
<1>1. /\ c \in Partition /\ link' = link /\ phase' = phase /\ (Ordered' <=> Ordered) /\ MasterInv
      /\ Ordered /\ MasterType
  BY DEF AtMaster, Ordered, CypherInv, Looked, TypeOK
<1>2. \A q \in Partition \ {c} : (Spent(q)' <=> Spent(q)) /\ ToCome(q)' = ToCome(q)
  BY QuietPart DEF AtMaster
<1>3. ~Queued(c)
  BY <1>1 DEF MasterInv, Looked
<1>4. \A r \in mergeQueue : r.part # c /\ r.part \in Partition
  BY <1>1, <1>3 DEF Queued, MasterType, Row
<1>5. /\ x \in RowOf(c) => Just(x) = {x} /\ x.part = c /\ x # End
      /\ x \notin RowOf(c) => Just(x) = {} /\ x \in {End, Garbage(c)}
  BY <1>1, RowFacts DEF Took
<1>6. \A q \in Partition : Queued(q)' <=> (Queued(q) \/ (q = c /\ x \in RowOf(c)))
  BY <1>5 DEF Queued
<1>7. MasterInv'
  <2>1. /\ AtLeast(closeFlag', {q \in Partition : Spent(q)'})
        /\ closeFlag' >= N => \A q \in Partition : Spent(q)'
    BY CountSpent
  <2>2. pc' \in {"join", "responded"} => \A q \in Partition : link'[q] = "up" => Spent(q)'
    BY <2>1 DEF Looked
  <2>3. pc' = "first" => reply' = <<>>
    BY <1>1 DEF Looked, MasterInv
  <2>4. \A r, s \in mergeQueue' : r.part = s.part => r = s
    BY <1>1, <1>4, <1>5 DEF MasterInv
  <2>5. ASSUME NEW q \in Partition
        PROVE  /\ Queued(q)' => Ordered' /\ Started(q)' /\ ~Awaited(q)'
               /\ Queued(q)' /\ link'[q] = "up" => ~Spent(q)'
               /\ Ordered' /\ Started(q)' => phase'[q] # "reading"
               /\ pc' \in {"first", "merge", "next"} /\ Started(q)' /\ ~Awaited(q)' /\ link'[q] = "up" =>
                    Queued(q)' \/ Spent(q)'
    <3>1. CASE q = c
      BY <1>1, <1>3, <1>5, <1>6, <3>1 DEF Took, Looked
    <3>2. CASE q # c
      BY <1>1, <1>2, <1>6, <3>2 DEF MasterInv, Looked
    <3> QED BY <3>1, <3>2
  <2> QED BY <2>1, <2>2, <2>3, <2>4, <2>5 DEF MasterInv
<1>8. ASSUME Sorting PROVE MergeInv'
  <2>1. MergeInv
    BY <1>8 DEF CypherInv
  <2>2. ASSUME NEW q \in Partition
        PROVE  /\ pc' \in {"first", "merge", "next"} /\ Started(q)' /\ ~Awaited(q)' =>
                    Queued(q)' \/ ToCome(q)' = {}
               /\ Awaited(q)' => Before(Rows(reply'), ToCome(q)')
    <3>1. CASE q = c
      BY <1>6, <3>1 DEF Took, Looked
    <3>2. CASE q # c
      BY <1>2, <1>6, <2>1, <3>2 DEF MergeInv, Looked
    <3> QED BY <3>1, <3>2
  <2>3. ASSUME NEW r \in mergeQueue' PROVE Before({r}, ToCome(r.part)')
    <3>1. CASE r \in mergeQueue
      <4>1. PICK q \in Partition \ {c} : q = r.part
        BY <1>4, <3>1
      <4>2. Before({r}, ToCome(q))
        BY <2>1, <3>1, <4>1 DEF MergeInv
      <4>3. Before({r}, ToCome(q)')
        BY <1>2, <4>2
      <4> QED BY <4>1, <4>3
    <3>2. CASE r \in Just(x)
      <4>1. r = x /\ r.part = c
        BY <1>5, <3>2
      <4>2. Before({x}, ToCome(c)')
        BY <1>5, <1>8, <3>2, <4>1 DEF Took
      <4> QED BY <4>1, <4>2
    <3> QED BY <3>1, <3>2
  <2>4. Before(Rows(reply), Just(x))
    <3>1. CASE Awaited(c)
      BY <1>1, <2>1, <3>1 DEF MergeInv, Took, Before
    <3>2. CASE pc = "first"
      BY <1>1, <3>2, Singles DEF MasterInv, Before
    <3> QED BY <3>1, <3>2 DEF Looked
  <2>5. Before(Rows(reply'), mergeQueue')
    BY <2>1, <2>4 DEF MergeInv, Before
  <2>6. InOrder(reply')
    BY <2>1 DEF MergeInv
  <2> QED BY <2>2, <2>3, <2>5, <2>6 DEF MergeInv
<1> QED BY <1>7, <1>8

\* FirstRow and NextRow take a row from a buffer and put it in the queue.
LEMMA PushFacts ==
  ASSUME CypherInv, FirstRow \/ NextRow, NEW c, c = cursor, NEW x, x = Head(pool[c])
  PROVE  /\ AtMaster(c) /\ Took(c, x) /\ Count(x) /\ Looked(c)
         /\ mergeQueue' = mergeQueue \cup Just(x) /\ reply' = reply
         /\ cursor' \in Partition /\ pc' \in Steps(Ordered) /\ pc # "terminated"
<1>0. TypeOK /\ MasterType /\ Domains /\ Conserved(c) /\ PartInv(c) /\ c \in Partition /\ c \in Nat /\ N \in Nat
  BY SMTT(30), QueryAssumption DEF CypherInv, TypeOK, MasterType, RowsConserved, Partition
<1>1. AtMaster(c) /\ PoolOnly(c)
  BY <1>0, MasterAt DEF Master, AtMaster
<1>2. /\ pool[c] # <<>> /\ pool' = [pool EXCEPT ![c] = Tail(@)] /\ Count(x)
      /\ mergeQueue' = Push(mergeQueue, x) /\ reply' = reply /\ pc \in {"first", "next"}
  BY DEF FirstRow, NextRow, TakeFromPool
<1>3. Took(c, x)
  BY <1>0, <1>1, <1>2, TakePool DEF Domains
<1>4. mergeQueue' = mergeQueue \cup Just(x)
  <2>1. x \in RowOf(c) \cup {End, Garbage(c)}
    BY <1>3 DEF Took
  <2>2. (x \in RowOf(c) => Parses(x) /\ Just(x) = {x}) /\ (x \notin RowOf(c) => ~Parses(x) /\ Just(x) = {})
    BY <1>0, <2>1, RowFacts DEF Parses
  <2> QED BY <1>2, <2>2 DEF Push
<1>5. Ordered
  BY <1>0, <1>2 DEF MasterType, Steps
<1>6. CASE FirstRow
  <2>1. pc = "first" /\ cursor' = (c % N) + 1 /\ pc' = IF c = N THEN "merge" ELSE "first"
    BY <1>6 DEF FirstRow
  <2>2. cursor' \in Partition /\ (c # N => cursor' = c + 1)
    BY SMTT(30), <1>0, <2>1 DEF Partition
  <2>3. \A q \in Partition : Started(q)' <=> (Started(q) \/ q = c)
    BY SMTT(30), <1>0, <2>1, <2>2 DEF Started, Partition
  <2>4. ~Started(c) /\ \A q \in Partition : ~Awaited(q) /\ ~Awaited(q)'
    BY SMTT(30), <1>0, <2>1 DEF Started, Awaited
  <2> QED BY <1>1, <1>2, <1>3, <1>4, <1>5, <2>1, <2>2, <2>3, <2>4 DEF Looked, Steps
<1>7. CASE NextRow
  <2>1. pc = "next" /\ cursor' = c /\ pc' = (IF closeFlag' >= N THEN "join" ELSE "merge")
    BY <1>7 DEF NextRow
  <2>2. \A q \in Partition : Started(q)' /\ Started(q) /\ ~Awaited(q)' /\ (Awaited(q) <=> q = c)
    BY <2>1 DEF Started, Awaited
  <2> QED BY <1>0, <1>1, <1>2, <1>3, <1>4, <1>5, <2>1, <2>2 DEF Looked, Steps
<1> QED BY <1>6, <1>7

\* START MASTER STREAMING MERGE keeps the invariant.
LEMMA PushNext ==
  ASSUME CypherInv, FirstRow \/ NextRow
  PROVE  CypherInv'
<1>1. PICK c, x : c = cursor /\ x = Head(pool[c])
  OBVIOUS
<1>2. /\ AtMaster(c) /\ Took(c, x) /\ Count(x) /\ Looked(c)
      /\ mergeQueue' = mergeQueue \cup Just(x) /\ reply' = reply
      /\ cursor' \in Partition /\ pc' \in Steps(Ordered) /\ pc # "terminated"
  BY <1>1, PushFacts
<1>3. MasterInv' /\ (Sorting => MergeInv')
  BY <1>2, PushInv
<1>4. \A q \in Partition : Types(q)' /\ PartInv(q)'
  BY <1>2, TakeParts
<1>5. RowsConserved'
  BY <1>2, TakeConserves DEF RowsConserved, CypherInv
<1>6. MasterType'
  <2>1. MasterType
    BY DEF CypherInv, TypeOK
  <2>2. closeFlag' \in Nat
    BY <1>2, CountSpent
  <2>3. \A r \in Just(x) : r \in Row /\ r.n # 0
    BY <1>2, RowIfAny DEF Took, AtMaster
  <2>4. UNCHANGED <<query, reply, lost>>
    BY <1>2 DEF AtMaster
  <2> QED BY <1>2, <2>1, <2>2, <2>3, <2>4 DEF MasterType, Steps, Ordered, Range
<1> QED BY <1>2, <1>3, <1>4, <1>5, <1>6 DEF CypherInv, TypeOK, Types, AtMaster, Sorting

\* Without an order no row is ever queued.
LEMMA NothingQueued ==
  ASSUME CypherInv, ~Ordered
  PROVE  mergeQueue = {} /\ ~Sorting
<1>1. \A r \in mergeQueue : r.part \in Partition
  BY DEF CypherInv, TypeOK, MasterType, Row
<1> QED BY <1>1 DEF CypherInv, MasterInv, Queued, Ordered, Sorting

\* Polling the buffers in turn, and giving up when the client is gone.
LEMMA PollNext ==
  ASSUME CypherInv, Poll \/ WriteFails
  PROVE  CypherInv'
<1>1. PICK c, x : c = cursor /\ x = Head(pool[c])
  OBVIOUS
<1>2. /\ TypeOK /\ MasterType /\ MasterInv /\ Domains /\ c \in Partition /\ N \in Nat /\ c \in Nat
      /\ Conserved(c) /\ PartInv(c) /\ N # 0
  BY SMTT(30), <1>1, QueryAssumption DEF CypherInv, TypeOK, MasterType, RowsConserved, Partition
<1>3. AtMaster(c) /\ UNCHANGED <<query, table, link, phase, lost>> /\ PoolOnly(c)
      /\ (pool' = pool => \A q \in Partition : Quiet(q))
  BY <1>1, <1>2, MasterAt DEF Master, AtMaster
<1>4. /\ pc = "collect" /\ pc' \in {"collect", "terminated"} /\ mergeQueue' = mergeQueue
      /\ cursor' \in Partition /\ (Poll => pc' = "collect") /\ (WriteFails => pc' = "terminated")
  BY SMTT(30), <1>1, <1>2 DEF Poll, WriteFails, Partition
<1>5. ~Ordered /\ ~Ordered' /\ ~Sorting /\ ~Sorting' /\ mergeQueue = {}
  BY <1>2, <1>3, <1>4, NothingQueued DEF MasterType, Steps, Ordered, Sorting
<1>6. ASSUME closeFlag' \in Nat, AtLeast(closeFlag', {q \in Partition : Spent(q)'})
      PROVE  MasterInv'
  BY <1>4, <1>5, <1>6 DEF MasterInv, Queued
<1>7. ASSUME closeFlag' \in Nat, reply' \in Seq(Row) PROVE MasterType'
  BY <1>2, <1>3, <1>4, <1>5, <1>7 DEF MasterType, Steps
<1>8. CASE Poll /\ pool[c] = <<>>
  <2>1. UNCHANGED <<pool, closeFlag, reply>> /\ pc' = pc
    BY <1>1, <1>8 DEF Poll
  <2>2. \A q \in Partition : Quiet(q)
    BY <1>3, <2>1
  <2>3. \A q \in Partition : Types(q)' /\ PartInv(q)' /\ (Spent(q)' <=> Spent(q))
    BY <2>2, <1>3, QuietPart DEF CypherInv, TypeOK, Types
  <2>4. \A q \in Partition : Conserved(q)'
    BY <1>3, <1>4, <2>1, <2>2, QuietConserved DEF CypherInv, RowsConserved
  <2>5. RowsConserved'
    BY <2>1, <2>4 DEF RowsConserved, CypherInv
  <2>6. closeFlag' \in Nat /\ AtLeast(closeFlag', {q \in Partition : Spent(q)'})
    <3>1. {q \in Partition : Spent(q)'} = {q \in Partition : Spent(q)}
      BY <2>3
    <3> QED BY <1>2, <2>1, <3>1 DEF MasterInv, MasterType
  <2>7. MasterInv' /\ MasterType'
    BY <1>2, <1>6, <1>7, <2>1, <2>6 DEF MasterType
  <2> QED BY <1>3, <1>5, <2>3, <2>5, <2>7 DEF CypherInv, TypeOK, Types, AtMaster
<1>9. CASE WriteFails \/ (Poll /\ pool[c] # <<>>)
  <2>1. /\ pool[c] # <<>> /\ pool' = [pool EXCEPT ![c] = Tail(@)] /\ Count(x)
        /\ WriteFails => reply' = reply
        /\ Poll => reply' = IF IsEnd(x) THEN reply ELSE Append(reply, x)
    BY <1>1, <1>9 DEF Poll, WriteFails, TakeFromPool, Count
  <2>2. Took(c, x)
    BY <1>1, <1>2, <1>3, <2>1, TakePool DEF Domains
  <2>3. closeFlag' \in Nat /\ AtLeast(closeFlag', {q \in Partition : Spent(q)'})
    BY <1>3, <2>1, <2>2, CountSpent
  <2>4. \A q \in Partition : Types(q)' /\ PartInv(q)'
    BY <1>3, <2>2, TakeParts
  <2>5. ASSUME reply' \in Seq(Row), RowsConserved' PROVE CypherInv'
    BY <1>3, <1>5, <1>6, <1>7, <2>3, <2>4, <2>5 DEF CypherInv, TypeOK, Types, AtMaster
  <2>6. CASE Poll
    <3>1. x \in RowOf(c) \cup {End, Garbage(c)} /\ reply \in Seq(Row) /\ NoneTwice(reply)
      BY <1>2, <2>2 DEF Took, MasterType, CypherInv, RowsConserved
    <3>2. Just(x) \cap Rows(reply) = {}
      <4>1. Stored(c)["pool"] \cap Stored(c)["reply"] = {}
        BY <1>2, ConservedNeat DEF Places
      <4>2. Just(x) \subseteq From(c, Just(x))
        BY <1>2, <3>1, RowIfAny DEF From
      <4>3. Stored(c)["pool"] = Rows(pool[c]) /\ Stored(c)["reply"] = From(c, Rows(reply))
        BY <1>2, StoredAt
      <4>4. Just(x) \subseteq Rows(pool[c])
        BY <2>2 DEF Took
      <4>5. \A y \in Just(x) : y.part = c
        BY <4>2 DEF From
      <4> QED BY <4>1, <4>3, <4>4, <4>5 DEF From
    <3>3. /\ reply' \in Seq(Row) /\ Rows(reply') = Rows(reply) \cup Just(x) /\ NoneTwice(reply')
      <4>1. CASE x = End
        BY <1>2, <2>1, <2>6, <3>1, <4>1, RowFacts DEF IsEnd
      <4>2. CASE x # End
        <5>1. x \in Row
          BY <1>2, <3>1, <4>2, RowFacts
        <5>2. reply' = Append(reply, x)
          BY <2>1, <2>6, <4>2 DEF IsEnd
        <5> QED BY SMTT(30), <3>1, <3>2, <5>1, <5>2, AddLast
      <4> QED BY <4>1, <4>2
    <3>4. \A q \in Partition : Conserved(q)'
      BY <1>3, <1>4, <2>2, <3>3, TakeConserves
    <3> QED BY <2>5, <3>3, <3>4 DEF RowsConserved
  <2>7. CASE WriteFails
    <3>1. reply' = reply /\ pc' = "terminated"
      BY <1>4, <2>1, <2>7
    <3>2. ASSUME NEW q \in Partition \ {c} PROVE Conserved(q)'
      BY <1>3, <1>4, <3>1, QuietConserved DEF AtMaster, CypherInv, RowsConserved
    <3>3. Conserved(c)'
      <4>1. /\ Stored(c)'["hand"] = Stored(c)["hand"] /\ Stored(c)'["held"] = Stored(c)["held"]
            /\ Stored(c)'["out"] = Stored(c)["out"] /\ Stored(c)'["runs"] = Stored(c)["runs"]
            /\ Stored(c)'["heap"] = Stored(c)["heap"] /\ Stored(c)'["rest"] = Stored(c)["rest"]
            /\ Stored(c)'["reply"] = Stored(c)["reply"] /\ Stored(c)'["queue"] = Stored(c)["queue"]
        BY <1>3, <1>4, <3>1, SamePlaces DEF PoolOnly, SortAside
      <4>2. Stored(c)'["pool"] \subseteq Stored(c)["pool"]
        BY <2>2, StoredAt, StoredNext DEF Took
      <4>3. \A a \in Places : Stored(c)'[a] \subseteq Stored(c)[a]
        BY <4>1, <4>2 DEF Places
      <4> QED BY <1>2, <1>3, <2>2, <3>1, <4>3, DropConserves DEF Took
    <3>4. RowsConserved'
      BY <3>1, <3>2, <3>3 DEF RowsConserved, CypherInv
    <3> QED BY <1>2, <2>5, <3>1, <3>4 DEF MasterType
  <2> QED BY <1>9, <2>6, <2>7
<1> QED BY <1>8, <1>9

\* The steps at which the master stops reading.
LEMMA StopNext ==
  ASSUME CypherInv, PollEnds \/ MergeEnds \/ Respond
  PROVE  CypherInv'
<1>0. TypeOK /\ MasterType /\ MasterInv /\ Domains
  BY DEF CypherInv, TypeOK
<1>1. /\ UNCHANGED <<pool, cursor, mergeQueue, closeFlag, reply>>
      /\ pc \in {"collect", "merge", "join"} /\ pc' \in {"join", "responded"}
  BY DEF PollEnds, MergeEnds, Respond, receiving
<1>2. PICK c : c = cursor
  OBVIOUS
<1>3. AtMaster(c) /\ UNCHANGED <<query, table, link, phase, lost>> /\ (\A q \in Partition : Quiet(q))
  BY <1>0, <1>1, <1>2, MasterAt DEF Master, AtMaster
<1>4. \A q \in Partition : Types(q)' /\ PartInv(q)' /\ (Spent(q)' <=> Spent(q)) /\ ToCome(q)' = ToCome(q)
  BY <1>3, QuietPart DEF CypherInv, TypeOK, Types
<1>5. \A q \in Partition : Conserved(q)'
  BY <1>1, <1>3, QuietConserved DEF CypherInv, RowsConserved
<1>6. RowsConserved'
  BY <1>1, <1>5 DEF RowsConserved, CypherInv
<1>7. MasterType'
  BY <1>0, <1>1, <1>3 DEF MasterType, Steps, Ordered, Range
<1>8. {q \in Partition : Spent(q)'} = {q \in Partition : Spent(q)}
  BY <1>4
<1>9. \A q \in Partition : link[q] = "up" => Spent(q)
  <2>1. CASE PollEnds
    <3> DEFINE S == {q \in Partition : Spent(q)}
    <3>1. S \subseteq S /\ S \subseteq Partition /\ closeFlag \in Nat /\ closeFlag >= N /\ AtLeast(closeFlag, S)
      BY SMTT(30), <1>0, <2>1, QueryAssumption DEF MasterInv, MasterType, PollEnds
    <3> HIDE DEF S
    <3>2. S = Partition
      BY <3>1, Counting
    <3> QED BY <3>2 DEF S
  <2>2. CASE MergeEnds
    BY <1>0, <2>2 DEF MasterInv, MergeEnds, Started, Awaited, Queued
  <2>3. CASE Respond
    BY <1>0, <2>3 DEF MasterInv, Respond
  <2> QED BY <2>1, <2>2, <2>3
<1>10. \A q \in Partition : Started(q)' /\ ~Awaited(q)' /\ Started(q) /\ (Queued(q)' <=> Queued(q))
  BY <1>1 DEF Started, Awaited, Queued
<1>11. MasterInv'
  <2>1. Ordered' <=> Ordered
    BY <1>3 DEF Ordered
  <2>2. AtLeast(closeFlag', {q \in Partition : Spent(q)'})
    BY <1>0, <1>1, <1>8 DEF MasterInv
  <2>3. /\ pc' \in {"join", "responded"} => \A q \in Partition : link'[q] = "up" => Spent(q)'
        /\ pc' = "first" => reply' = <<>>
        /\ \A r, s \in mergeQueue' : r.part = s.part => r = s
    BY <1>0, <1>1, <1>3, <1>4, <1>9 DEF MasterInv
  <2>4. ASSUME NEW q \in Partition
        PROVE  /\ Queued(q)' => Ordered' /\ Started(q)' /\ ~Awaited(q)'
               /\ Queued(q)' /\ link'[q] = "up" => ~Spent(q)'
               /\ Ordered' /\ Started(q)' => phase'[q] # "reading"
               /\ pc' \in {"first", "merge", "next"} /\ Started(q)' /\ ~Awaited(q)' /\ link'[q] = "up" =>
                    Queued(q)' \/ Spent(q)'
    BY <1>0, <1>1, <1>3, <1>4, <1>10, <2>1 DEF MasterInv
  <2> QED BY <2>2, <2>3, <2>4 DEF MasterInv
<1>12. Sorting' => MergeInv'
  <2>1. SUFFICES ASSUME MergeInv PROVE MergeInv'
    BY <1>3 DEF CypherInv, Sorting
  <2>2. ASSUME NEW r \in mergeQueue PROVE Before({r}, ToCome(r.part)')
    <3>1. PICK q \in Partition : q = r.part
      BY <1>0 DEF MasterType, Row
    <3>2. Before({r}, ToCome(q))
      BY <2>1, <3>1 DEF MergeInv
    <3> QED BY <1>4, <3>1, <3>2
  <2> QED BY <1>1, <1>10, <2>1, <2>2 DEF MergeInv
<1> QED BY <1>3, <1>4, <1>6, <1>7, <1>11, <1>12 DEF CypherInv, TypeOK, Types, AtMaster

\* The row on top of the queue goes to the client: a place in the queue for its partition
\* falls free, and the master waits for that partition.
LEMMA WriteTopNext ==
  ASSUME CypherInv, WriteTop
  PROVE  CypherInv'
<1>0. TypeOK /\ MasterType /\ MasterInv /\ Domains /\ NoneTwice(reply)
  BY DEF CypherInv, TypeOK, RowsConserved
<1>1. PICK top : /\ top \in Top(mergeQueue, EntryLess) /\ mergeQueue' = mergeQueue \ {top}
                 /\ reply' = Append(reply, top) /\ cursor' = top.part
  BY DEF WriteTop
<1>2. pc = "merge" /\ pc' = "next" /\ UNCHANGED <<pool, closeFlag>>
  BY DEF WriteTop, receiving
<1>3. PICK d : d = top.part
  OBVIOUS
<1>4. top \in mergeQueue /\ top \in Row /\ top.n # 0 /\ d \in Partition /\ Just(top) = {top} /\ top \in RowOf(d)
  BY <1>0, <1>1, <1>3 DEF Top, MasterType, Row, Just, RowOf
<1>5. PICK c : c = cursor
  OBVIOUS
<1>6. AtMaster(c) /\ UNCHANGED <<query, table, link, phase, lost>> /\ (\A q \in Partition : Quiet(q))
  BY <1>0, <1>2, <1>5, MasterAt DEF Master, AtMaster
<1>7. \A q \in Partition : Types(q) /\ Types(q)' /\ PartInv(q)' /\ (Spent(q)' <=> Spent(q)) /\ ToCome(q)' = ToCome(q)
  BY <1>6, QuietPart DEF CypherInv, TypeOK, Types
<1>8. Ordered /\ (Ordered' <=> Ordered) /\ (Sorting' <=> Sorting)
  BY <1>0, <1>2, <1>6 DEF MasterType, Steps, Ordered, Sorting
<1>9. top \notin Rows(reply)
  <2>1. Stored(d)["queue"] \cap Stored(d)["reply"] = {}
    BY <1>4, ConservedNeat DEF CypherInv, RowsConserved, Places
  <2> QED BY SMTT(30), <1>3, <1>4, <2>1, StoredAt DEF From
<1>10. /\ reply' \in Seq(Row) /\ Range(reply') = Range(reply) \cup {top}
       /\ Rows(reply') = Rows(reply) \cup {top} /\ NoneTwice(reply')
       /\ InOrder(reply) /\ Before(Rows(reply), {top}) => InOrder(reply')
  <2>1. reply \in Seq(Row) /\ top \in Row /\ NoneTwice(reply) /\ Just(top) \cap Rows(reply) = {}
    BY <1>0, <1>4, <1>9 DEF MasterType
  <2>2. /\ Append(reply, top) \in Seq(Row) /\ Range(Append(reply, top)) = Range(reply) \cup {top}
        /\ Rows(Append(reply, top)) = Rows(reply) \cup Just(top) /\ NoneTwice(Append(reply, top))
        /\ InOrder(reply) /\ Before(Rows(reply), Just(top)) => InOrder(Append(reply, top))
    BY SMTT(30), <2>1, AddLast
  <2> QED BY <1>1, <1>4, <2>2
<1>11. RowsConserved'
  <2>1. ASSUME NEW q \in Partition \ {d} PROVE Conserved(q)'
    <3>1. From(q, Rows(reply')) = From(q, Rows(reply)) /\ From(q, mergeQueue') = From(q, mergeQueue)
      BY <1>1, <1>3, <1>10 DEF From
    <3> QED BY <1>2, <1>6, <3>1, QuietConserved DEF CypherInv, RowsConserved
  <2>2. Conserved(d)'
    <3>1. \A a \in Places \ {"reply", "queue"} : Stored(d)'[a] = Stored(d)[a]
      BY <1>4, <1>6, QuietPart
    <3>2. /\ From(d, Rows(reply')) = From(d, Rows(reply)) \cup {top}
          /\ From(d, mergeQueue') = From(d, mergeQueue) \ {top} /\ top \in From(d, mergeQueue)
      BY <1>1, <1>3, <1>4, <1>10 DEF From
    <3>3. /\ Stored(d)'["reply"] = Stored(d)["reply"] \cup {top} /\ {top} \subseteq Stored(d)["queue"]
          /\ Stored(d)'["queue"] = Stored(d)["queue"] \ {top}
      BY <3>2, StoredAt, StoredNext
    <3>4. Moved(d, "queue", "reply", {top})
      BY <3>1, <3>3 DEF Moved, Places
    <3>5. Conserved(d) /\ Neat(d)'
      BY <1>4, <1>6, ConservedNeat, QuietPart DEF CypherInv, RowsConserved
    <3> QED BY <1>2, <1>6, <3>4, <3>5, MoveConserves
  <2> QED BY <1>10, <2>1, <2>2 DEF RowsConserved
<1>12. MasterType'
  BY <1>0, <1>1, <1>2, <1>3, <1>4, <1>6, <1>8, <1>10 DEF MasterType, Steps
<1>13. \A q \in Partition : /\ Started(q) /\ Started(q)' /\ ~Awaited(q)
                            /\ Awaited(q)' <=> q = d
  BY <1>1, <1>2, <1>3 DEF Started, Awaited
<1>14. \A q \in Partition : Queued(q)' <=> (Queued(q) /\ q # d)
  BY <1>0, <1>1, <1>3, <1>4 DEF MasterInv, Queued
<1>15. MasterInv'
  <2>1. AtLeast(closeFlag', {q \in Partition : Spent(q)'})
    <3>1. {q \in Partition : Spent(q)'} = {q \in Partition : Spent(q)}
      BY <1>7
    <3> QED BY <1>0, <1>2, <3>1 DEF MasterInv
  <2>2. /\ pc' \in {"join", "responded"} => \A q \in Partition : link'[q] = "up" => Spent(q)'
        /\ pc' = "first" => reply' = <<>>
        /\ \A r, s \in mergeQueue' : r.part = s.part => r = s
    BY <1>0, <1>1, <1>2 DEF MasterInv
  <2>3. ASSUME NEW q \in Partition
        PROVE  /\ Queued(q)' => Ordered' /\ Started(q)' /\ ~Awaited(q)'
               /\ Queued(q)' /\ link'[q] = "up" => ~Spent(q)'
               /\ Ordered' /\ Started(q)' => phase'[q] # "reading"
               /\ pc' \in {"first", "merge", "next"} /\ Started(q)' /\ ~Awaited(q)' /\ link'[q] = "up" =>
                    Queued(q)' \/ Spent(q)'
    BY <1>0, <1>2, <1>6, <1>7, <1>8, <1>13, <1>14 DEF MasterInv
  <2> QED BY <2>1, <2>2, <2>3 DEF MasterInv
<1>16. ASSUME Sorting PROVE MergeInv'
  <2>1. MergeInv
    BY <1>16 DEF CypherInv
  <2>2. Before(Rows(reply), {top}) /\ Before(Rows(reply), mergeQueue) /\ Before({top}, ToCome(d))
    BY <1>3, <1>4, <2>1 DEF MergeInv, Before
  <2>3. Before(Rows(reply'), ToCome(d))
    <3>1. ToCome(d) \subseteq RowOf(d)
      BY <1>4, <1>7, ToComeRows
    <3>2. (\A r \in ToCome(d) : r.key \in Int) /\ top.key \in Int /\ \A r \in Rows(reply) : r.key \in Int
      <4>1. \A r \in RowOf(d) : r.key \in Int
        BY <1>4, RowFacts
      <4>2. \A r \in Row : r.key \in Int
        BY SMTT(30) DEF Row, NoKey
      <4>3. Rows(reply) \subseteq Row
        BY SMTT(30), <1>0 DEF MasterType, Rows, Range
      <4> QED BY <1>4, <3>1, <4>1, <4>2, <4>3
    <3> QED BY SMTT(30), <1>10, <2>2, <3>2 DEF Before
  <2>4. ASSUME NEW q \in Partition
        PROVE  /\ pc' \in {"first", "merge", "next"} /\ Started(q)' /\ ~Awaited(q)' =>
                    Queued(q)' \/ ToCome(q)' = {}
               /\ Awaited(q)' => Before(Rows(reply'), ToCome(q)')
    <3>1. CASE q = d
      BY <1>7, <1>13, <2>3, <3>1
    <3>2. CASE q # d
      BY <1>2, <1>7, <1>13, <1>14, <2>1, <3>2 DEF MergeInv
    <3> QED BY <3>1, <3>2
  <2>5. ASSUME NEW r \in mergeQueue' PROVE Before({r}, ToCome(r.part)')
    <3>1. PICK q \in Partition : q = r.part
      BY <1>0, <1>1 DEF MasterType, Row
    <3>2. Before({r}, ToCome(q))
      BY <1>1, <2>1, <3>1 DEF MergeInv
    <3> QED BY <1>7, <3>1, <3>2
  <2>6. Before({top}, mergeQueue')
    <3>1. ASSUME NEW s \in mergeQueue \ {top} PROVE top.key <= s.key
      <4>1. EntryLess(top, s) => EntryLess(s, top)
        BY <1>1 DEF Top
      <4>2. s.key \in Int /\ top.key \in Int
        BY SMTT(30), <1>0, <1>4 DEF MasterType, Row, NoKey
      <4> QED BY SMTT(30), <1>16, <4>1, <4>2 DEF EntryLess, Sorting
    <3> QED BY <1>1, <3>1 DEF Before
  <2>7. Before(Rows(reply'), mergeQueue')
    BY <1>1, <1>10, <2>2, <2>6 DEF Before
  <2>8. InOrder(reply')
    BY <1>10, <2>1, <2>2 DEF MergeInv
  <2> QED BY <2>4, <2>5, <2>7, <2>8 DEF MergeInv
<1> QED BY <1>6, <1>7, <1>8, <1>11, <1>12, <1>15, <1>16 DEF CypherInv, TypeOK, Types, AtMaster

-----------------------------------------------------------------------------
(* The whole system. *)

\* At the start every row is in its partition's table.
LEMMA InitInv == Init => CypherInv
<1> SUFFICES ASSUME Init PROVE CypherInv
  OBVIOUS
<1>1. PICK keys \in Tables : table = [p \in Partition |-> RowsOf(p, keys[p])]
  BY DEF Init
<1>2. \A p \in Partition : keys[p] \in Seq(Nat \cup {NoKey})
  BY <1>1, QueryAssumption
<1>3. ASSUME NEW p \in Partition
      PROVE  table[p] \in Seq(RowOf(p)) /\ NoneTwice(table[p]) /\ Rows(table[p]) = Range(table[p])
  <2> DEFINE k == keys[p]
             t == RowsOf(p, k)
  <2>1. k \in Seq(Nat \cup {NoKey}) /\ table[p] = t
    BY <1>1, <1>2
  <2> HIDE DEF k
  <2>2. DOMAIN t = 1 .. Len(k) /\ Len(k) \in Nat
    BY SMTT(30), <2>1 DEF RowsOf
  <2>3. ASSUME NEW i \in 1 .. Len(k)
        PROVE  t[i] = [part |-> p, n |-> i, key |-> k[i]] /\ t[i] \in RowOf(p) /\ t[i].n = i /\ i # 0
    <3>1. i \in Nat /\ i # 0 /\ k[i] \in Nat \cup {NoKey} /\ i \in DOMAIN k
      BY SMTT(30), <2>1, <2>2
    <3>2. t[i] = [part |-> p, n |-> i, key |-> k[i]]
      BY <3>1 DEF RowsOf
    <3> HIDE DEF t
    <3> QED BY SMTT(30), <3>1, <3>2 DEF RowOf, Row
  <2>4. t \in [1 .. Len(k) -> RowOf(p)]
    <3>1. t = [i \in 1 .. Len(k) |-> t[i]]
      BY SMTT(30), <2>1 DEF RowsOf
    <3> HIDE DEF t
    <3> QED BY <2>3, <3>1
  <2> HIDE DEF t
  <2>5. t \in Seq(RowOf(p))
    BY SMTT(30), <2>2, <2>4
  <2>6. NoneTwice(t) /\ Rows(t) = Range(t)
    BY SMTT(30), <2>2, <2>3 DEF NoneTwice, Rows, Range
  <2> QED BY <2>1, <2>5, <2>6
<1>4. ASSUME NEW p \in Partition
      PROVE  /\ rest[p] = table[p] /\ heap[p] = {} /\ usage[p] = 0 /\ runs[p] = <<>> /\ phase[p] = "reading"
             /\ out[p] = <<>> /\ held[p] = <<>> /\ link[p] = "up" /\ hand[p] = <<>>
             /\ receiver[p] = "running" /\ pool[p] = <<>>
  BY DEF Init
<1>5. Domains
  BY <1>1 DEF Init, Domains
<1>6. /\ query \in Query /\ pc = (IF Ordered THEN "first" ELSE "collect") /\ cursor = 1 /\ mergeQueue = {}
      /\ closeFlag = 0 /\ reply = <<>> /\ lost = {}
  BY QueryAssumption DEF Init
<1>7. MasterType
  <2>1. 1 \in Partition
    BY SMTT(30), QueryAssumption DEF Partition
  <2> QED BY SMTT(30), <1>6, <2>1, Singles DEF MasterType, Steps
<1>8. \A p \in Partition : Types(p)
  <2>2. \A S : <<>> \in Seq(S) /\ Len(<<>>) = 0
    BY SMTT(30)
  <2>3. ASSUME NEW p \in Partition PROVE SortType(p)
    <3>1. /\ table[p] \in Seq(RowOf(p)) /\ rest[p] = table[p] /\ heap[p] = {} /\ usage[p] = 0
          /\ runs[p] = <<>> /\ phase[p] = "reading"
      BY <1>3, <1>4
    <3> QED BY SMTT(30), <2>2, <3>1 DEF SortType, Phases
  <2>4. ASSUME NEW p \in Partition PROVE StreamType(p)
    <3>1. /\ out[p] = <<>> /\ held[p] = <<>> /\ link[p] = "up" /\ hand[p] = <<>>
          /\ receiver[p] = "running" /\ pool[p] = <<>>
      BY <1>4
    <3> QED BY SMTT(30), <2>2, <3>1 DEF StreamType
  <2> QED BY <2>3, <2>4 DEF Types
<1>9. ASSUME NEW p \in Partition PROVE Conserved(p)
  <2>1. /\ Stored(p)["rest"] = Range(table[p])
        /\ \A a \in Places \ {"rest"} : Stored(p)[a] = {}
    <3>1. From(p, {}) = {} /\ AllRows(<<>>) = {}
      BY SMTT(30) DEF From, AllRows
    <3>2. /\ Stored(p)["rest"] = Range(table[p]) /\ Stored(p)["heap"] = {} /\ Stored(p)["runs"] = {}
          /\ Stored(p)["reply"] = {} /\ Stored(p)["queue"] = {}
      <4>1. /\ rest[p] = table[p] /\ Rows(table[p]) = Range(table[p]) /\ heap[p] = {} /\ runs[p] = <<>>
            /\ reply = <<>> /\ mergeQueue = {} /\ Rows(<<>>) = {}
        BY <1>3, <1>4, <1>6, Singles
      <4> QED BY <3>1, <4>1, StoredAt
    <3>3. /\ Stored(p)["pool"] = {} /\ Stored(p)["hand"] = {} /\ Stored(p)["held"] = {}
          /\ Stored(p)["out"] = {}
      BY SMTT(30), <1>4, StoredAt, Singles
    <3> QED BY <3>2, <3>3 DEF Places
  <2>2. InOnePlace(p)
    BY SMTT(30), <1>3, <1>4, <2>1, Singles DEF InOnePlace
  <2>3. \A r \in Range(table[p]) : \E a \in Places : r \in Stored(p)[a]
    BY <2>1 DEF Places
  <2> QED BY <2>1, <2>2, <2>3 DEF Conserved
<1>10. RowsConserved
  BY <1>6, <1>9, Singles DEF RowsConserved
<1>11. \A p \in Partition : (~Queued(p) /\ ~Started(p)) \/ ~Ordered
  BY SMTT(30), <1>6 DEF Queued, Started, Partition
<1>12. MasterInv
  <2> DEFINE S == {p \in Partition : Spent(p)}
  <2>1. [i \in 1..0 |-> 1] \in [1..0 -> S] /\ 1..0 = {}
    BY SMTT(30)
  <2> HIDE DEF S
  <2>3. AtLeast(closeFlag, S)
    BY <1>6, <2>1 DEF AtLeast, Injection, IsInjective
  <2>4. \A p \in Partition : ~Queued(p)
    BY <1>6 DEF Queued
  <2> QED BY <1>6, <1>11, <2>3, <2>4 DEF MasterInv, S
<1>13. Sorting => MergeInv
  <2>1. Before({}, {}) /\ \A A : Before({}, A)
    BY DEF Before
  <2> QED BY <1>6, <1>11, <2>1, Singles DEF MergeInv, Sorting, Ordered, Awaited
<1>14. ASSUME NEW p \in Partition PROVE PartInv(p)
  <2>1. NoEnd(p) /\ Nothing(p)
    BY <1>4, Singles DEF NoEnd, Nothing
  <2>2. StreamInv(p)
    BY SMTT(30), <1>4, <2>1, Singles DEF StreamInv
  <2>3. SortInv(p)
    BY <1>4, <2>1 DEF SortInv
  <2>4. OrderAt(p)
    BY SMTT(30), <1>4, Singles DEF OrderAt, Before
  <2> QED BY <2>2, <2>3, <2>4 DEF PartInv
<1> QED BY <1>5, <1>7, <1>8, <1>10, <1>12, <1>13, <1>14 DEF CypherInv, TypeOK, Types

\* Every step of the workers, the receivers and the master keeps the invariant.
LEMMA NextInv == CypherInv /\ [Next]_vars => CypherInv'
<1> SUFFICES ASSUME CypherInv, [Next]_vars PROVE CypherInv'
  OBVIOUS
<1>1. ASSUME NEW p \in Partition,
             Operators(p) \/ Handler(p) \/ Receiver(p) \/ Disconnect(p) \/ BreakInMessage(p)
      PROVE  CypherInv'
  BY <1>1, ThreadNext
<1>2. CASE Poll \/ WriteFails
  BY <1>2, PollNext
<1>3. CASE FirstRow \/ NextRow
  BY <1>3, PushNext
<1>4. CASE WriteTop
  BY <1>4, WriteTopNext
<1>5. CASE PollEnds \/ MergeEnds \/ Respond
  BY <1>5, StopNext
<1>6. CASE UNCHANGED vars
  BY <1>6, UnchangedNext
<1> QED BY <1>1, <1>2, <1>3, <1>4, <1>5, <1>6 DEF Next, Master

-----------------------------------------------------------------------------
\* The inductive invariant of the distributed query: what the sort, the connection, the
\* receivers and the master hold fits together at every step.
THEOREM CypherInvariant == Spec => []CypherInv
  BY InitInv, NextInv, PTL DEF Spec

\* No row of any partition is lost or doubled on its way through the heap, the run files,
\* the buffers and the connection to the client.
THEOREM RowsAreConserved == Spec => []RowsConserved
<1>1. CypherInv => RowsConserved
  BY DEF CypherInv
<1> QED BY <1>1, CypherInvariant, PTL

\* When execute joins its receivers, the client has every row of every partition whose
\* connection and disk held out.
THEOREM AnswerIsComplete == Spec => []AnswerComplete
<1>1. CypherInv => AnswerComplete
  <2> SUFFICES ASSUME CypherInv, pc \in {"join", "responded"}, NEW p \in Partition,
                      link[p] = "up", p \notin lost, NEW r \in Range(table[p]), Sortable(r)
               PROVE  r \in Range(reply)
    BY DEF AnswerComplete
  <2>1. Spent(p) /\ ~Queued(p)
    BY DEF CypherInv, MasterInv
  <2>2. Nothing(p) /\ rest[p] = <<>> /\ heap[p] = {} /\ \A i \in DOMAIN runs[p] : runs[p][i] = <<>>
    BY <2>1 DEF CypherInv, PartInv, StreamInv, SortInv, Spent
  <2>3. AllRows(runs[p]) = {}
    BY <2>2, Singles DEF AllRows
  <2>4. From(p, mergeQueue) = {}
    BY <2>1 DEF From, Queued
  <2>5. \A a \in Places \ {"reply"} : Stored(p)[a] = {}
    BY <2>2, <2>3, <2>4, StoredAt, Singles DEF Places, Nothing
  <2>6. \E a \in Places : r \in Stored(p)[a]
    BY DEF CypherInv, RowsConserved, Conserved
  <2>7. r \in From(p, Rows(reply))
    BY <2>5, <2>6, StoredAt
  <2> QED BY <2>7 DEF From, Rows
<1> QED BY <1>1, CypherInvariant, PTL

\* The client sees the rows of an ascending query in ascending order.  A descending one
\* may come out of order.
THEOREM AscendingRepliesInOrder == Spec => [](query.order # "DESC" => ReplyInOrder)
<1>1. CypherInv => (query.order # "DESC" => ReplyInOrder)
  <2> SUFFICES ASSUME CypherInv, query.keyReturned, query.order = "ASC",
                      NEW i \in DOMAIN reply, NEW j \in DOMAIN reply, i < j
               PROVE  reply[i].key <= reply[j].key
    BY DEF ReplyInOrder
  <2>1. InOrder(reply)
    BY DEF CypherInv, Sorting, MergeInv
  <2>2. reply[i].n # 0 /\ reply[j].n # 0
    BY DEF CypherInv, TypeOK, MasterType, Ordered, Range
  <2> QED BY <2>1, <2>2 DEF InOrder
<1> QED BY <1>1, CypherInvariant, PTL

=============================================================================
