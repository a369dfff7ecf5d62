-------------------------- MODULE SharedBufferProofs --------------------------
(***************************************************************************)
(* Proofs about SharedBuffer for every number of threads, every number of  *)
(* rows and every capacity.                                                *)
(***************************************************************************)
EXTENDS SharedBuffer, FiniteSetTheorems, TLAPS

\* Most steps are set reasoning; those with arithmetic name SMT.
USE ZenonT(60)

State == {"ready", "waiting", "notified", "timedout"}

\* What notify_one does to the wait set: one waiter leaves it, if there is one.
LEMMA NotifyOneFacts ==
    ASSUME NEW s \in [Thread -> State], NEW r \in NotifyOne(s)
    PROVE  /\ r \in [Thread -> State]
           /\ \/ r = s /\ \A t \in Thread : s[t] # "waiting"
              \/ \E t \in Thread : s[t] = "waiting" /\ r = [s EXCEPT ![t] = "notified"]
<1>1. CASE Waiting(s) = {}
  <2>1. r = s
    BY <1>1 DEF NotifyOne
  <2> QED BY <1>1, <2>1 DEF Waiting
<1>2. CASE Waiting(s) # {}
  <2>1. PICK t \in Waiting(s) : r = [s EXCEPT ![t] = "notified"]
    BY <1>2 DEF NotifyOne
  <2> QED BY <2>1 DEF Waiting, State
<1> QED BY <1>1, <1>2

-----------------------------------------------------------------------------
(* The four ways in which a step changes what the buffer holds. *)

PutBy(p) ==
    /\ HasRoom
    /\ sent[p] < Rows
    /\ buffer' = Append(buffer, <<p, sent[p] + 1>>)
    /\ sent' = [sent EXCEPT ![p] = @ + 1]
    /\ UNCHANGED <<delivered, cleared>>

TakeOne ==
    /\ buffer # <<>>
    /\ delivered' = delivered \cup {Head(buffer)}
    /\ buffer' = Tail(buffer)
    /\ UNCHANGED <<sent, cleared>>

ClearAll ==
    /\ cleared' = cleared \cup {buffer[i] : i \in DOMAIN buffer}
    /\ buffer' = <<>>
    /\ UNCHANGED <<sent, delivered>>

\* Every step is one of these, or leaves the rows where they are.
LEMMA StepKinds ==
    ASSUME [Next]_vars
    PROVE  \/ \E p \in Producers : PutBy(p)
           \/ TakeOne
           \/ ClearAll
           \/ UNCHANGED <<buffer, sent, delivered, cleared>>
<1>1. ASSUME NEW p \in Producers, Add(p)
      PROVE  PutBy(p) \/ UNCHANGED <<buffer, sent, delivered, cleared>>
  BY <1>1 DEF Add, PutBy, Wait
<1>2. ASSUME NEW c, TakeFront(c) PROVE TakeOne
  BY <1>2 DEF TakeFront, TakeOne
<1>3. ASSUME NEW c, Get(c) \/ TryGet(c) \/ GetWithTimeout(c) \/ AfterTimeOut(c)
      PROVE  TakeOne \/ UNCHANGED <<buffer, sent, delivered, cleared>>
  BY <1>2, <1>3 DEF Get, TryGet, GetWithTimeout, AfterTimeOut, Wait
<1>4. ASSUME NEW c, TimeOut(c) \/ SpuriousWakeUp(c)
      PROVE  UNCHANGED <<buffer, sent, delivered, cleared>>
  BY <1>4 DEF TimeOut, SpuriousWakeUp
<1>5. ASSUME NEW t, Clear(t) PROVE ClearAll
  BY <1>5 DEF Clear, ClearAll
<1> QED BY <1>1, <1>3, <1>4, <1>5 DEF Next, vars

\* Threads move between the four states only.
LEMMA StateType ==
    ASSUME state \in [Thread -> State], [Next]_vars
    PROVE  state' \in [Thread -> State]
<1>1. ASSUME NEW t \in Thread, NEW x \in State
      PROVE  [state EXCEPT ![t] = x] \in [Thread -> State]
  BY <1>1
<1>2. ASSUME NEW t \in Thread, state' \in NotifyOne([state EXCEPT ![t] = "ready"])
      PROVE  state' \in [Thread -> State]
  BY <1>1, <1>2, NotifyOneFacts DEF State
<1>3. ASSUME NEW t \in Thread, Wait(t) PROVE state' \in [Thread -> State]
  BY <1>1, <1>3 DEF Wait, State
<1>4. ASSUME NEW p \in Producers, Add(p) PROVE state' \in [Thread -> State]
  BY <1>2, <1>3, <1>4 DEF Add, Thread
<1>5. ASSUME NEW c \in Thread,
             Get(c) \/ TryGet(c) \/ GetWithTimeout(c) \/ AfterTimeOut(c) \/ TimeOut(c)
                \/ SpuriousWakeUp(c)
      PROVE  state' \in [Thread -> State]
  <2>1. "waiting" \in State /\ "notified" \in State /\ "timedout" \in State /\ "ready" \in State
    BY DEF State
  <2> QED BY <1>1, <1>2, <1>3, <1>5, <2>1
          DEF Get, TryGet, GetWithTimeout, AfterTimeOut, TimeOut, SpuriousWakeUp, TakeFront
<1>6. ASSUME NEW t, Clear(t) PROVE state' \in [Thread -> State]
  BY <1>6 DEF Clear, NotifyAll, State
<1> QED BY <1>4, <1>5, <1>6 DEF Next, vars, Thread

-----------------------------------------------------------------------------
(* Rows are neither lost, nor repeated, nor overtaken. *)

RowInv == TypeOK /\ RowsConserved /\ ProducerOrder

\* An empty buffer satisfies the invariant.
LEMMA RowInvInit == Init => RowInv
<1> SUFFICES ASSUME Init PROVE RowInv
  OBVIOUS
<1>1. TypeOK
  BY SMTT(30), BufferAssumption DEF Init, TypeOK, Row
<1>2. RowsConserved /\ ProducerOrder
  BY SMTT(30), BufferAssumption DEF Init, RowsConserved, ProducerOrder, InBuffer
<1> QED BY <1>1, <1>2 DEF RowInv

\* add: the new row has a number its producer never used.
LEMMA RowInvPut ==
    ASSUME RowInv, state' \in [Thread -> State], NEW p \in Producers, PutBy(p)
    PROVE  RowInv'
<1> DEFINE row == <<p, sent[p] + 1>>
<1>1. /\ buffer \in Seq(Row) /\ sent \in [Producers -> 0 .. Rows] /\ Rows \in Nat /\ max_size \in Nat
      /\ sent[p] \in 0 .. Rows /\ sent[p] < Rows /\ row \in Row
  BY SMTT(30), BufferAssumption DEF RowInv, TypeOK, PutBy, Row
<1>2. /\ Len(buffer) \in Nat /\ Len(buffer') = Len(buffer) + 1 /\ buffer' \in Seq(Row)
      /\ buffer'[Len(buffer) + 1] = row
      /\ \A i \in 1 .. Len(buffer) : buffer'[i] = buffer[i]
      /\ DOMAIN buffer = 1 .. Len(buffer) /\ DOMAIN buffer' = 1 .. Len(buffer) + 1
  BY SMTT(30), <1>1 DEF PutBy
<1>3. TypeOK'
  BY SMTT(30), <1>1, <1>2 DEF RowInv, TypeOK, PutBy, HasRoom, State
<1>4. ~InBuffer(row) /\ row \notin delivered \cup cleared
  <2>1. sent[p] + 1 \in 1 .. Rows /\ ~(sent[p] + 1 <= sent[p])
    BY SMTT(30), <1>1
  <2> QED BY <2>1 DEF RowInv, RowsConserved
<1>5. ASSUME NEW r PROVE InBuffer(r)' <=> InBuffer(r) \/ r = row
  <2> HIDE DEF row
  <2>1. Len(buffer) + 1 \in DOMAIN buffer' /\ DOMAIN buffer \subseteq DOMAIN buffer'
    BY SMTT(30), <1>2
  <2>2. ASSUME NEW i \in DOMAIN buffer', i # Len(buffer) + 1 PROVE i \in DOMAIN buffer
    BY SMTT(30), <1>2, <2>2
  <2>3. \A i \in DOMAIN buffer : buffer'[i] = buffer[i]
    BY <1>2
  <2> QED BY <1>2, <2>1, <2>2, <2>3 DEF InBuffer
<1>6. ASSUME NEW q \in Producers
      PROVE  sent'[q] = IF q = p THEN sent[p] + 1 ELSE sent[q]
  BY <1>1 DEF PutBy
<1> HIDE DEF row
<1>7. RowsConserved'
  <2>1. \A i, j \in DOMAIN buffer' : buffer'[i] = buffer'[j] => i = j
    <3>1. \A i \in DOMAIN buffer : buffer[i] # row
      BY <1>4 DEF InBuffer
    <3> QED BY SMTT(30), <1>2, <3>1 DEF RowInv, RowsConserved
  <2>2. ASSUME NEW q \in Producers, NEW n \in 1 .. Rows
        PROVE  /\ n <= sent'[q] <=> InBuffer(<<q, n>>)' \/ <<q, n>> \in (delivered \cup cleared)'
               /\ ~(InBuffer(<<q, n>>)' /\ <<q, n>> \in (delivered \cup cleared)')
               /\ ~(<<q, n>> \in delivered' /\ <<q, n>> \in cleared')
    <3>1. /\ n <= sent[q] <=> InBuffer(<<q, n>>) \/ <<q, n>> \in delivered \cup cleared
          /\ ~(InBuffer(<<q, n>>) /\ <<q, n>> \in delivered \cup cleared)
          /\ ~(<<q, n>> \in delivered /\ <<q, n>> \in cleared)
      BY <2>2 DEF RowInv, RowsConserved
    <3>2. <<q, n>> = row <=> q = p /\ n = sent[p] + 1
      BY DEF row
    <3>3. n <= sent'[q] <=> n <= sent[q] \/ <<q, n>> = row
      BY SMTT(30), <1>1, <1>6, <3>2
    <3>4. delivered' = delivered /\ cleared' = cleared
      BY DEF PutBy
    <3> QED BY <1>4, <1>5, <3>1, <3>3, <3>4
  <2> QED BY <2>1, <2>2 DEF RowsConserved
<1>8. ProducerOrder'
  <2>1. ASSUME NEW r \in Row, InBuffer(r) \/ r \in delivered \cup cleared, r[1] = p
        PROVE  r[2] < sent[p] + 1
    <3>1. r[2] \in 1 .. Rows /\ r = <<p, r[2]>>
      BY SMTT(30), <2>1 DEF Row
    <3> QED BY SMTT(30), <1>1, <2>1, <3>1 DEF RowInv, RowsConserved
  <2>2. ASSUME NEW j \in DOMAIN buffer',
               NEW i \in 1 .. j - 1, buffer'[i][1] = buffer'[j][1]
        PROVE  buffer'[i][2] < buffer'[j][2]
    <3>1. CASE j = Len(buffer) + 1
      <4>1. i \in DOMAIN buffer /\ buffer'[i] = buffer[i] /\ buffer[i] \in Row
        BY SMTT(30), <1>1, <1>2, <3>1
      <4> QED BY SMTT(30), <1>2, <2>1, <2>2, <3>1, <4>1 DEF InBuffer, row
    <3>2. CASE j \in DOMAIN buffer
      BY SMTT(30), <1>2, <2>2, <3>2 DEF RowInv, ProducerOrder
    <3> QED BY SMTT(30), <1>2, <3>1, <3>2
  <2>3. ASSUME NEW j \in DOMAIN buffer', NEW r \in delivered \cup cleared,
               r[1] = buffer'[j][1]
        PROVE  r[2] < buffer'[j][2]
    <3>1. r \in Row
      BY <2>3 DEF RowInv, TypeOK
    <3>2. CASE j = Len(buffer) + 1
      BY SMTT(30), <1>2, <2>1, <2>3, <3>1, <3>2 DEF row
    <3>3. CASE j \in DOMAIN buffer
      BY <1>2, <2>3, <3>3 DEF RowInv, ProducerOrder
    <3> QED BY SMTT(30), <1>2, <3>2, <3>3
  <2> QED BY <2>2, <2>3 DEF ProducerOrder, PutBy
<1> QED BY <1>3, <1>7, <1>8 DEF RowInv

\* get, tryGet, getWithTimeout: the front row is the oldest of its producer.
LEMMA RowInvTake ==
    ASSUME RowInv, state' \in [Thread -> State], TakeOne
    PROVE  RowInv'
<1>1. /\ buffer \in Seq(Row) /\ buffer # <<>> /\ Len(buffer) \in Nat \ {0}
      /\ DOMAIN buffer = 1 .. Len(buffer)
      /\ Head(buffer) = buffer[1] /\ buffer[1] \in Row /\ 1 \in DOMAIN buffer
  BY SMTT(30) DEF RowInv, TypeOK, TakeOne
<1>2. /\ buffer' \in Seq(Row) /\ Len(buffer') = Len(buffer) - 1
      /\ DOMAIN buffer' = 1 .. Len(buffer) - 1
      /\ \A i \in 1 .. Len(buffer) - 1 : buffer'[i] = buffer[i + 1]
  BY SMTT(30), <1>1 DEF TakeOne
<1>3. delivered' = delivered \cup {buffer[1]} /\ cleared' = cleared /\ sent' = sent
  BY <1>1 DEF TakeOne
<1>4. TypeOK'
  BY SMTT(30), <1>1, <1>2, <1>3, BufferAssumption DEF RowInv, TypeOK, State
<1>5. \A i, j \in DOMAIN buffer : buffer[i] = buffer[j] => i = j
  BY DEF RowInv, RowsConserved
<1>0. PICK front : front = buffer[1]
  OBVIOUS
<1>6. ASSUME NEW r PROVE InBuffer(r) <=> InBuffer(r)' \/ r = front
  <2>1. ASSUME NEW i \in DOMAIN buffer, i # 1
        PROVE  i - 1 \in DOMAIN buffer' /\ buffer'[i - 1] = buffer[i]
    BY SMTT(30), <1>1, <1>2, <2>1
  <2>2. \A i \in DOMAIN buffer' : i + 1 \in DOMAIN buffer /\ buffer'[i] = buffer[i + 1]
    BY SMTT(30), <1>1, <1>2
  <2> QED BY <1>0, <1>1, <2>1, <2>2 DEF InBuffer
<1>7. ~InBuffer(front)'
  <2>1. \A i \in DOMAIN buffer' : i + 1 \in DOMAIN buffer /\ buffer'[i] = buffer[i + 1] /\ i + 1 # 1
    BY SMTT(30), <1>1, <1>2
  <2>2. \A i \in DOMAIN buffer' : buffer'[i] # buffer[1]
    BY <1>1, <1>5, <2>1
  <2> QED BY <1>0, <2>2 DEF InBuffer
<1>8. InBuffer(front) /\ delivered' = delivered \cup {front}
  BY <1>0, <1>1, <1>3 DEF InBuffer
<1>9. RowsConserved'
  <2>1. \A i, j \in DOMAIN buffer' : buffer'[i] = buffer'[j] => i = j
    <3>1. \A i \in DOMAIN buffer' : i \in Nat /\ i + 1 \in DOMAIN buffer /\ buffer'[i] = buffer[i + 1]
      BY SMTT(30), <1>1, <1>2
    <3>2. ASSUME NEW i \in DOMAIN buffer', NEW j \in DOMAIN buffer', buffer'[i] = buffer'[j]
          PROVE  i = j
      <4>1. i + 1 = j + 1
        BY <1>5, <3>1, <3>2
      <4> QED BY SMTT(30), <3>1, <4>1
    <3> QED BY <3>2
  <2>2. ASSUME NEW q \in Producers, NEW n \in 1 .. Rows
        PROVE  /\ n <= sent'[q] <=> InBuffer(<<q, n>>)' \/ <<q, n>> \in (delivered \cup cleared)'
               /\ ~(InBuffer(<<q, n>>)' /\ <<q, n>> \in (delivered \cup cleared)')
               /\ ~(<<q, n>> \in delivered' /\ <<q, n>> \in cleared')
    <3>1. /\ n <= sent[q] <=> InBuffer(<<q, n>>) \/ <<q, n>> \in delivered \cup cleared
          /\ ~(InBuffer(<<q, n>>) /\ <<q, n>> \in delivered \cup cleared)
          /\ ~(<<q, n>> \in delivered /\ <<q, n>> \in cleared)
      BY <2>2 DEF RowInv, RowsConserved
    <3> DEFINE row == <<q, n>>
    <3>2. (row \in (delivered \cup cleared)' <=> row \in delivered \cup cleared \/ row = front)
          /\ (row \in cleared' <=> row \in cleared)
      BY <1>3, <1>8
    <3>3. InBuffer(row) <=> InBuffer(row)' \/ row = front
      BY <1>6
    <3>4. row = front => ~InBuffer(row)' /\ InBuffer(row)
      BY <1>7, <1>8
    <3>5. row \in delivered' <=> row \in delivered \/ row = front
      BY <1>8
    <3>6. sent' = sent
      BY <1>3
    <3> HIDE DEF row
    <3>7. /\ n <= sent'[q] <=> InBuffer(row)' \/ row \in (delivered \cup cleared)'
          /\ ~(InBuffer(row)' /\ row \in (delivered \cup cleared)')
          /\ ~(row \in delivered' /\ row \in cleared')
      <4>1. /\ n <= sent[q] <=> InBuffer(row) \/ row \in delivered \cup cleared
            /\ ~(InBuffer(row) /\ row \in delivered \cup cleared)
            /\ ~(row \in delivered /\ row \in cleared)
        BY <3>1 DEF row
      <4> QED BY <3>2, <3>3, <3>4, <3>5, <3>6, <4>1
    <3> QED BY <3>7 DEF row
  <2> QED BY <2>1, <2>2 DEF RowsConserved
<1>10. ProducerOrder'
  <2>1. ASSUME NEW j \in DOMAIN buffer',
               NEW i \in 1 .. j - 1, buffer'[i][1] = buffer'[j][1]
        PROVE  buffer'[i][2] < buffer'[j][2]
    <3>1. /\ j + 1 \in DOMAIN buffer /\ i + 1 \in 1 .. (j + 1) - 1
          /\ buffer'[j] = buffer[j + 1] /\ buffer'[i] = buffer[i + 1]
      BY SMTT(30), <1>1, <1>2
    <3> QED BY <2>1, <3>1 DEF RowInv, ProducerOrder
  <2>2. ASSUME NEW j \in DOMAIN buffer', NEW r \in delivered' \cup cleared',
               r[1] = buffer'[j][1]
        PROVE  r[2] < buffer'[j][2]
    <3>1. j + 1 \in DOMAIN buffer /\ 1 \in 1 .. (j + 1) - 1 /\ buffer'[j] = buffer[j + 1]
      BY SMTT(30), <1>1, <1>2
    <3> QED BY <1>3, <2>2, <3>1 DEF RowInv, ProducerOrder
  <2> QED BY <2>1, <2>2 DEF ProducerOrder
<1> QED BY <1>4, <1>9, <1>10 DEF RowInv

\* clear: every row inside becomes a discarded one.
LEMMA RowInvClear ==
    ASSUME RowInv, state' \in [Thread -> State], ClearAll
    PROVE  RowInv'
<1>1. /\ buffer \in Seq(Row) /\ buffer' = <<>> /\ sent' = sent /\ delivered' = delivered
      /\ cleared' = cleared \cup {buffer[i] : i \in DOMAIN buffer}
  BY DEF RowInv, TypeOK, ClearAll
<1>2. TypeOK'
  BY SMTT(30), <1>1, BufferAssumption DEF RowInv, TypeOK, State
<1>3. ASSUME NEW r PROVE ~InBuffer(r)' /\ (r \in cleared' <=> r \in cleared \/ InBuffer(r))
  BY SMTT(30), <1>1 DEF InBuffer
<1>4. RowsConserved'
  <2>1. ASSUME NEW q \in Producers, NEW n \in 1 .. Rows
        PROVE  /\ n <= sent'[q] <=> InBuffer(<<q, n>>)' \/ <<q, n>> \in (delivered \cup cleared)'
               /\ ~(InBuffer(<<q, n>>)' /\ <<q, n>> \in (delivered \cup cleared)')
               /\ ~(<<q, n>> \in delivered' /\ <<q, n>> \in cleared')
    <3>1. /\ n <= sent[q] <=> InBuffer(<<q, n>>) \/ <<q, n>> \in delivered \cup cleared
          /\ ~(InBuffer(<<q, n>>) /\ <<q, n>> \in delivered \cup cleared)
          /\ ~(<<q, n>> \in delivered /\ <<q, n>> \in cleared)
      BY <2>1 DEF RowInv, RowsConserved
    <3> QED BY <1>1, <1>3, <3>1
  <2>2. DOMAIN buffer' = {}
    BY SMTT(30), <1>1
  <2> QED BY <2>1, <2>2 DEF RowsConserved
<1>5. ProducerOrder'
  BY SMTT(30), <1>1 DEF ProducerOrder
<1> QED BY <1>2, <1>4, <1>5 DEF RowInv

\* Every operation of every thread keeps the invariant.
LEMMA RowInvNext == RowInv /\ [Next]_vars => RowInv'
<1> SUFFICES ASSUME RowInv, [Next]_vars PROVE RowInv'
  OBVIOUS
<1>1. state' \in [Thread -> State]
  BY StateType DEF RowInv, TypeOK, State
<1>2. CASE UNCHANGED <<buffer, sent, delivered, cleared>>
  BY <1>1, <1>2 DEF RowInv, TypeOK, RowsConserved, ProducerOrder, InBuffer, State
<1> QED BY <1>1, <1>2, StepKinds, RowInvPut, RowInvTake, RowInvClear

\* The invariant about the rows holds in every reachable state of the buffer.
THEOREM RowInvariant == Spec => []RowInv
BY RowInvInit, RowInvNext, PTL DEF Spec

\* The deque never exceeds max_size, whatever the number of threads.
THEOREM BufferTypeCorrect == Spec => []TypeOK
<1>1. RowInv => TypeOK
  BY DEF RowInv
<1> QED BY <1>1, RowInvariant, PTL

\* add, get, tryGet, getWithTimeout and clear lose no row and repeat none.
THEOREM RowsAreConserved == Spec => []RowsConserved
<1>1. RowInv => RowsConserved
  BY DEF RowInv
<1> QED BY <1>1, RowInvariant, PTL

\* Each producer's rows leave in the order of its calls of add.
THEOREM ProducersKeepTheirOrder == Spec => []ProducerOrder
<1>1. RowInv => ProducerOrder
  BY DEF RowInv
<1> QED BY <1>1, RowInvariant, PTL

\* The buffer with its mutex and condition variable implements a bounded queue.
THEOREM ImplementsBoundedQueue == Spec => IsBoundedQueue
<1>1. Init => Abstract!Init
  BY DEF Init, Abstract!Init
<1>2. TypeOK /\ [Next]_vars => [Abstract!Next]_(Abstract!vars)
  <2> SUFFICES ASSUME TypeOK, [Next]_vars PROVE [Abstract!Next]_(Abstract!vars)
    OBVIOUS
  <2>1. ASSUME NEW p \in Producers, PutBy(p) PROVE Abstract!Next
    <3>1. <<p, sent[p] + 1>> \in Row
      BY SMTT(30), <2>1, BufferAssumption DEF PutBy, TypeOK, Row
    <3>2. Abstract!Put(<<p, sent[p] + 1>>)
      BY <2>1 DEF PutBy, HasRoom, Abstract!Put
    <3> QED BY <3>1, <3>2 DEF Abstract!Next
  <2>2. ASSUME TakeOne PROVE Abstract!Next
    BY <2>2 DEF TakeOne, Abstract!Next, Abstract!Take
  <2>3. ASSUME ClearAll PROVE Abstract!Next
    BY <2>3 DEF ClearAll, Abstract!Next, Abstract!Discard
  <2>4. ASSUME UNCHANGED <<buffer, sent, delivered, cleared>> PROVE UNCHANGED Abstract!vars
    BY <2>4 DEF Abstract!vars
  <2> QED BY <2>1, <2>2, <2>3, <2>4, StepKinds
<1> QED BY <1>1, <1>2, BufferTypeCorrect, PTL DEF Spec, IsBoundedQueue, Abstract!Spec

-----------------------------------------------------------------------------
(* One getter and fewer than 2 * max_size producers are never all asleep. *)

\* The threads of a buffer between N producers and one getter.
OneGetter(c) ==
    /\ Getters = {c}
    /\ c \notin Producers
    /\ Pollers = {} /\ TimedGetters = {} /\ Clearers = {}
    /\ IsFiniteSet(Producers)
    /\ Cardinality(Producers) < 2 * max_size

AwakeInv(c) == TypeOK /\ FewSleep(c) /\ WakeUpsPassedOn(c)

\* What the argument needs to know of the numbers of sleepers in two states.
LEMMA SleepersFacts ==
    ASSUME NEW c, OneGetter(c)
    PROVE  /\ IsFiniteSet(SleepingProducers) /\ IsFiniteSet(SleepingProducers')
           /\ Cardinality(Producers) \in Nat
           /\ Cardinality(SleepingProducers) \in Nat
           /\ Cardinality(SleepingProducers') \in Nat
           /\ Cardinality(SleepingProducers') <= Cardinality(Producers)
           /\ Cardinality(SleepingProducers) = 0 <=> SleepingProducers = {}
           /\ Cardinality(SleepingProducers') = 0 <=> SleepingProducers' = {}
<1>1. IsFiniteSet(Producers)
  BY DEF OneGetter
<1>2. SleepingProducers \in SUBSET Producers /\ SleepingProducers' \in SUBSET Producers
  BY DEF SleepingProducers
<1>3. IsFiniteSet(SleepingProducers) /\ IsFiniteSet(SleepingProducers')
      /\ Cardinality(SleepingProducers') <= Cardinality(Producers)
  BY <1>1, <1>2, FS_Subset
<1> QED BY <1>1, <1>3, FS_CardinalityType, FS_EmptySet

\* A sleeping producer that is woken leaves one sleeper less.
LEMMA OneWakes ==
    ASSUME NEW c, OneGetter(c), NEW q \in SleepingProducers,
           SleepingProducers' = SleepingProducers \ {q}
    PROVE  Cardinality(SleepingProducers') = Cardinality(SleepingProducers) - 1
BY SleepersFacts, FS_RemoveElement

\* A producer that falls asleep makes one sleeper more.
LEMMA OneSleeps ==
    ASSUME NEW c, OneGetter(c), NEW q, q \notin SleepingProducers,
           SleepingProducers' = SleepingProducers \cup {q}
    PROVE  Cardinality(SleepingProducers') = Cardinality(SleepingProducers) + 1
BY SleepersFacts, FS_AddElement

\* How a notification by a thread that is then ready changes the wait set.
LEMMA NotifyCases ==
    ASSUME NEW c, OneGetter(c), TypeOK, NEW t \in Thread, state[t] # "waiting",
           state' \in NotifyOne([state EXCEPT ![t] = "ready"])
    PROVE  \/ /\ SleepingProducers = {} /\ SleepingProducers' = {}
              /\ state[c] # "waiting"
              /\ state' = [state EXCEPT ![t] = "ready"]
           \/ /\ state[c] = "waiting" /\ state'[c] = "notified"
              /\ SleepingProducers' = SleepingProducers
              /\ state' = [state EXCEPT ![t] = "ready", ![c] = "notified"]
           \/ \E q \in SleepingProducers :
              /\ SleepingProducers' = SleepingProducers \ {q}
              /\ state' = [state EXCEPT ![t] = "ready", ![q] = "notified"]
              /\ q # t /\ q # c
<1> DEFINE s == [state EXCEPT ![t] = "ready"]
<1>1. state \in [Thread -> State] /\ s \in [Thread -> State] /\ Thread = Producers \cup {c}
      /\ c \notin Producers /\ c \in Thread
  BY DEF TypeOK, State, OneGetter, Thread
<1>2. \A u \in Thread : s[u] = "waiting" <=> state[u] = "waiting"
  BY <1>1
<1>3. \A u \in Thread : s[u] = IF u = t THEN "ready" ELSE state[u]
  BY <1>1
<1> HIDE DEF s
<1>4. CASE state' = s /\ \A u \in Thread : s[u] # "waiting"
  BY <1>1, <1>2, <1>4 DEF SleepingProducers, s
<1>5. ASSUME NEW u \in Thread, s[u] = "waiting", state' = [s EXCEPT ![u] = "notified"]
      PROVE  \/ /\ state[c] = "waiting" /\ state'[c] = "notified"
                /\ SleepingProducers' = SleepingProducers
                /\ state' = [state EXCEPT ![t] = "ready", ![c] = "notified"]
             \/ \E q \in SleepingProducers :
                /\ SleepingProducers' = SleepingProducers \ {q}
                /\ state' = [state EXCEPT ![t] = "ready", ![q] = "notified"]
                /\ q # t /\ q # c
  <2>1. \A v \in Thread : state'[v] = IF v = u THEN "notified" ELSE s[v]
    BY <1>1, <1>5
  <2>2. u # t /\ state[u] = "waiting"
    BY <1>2, <1>3, <1>5
  <2>3. CASE u = c
    <3>1. SleepingProducers' = SleepingProducers
      BY <1>1, <1>2, <2>1, <2>3 DEF SleepingProducers
    <3> QED BY <1>1, <1>5, <2>1, <2>2, <2>3, <3>1 DEF s
  <2>4. CASE u \in Producers
    <3>1. u \in SleepingProducers /\ SleepingProducers' = SleepingProducers \ {u}
      BY <1>1, <1>2, <2>1, <2>2, <2>4 DEF SleepingProducers
    <3> QED BY <1>1, <1>5, <2>2, <2>4, <3>1 DEF s
  <2> QED BY <1>1, <2>3, <2>4
<1> QED BY <1>1, <1>4, <1>5, NotifyOneFacts DEF s

\* The facts every case below starts from.
LEMMA AwakeFacts ==
    ASSUME NEW c, OneGetter(c), AwakeInv(c)
    PROVE  /\ Thread = Producers \cup {c} /\ c \notin Producers
           /\ state \in [Thread -> State] /\ sent \in [Producers -> 0 .. Rows]
           /\ buffer \in Seq(Row) /\ Len(buffer) \in Nat /\ Len(buffer) <= max_size
           /\ max_size \in Nat \ {0} /\ Rows \in Nat
           /\ Cardinality(Producers) < 2 * max_size
           /\ Len(buffer) = 0 <=> buffer = <<>>
BY SMTT(30), BufferAssumption DEF OneGetter, AwakeInv, TypeOK, Thread, State

\* add with room: the getter, or one more producer, is woken.
LEMMA AwakePut ==
    ASSUME NEW c, OneGetter(c), AwakeInv(c), TypeOK', NEW p \in Producers, Testing(p),
           PutBy(p), state' \in NotifyOne([state EXCEPT ![p] = "ready"])
    PROVE  FewSleep(c)' /\ WakeUpsPassedOn(c)'
<1> DEFINE w == Cardinality(SleepingProducers)
           w1 == Cardinality(SleepingProducers')
           N == Cardinality(Producers)
           k == Len(buffer)
<1>1. /\ w \in Nat /\ w1 \in Nat /\ N \in Nat /\ w1 <= N
      /\ w = 0 <=> SleepingProducers = {}
      /\ w1 = 0 <=> SleepingProducers' = {}
  BY SleepersFacts
<1>2. k \in Nat /\ Len(buffer') = k + 1 /\ k < max_size /\ max_size \in Nat /\ buffer' # <<>>
  BY SMTT(30), AwakeFacts DEF PutBy, HasRoom
<1>3. /\ state[c] # "waiting" => w = 0 \/ w + max_size <= N + k
      /\ state[c] = "waiting" => w + k + max_size <= N \/ (w = 0 /\ k = 0)
  BY DEF AwakeInv, FewSleep
<1>4. p \in Thread /\ p # c /\ state[p] # "waiting"
  BY AwakeFacts DEF Testing
<1>5. \/ /\ w = 0 /\ w1 = 0 /\ state[c] # "waiting"
         /\ state' = [state EXCEPT ![p] = "ready"]
      \/ /\ state[c] = "waiting" /\ state'[c] = "notified" /\ w1 = w
         /\ state' = [state EXCEPT ![p] = "ready", ![c] = "notified"]
      \/ \E q \in SleepingProducers :
         /\ w1 = w - 1 /\ w # 0
         /\ state' = [state EXCEPT ![p] = "ready", ![q] = "notified"]
         /\ q # p /\ q # c
  <2>1. TypeOK
    BY DEF AwakeInv
  <2> QED BY <1>1, <1>4, <2>1, NotifyCases, OneWakes
<1> HIDE DEF w, w1, N, k
<1>6. state \in [Thread -> State] /\ Thread = Producers \cup {c} /\ c \notin Producers
  BY AwakeFacts
<1>7. FewSleep(c)'
  <2> DEFINE Few == /\ state'[c] # "waiting" => w1 = 0 \/ w1 + max_size <= N + Len(buffer')
                    /\ state'[c] = "waiting" => \/ w1 + Len(buffer') + max_size <= N
                                                \/ w1 = 0 /\ Len(buffer') = 0
  <2>1. Few
    <3>1. CASE w = 0 /\ w1 = 0 /\ state[c] # "waiting" /\ state' = [state EXCEPT ![p] = "ready"]
      BY <1>4, <1>6, <3>1
    <3>2. CASE state[c] = "waiting" /\ state'[c] = "notified" /\ w1 = w
      BY SMTT(30), <1>1, <1>2, <1>3, <3>2
    <3>3. ASSUME NEW q \in SleepingProducers, w1 = w - 1, w # 0, q # p, q # c,
                 state' = [state EXCEPT ![p] = "ready", ![q] = "notified"]
          PROVE  Few
      <4>1. state'[c] = state[c]
        BY <1>4, <1>6, <3>3
      <4> QED BY SMTT(30), <1>1, <1>2, <1>3, <3>3, <4>1
    <3> QED BY <1>5, <3>1, <3>2, <3>3
  <2> QED BY <2>1 DEF FewSleep, w1, N
<1>8. WakeUpsPassedOn(c)'
  <2>1. SleepingProducers' # {} => SomeProducerWoken' \/ (state'[c] = "notified" /\ buffer' # <<>>)
    <3>1. ASSUME NEW q \in SleepingProducers, q # p, q # c,
                 state' = [state EXCEPT ![p] = "ready", ![q] = "notified"]
          PROVE  SomeProducerWoken'
      BY <1>6, <3>1 DEF SomeProducerWoken, SleepingProducers
    <3> QED BY <1>1, <1>2, <1>5, <3>1
  <2>2. state'[c] = "waiting" => SomeProducerWoken'
    <3>1. ASSUME NEW q \in SleepingProducers, q # p, q # c,
                 state' = [state EXCEPT ![p] = "ready", ![q] = "notified"]
          PROVE  SomeProducerWoken'
      BY <1>6, <3>1 DEF SomeProducerWoken, SleepingProducers
    <3> QED BY <1>4, <1>5, <1>6, <3>1
  <2>3. ASSUME NEW r \in Producers, state'[r] # "ready" PROVE sent'[r] < Rows
    <3>1. r # p /\ state[r] # "ready"
      BY <1>4, <1>5, <1>6, <2>3 DEF SleepingProducers
    <3> QED BY <3>1, AwakeFacts DEF AwakeInv, WakeUpsPassedOn, PutBy
  <2> QED BY <2>1, <2>2, <2>3 DEF WakeUpsPassedOn
<1> QED BY <1>7, <1>8

\* add on a full buffer: the getter is awake, or it would be one of too many.
LEMMA AwakeFull ==
    ASSUME NEW c, OneGetter(c), AwakeInv(c), NEW p \in Producers, Testing(p),
           sent[p] < Rows, ~HasRoom, Wait(p)
    PROVE  FewSleep(c)' /\ WakeUpsPassedOn(c)'
<1> DEFINE w == Cardinality(SleepingProducers)
           w1 == Cardinality(SleepingProducers')
           N == Cardinality(Producers)
<1>1. w \in Nat /\ w1 \in Nat /\ N \in Nat /\ w1 <= N
  BY SleepersFacts
<1>2. /\ Len(buffer) = max_size /\ max_size \in Nat \ {0} /\ N < 2 * max_size
      /\ buffer' = buffer /\ sent' = sent
      /\ state' = [state EXCEPT ![p] = "waiting"] /\ state'[c] = state[c]
  BY SMTT(30), AwakeFacts DEF HasRoom, Wait
<1>3. state[c] # "waiting"
  <2>1. state[c] = "waiting" => w + Len(buffer) + max_size <= N \/ (w = 0 /\ Len(buffer) = 0)
    BY DEF AwakeInv, FewSleep
  <2> HIDE DEF w, N
  <2> QED BY SMTT(30), <1>1, <1>2, <2>1
<1>4. FewSleep(c)'
  BY SMTT(30), <1>1, <1>2, <1>3 DEF FewSleep
<1>5. ASSUME NEW r \in Producers, state'[r] # "ready" PROVE sent'[r] < Rows
  BY <1>2, <1>5, AwakeFacts DEF AwakeInv, WakeUpsPassedOn
<1>6. ~HasRoom'
  BY <1>2 DEF HasRoom
<1> QED BY <1>2, <1>3, <1>4, <1>5, <1>6 DEF WakeUpsPassedOn

\* get with a row: the room it makes is announced to a sleeping producer.
LEMMA AwakeTake ==
    ASSUME NEW c, OneGetter(c), AwakeInv(c), Testing(c), TakeFront(c)
    PROVE  FewSleep(c)' /\ WakeUpsPassedOn(c)'
<1> DEFINE w == Cardinality(SleepingProducers)
           w1 == Cardinality(SleepingProducers')
           N == Cardinality(Producers)
           k == Len(buffer)
<1>1. /\ w \in Nat /\ w1 \in Nat /\ N \in Nat /\ w1 <= N
      /\ w = 0 <=> SleepingProducers = {}
      /\ w1 = 0 <=> SleepingProducers' = {}
  BY SleepersFacts
<1>2. k \in Nat \ {0} /\ Len(buffer') = k - 1 /\ k <= max_size /\ max_size \in Nat
  BY SMTT(30), AwakeFacts DEF TakeFront
<1>3. c \in Thread /\ state[c] # "waiting" /\ state \in [Thread -> State] /\ c \notin Producers
      /\ Thread = Producers \cup {c}
  BY AwakeFacts DEF Testing
<1>4. w = 0 \/ w + max_size <= N + k
  BY <1>3 DEF AwakeInv, FewSleep
<1>5. \/ w = 0 /\ w1 = 0 /\ state' = [state EXCEPT ![c] = "ready"]
      \/ \E q \in SleepingProducers :
         /\ w1 = w - 1 /\ w # 0
         /\ state' = [state EXCEPT ![c] = "ready", ![q] = "notified"]
         /\ q # c
  <2>1. TypeOK /\ state' \in NotifyOne([state EXCEPT ![c] = "ready"])
    BY DEF AwakeInv, TakeFront
  <2> QED BY <1>1, <1>3, <2>1, NotifyCases, OneWakes
<1> HIDE DEF w, w1, N, k
<1>6. state'[c] = "ready"
  BY <1>3, <1>5
<1>7. FewSleep(c)'
  <2>1. w1 = 0 \/ w1 + max_size <= N + Len(buffer')
    BY SMTT(30), <1>1, <1>2, <1>4, <1>5
  <2> QED BY <1>6, <2>1 DEF FewSleep, w1, N
<1>8. SleepingProducers' # {} => SomeProducerWoken'
  <2>1. ASSUME NEW q \in SleepingProducers, q # c,
               state' = [state EXCEPT ![c] = "ready", ![q] = "notified"]
        PROVE  SomeProducerWoken'
    BY <1>3, <2>1 DEF SomeProducerWoken, SleepingProducers
  <2> QED BY <1>1, <1>5, <2>1
<1>9. ASSUME NEW r \in Producers, state'[r] # "ready" PROVE sent'[r] < Rows
  <2>1. state[r] # "ready"
    BY <1>3, <1>5, <1>9 DEF SleepingProducers
  <2> QED BY <2>1 DEF AwakeInv, WakeUpsPassedOn, TakeFront
<1> QED BY <1>6, <1>7, <1>8, <1>9 DEF WakeUpsPassedOn

\* get on an empty buffer: few enough producers still sleep.
LEMMA AwakeEmpty ==
    ASSUME NEW c, OneGetter(c), AwakeInv(c), Testing(c), buffer = <<>>, Wait(c)
    PROVE  FewSleep(c)' /\ WakeUpsPassedOn(c)'
<1> DEFINE w == Cardinality(SleepingProducers)
           N == Cardinality(Producers)
<1>1. w \in Nat /\ N \in Nat /\ max_size \in Nat \ {0} /\ Len(buffer) = 0
  BY SleepersFacts, AwakeFacts
<1>2. /\ state[c] # "waiting" /\ state' = [state EXCEPT ![c] = "waiting"]
      /\ buffer' = buffer /\ sent' = sent /\ state'[c] = "waiting"
      /\ \A p \in Producers : state'[p] = state[p]
  BY AwakeFacts DEF Testing, Wait
<1>3. SleepingProducers' = SleepingProducers /\ (SomeProducerWoken' <=> SomeProducerWoken)
  BY <1>2 DEF SleepingProducers, SomeProducerWoken
<1>4. w = 0 \/ w + max_size <= N + Len(buffer)
  BY <1>2 DEF AwakeInv, FewSleep
<1>5. FewSleep(c)'
  <2>1. w + Len(buffer) + max_size <= N \/ (w = 0 /\ Len(buffer) = 0)
    <3> HIDE DEF w, N
    <3> QED BY SMTT(30), <1>1, <1>4
  <2> QED BY <1>2, <1>3, <2>1 DEF FewSleep
<1>6. SleepingProducers # {} => SomeProducerWoken
  BY SMTT(30), <1>1, <1>2 DEF AwakeInv, WakeUpsPassedOn, HasRoom
<1>7. \A r \in Producers : state'[r] # "ready" => sent'[r] < Rows
  BY <1>2 DEF AwakeInv, WakeUpsPassedOn
<1> QED BY <1>2, <1>3, <1>5, <1>6, <1>7 DEF WakeUpsPassedOn

\* A spurious wake-up only makes one thread more test its predicate.
LEMMA AwakeSpurious ==
    ASSUME NEW c, OneGetter(c), AwakeInv(c), NEW t \in Thread, SpuriousWakeUp(t)
    PROVE  FewSleep(c)' /\ WakeUpsPassedOn(c)'
<1> DEFINE w == Cardinality(SleepingProducers)
           w1 == Cardinality(SleepingProducers')
           N == Cardinality(Producers)
           k == Len(buffer)
<1>1. w \in Nat /\ w1 \in Nat /\ N \in Nat /\ max_size \in Nat \ {0} /\ k \in Nat
      /\ (w = 0 <=> SleepingProducers = {}) /\ (w1 = 0 <=> SleepingProducers' = {})
  BY SleepersFacts, AwakeFacts
<1>2. /\ state[t] = "waiting" /\ state' = [state EXCEPT ![t] = "notified"]
      /\ buffer' = buffer /\ sent' = sent
      /\ \A u \in Thread : state'[u] = IF u = t THEN "notified" ELSE state[u]
      /\ Thread = Producers \cup {c} /\ c \notin Producers
  BY AwakeFacts DEF SpuriousWakeUp
<1>3. /\ state[c] # "waiting" => w = 0 \/ w + max_size <= N + k
      /\ state[c] = "waiting" => w + k + max_size <= N \/ (w = 0 /\ k = 0)
  BY DEF AwakeInv, FewSleep
<1>4. \A r \in Producers : state'[r] # "ready" => sent'[r] < Rows
  BY <1>2 DEF AwakeInv, WakeUpsPassedOn
<1>5. CASE t = c
  <2>1. SleepingProducers' = SleepingProducers /\ (SomeProducerWoken' <=> SomeProducerWoken)
    BY SMTT(30), <1>2, <1>5 DEF SleepingProducers, SomeProducerWoken
  <2>2. state'[c] = "notified" /\ state[c] = "waiting"
    BY <1>2, <1>5
  <2>3. FewSleep(c)'
    <3>1. w = 0 \/ w + max_size <= N + k
      <4> HIDE DEF w, N, k
      <4> QED BY SMTT(30), <1>1, <1>3, <2>2
    <3> QED BY <1>2, <2>1, <2>2, <3>1 DEF FewSleep
  <2>4. HasRoom /\ SleepingProducers # {} => SomeProducerWoken
    BY <2>2 DEF AwakeInv, WakeUpsPassedOn
  <2> QED BY <1>2, <1>4, <2>1, <2>2, <2>3, <2>4 DEF WakeUpsPassedOn, HasRoom
<1>6. CASE t \in Producers
  <2>1. t \in SleepingProducers /\ SleepingProducers' = SleepingProducers \ {t}
        /\ SomeProducerWoken' /\ state'[c] = state[c]
    BY SMTT(30), <1>2, <1>6 DEF SleepingProducers, SomeProducerWoken
  <2>2. w1 = w - 1 /\ w # 0
    BY <1>1, <2>1, OneWakes
  <2>3. FewSleep(c)'
    <3>1. /\ state[c] # "waiting" => w1 = 0 \/ w1 + max_size <= N + k
          /\ state[c] = "waiting" => w1 + k + max_size <= N \/ (w1 = 0 /\ k = 0)
      <4> HIDE DEF w, w1, N, k
      <4> QED BY SMTT(30), <1>1, <1>3, <2>2
    <3> QED BY <1>2, <2>1, <3>1 DEF FewSleep
  <2> QED BY <1>4, <2>1, <2>3 DEF WakeUpsPassedOn
<1> QED BY <1>2, <1>5, <1>6

\* Every step of the producers and the getter keeps the invariant.
LEMMA AwakeNext ==
    ASSUME NEW c, OneGetter(c), AwakeInv(c), TypeOK', [Next]_vars
    PROVE  AwakeInv(c)'
<1>1. ASSUME NEW p \in Producers, Add(p) PROVE FewSleep(c)' /\ WakeUpsPassedOn(c)'
  <2>1. CASE HasRoom
    <3>1. PutBy(p) /\ Testing(p) /\ state' \in NotifyOne([state EXCEPT ![p] = "ready"])
      BY <1>1, <2>1 DEF Add, PutBy
    <3> QED BY <3>1, AwakePut
  <2>2. CASE ~HasRoom
    <3>1. Testing(p) /\ sent[p] < Rows /\ Wait(p)
      BY <1>1, <2>2 DEF Add
    <3> QED BY <2>2, <3>1, AwakeFull
  <2> QED BY <2>1, <2>2
<1>2. ASSUME Get(c) PROVE FewSleep(c)' /\ WakeUpsPassedOn(c)'
  <2>1. Testing(c) /\ (TakeFront(c) \/ (buffer = <<>> /\ Wait(c)))
    BY <1>2 DEF Get
  <2> QED BY <2>1, AwakeTake, AwakeEmpty
<1>3. ASSUME NEW t \in Thread, SpuriousWakeUp(t) PROVE FewSleep(c)' /\ WakeUpsPassedOn(c)'
  BY <1>3, AwakeSpurious
<1>4. CASE UNCHANGED vars
  BY <1>4 DEF vars, AwakeInv, FewSleep, WakeUpsPassedOn, SleepingProducers, SomeProducerWoken,
     HasRoom
<1>5. \/ \E p \in Producers : Add(p)
      \/ Get(c)
      \/ \E t \in Thread : SpuriousWakeUp(t)
      \/ UNCHANGED vars
  BY DEF Next, OneGetter
<1> QED BY <1>1, <1>2, <1>3, <1>4, <1>5 DEF AwakeInv

\* The invariant leaves no state in which all sleep and work is left.
LEMMA AwakeEnough ==
    ASSUME NEW c, OneGetter(c), AwakeInv(c)
    PROVE  NotAllAsleep
<1> SUFFICES ASSUME state[c] = "waiting",
                    \A p \in Producers : sent[p] = Rows \/ state[p] = "waiting",
                    buffer # <<>> \/ \E p \in Producers : sent[p] < Rows
             PROVE  FALSE
  BY DEF NotAllAsleep, OneGetter
<1>1. ~SomeProducerWoken
  <2>1. ASSUME NEW p \in Producers, state[p] = "notified" PROVE FALSE
    <3>1. sent[p] < Rows /\ sent[p] = Rows
      BY <2>1 DEF AwakeInv, WakeUpsPassedOn
    <3> QED BY SMTT(30), <3>1, AwakeFacts
  <2> QED BY <2>1 DEF SomeProducerWoken
<1>2. buffer = <<>>
  BY <1>1 DEF AwakeInv, WakeUpsPassedOn
<1>3. SleepingProducers = {}
  <2>1. HasRoom
    BY SMTT(30), <1>2, AwakeFacts DEF HasRoom
  <2> QED BY <1>1, <1>2, <2>1 DEF AwakeInv, WakeUpsPassedOn
<1>4. PICK p \in Producers : sent[p] < Rows
  BY <1>2
<1>5. sent[p] # Rows
  BY SMTT(30), <1>4, AwakeFacts
<1>6. state[p] = "waiting"
  BY <1>5
<1> QED BY <1>3, <1>6 DEF SleepingProducers

\* One getter and fewer than 2 * max_size producers never fall asleep together
\* while rows are left, although notify_one may wake the wrong kind of thread.
\* With 2 * max_size producers they may.
THEOREM FewProducersStayAwake ==
    ASSUME NEW c, OneGetter(c)
    PROVE  Spec => []NotAllAsleep
<1>1. Init => AwakeInv(c)
  <2> SUFFICES ASSUME Init PROVE AwakeInv(c)
    OBVIOUS
  <2>1. TypeOK
    BY RowInvInit DEF RowInv
  <2>2. \A t \in Thread : state[t] = "ready"
    BY DEF Init
  <2>3. SleepingProducers = {} /\ c \in Thread /\ Producers \subseteq Thread
    BY <2>2 DEF SleepingProducers, OneGetter, Thread
  <2>4. Cardinality(SleepingProducers) = 0
    BY <2>3, FS_EmptySet
  <2> QED BY <2>1, <2>2, <2>3, <2>4 DEF AwakeInv, FewSleep, WakeUpsPassedOn, Init
<1>2. AwakeInv(c) /\ TypeOK' /\ [Next]_vars => AwakeInv(c)'
  BY AwakeNext
<1>3. AwakeInv(c) => NotAllAsleep
  BY AwakeEnough
<1> QED BY <1>1, <1>2, <1>3, BufferTypeCorrect, PTL DEF Spec
===============================================================================
