---------------------------- MODULE SharedBuffer ----------------------------
(***************************************************************************)
(* query/processor/cypher/util/SharedBuffer: the bounded buffer that joins *)
(* the threads of a query.  One mutex guards a deque; one condition        *)
(* variable serves the threads that wait for room and the threads that     *)
(* wait for a row, and every add and every removal calls notify_one, which *)
(* wakes an arbitrary waiter of either kind.                               *)
(*                                                                         *)
(* A critical section is one step: the mutex is held from the test of the  *)
(* predicate to the notification.  What interleaves is the order in which  *)
(* threads obtain the mutex, and a woken thread has to obtain it again     *)
(* before it re-tests its predicate.                                       *)
(***************************************************************************)
EXTENDS Naturals, Sequences, FiniteSets

CONSTANTS
    Producers,      \* threads that call add, each Rows times
    Getters,        \* threads that call get for ever
    Pollers,        \* threads that call tryGet for ever
    TimedGetters,   \* threads that call getWithTimeout for ever
    Clearers,       \* threads of those above that also call clear between calls
    Rows,           \* rows added by one producer
    max_size        \* const size_t max_size

ASSUME BufferAssumption ==
    /\ Rows \in Nat
    /\ max_size \in Nat \ {0}
    /\ Clearers \subseteq Producers \cup Getters \cup Pollers \cup TimedGetters

Thread == Producers \cup Getters \cup Pollers \cup TimedGetters

\* A row carries what the properties tell apart: who added it, and its number.
Row == Producers \X (1 .. Rows)

VARIABLES
    buffer,     \* std::deque<std::string> buffer, front first
    state,      \* what each thread does, see TypeOK
    sent,       \* how many rows each producer has added
    delivered,  \* the rows handed to a caller of get, tryGet or getWithTimeout
    cleared     \* the rows discarded by clear

vars == <<buffer, state, sent, delivered, cleared>>

\* ready: outside the buffer.  waiting: in the condition variable's wait set.
\* notified: woken up.  timedout: woken up by the clock.  The last two hold no
\* lock yet.
TypeOK ==
    /\ buffer \in Seq(Row)
    /\ Len(buffer) <= max_size
    /\ state \in [Thread -> {"ready", "waiting", "notified", "timedout"}]
    /\ sent \in [Producers -> 0 .. Rows]
    /\ delivered \subseteq Row
    /\ cleared \subseteq Row

Init ==
    /\ buffer = <<>>
    /\ state = [t \in Thread |-> "ready"]
    /\ sent = [p \in Producers |-> 0]
    /\ delivered = {}
    /\ cleared = {}

-----------------------------------------------------------------------------
(* The condition variable. *)

Waiting(s) == {t \in Thread : s[t] = "waiting"}

\* cv.notify_one(): some waiter leaves the wait set, nothing happens without one.
NotifyOne(s) ==
    IF Waiting(s) = {} THEN {s}
    ELSE {[s EXCEPT ![t] = "notified"] : t \in Waiting(s)}

\* cv.notify_all()
NotifyAll(s) == [t \in Thread |-> IF s[t] = "waiting" THEN "notified" ELSE s[t]]

\* cv.wait: the predicate is false, the mutex is released.
Wait(t) ==
    /\ state' = [state EXCEPT ![t] = "waiting"]
    /\ UNCHANGED <<buffer, sent, delivered, cleared>>

\* The C++ memory model lets a wait return without a notification; the
\* predicate is then tested again.
SpuriousWakeUp(t) ==
    /\ state[t] = "waiting"
    /\ state' = [state EXCEPT ![t] = "notified"]
    /\ UNCHANGED <<buffer, sent, delivered, cleared>>

\* A thread about to test its predicate with the mutex held.
Testing(t) == state[t] \in {"ready", "notified"}

-----------------------------------------------------------------------------
(* The operations. *)

\* Mutant: the capacity test is off by one.
HasRoomOffByOne == Len(buffer) <= max_size

HasRoom == Len(buffer) < max_size

\* Mutant: a row that went in is not announced.
AddSilently(p) ==
    /\ Testing(p)
    /\ sent[p] < Rows
    /\ \/ /\ HasRoom
          /\ buffer' = Append(buffer, <<p, sent[p] + 1>>)
          /\ sent' = [sent EXCEPT ![p] = @ + 1]
          /\ state' = [state EXCEPT ![p] = "ready"]
          /\ UNCHANGED <<delivered, cleared>>
       \/ ~HasRoom /\ Wait(p)

Add(p) ==
    /\ Testing(p)
    /\ sent[p] < Rows
    /\ \/ /\ HasRoom
          /\ buffer' = Append(buffer, <<p, sent[p] + 1>>)
          /\ sent' = [sent EXCEPT ![p] = @ + 1]
          /\ state' \in NotifyOne([state EXCEPT ![p] = "ready"])
          /\ UNCHANGED <<delivered, cleared>>
       \/ ~HasRoom /\ Wait(p)

\* Mutant: pop_front is forgotten.
TakeFrontAndKeep(c) ==
    /\ buffer # <<>>
    /\ delivered' = delivered \cup {Head(buffer)}
    /\ state' \in NotifyOne([state EXCEPT ![c] = "ready"])
    /\ UNCHANGED <<buffer, sent, cleared>>

\* The front row leaves the deque, one waiter is notified, the call returns it.
TakeFront(c) ==
    /\ buffer # <<>>
    /\ delivered' = delivered \cup {Head(buffer)}
    /\ buffer' = Tail(buffer)
    /\ state' \in NotifyOne([state EXCEPT ![c] = "ready"])
    /\ UNCHANGED <<sent, cleared>>

Get(c) ==
    /\ Testing(c)
    /\ \/ TakeFront(c)
       \/ buffer = <<>> /\ Wait(c)

\* An empty deque makes tryGet return false, which changes nothing.
TryGet(c) == TakeFront(c)

GetWithTimeout(c) == Get(c)

\* wait_for: the clock runs out while the thread is in the wait set ...
TimeOut(c) ==
    /\ state[c] = "waiting"
    /\ state' = [state EXCEPT ![c] = "timedout"]
    /\ UNCHANGED <<buffer, sent, delivered, cleared>>

\* ... and the predicate is tested once more when the mutex is obtained: a row
\* that came in the meantime is returned, otherwise the call returns nullopt.
AfterTimeOut(c) ==
    /\ state[c] = "timedout"
    /\ \/ TakeFront(c)
       \/ /\ buffer = <<>>
          /\ state' = [state EXCEPT ![c] = "ready"]
          /\ UNCHANGED <<buffer, sent, delivered, cleared>>

\* Mutant: nobody is told that the buffer was emptied.
ClearSilently(t) ==
    /\ state[t] = "ready"
    /\ cleared' = cleared \cup {buffer[i] : i \in DOMAIN buffer}
    /\ buffer' = <<>>
    /\ UNCHANGED <<state, sent, delivered>>

Clear(t) ==
    /\ state[t] = "ready"
    /\ cleared' = cleared \cup {buffer[i] : i \in DOMAIN buffer}
    /\ buffer' = <<>>
    /\ state' = NotifyAll(state)
    /\ UNCHANGED <<sent, delivered>>

Next ==
    \/ \E p \in Producers : Add(p)
    \/ \E c \in Getters : Get(c)
    \/ \E c \in Pollers : TryGet(c)
    \/ \E c \in TimedGetters : GetWithTimeout(c) \/ TimeOut(c) \/ AfterTimeOut(c)
    \/ \E t \in Clearers : Clear(t)
    \/ \E t \in Thread : SpuriousWakeUp(t)

Spec == Init /\ [][Next]_vars

\* A thread that can run obtains the mutex some time.  The clock, the callers
\* of clear and spurious wake-ups owe nothing.
Fairness ==
    /\ \A p \in Producers : WF_vars(Add(p))
    /\ \A c \in Getters : WF_vars(Get(c))
    /\ \A c \in Pollers : WF_vars(TryGet(c))
    /\ \A c \in TimedGetters : WF_vars(GetWithTimeout(c)) /\ WF_vars(AfterTimeOut(c))

FairSpec == Spec /\ Fairness

-----------------------------------------------------------------------------
(* Properties. *)

InBuffer(r) == \E i \in DOMAIN buffer : buffer[i] = r

\* Every row that add accepted is in exactly one place: inside the buffer, with
\* the caller that took it, or discarded by clear.  No removal loses or repeats
\* a row, whichever of the four removing operations race.
RowsConserved ==
    /\ \A i, j \in DOMAIN buffer : buffer[i] = buffer[j] => i = j
    /\ \A p \in Producers, n \in 1 .. Rows :
          /\ n <= sent[p] <=> \/ InBuffer(<<p, n>>)
                              \/ <<p, n>> \in delivered \cup cleared
          /\ ~(InBuffer(<<p, n>>) /\ <<p, n>> \in delivered \cup cleared)
          /\ ~(<<p, n>> \in delivered /\ <<p, n>> \in cleared)

\* The rows of one producer leave in the order in which it added them: a row
\* still inside is newer than those taken, and than those in front of it.
ProducerOrder ==
    \A j \in DOMAIN buffer :
        /\ \A i \in 1 .. j - 1 :
              buffer[i][1] = buffer[j][1] => buffer[i][2] < buffer[j][2]
        /\ \A r \in delivered \cup cleared :
              r[1] = buffer[j][1] => r[2] < buffer[j][2]

\* Between threads that block in add and in get, it never happens that all are
\* asleep and work is left: with one condition variable and notify_one, a
\* wake-up may go to a thread that cannot use it.
NotAllAsleep ==
    ~ /\ Pollers \cup TimedGetters = {}
      /\ \A t \in Getters : state[t] = "waiting"
      /\ \A p \in Producers : sent[p] = Rows \/ state[p] = "waiting"
      /\ \/ buffer # <<>>
         \/ \E p \in Producers : sent[p] < Rows

\* Why NotAllAsleep holds for one getter and fewer than 2 * max_size producers.
\* Producers fall asleep on a full buffer only.  Each of the max_size removals
\* that empty it wakes one of them, so at most N - max_size still sleep when the
\* getter does.  Each add then wakes the getter or one of those, and they are
\* too few for the buffer to fill before the getter's turn comes.
SleepingProducers == {p \in Producers : state[p] = "waiting"}

SomeProducerWoken == \E p \in Producers : state[p] = "notified"

FewSleep(c) ==
    LET w == Cardinality(SleepingProducers)
        N == Cardinality(Producers)
    IN  /\ state[c] # "waiting" => w = 0 \/ w + max_size <= N + Len(buffer)
        /\ state[c] = "waiting" => \/ w + Len(buffer) + max_size <= N
                                   \/ (w = 0 /\ Len(buffer) = 0)

WakeUpsPassedOn(c) ==
    /\ HasRoom /\ SleepingProducers # {} =>
          SomeProducerWoken \/ (state[c] = "notified" /\ buffer # <<>>)
    /\ state[c] = "waiting" /\ buffer # <<>> => SomeProducerWoken
    /\ \A p \in Producers : state[p] # "ready" => sent[p] < Rows

\* Each producer gets rid of all its rows, and each of them is taken, or
\* discarded by a call of clear.
EverythingLeaves == <>(delivered \cup cleared = Row)

Abstract == INSTANCE BoundedQueue

\* The buffer is a bounded first-in first-out queue, whatever its threads do.
IsBoundedQueue == Abstract!Spec
=============================================================================
