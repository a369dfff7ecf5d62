---------------------------- MODULE BoundedQueue ----------------------------
(***************************************************************************)
(* What a SharedBuffer promises to the threads that share it: a queue of   *)
(* at most max_size rows.  A row enters at the back when there is room and *)
(* leaves from the front, one at a time; emptying the queue discards all   *)
(* the rows it holds.  Threads, locks and wake-ups are not visible here.   *)
(***************************************************************************)
EXTENDS Naturals, Sequences

CONSTANTS
    Row,        \* the rows that may be put into the queue
    max_size    \* how many it holds

VARIABLES
    buffer,     \* the rows inside, oldest first
    delivered,  \* the rows that were taken
    cleared     \* the rows that were discarded

vars == <<buffer, delivered, cleared>>

Init ==
    /\ buffer = <<>>
    /\ delivered = {}
    /\ cleared = {}

Put(r) ==
    /\ Len(buffer) < max_size
    /\ buffer' = Append(buffer, r)
    /\ UNCHANGED <<delivered, cleared>>

Take ==
    /\ buffer # <<>>
    /\ delivered' = delivered \cup {Head(buffer)}
    /\ buffer' = Tail(buffer)
    /\ UNCHANGED cleared

Discard ==
    /\ cleared' = cleared \cup {buffer[i] : i \in DOMAIN buffer}
    /\ buffer' = <<>>
    /\ UNCHANGED delivered

Next == (\E r \in Row : Put(r)) \/ Take \/ Discard

Spec == Init /\ [][Next]_vars
=============================================================================
