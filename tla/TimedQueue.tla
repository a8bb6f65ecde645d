----------------------------- MODULE TimedQueue -----------------------------
(***************************************************************************)
(* What the delay queues of lora_pkt_fwd promise to the threads that use   *)
(* them: a bounded queue kept in the order of the quit times, in which     *)
(* items of equal quit time keep their order of arrival.  The interface is *)
(* the one of inc/delay_queue.h; how the list is stored does not show.     *)
(***************************************************************************)
EXTENDS Naturals, Sequences

CONSTANTS
    Capacity,   \* MAXQUEUE
    Horizon,    \* the largest quit time an item can have
    MaxItems    \* how many items are ever queued

VARIABLE
    q           \* the items in the queue, the next one to leave first

\* An item is a quit time and the serial number of its arrival.
Item == [due : 0..Horizon, ser : 1..MaxItems]

\* Queue x behind everything that leaves no later than it.
Put(x) ==
    /\ Len(q) < Capacity
    /\ \E p \in 1..Len(q)+1 :
         /\ \A i \in 1..p-1 : q[i].due <= x.due
         /\ \A i \in p..Len(q) : q[i].due > x.due
         /\ q' = [i \in 1..Len(q)+1 |->
                    IF i < p THEN q[i] ELSE IF i = p THEN x ELSE q[i-1]]

Take == q # << >> /\ q' = Tail(q)

Clear == q' = << >>

Init == q = << >>

Next == (\E x \in Item : Put(x)) \/ Take \/ Clear

Spec == Init /\ [][Next]_q
=============================================================================
