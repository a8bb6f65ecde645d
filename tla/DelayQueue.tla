----------------------------- MODULE DelayQueue -----------------------------
(***************************************************************************)
(* The delay queue of lora_pkt_fwd: src/delay_queue.c, used by the join    *)
(* accept threads, and src/task_queue.c, the same code for the class A     *)
(* answers.  A singly linked list with `front', `rear' and a counter; the  *)
(* producer appends an item and then calls Insertion_Sort, which relinks   *)
(* the list by quit time and leaves `rear' alone.                          *)
(*                                                                         *)
(* Heap cells are named by the serial number of the EnQueue that           *)
(* allocated them, so `rear' may name a cell that is inside the list, that *)
(* was cut off, or that was freed.  Operations run one at a time here; the *)
(* sort is one step per iteration of its loop.                             *)
(*                                                                         *)
(* Times are `unsigned long' microseconds: on the gateway's 32-bit         *)
(* processor they start again at 0 every 71.6 minutes, and what the list   *)
(* compares is the remainder.                                              *)
(***************************************************************************)
EXTENDS Naturals, Sequences

CONSTANTS
    MAXQUEUE,   \* the bound EnQueue tests
    W,          \* the range of an unsigned long, 2^32 on the gateway
    Delay,      \* node.delay: quit time minus arrival time
    MaxClock,   \* bound on the wall clock
    MaxItems    \* bound on the number of EnQueue calls

ASSUME DelayQueueAssumption ==
    /\ MAXQUEUE \in Nat \ {0}
    /\ W \in Nat \ {0}
    /\ Delay \in Nat
    /\ MaxClock \in Nat
    /\ MaxItems \in Nat

VARIABLES
    chain,      \* the cells reached from front; during the sort, those
                \* already relinked followed by those still behind head2
    sorted,     \* how many cells of chain the sort has relinked
    rear,       \* the cell pq->rear points to, 0 for NULL
    rearFreed,  \* pq->rear points to a cell that was freed
    items,      \* pq->items
    pc,         \* "idle", between EnQueue and the sort, in it, or dead
    clock,      \* what gettimeofday returns
    calls,      \* EnQueue calls that allocated a cell so far
    disturbed   \* since the queue was last empty the clock was set back, or
                \* its remainder started again below one already queued

vars == <<chain, sorted, rear, rearFreed, items, pc, clock, calls, disturbed>>

\* due is the time at which the item is to leave; Qut_Queue_Delay holds Key.
Cell == [due : 0..(MaxClock + Delay), ser : 1..MaxItems]

Key(cell) == cell.due % W

Null == 0

TypeOK ==
    /\ chain \in Seq(Cell)
    /\ sorted \in Nat
    /\ rear \in 0..MaxItems
    /\ rearFreed \in BOOLEAN
    /\ items \in 0..MAXQUEUE
    /\ pc \in {"idle", "unsorted", "sorting", "crashed"}
    /\ clock \in 0..MaxClock
    /\ calls \in 0..MaxItems
    /\ disturbed \in BOOLEAN

Init ==
    /\ chain = << >>
    /\ sorted = 0
    /\ rear = Null
    /\ rearFreed = FALSE
    /\ items = 0
    /\ pc = "idle"
    /\ clock \in 0..MaxClock
    /\ calls = 0
    /\ disturbed = FALSE

-----------------------------------------------------------------------------
\* The cell EnQueue allocates for a packet that arrives now.
NewCell == [due |-> clock + Delay, ser |-> calls + 1]

\* The chain after `rear->next = pnew' when rear is its p-th cell: what was
\* linked behind that cell is cut off.
LinkBehind(p) == [i \in 1..p+1 |-> IF i <= p THEN chain[i] ELSE NewCell]

InChain(cell) == \E i \in 1..Len(chain) : chain[i].ser = cell

QueueIsFullOff == items > MAXQUEUE    \* mutant: the bound is tested too late
QueueIsFull == items = MAXQUEUE

\* Mutants of Record: rear stays behind; the first item is not counted.
RecordOldRear ==
    /\ rear' = IF items = 0 THEN calls + 1 ELSE rear
    /\ items' = items + 1
    /\ UNCHANGED rearFreed
RecordUncounted ==
    /\ rear' = calls + 1
    /\ items' = IF items = 0 THEN 0 ELSE items + 1
    /\ rearFreed' = FALSE

\* pq->rear = pnew; pq->items++
Record ==
    /\ rear' = calls + 1
    /\ items' = items + 1
    /\ rearFreed' = FALSE

\* EnQueue on a queue that is not full; the producer sorts next.
EnQueue ==
    /\ pc = "idle"
    /\ ~QueueIsFull
    /\ calls < MaxItems
    /\ \/ items = 0 /\ chain' = <<NewCell>>
       \/ /\ items > 0
          /\ \E p \in 1..Len(chain) :
               chain[p].ser = rear /\ chain' = LinkBehind(p)
       \/ /\ items > 0
          /\ ~InChain(rear)              \* pnew hangs on a lost or freed cell
          /\ UNCHANGED chain
    /\ Record
    /\ calls' = calls + 1
    /\ pc' = "unsorted"
    /\ UNCHANGED <<sorted, clock, disturbed>>

\* EnQueue refuses; the caller ignores the result and sorts all the same.
EnQueueFull ==
    /\ pc = "idle"
    /\ QueueIsFull
    /\ pc' = "unsorted"
    /\ UNCHANGED <<chain, sorted, rear, rearFreed, items, clock, calls, disturbed>>

\* head2 = front->next; front->next = NULL.  An empty list has no front.
SortSplit ==
    /\ pc = "unsorted"
    /\ IF chain = << >>
       THEN pc' = "crashed" /\ UNCHANGED sorted
       ELSE pc' = "sorting" /\ sorted' = 1
    /\ UNCHANGED <<chain, rear, rearFreed, items, clock, calls, disturbed>>

\* s with its j-th element moved to position p, p <= j.
MoveTo(s, j, p) ==
    [i \in 1..Len(s) |->
        IF i < p \/ i > j THEN s[i] ELSE IF i = p THEN s[j] ELSE s[i-1]]

\* Mutant of InsertAt: `<' for `<=' in the search.
InsertAtFirst(p) ==
    LET current == chain[sorted + 1]
    IN  /\ \A i \in 1..p-1 : Key(chain[i]) < Key(current)
        /\ p <= sorted => Key(chain[p]) >= Key(current)

\* The first relinked cell that leaves later than the one to insert.
InsertAt(p) ==
    LET current == chain[sorted + 1]
    IN  /\ \A i \in 1..p-1 : Key(chain[i]) <= Key(current)
        /\ p <= sorted => Key(chain[p]) > Key(current)

HeadIsNull == sorted = Len(chain)     \* head2 == NULL

\* One iteration of the loop: the next cell goes where it belongs.
SortInsert ==
    /\ pc = "sorting"
    /\ ~HeadIsNull
    /\ \E p \in 1..sorted+1 :
         InsertAt(p) /\ chain' = MoveTo(chain, sorted + 1, p)
    /\ sorted' = sorted + 1
    /\ UNCHANGED <<rear, rearFreed, items, pc, clock, calls, disturbed>>

SortDone ==
    /\ pc = "sorting"
    /\ HeadIsNull
    /\ pc' = "idle"
    /\ sorted' = 0
    /\ UNCHANGED <<chain, rear, rearFreed, items, clock, calls, disturbed>>

\* DeQueue: the first cell is copied out and freed.  rear is reset only when
\* the counter says that the queue became empty.
DeQueue ==
    /\ pc = "idle"
    /\ items > 0
    /\ chain # << >>
    /\ chain' = Tail(chain)
    /\ items' = items - 1
    /\ rear' = IF items = 1 THEN Null ELSE rear
    /\ rearFreed' = (items # 1 /\ (rearFreed \/ chain[1].ser = rear))
    /\ disturbed' = (items # 1 /\ disturbed)
    /\ UNCHANGED <<sorted, pc, clock, calls>>

\* EmptyTheQueue: DeQueue until the counter is zero.
EmptyTheQueue ==
    /\ pc = "idle"
    /\ items = Len(chain)
    /\ items > 0
    /\ chain' = << >>
    /\ items' = 0
    /\ rear' = Null
    /\ rearFreed' = FALSE
    /\ disturbed' = FALSE
    /\ UNCHANGED <<sorted, pc, clock, calls>>

\* The counter promises more items than the list has: EmptyTheQueue, or
\* DeQueue and GetFront_Queue once the list is used up, follow a NULL front.
FollowNullFront ==
    /\ pc = "idle"
    /\ items > Len(chain)
    /\ pc' = "crashed"
    /\ UNCHANGED <<chain, sorted, rear, rearFreed, items, clock, calls, disturbed>>

\* A packet that arrives at time t gets a quit time below that of one that
\* arrives now: t is earlier, or the 32-bit sum started again in between.
Falls(t) == t < clock \/ (t + Delay) % W < (clock + Delay) % W

\* Wall-clock time passes, or the clock is set back, between two calls.
MoveClock(t) ==
    /\ clock' = t
    /\ disturbed' = (disturbed \/ (items > 0 /\ Falls(t)))
    /\ UNCHANGED <<chain, sorted, rear, rearFreed, items, pc, calls>>

Tick == \E t \in clock+1..MaxClock : MoveClock(t)
StepBack == \E t \in 0..clock-1 : MoveClock(t)

Operation ==
    \/ EnQueue \/ EnQueueFull
    \/ SortSplit \/ SortInsert \/ SortDone
    \/ DeQueue \/ EmptyTheQueue \/ FollowNullFront

Next == Operation \/ Tick \/ StepBack

Spec == Init /\ [][Next]_vars

-----------------------------------------------------------------------------
\* The list is in the order of the quit times it stores: once the sort is
\* done, even if the clock was set back or started again, and in every state
\* of the sort in order of arrival where the quit times are equal.  Joins that
\* are due together are answered first come first served (the `<=' in the loop
\* of Insertion_Sort).
TiesByArrival ==
    \A i, j \in 1..Len(chain) :
        i < j /\ Key(chain[i]) = Key(chain[j]) => chain[i].ser < chain[j].ser

SortedWhenIdle ==
    pc = "idle" =>
        \A i, j \in 1..Len(chain) : i < j => Key(chain[i]) <= Key(chain[j])

InOrder == TiesByArrival /\ SortedWhenIdle

\* rear is the last cell, and the counter counts the list, as EnQueue needs.
Linked ==
    /\ items = Len(chain)
    /\ chain = << >> => rear = Null
    /\ chain # << >> /\ pc = "idle" => rear = chain[Len(chain)].ser
    /\ ~rearFreed

\* Insertion_Sort never updates rear, which is harmless exactly as long as it
\* never moves a cell, and stored quit times only go down when the clock is
\* set back or its 32-bit remainder starts again while items wait.  The damage
\* is over when the queue next runs empty.  Even during it the counter does
\* not run behind the list: DeQueue takes "no items" for an empty queue, so an
\* item it does not count would stay for ever.
CounterCoversChain == items >= Len(chain)
LinkedUnlessDisturbed == CounterCoversChain /\ (~disturbed => Linked)

\* Outside such a disturbance the list is the queue it is meant to be, in the
\* order of the times the items are really due: every step is one of the timed
\* queue or does not show.
TQ == INSTANCE TimedQueue WITH
    q <- chain, Capacity <- MAXQUEUE, Horizon <- MaxClock + Delay
ImplementsTimedQueue == TQ!Init /\ [][disturbed' \/ TQ!Next]_chain
=============================================================================
