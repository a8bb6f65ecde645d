-------------------------- MODULE DelayQueueProofs --------------------------
(***************************************************************************)
(* Theorems about DelayQueue, for every capacity, delay and bound: the     *)
(* type invariant, the order of the list on any clock, and, unless the     *)
(* clock is set back or starts again while items wait, that `rear' stays   *)
(* right and that the list implements the timed queue.                     *)
(***************************************************************************)
EXTENDS DelayQueue, TLAPS

-----------------------------------------------------------------------------
\* A function on an initial segment of the naturals is a sequence.
LEMMA FunctionIsSeq ==
    ASSUME NEW S, NEW n \in Nat, NEW f \in [1..n -> S]
    PROVE  f \in Seq(S) /\ Len(f) = n
OBVIOUS

\* Inserting one cell into the relinked prefix gives a chain of the same
\* length over the same cells.
LEMMA MoveToType ==
    ASSUME NEW S, NEW s \in Seq(S), NEW j \in 1..Len(s), NEW p \in 1..j
    PROVE  MoveTo(s, j, p) \in Seq(S) /\ Len(MoveTo(s, j, p)) = Len(s)
BY FunctionIsSeq DEF MoveTo

\* What is stored of a time, its remainder, is a number.
LEMMA KeyType ==
    ASSUME NEW c \in Cell
    PROVE  Key(c) \in Nat
<1>1. c.due \in Nat /\ W \in Nat \ {0}
  BY DelayQueueAssumption DEF DelayQueueAssumption, Cell
<1>2. QED
  BY <1>1 DEF Key

\* Quit times, as they are and as they are stored, and serial numbers are
\* numbers.
LEMMA CellFields ==
    ASSUME NEW s \in Seq(Cell), NEW i \in 1..Len(s)
    PROVE  s[i].due \in Nat /\ s[i].ser \in Nat /\ Key(s[i]) \in Nat
<1>1. s[i] \in Cell
  OBVIOUS
<1>2. MaxClock + Delay \in Nat /\ MaxItems \in Nat
  BY DelayQueueAssumption DEF DelayQueueAssumption
<1>3. \A c \in Cell : c.due \in Nat /\ c.ser \in Nat /\ Key(c) \in Nat
  BY <1>2, KeyType DEF Cell
<1>4. QED
  BY <1>1, <1>3

-----------------------------------------------------------------------------
\* Serial numbers name the cells: no two are equal, none is yet to be given.
Serials ==
    /\ \A i \in 1..Len(chain) : chain[i].ser <= calls
    /\ \A i, j \in 1..Len(chain) : i < j => chain[i].ser # chain[j].ser

\* How much of the list is in order: all of it between operations, all but
\* the new cell after EnQueue, the relinked prefix during the sort.
Ordered ==
    \A i, j \in 1..Len(chain) :
        /\ i < j
        /\ pc = "unsorted" => j < Len(chain)
        /\ pc = "sorting" => j <= sorted
        /\ pc # "crashed"
        => Key(chain[i]) <= Key(chain[j])

SortBounds == pc = "sorting" => sorted \in 1..Len(chain)

\* The inductive invariant for any clock.
IInv ==
    /\ TypeOK
    /\ Serials
    /\ TiesByArrival
    /\ Ordered
    /\ SortBounds
    /\ CounterCoversChain

LEMMA InitIInv == Init => IInv
<1> SUFFICES ASSUME Init PROVE IInv
  OBVIOUS
<1>1. chain = << >> /\ chain \in Seq(Cell)
  BY DEF Init
<1>2. TypeOK
  <2>1. MAXQUEUE \in Nat /\ MaxItems \in Nat
    BY DelayQueueAssumption DEF DelayQueueAssumption
  <2>2. rear \in 0..MaxItems /\ calls \in 0..MaxItems /\ items \in 0..MAXQUEUE
    BY <2>1 DEF Init, Null
  <2>3. QED
    BY <1>1, <2>2 DEF Init, TypeOK
<1>3. Serials /\ TiesByArrival /\ Ordered
  BY <1>1 DEF Serials, TiesByArrival, Ordered
<1>4. SortBounds /\ CounterCoversChain
  BY <1>1 DEF Init, SortBounds, CounterCoversChain
<1>5. QED
  BY <1>2, <1>3, <1>4 DEF IInv

\* The chain after an EnQueue has the new cell last or is unchanged, and what
\* is before the new cell is a prefix of the old chain.
LEMMA EnQueueChain ==
    ASSUME IInv, EnQueue
    PROVE  \/ chain' = chain
           \/ \E p \in 0..Len(chain) :
                /\ chain' \in Seq(Cell)
                /\ Len(chain') = p + 1
                /\ chain'[p+1] = NewCell
                /\ \A i \in 1..p : chain'[i] = chain[i]
<1> USE DelayQueueAssumption DEF DelayQueueAssumption
<1>1. NewCell \in Cell
  BY DEF EnQueue, IInv, TypeOK, NewCell, Cell
<1>2. CASE items = 0 /\ chain' = <<NewCell>>
  <2>1. /\ chain' \in Seq(Cell)
        /\ Len(chain') = 0 + 1
        /\ chain'[0+1] = NewCell
        /\ \A i \in 1..0 : chain'[i] = chain[i]
    BY <1>1, <1>2
  <2>2. 0 \in 0..Len(chain)
    BY DEF IInv, TypeOK
  <2>3. QED
    BY <2>1, <2>2
<1>3. ASSUME NEW p \in 1..Len(chain), chain' = LinkBehind(p)
      PROVE  /\ chain' \in Seq(Cell)
             /\ Len(chain') = p + 1
             /\ chain'[p+1] = NewCell
             /\ \A i \in 1..p : chain'[i] = chain[i]
  <2>1. p + 1 \in Nat /\ chain \in Seq(Cell)
    BY DEF IInv, TypeOK
  <2>2. chain' \in [1..p+1 -> Cell]
    BY <1>1, <1>3, <2>1 DEF LinkBehind
  <2>3. chain' \in Seq(Cell) /\ Len(chain') = p + 1
    BY <2>1, <2>2, FunctionIsSeq
  <2>4. QED
    BY <1>3, <2>1, <2>3 DEF LinkBehind
<1>4. QED
  <2>1. Len(chain) \in Nat
    BY DEF IInv, TypeOK
  <2>2. \/ items = 0 /\ chain' = <<NewCell>>
        \/ \E p \in 1..Len(chain) : chain' = LinkBehind(p)
        \/ chain' = chain
    BY DEF EnQueue
  <2>3. ASSUME NEW p \in 1..Len(chain)
        PROVE  p \in 0..Len(chain)
    BY <2>1
  <2>4. QED
    BY <1>2, <1>3, <2>2, <2>3

-----------------------------------------------------------------------------
LEMMA EnQueueIInv == IInv /\ EnQueue => IInv'
<1> SUFFICES ASSUME IInv, EnQueue PROVE IInv'
  OBVIOUS
<1> DEFINE Grown(p) == /\ chain' \in Seq(Cell)
                       /\ Len(chain') = p + 1
                       /\ chain'[p+1] = NewCell
                       /\ \A i \in 1..p : chain'[i] = chain[i]
<1>1. chain' = chain \/ \E p \in 0..Len(chain) : Grown(p)
  BY EnQueueChain
<1>2. /\ chain \in Seq(Cell) /\ Len(chain) \in Nat
      /\ calls \in Nat /\ items \in 0..MAXQUEUE /\ MAXQUEUE \in Nat
      /\ pc = "idle" /\ items < MAXQUEUE /\ calls < MaxItems /\ MaxItems \in Nat
  BY DelayQueueAssumption DEF DelayQueueAssumption, IInv, TypeOK, EnQueue, QueueIsFull
<1>3. /\ calls' = calls + 1 /\ items' = items + 1 /\ rear' = calls + 1
      /\ rearFreed' = FALSE /\ pc' = "unsorted"
      /\ sorted' = sorted /\ clock' = clock /\ disturbed' = disturbed
  BY DEF EnQueue, Record
<1>4. TypeOK'
  <2>1. chain' \in Seq(Cell)
    BY <1>1, <1>2
  <2>2. rear' \in 0..MaxItems /\ calls' \in 0..MaxItems /\ items' \in 0..MAXQUEUE
    BY <1>2, <1>3
  <2>3. QED
    BY <1>3, <2>1, <2>2 DEF IInv, TypeOK
<1>5. /\ \A i \in 1..Len(chain) : chain[i].ser <= calls /\ chain[i].ser \in Nat
      /\ NewCell.ser = calls + 1
  BY <1>2, CellFields DEF IInv, Serials, NewCell
<1>6. CASE chain' = chain
  <2>1. Serials'
    BY <1>2, <1>3, <1>5, <1>6 DEF IInv, Serials
  <2>2. TiesByArrival' /\ CounterCoversChain'
    BY <1>2, <1>3, <1>6 DEF IInv, TiesByArrival, CounterCoversChain
  <2>3. Ordered' /\ SortBounds'
    BY <1>2, <1>3, <1>6 DEF IInv, Ordered, SortBounds
  <2>4. QED
    BY <1>4, <2>1, <2>2, <2>3 DEF IInv
<1>7. ASSUME NEW p \in 0..Len(chain), Grown(p)
      PROVE  IInv'
  <2>0. ASSUME NEW i \in 1..Len(chain'), NEW j \in 1..Len(chain'), i < j
        PROVE  /\ i \in 1..Len(chain) /\ chain'[i] = chain[i]
               /\ \/ j \in 1..Len(chain) /\ chain'[j] = chain[j]
                  \/ chain'[j] = NewCell
    BY <1>2, <1>7, <2>0
  <2>1. Serials'
    <3>1. ASSUME NEW i \in 1..Len(chain') PROVE chain'[i].ser <= calls'
      <4>1. CASE i = p + 1
        BY <1>2, <1>3, <1>5, <1>7, <4>1
      <4>2. CASE i # p + 1
        <5>1. i \in 1..p /\ i \in 1..Len(chain)
          BY <1>2, <1>7, <4>2
        <5>2. QED
          BY <1>2, <1>3, <1>5, <1>7, <5>1
      <4>3. QED
        BY <4>1, <4>2
    <3>2. ASSUME NEW i \in 1..Len(chain'), NEW j \in 1..Len(chain'), i < j
          PROVE  chain'[i].ser # chain'[j].ser
      BY <1>2, <1>5, <2>0, <3>2 DEF IInv, Serials
    <3>3. QED
      BY <3>1, <3>2 DEF Serials
  <2>2. TiesByArrival'
    <3> SUFFICES ASSUME NEW i \in 1..Len(chain'), NEW j \in 1..Len(chain'),
                        i < j, Key(chain'[i]) = Key(chain'[j])
                 PROVE  chain'[i].ser < chain'[j].ser
      BY DEF TiesByArrival
    <3>1. i \in 1..Len(chain) /\ chain'[i] = chain[i]
      BY <2>0
    <3>2. CASE j \in 1..Len(chain) /\ chain'[j] = chain[j]
      BY <3>1, <3>2 DEF IInv, TiesByArrival
    <3>3. CASE chain'[j] = NewCell
      BY <1>2, <1>5, <3>1, <3>3
    <3>4. QED
      BY <2>0, <3>2, <3>3
  <2>3. CounterCoversChain' /\ SortBounds'
    BY <1>2, <1>3, <1>7 DEF IInv, CounterCoversChain, SortBounds
  <2>4. Ordered'
    BY <1>2, <1>3, <1>7 DEF IInv, Ordered
  <2>5. QED
    BY <1>4, <2>1, <2>2, <2>3, <2>4 DEF IInv
<1>8. QED
  BY <1>1, <1>6, <1>7

\* One iteration of the sort: every cell keeps its place or moves one back,
\* except the inserted one, and what that one passes is due strictly later.
LEMMA SortInsertIInv == IInv /\ SortInsert => IInv'
<1> SUFFICES ASSUME IInv, SortInsert PROVE IInv'
  OBVIOUS
<1>1. PICK p \in 1..sorted+1 :
        InsertAt(p) /\ chain' = MoveTo(chain, sorted + 1, p)
  BY DEF SortInsert
<1>2. /\ chain \in Seq(Cell) /\ Len(chain) \in Nat
      /\ sorted \in 1..Len(chain) /\ sorted # Len(chain)
      /\ pc = "sorting" /\ pc' = pc /\ sorted' = sorted + 1
      /\ calls' = calls /\ items' = items
  BY DEF IInv, TypeOK, SortBounds, SortInsert, HeadIsNull
<1> DEFINE k == sorted + 1
           from(i) == IF i < p \/ i > k THEN i ELSE IF i = p THEN k ELSE i - 1
<1>3. k \in 1..Len(chain) /\ p \in 1..k
  BY <1>1, <1>2
<1>4. chain' \in Seq(Cell) /\ Len(chain') = Len(chain)
  BY <1>1, <1>2, <1>3, MoveToType
<1>5. \A i \in 1..Len(chain) : from(i) \in 1..Len(chain) /\ chain'[i] = chain[from(i)]
  BY <1>1, <1>2, <1>3 DEF MoveTo
<1>6. \A i, j \in 1..Len(chain) : i < j => from(i) < from(j) \/ (i = p /\ j <= k)
  BY <1>2, <1>3
<1>7. \A i \in 1..Len(chain) : Key(chain[i]) \in Nat /\ chain[i].ser \in Nat
  BY <1>2, CellFields
<1>8. \A j \in p..sorted : Key(chain[j]) > Key(chain[k])
  <2>1. \A j \in p..sorted : Key(chain[p]) <= Key(chain[j])
    <3>1. \A i, j \in 1..sorted : i < j => Key(chain[i]) <= Key(chain[j])
      BY <1>2 DEF IInv, Ordered
    <3>2. TAKE j \in p..sorted
    <3>3. p \in 1..sorted /\ j \in 1..sorted /\ p \in 1..Len(chain) /\ p <= j
      BY <1>2, <1>3
    <3>4. CASE p = j
      BY <1>7, <3>3, <3>4
    <3>5. CASE p < j
      BY <3>1, <3>3, <3>5
    <3>6. QED
      BY <3>3, <3>4, <3>5
  <2>2. p <= sorted => Key(chain[p]) > Key(chain[k])
    BY <1>1 DEF InsertAt
  <2>3. QED
    BY <1>2, <1>3, <1>7, <2>1, <2>2
<1>9. \A i \in 1..p-1 : Key(chain[i]) <= Key(chain[k])
  BY <1>1 DEF InsertAt
<1>10. TypeOK'
  BY <1>2, <1>4 DEF IInv, TypeOK, SortInsert
<1>11. Serials'
  <2>1. \A i, j \in 1..Len(chain) : i # j => chain[i].ser # chain[j].ser
    BY <1>2 DEF IInv, Serials
  <2>2. \A i, j \in 1..Len(chain) : i < j => from(i) # from(j)
    BY <1>2, <1>3
  <2>3. \A i \in 1..Len(chain) : chain[i].ser <= calls
    BY DEF IInv, Serials
  <2>4. ASSUME NEW i \in 1..Len(chain) PROVE chain'[i].ser <= calls
    <3> HIDE DEF from
    <3>1. QED
      BY <1>5, <2>3
  <2>5. ASSUME NEW i \in 1..Len(chain), NEW j \in 1..Len(chain), i < j
        PROVE  chain'[i].ser # chain'[j].ser
    <3>1. from(i) # from(j)
      BY <2>2, <2>5
    <3> HIDE DEF from
    <3>2. QED
      BY <1>5, <2>1, <3>1
  <2>6. QED
    BY <1>2, <1>4, <2>4, <2>5 DEF Serials
<1>12. TiesByArrival'
  <2> SUFFICES ASSUME NEW i \in 1..Len(chain), NEW j \in 1..Len(chain),
                      i < j, Key(chain'[i]) = Key(chain'[j])
               PROVE  chain'[i].ser < chain'[j].ser
    BY <1>4 DEF TiesByArrival
  <2>1. CASE from(i) < from(j)
    <3>1. \A a, b \in 1..Len(chain) :
            a < b /\ Key(chain[a]) = Key(chain[b]) => chain[a].ser < chain[b].ser
      BY DEF IInv, TiesByArrival
    <3> HIDE DEF from
    <3>2. QED
      BY <1>5, <2>1, <3>1
  <2>2. CASE i = p /\ j <= k
    <3>1. chain'[i] = chain[k]
      BY <1>3, <1>5, <2>2
    <3>2. j - 1 \in p..sorted /\ j - 1 \in 1..Len(chain) /\ chain'[j] = chain[j-1]
      BY <1>2, <1>3, <1>5, <2>2
    <3>3. Key(chain[j-1]) > Key(chain[k])
      BY <1>8, <3>2
    <3>4. QED
      BY <1>3, <1>7, <3>1, <3>2, <3>3
  <2>3. QED
    BY <1>6, <2>1, <2>2
<1>13. Ordered'
  <2> SUFFICES ASSUME NEW i \in 1..k, NEW j \in 1..k, i < j
               PROVE  Key(chain'[i]) <= Key(chain'[j])
    BY <1>2, <1>3, <1>4 DEF Ordered
  <2>0. i \in 1..Len(chain) /\ j \in 1..Len(chain)
    BY <1>2, <1>3
  <2>1. CASE i = p
    <3>1. chain'[i] = chain[k]
      BY <1>3, <1>5, <2>0, <2>1
    <3>2. j - 1 \in p..sorted /\ j - 1 \in 1..Len(chain) /\ chain'[j] = chain[j-1]
      BY <1>2, <1>3, <1>5, <2>0, <2>1
    <3>3. Key(chain[j-1]) > Key(chain[k])
      BY <1>8, <3>2
    <3>4. QED
      BY <1>3, <1>7, <3>1, <3>2, <3>3, SMTT(30)
  <2>2. CASE j = p
    <3>1. chain'[j] = chain[k]
      BY <1>3, <1>5, <2>0, <2>2
    <3>2. i \in 1..p-1 /\ chain'[i] = chain[i]
      BY <1>3, <1>5, <2>0, <2>2
    <3>3. QED
      BY <1>9, <3>1, <3>2
  <2>3. CASE i # p /\ j # p
    <3>1. from(i) \in 1..sorted /\ from(j) \in 1..sorted /\ from(i) < from(j)
      BY <1>2, <1>3, <2>3
    <3>2. \A a, b \in 1..sorted : a < b => Key(chain[a]) <= Key(chain[b])
      BY <1>2 DEF IInv, Ordered
    <3> HIDE DEF from
    <3>3. QED
      BY <1>5, <2>0, <3>1, <3>2
  <2>4. QED
    BY <2>1, <2>2, <2>3
<1>14. SortBounds' /\ CounterCoversChain'
  BY <1>2, <1>4 DEF IInv, SortBounds, CounterCoversChain
<1>15. QED
  BY <1>10, <1>11, <1>12, <1>13, <1>14 DEF IInv

LEMMA DeQueueIInv == IInv /\ DeQueue => IInv'
<1> SUFFICES ASSUME IInv, DeQueue PROVE IInv'
  OBVIOUS
<1>1. /\ chain \in Seq(Cell) /\ chain # << >> /\ chain' = Tail(chain)
      /\ items \in 0..MAXQUEUE /\ MAXQUEUE \in Nat /\ items > 0
      /\ items' = items - 1 /\ pc = "idle" /\ pc' = pc /\ calls' = calls
  BY DelayQueueAssumption DEF DelayQueueAssumption, IInv, TypeOK, DeQueue
<1>2. /\ Len(chain) \in Nat /\ Len(chain) > 0
      /\ chain' \in Seq(Cell) /\ Len(chain') = Len(chain) - 1
      /\ \A i \in 1..Len(chain') : chain'[i] = chain[i+1]
  BY <1>1
<1>3. TypeOK'
  <2>1. items' \in 0..MAXQUEUE
    BY <1>1
  <2>2. rear' \in 0..MaxItems
    BY DelayQueueAssumption DEF DelayQueueAssumption, IInv, TypeOK, DeQueue, Null
  <2>3. rearFreed' \in BOOLEAN
    BY DEF IInv, TypeOK, DeQueue
  <2>4. QED
    BY <1>2, <2>1, <2>2, <2>3 DEF IInv, TypeOK, DeQueue
<1>4. Serials' /\ TiesByArrival'
  BY <1>1, <1>2 DEF IInv, Serials, TiesByArrival
<1>5. Ordered' /\ SortBounds' /\ CounterCoversChain'
  BY <1>1, <1>2 DEF IInv, Ordered, SortBounds, CounterCoversChain
<1>6. QED
  BY <1>3, <1>4, <1>5 DEF IInv

\* Steps that leave the list, its counter and the serials alone.
LEMMA SameChainIInv ==
    ASSUME IInv, UNCHANGED <<chain, rear, rearFreed, items, calls>>,
           clock' \in 0..MaxClock, disturbed' \in BOOLEAN,
           \/ UNCHANGED <<sorted, pc>>
           \/ pc' = "crashed" /\ UNCHANGED sorted
           \/ pc = "idle" /\ pc' = "unsorted" /\ UNCHANGED sorted
           \/ pc = "unsorted" /\ pc' = "sorting" /\ sorted' = 1 /\ chain # << >>
           \/ pc = "sorting" /\ sorted = Len(chain) /\ pc' = "idle" /\ sorted' = 0
    PROVE  IInv'
<1>0. chain \in Seq(Cell) /\ Len(chain) \in Nat
  BY DEF IInv, TypeOK
<1>1. TypeOK'
  BY DEF IInv, TypeOK
<1>2. Serials' /\ TiesByArrival' /\ CounterCoversChain'
  BY DEF IInv, Serials, TiesByArrival, CounterCoversChain
<1>3. Ordered'
  BY <1>0 DEF IInv, Ordered
<1>4. SortBounds'
  BY <1>0 DEF IInv, SortBounds
<1>5. QED
  BY <1>1, <1>2, <1>3, <1>4 DEF IInv

LEMMA NextIInv == IInv /\ [Next]_vars => IInv'
<1> SUFFICES ASSUME IInv, [Next]_vars PROVE IInv'
  OBVIOUS
<1>0. clock \in 0..MaxClock /\ MaxClock \in Nat /\ disturbed \in BOOLEAN /\ chain \in Seq(Cell)
  BY DelayQueueAssumption DEF DelayQueueAssumption, IInv, TypeOK
<1>1. CASE EnQueue
  BY <1>1, EnQueueIInv
<1>2. CASE EnQueueFull
  BY <1>0, <1>2, SameChainIInv DEF EnQueueFull
<1>3. CASE SortSplit
  BY <1>0, <1>3, SameChainIInv DEF SortSplit
<1>4. CASE SortInsert
  BY <1>4, SortInsertIInv
<1>5. CASE SortDone
  BY <1>0, <1>5, SameChainIInv DEF SortDone, HeadIsNull
<1>6. CASE DeQueue
  BY <1>6, DeQueueIInv
<1>7. CASE EmptyTheQueue
  <2>1. chain' = << >> /\ chain' \in Seq(Cell) /\ pc' = "idle" /\ items' = 0
    BY <1>7 DEF EmptyTheQueue
  <2>2. TypeOK'
    <3>0. MAXQUEUE \in Nat /\ MaxItems \in Nat
      BY DelayQueueAssumption DEF DelayQueueAssumption
    <3>1. rear' \in 0..MaxItems
      BY <1>7, <3>0 DEF EmptyTheQueue, Null
    <3>2. items' \in 0..MAXQUEUE
      BY <1>7, <3>0 DEF EmptyTheQueue
    <3>3. rearFreed' \in BOOLEAN
      BY <1>7 DEF EmptyTheQueue
    <3>4. QED
      BY <1>7, <2>1, <3>1, <3>2, <3>3 DEF IInv, TypeOK, EmptyTheQueue
  <2>3. Serials' /\ TiesByArrival' /\ Ordered' /\ SortBounds' /\ CounterCoversChain'
    BY <2>1 DEF Serials, TiesByArrival, Ordered, SortBounds, CounterCoversChain
  <2>4. QED
    BY <2>2, <2>3 DEF IInv
<1>8. CASE FollowNullFront
  BY <1>0, <1>8, SameChainIInv DEF FollowNullFront
<1>9. ASSUME NEW t \in 0..MaxClock, MoveClock(t) PROVE IInv'
  <2>1. clock' \in 0..MaxClock /\ disturbed' \in BOOLEAN
    BY <1>0, <1>9 DEF MoveClock, Falls
  <2>2. QED
    BY <1>9, <2>1, SameChainIInv DEF MoveClock
<1>10. CASE Tick \/ StepBack
  <2>1. \E t \in 0..MaxClock : MoveClock(t)
    BY <1>0, <1>10 DEF Tick, StepBack
  <2>2. QED
    BY <1>9, <2>1
<1>11. CASE UNCHANGED vars
  BY <1>0, <1>11, SameChainIInv DEF vars
<1>12. QED
  BY <1>1, <1>2, <1>3, <1>4, <1>5, <1>6, <1>7, <1>8, <1>9, <1>10, <1>11
  DEF Next, Operation

LEMMA Invariance == Spec => []IInv
<1>1. QED
  BY InitIInv, NextIInv, PTL DEF Spec

-----------------------------------------------------------------------------
\* Every value stays in its type, whatever the clock does.
THEOREM TypeCorrect == Spec => []TypeOK
<1>1. IInv => TypeOK
  BY DEF IInv
<1>2. QED
  BY <1>1, Invariance, PTL

\* Between two operations the list is in the order of the quit times, and in
\* every state of the sort items that are due at the same time are in their
\* order of arrival: for any capacity, and even if the clock is set back.
THEOREM LeavesInOrder == Spec => []InOrder
<1>1. IInv => InOrder
  BY DEF IInv, Ordered, SortedWhenIdle, InOrder
<1>2. QED
  BY <1>1, Invariance, PTL

-----------------------------------------------------------------------------
\* What is stored of the quit time of a packet that arrives now.
KeyNow == (clock + Delay) % W

\* What holds outside a disturbance: the whole list is in order, in every
\* state, of the true quit times as of the stored ones, and nothing in it
\* leaves later than a packet that arrives now would.
Steady ==
    ~disturbed =>
        /\ items = Len(chain)
        /\ ~rearFreed
        /\ chain = << >> => rear = Null
        /\ chain # << >> => rear = chain[Len(chain)].ser
        /\ \A i, j \in 1..Len(chain) :
             i < j => chain[i].due <= chain[j].due /\ Key(chain[i]) <= Key(chain[j])
        /\ \A i \in 1..Len(chain) :
             chain[i].due <= clock + Delay /\ Key(chain[i]) <= KeyNow

\* EnQueue then links the new cell behind the last one, which is never due
\* later.
LEMMA SteadyEnQueue ==
    ASSUME IInv, Steady, ~disturbed, EnQueue
    PROVE  /\ chain' \in Seq(Cell)
           /\ Len(chain') = Len(chain) + 1
           /\ chain'[Len(chain) + 1] = NewCell
           /\ \A i \in 1..Len(chain) :
                /\ chain'[i] = chain[i]
                /\ chain[i].due <= NewCell.due
                /\ Key(chain[i]) <= Key(NewCell)
<1>1. chain \in Seq(Cell) /\ Len(chain) \in Nat /\ items = Len(chain)
  BY DEF IInv, TypeOK, Steady
<1>2. \A i \in 1..Len(chain) :
        chain[i].due <= NewCell.due /\ Key(chain[i]) <= Key(NewCell)
  BY DEF Steady, NewCell, Key, KeyNow
<1>3. NewCell \in Cell
  <2>1. calls + 1 \in 1..MaxItems
    BY DelayQueueAssumption DEF DelayQueueAssumption, IInv, TypeOK, EnQueue
  <2>2. clock + Delay \in 0..(MaxClock + Delay)
    BY DelayQueueAssumption DEF DelayQueueAssumption, IInv, TypeOK
  <2>3. QED
    BY <2>1, <2>2 DEF NewCell, Cell
<1>4. CASE chain = << >>
  <2>1. chain' = <<NewCell>>
    BY <1>1, <1>4 DEF EnQueue
  <2>2. Len(chain) = 0
    BY <1>4
  <2>3. chain' \in Seq(Cell) /\ Len(chain') = 1 /\ chain'[1] = NewCell
    BY <1>3, <2>1
  <2>4. QED
    BY <2>2, <2>3
<1>5. CASE chain # << >>
  <2>1. rear = chain[Len(chain)].ser /\ Len(chain) \in 1..Len(chain)
    BY <1>1, <1>5 DEF Steady
  <2>2. InChain(rear)
    BY <2>1 DEF InChain
  <2>3. PICK p \in 1..Len(chain) : chain[p].ser = rear /\ chain' = LinkBehind(p)
    BY <1>1, <1>5, <2>2 DEF EnQueue
  <2>4. p = Len(chain)
    BY <1>1, <2>1, <2>3 DEF IInv, Serials
  <2>5. chain' \in [1..Len(chain)+1 -> Cell]
    BY <1>1, <1>3, <2>3, <2>4 DEF LinkBehind
  <2>6. chain' \in Seq(Cell) /\ Len(chain') = Len(chain) + 1
    BY <1>1, <2>5, FunctionIsSeq
  <2>7. QED
    BY <1>1, <1>2, <2>3, <2>4, <2>6 DEF LinkBehind
<1>6. QED
  BY <1>4, <1>5

\* And the sort moves nothing.
LEMMA SteadySort ==
    ASSUME IInv, Steady, ~disturbed, SortInsert
    PROVE  chain' = chain
<1>1. PICK p \in 1..sorted+1 :
        InsertAt(p) /\ chain' = MoveTo(chain, sorted + 1, p)
  BY DEF SortInsert
<1>2. /\ chain \in Seq(Cell) /\ Len(chain) \in Nat
      /\ sorted \in 1..Len(chain) /\ sorted # Len(chain)
  BY DEF IInv, TypeOK, SortBounds, SortInsert, HeadIsNull
<1>3. p = sorted + 1
  <2>1. SUFFICES ASSUME p <= sorted PROVE FALSE
    BY <1>2
  <2>2. p \in 1..Len(chain) /\ sorted + 1 \in 1..Len(chain) /\ p < sorted + 1
    BY <1>2, <2>1
  <2>3. Key(chain[p]) > Key(chain[sorted+1])
    BY <1>1, <2>1 DEF InsertAt
  <2>4. Key(chain[p]) <= Key(chain[sorted+1])
    BY <2>2 DEF Steady
  <2>5. Key(chain[p]) \in Nat /\ Key(chain[sorted+1]) \in Nat
    BY <1>2, <2>2, CellFields
  <2>6. QED
    BY <2>3, <2>4, <2>5
<1>4. chain' = [i \in 1..Len(chain) |-> chain[i]]
  BY <1>1, <1>2, <1>3 DEF MoveTo
<1>5. QED
  BY <1>2, <1>4

\* A clock that moves without a disturbance leaves every quit time below that
\* of a packet that arrives now.
LEMMA MoveClockSteady ==
    ASSUME IInv, Steady, ~disturbed, ~disturbed', NEW t \in Nat, MoveClock(t)
    PROVE  Steady'
<1>1. /\ chain' = chain /\ items' = items /\ rear' = rear /\ rearFreed' = rearFreed
      /\ clock' = t /\ (items > 0 => ~Falls(t))
  BY DEF MoveClock
<1>2. /\ chain \in Seq(Cell) /\ Len(chain) \in Nat /\ items = Len(chain)
      /\ clock \in Nat /\ Delay \in Nat /\ W \in Nat \ {0}
  BY DelayQueueAssumption DEF DelayQueueAssumption, IInv, TypeOK, Steady
<1>3. ASSUME NEW i \in 1..Len(chain)
      PROVE  chain[i].due <= clock' + Delay /\ Key(chain[i]) <= KeyNow'
  <2>1. ~Falls(t)
    BY <1>1, <1>2
  <2>2. chain[i].due <= clock + Delay /\ Key(chain[i]) <= KeyNow
    BY DEF Steady
  <2>3. chain[i].due \in Nat /\ Key(chain[i]) \in Nat
    BY <1>2, CellFields
  <2>4. clock <= t /\ (clock + Delay) % W <= (t + Delay) % W
    <3>1. (clock + Delay) % W \in Nat /\ (t + Delay) % W \in Nat
      BY <1>2
    <3>2. QED
      BY <1>2, <2>1, <3>1 DEF Falls
  <2>5. chain[i].due <= t + Delay
    BY <1>2, <2>2, <2>3, <2>4
  <2>6. (clock + Delay) % W \in Nat /\ (t + Delay) % W \in Nat
    BY <1>2
  <2>7. Key(chain[i]) <= (t + Delay) % W
    BY <2>2, <2>3, <2>4, <2>6 DEF KeyNow
  <2>8. QED
    BY <1>1, <2>5, <2>7 DEF KeyNow
<1>4. QED
  BY <1>1, <1>2, <1>3 DEF Steady, Key

LEMMA NextSteady == IInv /\ Steady /\ [Next]_vars => Steady'
<1> SUFFICES ASSUME IInv, Steady, [Next]_vars, ~disturbed' PROVE Steady'
  BY DEF Steady
<1>0. CASE disturbed
  <2>1. \/ DeQueue /\ items = 1
        \/ EmptyTheQueue
    BY <1>0 DEF Next, Operation, EnQueue, EnQueueFull, SortSplit, SortInsert,
       SortDone, DeQueue, EmptyTheQueue, FollowNullFront, Tick, StepBack, MoveClock, vars
  <2>2. CASE DeQueue /\ items = 1
    <3>1. chain \in Seq(Cell) /\ chain # << >> /\ Len(chain) <= 1
      BY <2>2 DEF IInv, TypeOK, CounterCoversChain, DeQueue
    <3>2. Tail(chain) = << >>
      BY <3>1
    <3>3. chain' = << >> /\ items' = 0 /\ rear' = Null /\ rearFreed' = FALSE
      BY <2>2, <3>2 DEF DeQueue
    <3>4. Len(chain') = 0
      BY <3>3
    <3>5. QED
      BY <3>3, <3>4 DEF Steady
  <2>3. CASE EmptyTheQueue
    <3>1. chain' = << >> /\ items' = 0 /\ rear' = Null /\ rearFreed' = FALSE
      BY <2>3 DEF EmptyTheQueue
    <3>2. Len(chain') = 0
      BY <3>1
    <3>3. QED
      BY <3>1, <3>2 DEF Steady
  <2>4. QED
    BY <2>1, <2>2, <2>3
<1> SUFFICES ASSUME ~disturbed PROVE Steady'
  BY <1>0
<1>1. /\ chain \in Seq(Cell) /\ Len(chain) \in Nat /\ items = Len(chain)
      /\ clock \in Nat /\ calls \in Nat /\ Delay \in Nat
  BY DelayQueueAssumption DEF DelayQueueAssumption, IInv, TypeOK, Steady
<1>2. CASE UNCHANGED <<chain, rear, rearFreed, items, clock>>
  BY <1>2 DEF Steady, Key, KeyNow
<1>3. CASE EnQueue
  <2>1. /\ rear' = calls + 1 /\ items' = items + 1 /\ rearFreed' = FALSE
        /\ clock' = clock
    BY <1>3 DEF EnQueue, Record
  <2>2. /\ Len(chain') = Len(chain) + 1
        /\ chain'[Len(chain) + 1] = NewCell
        /\ \A i \in 1..Len(chain) :
             /\ chain'[i] = chain[i]
             /\ chain[i].due <= NewCell.due
             /\ Key(chain[i]) <= Key(NewCell)
    BY <1>3, SteadyEnQueue
  <2>3. /\ NewCell.due = clock + Delay /\ NewCell.ser = calls + 1
        /\ Key(NewCell) = KeyNow /\ KeyNow' = KeyNow /\ KeyNow \in Nat
    <3>1. W \in Nat \ {0}
      BY DelayQueueAssumption DEF DelayQueueAssumption
    <3>2. QED
      BY <1>1, <2>1, <3>1 DEF NewCell, Key, KeyNow
  <2>4. chain' # << >> /\ rear' = chain'[Len(chain')].ser /\ items' = Len(chain')
    BY <1>1, <2>1, <2>2, <2>3
  <2>5. \A i \in 1..Len(chain') : i = Len(chain) + 1 \/ i \in 1..Len(chain)
    BY <1>1, <2>2
  <2>6. \A i \in 1..Len(chain') :
          chain'[i].due <= clock' + Delay /\ Key(chain'[i]) <= KeyNow'
    BY <1>1, <2>1, <2>2, <2>3, <2>5
  <2>7. ASSUME NEW i \in 1..Len(chain'), NEW j \in 1..Len(chain'), i < j
        PROVE  chain'[i].due <= chain'[j].due /\ Key(chain'[i]) <= Key(chain'[j])
    <3>1. i \in 1..Len(chain)
      BY <1>1, <2>2, <2>7
    <3>2. CASE j = Len(chain) + 1
      BY <2>2, <3>1, <3>2
    <3>3. CASE j \in 1..Len(chain)
      BY <2>2, <2>7, <3>1, <3>3 DEF Steady
    <3>4. QED
      BY <2>5, <3>2, <3>3
  <2>8. QED
    BY <2>1, <2>4, <2>6, <2>7 DEF Steady, Key
<1>4. CASE SortInsert
  <2>1. chain' = chain
    BY <1>4, SteadySort
  <2>2. QED
    BY <1>2, <1>4, <2>1 DEF SortInsert
<1>5. CASE DeQueue
  <2>1. /\ chain # << >> /\ chain' = Tail(chain) /\ items' = items - 1
        /\ clock' = clock /\ rear' = (IF items = 1 THEN Null ELSE rear)
        /\ rearFreed' = (items # 1 /\ (rearFreed \/ chain[1].ser = rear))
    BY <1>5 DEF DeQueue
  <2>2. /\ Len(chain) > 0 /\ Len(chain') = Len(chain) - 1
        /\ \A i \in 1..Len(chain') : chain'[i] = chain[i+1]
    BY <1>1, <2>1
  <2>3. rear = chain[Len(chain)].ser /\ ~rearFreed
    BY <2>1 DEF Steady
  <2>4. ~rearFreed'
    <3>1. CASE items = 1
      BY <2>1, <3>1
    <3>2. CASE items # 1
      <4>1. 1 \in 1..Len(chain) /\ Len(chain) \in 1..Len(chain) /\ 1 < Len(chain)
        BY <1>1, <2>2, <3>2
      <4>2. chain[1].ser # chain[Len(chain)].ser
        BY <4>1 DEF IInv, Serials
      <4>3. QED
        BY <2>1, <2>3, <4>2
    <3>3. QED
      BY <3>1, <3>2
  <2>5. chain' = << >> => rear' = Null
    <3>1. SUFFICES ASSUME chain' = << >> PROVE rear' = Null
      OBVIOUS
    <3>2. Len(chain') = 0
      BY <3>1
    <3>3. items = 1
      <4>1. Len(chain) \in Nat /\ 0 = Len(chain) - 1
        BY <1>1, <2>2, <3>2
      <4>2. Len(chain) = 1
        BY <4>1
      <4>3. QED
        BY <1>1, <4>2
    <3>4. QED
      BY <2>1, <3>3
  <2>6. chain' # << >> => rear' = chain'[Len(chain')].ser
    <3>1. SUFFICES ASSUME chain' # << >> PROVE rear' = chain'[Len(chain')].ser
      OBVIOUS
    <3>2. chain' \in Seq(Cell)
      BY <1>1, <2>1
    <3>3. items # 1 /\ Len(chain') \in 1..Len(chain')
      BY <1>1, <2>2, <3>1, <3>2
    <3>4. QED
      BY <1>1, <2>1, <2>2, <2>3, <3>3
  <2>7. \A i \in 1..Len(chain') : i + 1 \in 1..Len(chain) /\ chain'[i] = chain[i+1]
    BY <1>1, <2>2
  <2>8. \A i, j \in 1..Len(chain') :
          i < j => chain'[i].due <= chain'[j].due /\ Key(chain'[i]) <= Key(chain'[j])
    <3>1. \A i, j \in 1..Len(chain) :
            i < j => chain[i].due <= chain[j].due /\ Key(chain[i]) <= Key(chain[j])
      BY DEF Steady
    <3>2. QED
      BY <1>1, <2>2, <2>7, <3>1
  <2>9. \A i \in 1..Len(chain') :
          chain'[i].due <= clock' + Delay /\ Key(chain'[i]) <= KeyNow'
    BY <2>1, <2>7 DEF Steady, KeyNow
  <2>10. QED
    BY <1>1, <2>1, <2>2, <2>4, <2>5, <2>6, <2>8, <2>9 DEF Steady, Key
<1>6. CASE EmptyTheQueue
  <2>1. chain' = << >> /\ items' = 0 /\ rear' = Null /\ rearFreed' = FALSE
    BY <1>6 DEF EmptyTheQueue
  <2>2. Len(chain') = 0
    BY <2>1
  <2>3. QED
    BY <2>1, <2>2 DEF Steady
<1>7. CASE Tick \/ StepBack
  <2>1. PICK t \in Nat : MoveClock(t)
    BY <1>1, <1>7, DelayQueueAssumption DEF DelayQueueAssumption, Tick, StepBack
  <2>2. QED
    BY <2>1, MoveClockSteady
<1>8. CASE EnQueueFull \/ SortSplit \/ SortDone \/ FollowNullFront \/ UNCHANGED vars
  BY <1>2, <1>8 DEF EnQueueFull, SortSplit, SortDone, FollowNullFront, vars
<1>9. QED
  BY <1>3, <1>4, <1>5, <1>6, <1>7, <1>8 DEF Next, Operation

LEMMA InitSteady == Init => Steady
<1> SUFFICES ASSUME Init PROVE Steady
  OBVIOUS
<1>1. chain = << >> /\ items = 0 /\ Len(chain) = 0
  BY DEF Init
<1>2. QED
  BY <1>1 DEF Init, Steady

\* Insertion_Sort never updates rear.  Unless the clock is set back, or starts
\* again at 0, while items wait, rear is the last cell all the same and no item
\* is cut off, and that is so again once the queue has run empty; the counter
\* covers the list on any clock.
THEOREM RearIsRightUnlessDisturbed == Spec => []LinkedUnlessDisturbed
<1>1. IInv /\ Steady => LinkedUnlessDisturbed
  BY DEF IInv, Steady, LinkedUnlessDisturbed, Linked
<1>2. QED
  BY <1>1, InitIInv, NextIInv, InitSteady, NextSteady, PTL DEF Spec

-----------------------------------------------------------------------------
\* A step that changes the list and leaves it undisturbed starts from a list
\* that was not disturbed either, or empties it.
LEMMA RefineStep ==
    IInv /\ Steady /\ [Next]_vars => [disturbed' \/ TQ!Next]_chain
<1> SUFFICES ASSUME IInv, Steady, [Next]_vars, ~disturbed', chain' # chain
             PROVE  TQ!Next
  OBVIOUS
<1>1. CASE EnQueue
  <2>0. ~disturbed
    BY <1>1 DEF EnQueue
  <2>1. /\ chain \in Seq(Cell) /\ Len(chain) \in Nat /\ items = Len(chain)
        /\ items \in 0..MAXQUEUE /\ MAXQUEUE \in Nat /\ items # MAXQUEUE
    BY <2>0, <1>1, DelayQueueAssumption
    DEF DelayQueueAssumption, IInv, TypeOK, Steady, EnQueue, QueueIsFull
  <2>2. /\ chain' \in Seq(Cell)
        /\ Len(chain') = Len(chain) + 1
        /\ chain'[Len(chain) + 1] = NewCell
        /\ \A i \in 1..Len(chain) :
             chain'[i] = chain[i] /\ chain[i].due <= NewCell.due
    BY <2>0, <1>1, SteadyEnQueue
  <2>3. NewCell \in TQ!Item
    <3>1. Len(chain) + 1 \in 1..Len(chain')
      BY <2>1, <2>2
    <3>2. NewCell \in Cell
      BY <2>2, <3>1
    <3>3. QED
      BY <3>2 DEF Cell, TQ!Item
  <2>4. Len(chain) + 1 \in 1..Len(chain)+1 /\ Len(chain) < MAXQUEUE
    BY <2>1
  <2> DEFINE p == Len(chain) + 1
             grown == [i \in 1..Len(chain)+1 |->
                         IF i < p THEN chain[i] ELSE IF i = p THEN NewCell ELSE chain[i-1]]
  <2>5. chain' = grown
    <3>1. chain' = [i \in 1..Len(chain') |-> chain'[i]]
      BY <2>2
    <3>2. \A i \in 1..Len(chain)+1 : chain'[i] = grown[i]
      BY <2>1, <2>2
    <3>3. QED
      BY <2>2, <3>1, <3>2
  <2>6. \A i \in 1..p-1 : chain[i].due <= NewCell.due
    BY <2>1, <2>2
  <2>7. \A i \in p..Len(chain) : chain[i].due > NewCell.due
    BY <2>1
  <2>8. TQ!Put(NewCell)
    BY <2>4, <2>5, <2>6, <2>7 DEF TQ!Put
  <2>9. QED
    BY <2>3, <2>8 DEF TQ!Next
<1>2. CASE SortInsert
  BY <1>2, SteadySort DEF SortInsert
<1>3. CASE DeQueue
  BY <1>3 DEF DeQueue, TQ!Next, TQ!Take
<1>4. CASE EmptyTheQueue
  BY <1>4 DEF EmptyTheQueue, TQ!Next, TQ!Clear
<1>5. CASE EnQueueFull \/ SortSplit \/ SortDone \/ FollowNullFront
              \/ Tick \/ StepBack \/ UNCHANGED vars
  BY <1>5 DEF EnQueueFull, SortSplit, SortDone, FollowNullFront, Tick, StepBack,
     MoveClock, vars
<1>6. QED
  BY <1>1, <1>2, <1>3, <1>4, <1>5 DEF Next, Operation

\* Unless the clock is set back, or starts again at 0, while items wait, the
\* linked list, its stale rear pointer and its sort implement a bounded queue
\* ordered by the true quit times.
THEOREM Implements == Spec => ImplementsTimedQueue
<1>1. Init => TQ!Init
  BY DEF Init, TQ!Init
<1>2. QED
  BY <1>1, InitIInv, NextIInv, InitSteady, NextSteady, RefineStep, PTL
  DEF Spec, ImplementsTimedQueue
=============================================================================
