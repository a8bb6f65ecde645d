---------------------------- MODULE HubLinkProofs ----------------------------
(***************************************************************************)
(* Theorems about HubLink, for any number of faults, late answers, refused *)
(* authentications and commands, and any depth of the calls of             *)
(* ReconnectWith_Server.                                                   *)
(***************************************************************************)
EXTENDS HubLink, TLAPS

Frame == [ret : {"ack", "idle", "handle"}, i : 0..3]

LinkType ==
    /\ relock \in {"blocks", "refused"}
    /\ sock \in {"new", "open", "dead", "closed", "bare"}
    /\ lock \in Thread \union {"none", "tcp", "jammed", "never"}
    /\ flag \in BOOLEAN /\ auth \in BOOLEAN /\ alive \in BOOLEAN /\ accepted \in BOOLEAN

CallType ==
    /\ pc \in [Thread -> Idle \union Common]
    /\ stack \in [Thread -> Seq(Frame)]
    /\ tries \in 0..3

RcvType == rcv \in [Thread -> {"live", "shut"}]

DataType == inbox \in Seq(Msg) /\ batch \in Seq(Msg) /\ id \in Id /\ join_data \subseteq Id

BoundType == faults \in 0..MaxFaults /\ late \in 0..MaxLate /\ no \in 0..MaxNo /\ cmds \in 0..MaxCmds

\* Where a thread is in the loop of ReconnectWith_Server around an
\* authentication, or in the receiver's own; and the i of that loop.
Loop == {"auth", "ack", "acked", "close"}
Round(t, k) ==
    IF k <= Len(stack[t]) THEN stack[t][k].i ELSE IF t = "recv" THEN tries ELSE 0

\* A thread has calls of ReconnectWith_Server while it is in one, and then those
\* it made from authentications inside of it.  In all of these loops a round is
\* begun that is not the fourth.
Stacked(t) ==
    /\ pc[t] \in Idle => stack[t] = << >>
    /\ pc[t] \in {"reconnect", "connect", "retry", "release"} => stack[t] # << >>
    /\ \A k \in 1..Len(stack[t]) : k < Len(stack[t]) => stack[t][k].ret = "ack"
    /\ pc[t] \in Loop \union {"tried"} => Round(t, 1) <= 2
    /\ \A k \in 1..Len(stack[t]) : stack[t][k].ret = "ack" => Round(t, k + 1) <= 2

\* As long as no answer was late, the only answers under way are to the last
\* frame, which left nothing in the buffer.
Timely ==
    late = 0 => \A m \in Range(inbox) \union Range(batch) :
                    m.type = "heart" => join_data = {} /\ m.last = id

\* Until main starts the others it is alone, and what it was told is so.
Starting ==
    /\ Yes \in Range(inbox) => accepted
    /\ pc["main"] = "done" \/ pc["recv"] = "none"
    /\ pc["recv"] = "none" =>
          /\ pc["heart"] = "none"
          /\ auth /\ pc["main"] # "connect" => accepted

TypeInv == LinkType /\ CallType /\ RcvType /\ DataType /\ BoundType
Calls == CallType /\ \A t \in Thread : Stacked(t)
Inv == TypeInv /\ Calls /\ Timely /\ Starting

USE DEF Thread

LEMMA Bounds ==
    /\ IdMod \in Nat /\ IdMod > 0 /\ 0 \in Id
    /\ MaxFaults \in Nat /\ MaxLate \in Nat /\ MaxNo \in Nat /\ MaxCmds \in Nat
BY HubLinkAssumption DEF HubLinkAssumption, Id

LEMMA Types == TypeInv <=> TypeOK
BY DEF TypeInv, LinkType, CallType, RcvType, DataType, BoundType, TypeOK, Frame

-----------------------------------------------------------------------------
(* Sequences.                                                              *)

LEMMA Push ==
    ASSUME NEW S, NEW s \in Seq(S), NEW r \in S
    PROVE  /\ <<r>> \o s \in Seq(S) /\ <<r>> \o s # << >>
           /\ Len(<<r>> \o s) = Len(s) + 1 /\ (<<r>> \o s)[1] = r
           /\ \A k \in 1..Len(s) : (<<r>> \o s)[k + 1] = s[k]
OBVIOUS

LEMMA Pop ==
    ASSUME NEW S, NEW s \in Seq(S), s # << >>
    PROVE  /\ s[1] \in S /\ Len(s) \in Nat \ {0} /\ Head(s) = s[1]
           /\ Tail(s) \in Seq(S) /\ Len(Tail(s)) = Len(s) - 1
           /\ \A k \in 1..Len(s) - 1 : Tail(s)[k] = s[k + 1]
OBVIOUS

LEMMA RangeOf == ASSUME NEW S, NEW s \in Seq(S) PROVE Range(s) = {s[i] : i \in 1..Len(s)} /\ Range(s) \subseteq S
BY DEF Range

LEMMA RangeAppend ==
    ASSUME NEW S, NEW s \in Seq(S), NEW x \in S
    PROVE  Append(s, x) \in Seq(S) /\ Range(Append(s, x)) = Range(s) \union {x}
<1>1. Append(s, x) \in Seq(S) /\ Len(Append(s, x)) = Len(s) + 1
  OBVIOUS
<1>2. \A i \in 1..Len(s) + 1 : Append(s, x)[i] = IF i <= Len(s) THEN s[i] ELSE x
  OBVIOUS
<1>3. Range(Append(s, x)) = {Append(s, x)[i] : i \in 1..Len(s) + 1}
  BY <1>1 DEF Range
<1>4. Range(s) = {s[i] : i \in 1..Len(s)}
  BY DEF Range
<1>5. Range(Append(s, x)) \subseteq Range(s) \union {x}
  BY <1>2, <1>3, <1>4
<1>6. Range(s) \subseteq Range(Append(s, x))
  BY <1>2, <1>3, <1>4
<1>7. x \in Range(Append(s, x))
  <2>1. Append(s, x)[Len(s) + 1] = x /\ Len(s) + 1 \in 1..Len(s) + 1
    BY <1>2
  <2>2. QED
    BY <2>1, <1>3
<1>8. QED
  BY <1>1, <1>5, <1>6, <1>7

LEMMA RangeSplit ==
    ASSUME NEW S, NEW s \in Seq(S), NEW n \in 1..Len(s)
    PROVE  /\ SubSeq(s, 1, n) \in Seq(S) /\ SubSeq(s, n + 1, Len(s)) \in Seq(S)
           /\ Range(SubSeq(s, 1, n)) \subseteq Range(s)
           /\ Range(SubSeq(s, n + 1, Len(s))) \subseteq Range(s)
<1>1. Len(s) \in Nat /\ \A i \in 1..Len(s) : s[i] \in S
  OBVIOUS
<1>2. SubSeq(s, 1, n) \in Seq(S) /\ SubSeq(s, n + 1, Len(s)) \in Seq(S)
  BY <1>1
<1>3. /\ Len(SubSeq(s, 1, n)) = n /\ Len(SubSeq(s, n + 1, Len(s))) = Len(s) - n
      /\ \A i \in 1..n : SubSeq(s, 1, n)[i] = s[i]
      /\ \A i \in 1..Len(s) - n : SubSeq(s, n + 1, Len(s))[i] = s[n + i]
  BY <1>1
<1>4. Range(SubSeq(s, 1, n)) \subseteq Range(s)
  <2>1. Range(SubSeq(s, 1, n)) = {SubSeq(s, 1, n)[i] : i \in 1..n}
    BY <1>2, <1>3, RangeOf
  <2>2. \A i \in 1..n : i \in 1..Len(s)
    BY <1>1
  <2>3. QED
    BY <1>3, <2>1, <2>2, RangeOf
<1>5. Range(SubSeq(s, n + 1, Len(s))) \subseteq Range(s)
  <2> DEFINE q == SubSeq(s, n + 1, Len(s))
  <2>1. q \in Seq(S) /\ Len(q) = Len(s) - n /\ \A i \in 1..Len(s) - n : q[i] = s[n + i]
    BY <1>2, <1>3
  <2> HIDE DEF q
  <2>2. Range(q) = {q[i] : i \in 1..Len(s) - n}
    BY <2>1, RangeOf
  <2>3. \A i \in 1..Len(s) - n : n + i \in 1..Len(s)
    BY <1>1
  <2>4. Range(q) \subseteq Range(s)
    BY <2>1, <2>2, <2>3, RangeOf
  <2>5. QED
    BY <2>4 DEF q
<1>6. QED
  BY <1>2, <1>4, <1>5

LEMMA RangeTail ==
    ASSUME NEW S, NEW s \in Seq(S), s # << >>
    PROVE  Range(Tail(s)) \subseteq Range(s) /\ Head(s) \in Range(s) /\ Head(s) \in S
<1>1. Len(s) \in Nat \ {0} /\ Tail(s) \in Seq(S) /\ Len(Tail(s)) = Len(s) - 1
      /\ \A k \in 1..Len(s) - 1 : Tail(s)[k] = s[k + 1]
  BY Pop
<1>2. Range(Tail(s)) = {Tail(s)[k] : k \in 1..Len(s) - 1} /\ Range(s) = {s[i] : i \in 1..Len(s)}
  BY <1>1, RangeOf
<1>3. \A k \in 1..Len(s) - 1 : k + 1 \in 1..Len(s)
  BY <1>1
<1>4. Range(Tail(s)) \subseteq Range(s)
  BY <1>1, <1>2, <1>3
<1>5. Head(s) = s[1] /\ 1 \in 1..Len(s)
  BY <1>1, Pop
<1>6. QED
  BY <1>2, <1>4, <1>5, Pop

LEMMA RangeConcat ==
    ASSUME NEW S, NEW s \in Seq(S), NEW q \in Seq(S)
    PROVE  Range(s) \union Range(q) \subseteq Range(s \o q)
<1>1. s \o q \in Seq(S) /\ Len(s \o q) = Len(s) + Len(q) /\ Len(s) \in Nat /\ Len(q) \in Nat
  OBVIOUS
<1>2. \A i \in 1..Len(s) : (s \o q)[i] = s[i]
  OBVIOUS
<1>3. \A i \in 1..Len(q) : (s \o q)[Len(s) + i] = q[i]
  OBVIOUS
<1>4. Range(s \o q) = {(s \o q)[i] : i \in 1..Len(s) + Len(q)}
  BY <1>1 DEF Range
<1>5. \A i \in 1..Len(s) : s[i] \in Range(s \o q)
  <2>1. \A i \in 1..Len(s) : i \in 1..Len(s) + Len(q)
    BY <1>1
  <2>2. QED
    BY <1>2, <1>4, <2>1
<1>6. \A i \in 1..Len(q) : q[i] \in Range(s \o q)
  <2>1. \A i \in 1..Len(q) : Len(s) + i \in 1..Len(s) + Len(q)
    BY <1>1
  <2>2. QED
    BY <1>3, <1>4, <2>1
<1>7. QED
  BY <1>5, <1>6, RangeOf

LEMMA Empty == Range(<< >>) = {}
BY DEF Range

LEMMA Answers == Yes \in Msg /\ No \in Msg /\ Yes.type = "auth" /\ No.type = "auth" /\ Yes # No
BY DEF Yes, No, Msg

-----------------------------------------------------------------------------
(* What a step of a thread keeps.                                          *)

LEMMA BootedInv ==
    Booted /\ relock \in {"blocks", "refused"} /\ BoundType => Inv
<1> SUFFICES ASSUME Booted, relock \in {"blocks", "refused"}, BoundType PROVE Inv
  OBVIOUS
<1>1. TypeInv
  <2>1. LinkType
    BY DEF Booted, LinkType
  <2>2. << >> \in Seq(Frame) /\ << >> \in Seq(Msg)
    OBVIOUS
  <2>3. CallType /\ RcvType
    BY <2>2 DEF Booted, CallType, RcvType, Idle
  <2>4. DataType
    BY <2>2, Bounds DEF Booted, DataType
  <2>5. QED
    BY <2>1, <2>3, <2>4 DEF TypeInv
<1>2. \A t \in Thread : Stacked(t)
  BY DEF Booted, Stacked, Loop
<1>3. Timely /\ Starting
  BY Empty DEF Booted, Timely, Starting
<1>4. QED
  BY <1>1, <1>2, <1>3 DEF Inv, Calls, TypeInv

LEMMA InitInv == Init => Inv
BY BootedInv, Bounds DEF Init, BoundType

\* A step of thread t only.
StepOf(t) ==
    /\ pc' = [pc EXCEPT ![t] = pc'[t]] /\ pc'[t] \in Idle \union Common
    /\ stack' = [stack EXCEPT ![t] = stack'[t]] /\ stack'[t] \in Seq(Frame)

LEMMA StepCalls ==
    ASSUME Calls, NEW t \in Thread, StepOf(t), tries' \in 0..3, tries' = tries \/ t = "recv",
           Stacked(t)'
    PROVE  Calls'
<1> USE DEF Calls
<1>1. CallType'
  BY DEF StepOf, CallType
<1>2. ASSUME NEW u \in Thread \ {t} PROVE Stacked(u)'
  <2>1. pc'[u] = pc[u] /\ stack'[u] = stack[u] /\ (u = "recv" => tries' = tries)
    BY DEF StepOf, CallType
  <2>2. \A k : Round(u, k)' = Round(u, k)
    BY <2>1 DEF Round
  <2>3. QED
    BY <2>1, <2>2 DEF Stacked
<1>3. QED
  BY <1>1, <1>2

Inside == {"reconnect", "connect", "retry", "release"}

LEMMA Places == Idle \intersect Common = {} /\ Common = Loop \union Inside /\ Loop \intersect Inside = {}
BY DEF Idle, Common, Loop, Inside

\* The thread goes on without a call or a return.
LEMMA Moved ==
    ASSUME Calls, NEW t \in Thread, UNCHANGED <<stack, tries>>,
           pc' = [pc EXCEPT ![t] = pc'[t]],
           \/ pc[t] \in Idle /\ pc'[t] \in Idle \ {"tried"}
           \/ pc[t] \in Loop /\ pc'[t] \in Loop
           \/ pc[t] \in Inside /\ pc'[t] \in Inside
           \/ pc[t] \in Inside /\ pc'[t] = "auth" /\ Round(t, 1) <= 2
    PROVE  Calls' /\ StepOf(t)
<1>1. pc'[t] \in Idle \union Common
  BY Places DEF Loop
<1>2. StepOf(t) /\ tries' \in 0..3
  BY <1>1 DEF Calls, CallType, StepOf
<1>3. \A k : Round(t, k)' = Round(t, k)
  BY DEF Round
<1>4. Stacked(t)'
  BY <1>3, Places DEF Calls, Stacked, Inside, Loop, Idle
<1>5. QED
  BY <1>2, <1>4, StepCalls

\* It calls ReconnectWith_Server, from an authentication or from elsewhere.
LEMMA Called ==
    ASSUME Calls, NEW t \in Thread, NEW ret, Call(t, ret), tries' = tries,
           \/ pc[t] \in Loop /\ ret = "ack"
           \/ pc[t] \in Idle /\ ret \in {"idle", "handle"}
    PROVE  Calls' /\ StepOf(t)
<1> DEFINE s == stack[t]
<1> DEFINE r == [ret |-> ret, i |-> 0]
<1>1. s \in Seq(Frame) /\ r \in Frame
  BY DEF Calls, CallType, Frame
<1>2. pc' = [pc EXCEPT ![t] = "reconnect"] /\ stack' = [stack EXCEPT ![t] = <<r>> \o s]
  BY DEF Call, Goto
<1>3. pc'[t] = "reconnect" /\ stack'[t] = <<r>> \o s /\ r.ret = ret
  BY <1>2 DEF Calls, CallType
<1>4. StepOf(t) /\ tries' \in 0..3
  BY <1>1, <1>2, <1>3, Push, Places DEF StepOf, Inside, Calls, CallType
<1>5. /\ stack'[t] # << >> /\ Len(stack'[t]) = Len(s) + 1 /\ stack'[t][1] = r
      /\ \A k \in 1..Len(s) : stack'[t][k + 1] = s[k]
      /\ Len(s) \in Nat
  <2>1. <<r>> \o s # << >> /\ Len(<<r>> \o s) = Len(s) + 1 /\ (<<r>> \o s)[1] = r
        /\ \A k \in 1..Len(s) : (<<r>> \o s)[k + 1] = s[k]
    BY <1>1, Push
  <2>2. QED
    BY <1>1, <1>3, <2>1
<1> HIDE DEF r
<1>6. \A k \in 1..Len(s) + 1 : Round(t, k + 1)' = Round(t, k)
  <2> SUFFICES ASSUME NEW k \in 1..Len(s) + 1 PROVE Round(t, k + 1)' = Round(t, k)
    OBVIOUS
  <2>1. CASE k <= Len(s)
    BY <2>1, <1>5 DEF Round
  <2>2. CASE k = Len(s) + 1
    BY <2>2, <1>5 DEF Round
  <2>3. QED
    BY <2>1, <2>2, <1>5
<1>7. Stacked(t)'
  <2>1. ASSUME NEW k \in 1..Len(s) + 1
        PROVE  /\ k < Len(s) + 1 => stack'[t][k].ret = "ack"
               /\ stack'[t][k].ret = "ack" => Round(t, k + 1)' <= 2
    <3>1. CASE k = 1
      <4>1. stack'[t][1].ret = ret
        BY <1>3, <1>5
      <4>2. Round(t, 2)' = Round(t, 1)
        BY <1>5, <1>6
      <4>3. s # << >> => ret = "ack"
        BY Places DEF Calls, Stacked
      <4>4. ret = "ack" => Round(t, 1) <= 2
        BY DEF Calls, Stacked
      <4>5. QED
        BY <1>1, <1>5, <3>1, <4>1, <4>2, <4>3, <4>4
    <3>2. CASE k # 1
      <4>1. PICK m \in 1..Len(s) : k = m + 1
        <5>1. k - 1 \in 1..Len(s) /\ k = (k - 1) + 1
          BY <3>2, <1>5
        <5>2. QED
          BY <5>1
      <4>2. stack'[t][k] = s[m] /\ Round(t, k + 1)' = Round(t, m + 1)
        BY <4>1, <1>5, <1>6
      <4>3. (m < Len(s) => s[m].ret = "ack") /\ (s[m].ret = "ack" => Round(t, m + 1) <= 2)
        BY DEF Calls, Stacked
      <4>4. QED
        BY <4>1, <4>2, <4>3, <1>5
    <3>3. QED
      BY <3>1, <3>2
  <2>2. QED
    BY <1>3, <1>5, <2>1, Places DEF Stacked, Idle, Loop
<1>8. QED
  BY <1>4, <1>7, StepCalls

\* It returns from ReconnectWith_Server.
LEMMA Popped ==
    ASSUME Calls, NEW t \in Thread, pc[t] = "release", tries' = tries,
           pc' = [pc EXCEPT ![t] = stack[t][1].ret], stack' = [stack EXCEPT ![t] = Tail(@)]
    PROVE  Calls' /\ StepOf(t)
<1> DEFINE s == stack[t]
<1>1. s \in Seq(Frame) /\ s # << >>
  BY DEF Calls, CallType, Stacked
<1>2. /\ s[1] \in Frame /\ Len(s) \in Nat \ {0} /\ Tail(s) \in Seq(Frame)
      /\ Len(Tail(s)) = Len(s) - 1 /\ \A k \in 1..Len(s) - 1 : Tail(s)[k] = s[k + 1]
  BY <1>1, Pop
<1> DEFINE q == Tail(s)
<1>3. stack'[t] = q /\ pc'[t] = s[1].ret /\ s[1].ret \in {"ack", "idle", "handle"}
  BY <1>2 DEF Calls, CallType, Frame
<1>4. StepOf(t) /\ tries' \in 0..3
  BY <1>2, <1>3 DEF StepOf, Calls, CallType, Idle, Common
<1> HIDE DEF q
<1>4a. Len(q) = Len(s) - 1 /\ (Len(q) = 0 => q = << >>) /\ \A k \in 1..Len(s) - 1 : q[k] = s[k + 1]
  <2>1. q \in Seq(Frame)
    BY <1>2 DEF q
  <2>2. Len(q) = 0 => q = << >>
    BY <2>1
  <2>3. QED
    BY <1>2, <2>2 DEF q
<1>5. \A k \in 1..Len(s) : Round(t, k)' = Round(t, k + 1)
  <2> SUFFICES ASSUME NEW k \in 1..Len(s) PROVE Round(t, k)' = Round(t, k + 1)
    OBVIOUS
  <2>0. Round(t, k)' = IF k <= Len(s) - 1 THEN q[k].i ELSE IF t = "recv" THEN tries ELSE 0
    BY <1>3, <1>4a DEF Round
  <2>1. CASE k <= Len(s) - 1
    <3>1. k \in 1..Len(s) - 1 /\ k + 1 <= Len(s)
      BY <1>2, <2>1
    <3>2. QED
      BY <2>0, <2>1, <3>1, <1>4a DEF Round
  <2>2. CASE k = Len(s)
    <3>1. ~(k <= Len(s) - 1) /\ ~(k + 1 <= Len(s))
      BY <1>2, <2>2
    <3>2. QED
      BY <2>0, <3>1 DEF Round
  <2>3. QED
    BY <2>1, <2>2, <1>2
<1>6. s[1].ret = "ack" \/ Len(s) = 1
  <2>1. Len(s) \in Nat /\ Len(s) > 0
    BY <1>2
  <2>2. 1 < Len(s) => s[1].ret = "ack"
    BY <2>1 DEF Calls, Stacked
  <2>3. \A n \in Nat : n > 0 => 1 < n \/ n = 1
    OBVIOUS
  <2>4. QED
    BY <2>1, <2>2, <2>3
<1>7. ASSUME NEW k \in 1..Len(s) - 1
      PROVE  /\ k < Len(s) - 1 => stack'[t][k].ret = "ack"
             /\ stack'[t][k].ret = "ack" => Round(t, k + 1)' <= 2
  <2>1. k + 1 \in 1..Len(s) /\ k \in 1..Len(s)
    BY <1>2
  <2>2. stack'[t][k] = s[k + 1] /\ Round(t, k + 1)' = Round(t, (k + 1) + 1)
    BY <1>3, <1>4a, <1>5, <2>1
  <2>3. (k + 1 < Len(s) => s[k + 1].ret = "ack") /\ (s[k + 1].ret = "ack" => Round(t, (k + 1) + 1) <= 2)
    BY <2>1 DEF Calls, Stacked
  <2>4. QED
    BY <1>2, <2>2, <2>3
<1>8. Stacked(t)'
  <2>1. pc'[t] \in Idle => stack'[t] = << >>
    BY <1>3, <1>6, <1>4a DEF Idle
  <2>2. pc'[t] \notin Inside /\ pc'[t] # "tried"
    BY <1>3 DEF Inside
  <2>3. pc'[t] \in Loop => Round(t, 1)' <= 2
    <3>1. Round(t, 1)' = Round(t, 2)
      BY <1>2, <1>5
    <3>2. s[1].ret = "ack" => Round(t, 2) <= 2
      BY <1>2 DEF Calls, Stacked
    <3>3. QED
      BY <1>3, <3>1, <3>2 DEF Loop
  <2>4. Len(stack'[t]) = Len(s) - 1
    BY <1>3, <1>4a
  <2>5. QED
    BY <1>7, <2>1, <2>2, <2>3, <2>4 DEF Stacked, Inside
<1>9. QED
  BY <1>4, <1>8, StepCalls

\* An authentication ends.
LEMMA Answered ==
    ASSUME Calls, NEW t \in Thread, NEW results, AckReturns(t, results), pc[t] \in Loop, tries' = tries
    PROVE  Calls' /\ StepOf(t) /\ pc'[t] \in {"retry", "tried", "auth", "check"}
<1> DEFINE s == stack[t]
<1>1. s \in Seq(Frame) /\ Round(t, 1) <= 2 /\ tries \in 0..3 /\ tries' \in 0..3
  BY DEF Calls, CallType, Stacked
<1>2. CASE s # << >>
  <2>1. /\ s[1] \in Frame /\ Len(s) \in Nat \ {0}
    BY <1>1, <1>2, Pop
  <2>2. s[1].i \in 0..2
    BY <1>1, <2>1 DEF Round, Frame
  <2>3. pc' = [pc EXCEPT ![t] = "retry"] /\ stack' = [stack EXCEPT ![t] = [s EXCEPT ![1] = [s[1] EXCEPT !.i = @ + 1]]]
    BY <1>2 DEF AckReturns, Goto
  <2> DEFINE r == [s[1] EXCEPT !.i = @ + 1]
  <2> DEFINE q == [s EXCEPT ![1] = r]
  <2>4. r \in Frame /\ r.ret = s[1].ret
    BY <2>1, <2>2 DEF Frame
  <2> HIDE DEF r
  <2>5. q \in Seq(Frame) /\ Len(q) = Len(s) /\ \A k \in 1..Len(s) : q[k] = IF k = 1 THEN r ELSE s[k]
    BY <1>1, <2>1, <2>4
  <2>6. stack'[t] = q /\ pc'[t] = "retry"
    BY <2>3 DEF r, Calls, CallType
  <2> HIDE DEF q
  <2>7. StepOf(t)
    <3>1. stack' = [stack EXCEPT ![t] = q]
      BY <2>3 DEF q, r
    <3>2. QED
      BY <2>3, <2>5, <2>6, <3>1 DEF StepOf, Common
  <2>8. \A k \in 1..Len(s) : Round(t, k + 1)' = Round(t, k + 1)
    BY <2>1, <2>5, <2>6 DEF Round
  <2>9. \A k \in 1..Len(s) : stack'[t][k].ret = s[k].ret
    BY <2>4, <2>5, <2>6
  <2>10. stack'[t] # << >>
    BY <2>1, <2>5, <2>6
  <2>11. Stacked(t)'
    BY <2>5, <2>6, <2>8, <2>9, <2>10, SMTT(30) DEF Stacked, Calls, Idle, Loop
  <2>12. QED
    BY <1>1, <2>6, <2>7, <2>11, StepCalls
<1>3. CASE s = << >>
  <2>1. PICK l \in {"tried", "auth", "check"} : pc' = [pc EXCEPT ![t] = l] /\ (l = "tried" <=> t = "recv")
    BY <1>3 DEF AckReturns, Goto
  <2>2. stack' = stack /\ pc'[t] = l
    BY <1>3, <2>1 DEF AckReturns, Calls, CallType
  <2>3. StepOf(t)
    BY <1>1, <2>1, <2>2 DEF StepOf, Idle, Common, Calls, CallType
  <2>4. Round(t, 1)' = Round(t, 1)
    BY <2>2 DEF Round
  <2>5. Stacked(t)'
    BY <1>1, <1>3, <2>2, <2>4 DEF Stacked, Idle, Loop
  <2>6. QED
    BY <1>1, <2>2, <2>3, <2>5, StepCalls
<1>4. QED
  BY <1>2, <1>3

LEMMA TimelyStays ==
    ASSUME Timely, UNCHANGED <<late, id, join_data>>,
           \A m \in Range(inbox)' \union Range(batch)' :
              m \in Range(inbox) \union Range(batch) \/ m.type # "heart"
    PROVE  Timely'
BY DEF Timely

LEMMA StartingStays ==
    ASSUME Starting, Calls, NEW t \in Thread, StepOf(t),
           pc[t] \notin {"none", "done"}, pc'[t] # "none", ~(t = "main" /\ pc[t] = "connect"),
           Yes \in Range(inbox)' => Yes \in Range(inbox) \/ accepted',
           accepted => accepted', auth' => auth \/ accepted'
    PROVE  Starting'
<1>1. \A u \in Thread \ {t} : pc'[u] = pc[u]
  BY DEF StepOf, Calls, CallType
<1>2. t = "main" \/ pc["recv"] # "none"
  BY DEF Starting
<1>3. QED
  BY <1>1, <1>2 DEF Starting

\* A step of a thread that only moves.
LEMMA OnlyMoves ==
    ASSUME Inv, NEW t \in Thread, Calls', StepOf(t),
           pc[t] \notin {"none", "done"}, pc'[t] # "none", ~(t = "main" /\ pc[t] = "connect"),
           LinkType', RcvType', BoundType', UNCHANGED <<data, accepted, late>>,
           auth' => auth \/ accepted
    PROVE  Inv'
<1>1. DataType' /\ CallType' /\ Range(inbox)' = Range(inbox) /\ Range(batch)' = Range(batch)
  BY DEF data, Inv, TypeInv, DataType, Calls
<1>2. Timely'
  BY <1>1, TimelyStays DEF data, Inv
<1>3. Starting'
  BY <1>1, StartingStays DEF Inv
<1>4. QED
  BY <1>1, <1>2, <1>3 DEF Inv, TypeInv

LEMMA KeptTypes ==
    /\ UNCHANGED bounds /\ BoundType => BoundType' /\ UNCHANGED late
    /\ UNCHANGED <<relock, link, alive>> /\ LinkType => LinkType' /\ UNCHANGED <<auth, accepted>>
    /\ UNCHANGED rcv /\ RcvType => RcvType'
BY DEF bounds, link, BoundType, LinkType, RcvType

LEMMA Unpacked == Inv => LinkType /\ Calls /\ RcvType /\ DataType /\ BoundType /\ CallType
BY DEF Inv, TypeInv, Calls

-----------------------------------------------------------------------------
(* Authentication, its answer, reconnection.                               *)

LEMMA ReleaseType == ASSUME NEW t PROVE Release(t) \in Thread \union {"none", "tcp", "jammed", "never"} /\ Unlocked \in Thread \union {"none", "tcp", "jammed", "never"}
BY DEF Release, Unlocked

LEMMA FailsType == Fails => alive' \in BOOLEAN
BY DEF Fails

LEMMA AuthenticationInv == ASSUME NEW t \in Thread, Inv, HUB_Authentication(t) PROVE Inv'
<1>1. /\ pc[t] = "auth" /\ lock' = Unlocked
      /\ UNCHANGED <<relock, sock, flag, auth, tries, rcv, batch, id, join_data, faults, late, cmds>>
  BY DEF HUB_Authentication, At
<1>2. Calls' /\ StepOf(t) /\ pc'[t] \in {"ack", "reconnect"} /\ alive' \in BOOLEAN
  <2>1. CASE Goto(t, "ack") /\ UNCHANGED <<stack, alive>>
    <3>1. pc' = [pc EXCEPT ![t] = pc'[t]] /\ pc'[t] = "ack"
      BY <2>1, Unpacked DEF Goto, CallType
    <3>2. QED
      BY <1>1, <2>1, <3>1, Moved, Unpacked DEF Loop, LinkType
  <2>2. CASE Fails /\ Call(t, "ack")
    <3>1. pc'[t] = "reconnect"
      BY <2>2, Unpacked DEF Call, Goto, CallType
    <3>2. QED
      BY <1>1, <2>2, <3>1, Called, FailsType, Unpacked DEF Loop
  <2>3. QED
    BY <2>1, <2>2 DEF HUB_Authentication
<1>3. /\ inbox' \in Seq(Msg) /\ no' \in 0..MaxNo /\ accepted' \in BOOLEAN
      /\ (accepted => accepted') /\ (Yes \in Range(inbox)' => Yes \in Range(inbox) \/ accepted')
      /\ Range(inbox)' \subseteq Range(inbox) \union {Yes, No}
  <2>1. CASE UNCHANGED <<inbox, accepted, no>>
    <3>1. Range(inbox)' = Range(inbox)
      BY <2>1
    <3>2. QED
      BY <2>1, <3>1, Unpacked DEF DataType, BoundType, LinkType
  <2>2. CASE inbox' = Append(inbox, Yes) /\ accepted' = TRUE /\ UNCHANGED no
    <3>1. Append(inbox, Yes) \in Seq(Msg) /\ Range(Append(inbox, Yes)) = Range(inbox) \union {Yes}
      BY RangeAppend, Answers, Unpacked DEF DataType
    <3>2. Range(inbox)' = Range(inbox) \union {Yes}
      BY <2>2, <3>1
    <3>3. QED
      BY <2>2, <3>1, <3>2, Unpacked DEF BoundType
  <2>3. CASE no < MaxNo /\ no' = no + 1 /\ inbox' = Append(inbox, No) /\ UNCHANGED accepted
    <3>1. Append(inbox, No) \in Seq(Msg) /\ Range(Append(inbox, No)) = Range(inbox) \union {No}
      BY RangeAppend, Answers, Unpacked DEF DataType
    <3>2. Range(inbox)' = Range(inbox) \union {No}
      BY <2>3, <3>1
    <3>3. no' \in 0..MaxNo
      BY <2>3, Bounds, Unpacked DEF BoundType
    <3>4. QED
      BY <2>3, <3>1, <3>2, <3>3, Answers, Unpacked DEF LinkType
  <2>4. QED
    BY <2>1, <2>2, <2>3 DEF HUB_Authentication, AuthAnswered
<1>4. Timely'
  <2>1. Range(batch)' = Range(batch)
    BY <1>1
  <2>2. QED
    BY <1>1, <1>3, <2>1, Answers, TimelyStays DEF Inv
<1>5. Starting'
  <2>1. auth' => auth \/ accepted'
    BY <1>1
  <2>2. pc[t] \notin {"none", "done", "connect"} /\ pc'[t] # "none"
    BY <1>1, <1>2
  <2>3. Starting /\ Calls
    BY DEF Inv
  <2>4. (accepted => accepted') /\ (Yes \in Range(inbox)' => Yes \in Range(inbox) \/ accepted')
    BY <1>3
  <2>5. Calls' /\ StepOf(t)
    BY <1>2
  <2>6. QED
    BY <2>1, <2>2, <2>3, <2>4, <2>5, StartingStays
<1>6. LinkType'
  BY <1>1, <1>2, <1>3, ReleaseType, Unpacked DEF LinkType
<1>7. RcvType' /\ DataType' /\ BoundType' /\ CallType'
  BY <1>1, <1>2, <1>3, Unpacked DEF RcvType, DataType, BoundType, Calls
<1>8. QED
  BY <1>2, <1>4, <1>5, <1>6, <1>7 DEF Inv, TypeInv

LEMMA AckInv == ASSUME NEW t \in Thread, Inv, HUB_Authentication_Ack(t) PROVE Inv'
<1>1. /\ pc[t] = "ack" /\ lock' = t /\ rcv' = [rcv EXCEPT ![t] = "live"]
      /\ UNCHANGED <<relock, sock, flag, auth, accepted, stack, tries, data, alive, bounds>>
      /\ pc' = [pc EXCEPT ![t] = pc'[t]] /\ pc'[t] = "acked"
  BY Unpacked DEF HUB_Authentication_Ack, At, Goto, CallType
<1>2. Calls' /\ StepOf(t)
  BY <1>1, Moved, Unpacked DEF Loop
<1>3. LinkType' /\ RcvType'
  BY <1>1, Unpacked DEF LinkType, RcvType
<1>4. BoundType' /\ UNCHANGED late
  BY <1>1, KeptTypes, Unpacked
<1>5. QED
  BY <1>1, <1>2, <1>3, <1>4, OnlyMoves

\* main takes an answer for one that lets it go on only when it is the
\* acceptance of this connection.
LEMMA AckReadsInv == ASSUME NEW t \in Thread, Inv, AckReads(t) PROVE Inv'
<1>1. PICK n \in 1..Len(inbox) :
          /\ inbox' = SubSeq(inbox, n + 1, Len(inbox))
          /\ auth' = (auth \/ Accepts(SubSeq(inbox, 1, n)))
          /\ AckReturns(t, {IF Accepts(SubSeq(inbox, 1, n)) THEN 0 ELSE 1})
  BY DEF AckReads
<1>2. /\ pc[t] = "acked" /\ lock' = Unlocked
      /\ UNCHANGED <<relock, sock, flag, accepted, tries, rcv, batch, id, join_data, alive, bounds>>
  BY DEF AckReads, At
<1>3. Calls' /\ StepOf(t) /\ pc'[t] \in {"retry", "tried", "auth", "check"}
  BY <1>1, <1>2, Answered, Unpacked DEF Loop
<1>4. /\ SubSeq(inbox, n + 1, Len(inbox)) \in Seq(Msg)
      /\ Range(SubSeq(inbox, 1, n)) \subseteq Range(inbox)
      /\ Range(SubSeq(inbox, n + 1, Len(inbox))) \subseteq Range(inbox)
  BY RangeSplit, Unpacked DEF DataType
<1>5. inbox' \in Seq(Msg) /\ Range(inbox)' \subseteq Range(inbox) /\ Range(batch)' = Range(batch)
  BY <1>1, <1>2, <1>4
<1>6. Accepts(SubSeq(inbox, 1, n)) => accepted
  <2>1. Yes \in Range(<<Yes>>)
    BY DEF Range
  <2>2. QED
    BY <1>4, <2>1 DEF Accepts, Inv, Starting
<1>7. Timely' /\ Starting'
  <2>1. UNCHANGED <<late, id, join_data, accepted>>
    BY <1>2 DEF bounds
  <2>2. Timely'
    BY <1>5, <2>1, TimelyStays DEF Inv
  <2>3. (auth' => auth \/ accepted') /\ (accepted => accepted')
    BY <1>1, <1>6, <2>1
  <2>4. pc[t] \notin {"none", "done", "connect"} /\ pc'[t] # "none"
    BY <1>2, <1>3
  <2>5. Starting'
    BY <1>3, <1>5, <2>3, <2>4, StartingStays DEF Inv
  <2>6. QED
    BY <2>2, <2>5
<1>8. LinkType'
  <2>1. auth' \in BOOLEAN
    BY <1>1, Unpacked DEF LinkType
  <2>2. QED
    BY <1>2, <2>1, ReleaseType, Unpacked DEF LinkType
<1>9. RcvType' /\ DataType' /\ BoundType' /\ CallType'
  BY <1>2, <1>3, <1>5, KeptTypes, Unpacked DEF DataType, Calls
<1>10. QED
  BY <1>3, <1>7, <1>8, <1>9 DEF Inv, TypeInv

LEMMA AckFailsInv == ASSUME NEW t \in Thread, Inv, AckFails(t) PROVE Inv'
<1>1. /\ pc[t] = "acked" /\ lock' = Unlocked
      /\ UNCHANGED <<relock, sock, flag, auth, accepted, stack, tries, rcv, data, alive, bounds>>
      /\ pc' = [pc EXCEPT ![t] = pc'[t]] /\ pc'[t] = "close"
  BY Unpacked DEF AckFails, At, Goto, CallType
<1>2. Calls' /\ StepOf(t)
  BY <1>1, Moved, Unpacked DEF Loop
<1>3. LinkType' /\ RcvType'
  BY <1>1, ReleaseType, Unpacked DEF LinkType, RcvType
<1>4. BoundType' /\ UNCHANGED late
  BY <1>1, KeptTypes, Unpacked
<1>5. QED
  BY <1>1, <1>2, <1>3, <1>4, OnlyMoves

LEMMA AckClosesInv == ASSUME NEW t \in Thread, Inv, AckCloses(t) PROVE Inv'
<1>1. /\ pc[t] = "close" /\ sock' = "closed" /\ AckReturns(t, {0, 1})
      /\ UNCHANGED <<relock, lock, flag, auth, accepted, tries, rcv, data, alive, bounds>>
  BY DEF AckCloses, At
<1>2. Calls' /\ StepOf(t) /\ pc'[t] \in {"retry", "tried", "auth", "check"}
  BY <1>1, Answered, Unpacked DEF Loop
<1>3. LinkType' /\ RcvType'
  BY <1>1, Unpacked DEF LinkType, RcvType
<1>4. BoundType' /\ UNCHANGED late
  BY <1>1, KeptTypes, Unpacked
<1>5. QED
  BY <1>1, <1>2, <1>3, <1>4, OnlyMoves

LEMMA ReconnectInv == ASSUME NEW t \in Thread, Inv, ReconnectWith_Server(t) PROVE Inv'
<1>1. /\ pc[t] = "reconnect" /\ lock' = t /\ sock' = "new" /\ accepted' = FALSE /\ inbox' = << >>
      /\ rcv' = [u \in Thread |-> IF Waiting(u) THEN "shut" ELSE rcv[u]]
      /\ UNCHANGED <<relock, flag, auth, stack, tries, batch, id, join_data, alive, bounds>>
      /\ pc' = [pc EXCEPT ![t] = pc'[t]] /\ pc'[t] = "connect"
  BY Unpacked DEF ReconnectWith_Server, CloseAndReopen, At, Goto, CallType
<1>2. Calls' /\ StepOf(t)
  BY <1>1, Moved, Unpacked DEF Inside
<1>3. LinkType' /\ RcvType' /\ BoundType' /\ UNCHANGED late
  BY <1>1, KeptTypes, Unpacked DEF LinkType, RcvType
<1>4. DataType' /\ Range(inbox)' = {} /\ Range(batch)' = Range(batch)
  <2>1. << >> \in Seq(Msg)
    OBVIOUS
  <2>2. QED
    BY <1>1, <2>1, Empty, Unpacked DEF DataType
<1>5. Timely'
  BY <1>1, <1>3, <1>4, TimelyStays DEF Inv
<1>6. Starting'
  <2>1. \A u \in Thread \ {t} : pc'[u] = pc[u]
    BY <1>1, Unpacked DEF CallType
  <2>2. pc["recv"] # "none" => pc'["recv"] # "none"
    BY <1>1, <2>1
  <2>3. pc["recv"] = "none" => t = "main"
    BY <1>1 DEF Inv, Starting
  <2>4. QED
    BY <1>1, <1>4, <2>1, <2>2, <2>3 DEF Inv, Starting
<1>7. QED
  BY <1>2, <1>3, <1>4, <1>5, <1>6 DEF Inv, TypeInv, Calls

LEMMA ConnectTypes ==
    /\ Tcp_Reconnection => sock' \in {"open", "bare"}
    /\ Tcp_Reconnection /\ BoundType /\ UNCHANGED <<late, no, cmds>> => BoundType'
BY Bounds DEF Tcp_Reconnection, BoundType

LEMMA ReconnectedInv == ASSUME NEW t \in Thread, Inv, Reconnected(t) PROVE Inv'
<1>1. /\ pc[t] = "connect" /\ flag' = TRUE /\ auth' = FALSE /\ Tcp_Reconnection
      /\ UNCHANGED <<relock, lock, accepted, stack, tries, rcv, data, alive, late, no, cmds>>
      /\ pc' = [pc EXCEPT ![t] = pc'[t]] /\ pc'[t] = "retry"
  BY Unpacked DEF Reconnected, At, Goto, CallType
<1>2. Calls' /\ StepOf(t)
  BY <1>1, Moved, Unpacked DEF Inside
<1>3. LinkType' /\ RcvType' /\ BoundType' /\ UNCHANGED late
  BY <1>1, ConnectTypes, Unpacked DEF LinkType, RcvType
<1>4. DataType' /\ Range(inbox)' = Range(inbox) /\ Range(batch)' = Range(batch) /\ UNCHANGED <<id, join_data>>
  BY <1>1, Unpacked DEF data, DataType
<1>5. Timely'
  BY <1>3, <1>4, TimelyStays DEF Inv
<1>6. Starting'
  <2>1. \A u \in Thread \ {t} : pc'[u] = pc[u]
    BY <1>1, Unpacked DEF CallType
  <2>2. pc["recv"] = "none" => t = "main"
    BY <1>1 DEF Inv, Starting
  <2>3. QED
    BY <1>1, <1>4, <2>1, <2>2 DEF Inv, Starting
<1>7. QED
  BY <1>2, <1>3, <1>4, <1>5, <1>6 DEF Inv, TypeInv, Calls

LEMMA RetryInv == ASSUME NEW t \in Thread, Inv, Retry(t) PROVE Inv'
<1>1. /\ pc[t] = "retry" /\ pc' = [pc EXCEPT ![t] = pc'[t]]
      /\ pc'[t] = IF stack[t][1].i < 3 /\ ~auth THEN "auth" ELSE "release"
      /\ UNCHANGED <<relock, link, stack, tries, rcv, data, alive, bounds>>
  BY Unpacked DEF Retry, At, Goto, CallType
<1>2. pc'[t] = "auth" => Round(t, 1) <= 2
  <2>1. stack[t] \in Seq(Frame) /\ stack[t] # << >>
    BY <1>1 DEF Inv, Calls, CallType, Stacked
  <2>2. stack[t][1] \in Frame /\ 1 <= Len(stack[t])
    BY <2>1, Pop
  <2>3. QED
    BY <1>1, <2>2 DEF Round, Frame
<1>3. Calls' /\ StepOf(t)
  BY <1>1, <1>2, Moved, Unpacked DEF Inside
<1>4. LinkType' /\ RcvType' /\ BoundType' /\ UNCHANGED <<late, auth, accepted>>
  BY <1>1, KeptTypes, Unpacked
<1>5. QED
  BY <1>1, <1>3, <1>4, OnlyMoves

LEMMA ReturnedInv == ASSUME NEW t \in Thread, Inv, Returned(t) PROVE Inv'
<1>1. /\ pc[t] = "release" /\ lock' = Release(t)
      /\ UNCHANGED <<relock, sock, flag, auth, accepted, tries, rcv, data, alive, bounds>>
      /\ pc' = [pc EXCEPT ![t] = stack[t][1].ret] /\ stack' = [stack EXCEPT ![t] = Tail(@)]
  BY DEF Returned, At, Goto
<1>2. Calls' /\ StepOf(t)
  BY <1>1, Popped, Unpacked
<1>3. pc'[t] # "none"
  <2>1. stack[t] \in Seq(Frame) /\ stack[t] # << >>
    BY <1>1 DEF Inv, Calls, CallType, Stacked
  <2>2. stack[t][1] \in Frame
    BY <2>1, Pop
  <2>3. pc'[t] = stack[t][1].ret
    BY <1>1, Unpacked DEF CallType
  <2>4. QED
    BY <2>2, <2>3 DEF Frame
<1>4. LinkType' /\ RcvType' /\ BoundType' /\ UNCHANGED late
  BY <1>1, KeptTypes, ReleaseType, Unpacked DEF LinkType
<1>5. QED
  BY <1>1, <1>2, <1>3, <1>4, OnlyMoves

LEMMA SharedInv == ASSUME NEW t \in Thread, Inv, Shared(t) PROVE Inv'
BY AuthenticationInv, AckInv, AckReadsInv, AckFailsInv, AckClosesInv, ReconnectInv,
   ReconnectedInv, RetryInv, ReturnedInv DEF Shared

-----------------------------------------------------------------------------
(* main and the heartbeats.                                                *)

LEMMA CheckInv == Inv /\ Check => Inv'
<1> SUFFICES ASSUME Inv, Check PROVE Inv'
  OBVIOUS
<1>1. /\ pc["main"] = "check" /\ UNCHANGED <<relock, link, stack, tries, rcv, data, alive, bounds>>
  BY DEF Check, At
<1>2. LinkType' /\ RcvType' /\ BoundType' /\ UNCHANGED <<late, auth, accepted>>
  BY <1>1, KeptTypes, Unpacked
<1>3. CASE auth
  <2>1. pc' = [main |-> "done", recv |-> "call", heart |-> "idle"]
    BY <1>3 DEF Check
  <2>2. pc["recv"] = "none" /\ pc["heart"] = "none"
    BY <1>1 DEF Inv, Starting
  <2>3. \A t \in Thread : stack[t] = << >>
    BY <1>1, <2>2 DEF Inv, Calls, Stacked, Idle
  <2>4. pc' \in [Thread -> Idle \union Common] /\ \A t \in Thread : pc'[t] \in {"done", "call", "idle"}
    BY <2>1 DEF Idle
  <2>5. \A t \in Thread : Stacked(t)'
    BY <1>1, <2>3, <2>4 DEF Stacked, Loop
  <2>6. Calls' /\ DataType'
    BY <1>1, <2>4, <2>5, Unpacked DEF Calls, CallType, DataType, data
  <2>7. Starting' /\ Timely'
    BY <1>1, <1>2, <2>1 DEF Inv, Starting, Timely, data
  <2>8. QED
    BY <1>2, <2>6, <2>7 DEF Inv, TypeInv, Calls
<1>4. CASE ~auth
  <2>1. pc' = [pc EXCEPT !["main"] = pc'["main"]] /\ pc'["main"] = "auth"
    BY <1>4, Unpacked DEF Check, CallType
  <2>2. stack["main"] = << >>
    BY <1>1 DEF Inv, Calls, Stacked, Idle
  <2>3. StepOf("main") /\ tries' \in 0..3
    BY <1>1, <2>1, Unpacked DEF StepOf, CallType, Common
  <2>4. Stacked("main")'
    BY <1>1, <2>1, <2>2 DEF Stacked, Round, Idle, Loop
  <2>5. Calls'
    BY <1>1, <2>3, <2>4, StepCalls DEF Inv
  <2>6. QED
    BY <1>1, <1>2, <2>1, <2>3, <2>5, OnlyMoves
<1>5. QED
  BY <1>3, <1>4

LEMMA NextIdType == id \in Id => NextId \in Id
BY Bounds DEF NextId, Id

LEMMA HeartbeatInv == Inv /\ Heartbeat => Inv'
<1> SUFFICES ASSUME Inv, Heartbeat PROVE Inv'
  OBVIOUS
<1>1. /\ pc["heart"] = "idle" /\ id' = NextId /\ join_data' = join_data \union {NextId}
      /\ pc' = [pc EXCEPT !["heart"] = pc'["heart"]] /\ pc'["heart"] = "send"
      /\ UNCHANGED <<relock, link, stack, tries, rcv, inbox, batch, alive, faults, no, cmds>>
  BY Unpacked DEF Heartbeat, At, Goto, CallType
<1>2. Calls' /\ StepOf("heart")
  BY <1>1, Moved, Unpacked DEF Idle
<1>3. LinkType' /\ RcvType' /\ UNCHANGED <<auth, accepted>>
  BY <1>1, KeptTypes, Unpacked
<1>4. late \in Nat /\ late' \in 0..MaxLate /\ (late' = 0 => late = 0 /\ (join_data # {} \/ ~Outstanding))
  BY Bounds, Unpacked DEF Heartbeat, BoundType
<1>5. DataType' /\ BoundType'
  BY <1>1, <1>4, NextIdType, Unpacked DEF DataType, BoundType
<1>6. Timely'
  <2>1. ~Outstanding => \A m \in Range(inbox) \union Range(batch) : m.type # "heart"
    BY RangeConcat, Unpacked DEF Outstanding, DataType
  <2>2. Range(inbox)' = Range(inbox) /\ Range(batch)' = Range(batch)
    BY <1>1
  <2>3. late = 0 /\ join_data # {} => \A m \in Range(inbox) \union Range(batch) : m.type # "heart"
    BY DEF Inv, Timely
  <2>4. QED
    BY <1>4, <2>1, <2>2, <2>3 DEF Timely
<1>7. Starting'
  <2>1. Range(inbox)' = Range(inbox)
    BY <1>1
  <2>2. QED
    BY <1>1, <1>2, <1>3, <2>1, StartingStays DEF Inv
<1>8. QED
  BY <1>2, <1>3, <1>5, <1>6, <1>7 DEF Inv, TypeInv, Calls

LEMMA HeartSendInv == Inv /\ HeartSend => Inv'
<1> SUFFICES ASSUME Inv, HeartSend PROVE Inv'
  OBVIOUS
<1>1. pc["heart"] = "send" /\ UNCHANGED <<relock, link, tries, rcv, batch, id, bounds>>
      /\ join_data' \in {join_data, {}}
  BY DEF HeartSend, At
<1>2. Calls' /\ StepOf("heart") /\ pc'["heart"] # "none" /\ alive' \in BOOLEAN
  <2>1. CASE Goto("heart", "idle") /\ UNCHANGED <<stack, alive>>
    <3>1. pc' = [pc EXCEPT !["heart"] = pc'["heart"]] /\ pc'["heart"] = "idle"
      BY <2>1, Unpacked DEF Goto, CallType
    <3>2. QED
      BY <1>1, <2>1, <3>1, Moved, Unpacked DEF Idle, LinkType
  <2>2. CASE Fails /\ Call("heart", "idle")
    <3>1. pc'["heart"] = "reconnect"
      BY <2>2, Unpacked DEF Call, Goto, CallType
    <3>2. QED
      BY <1>1, <2>2, <3>1, Called, FailsType, Unpacked DEF Idle
  <2>3. QED
    BY <2>1, <2>2 DEF HeartSend
<1> DEFINE beat(k) == [type |-> "heart", n |-> k, last |-> id]
<1>3. inbox' \in Seq(Msg) /\ Range(inbox)' \subseteq Range(inbox) \union {beat(k) : k \in join_data}
  <2>1. CASE inbox' = inbox
    <3>1. Range(inbox)' = Range(inbox)
      BY <2>1
    <3>2. QED
      BY <2>1, <3>1, Unpacked DEF DataType
  <2>2. ASSUME NEW k \in join_data, inbox' = Append(inbox, beat(k))
        PROVE  inbox' \in Seq(Msg) /\ Range(inbox)' = Range(inbox) \union {beat(k)}
    <3>1. inbox \in Seq(Msg) /\ beat(k) \in Msg
      BY Unpacked DEF DataType, Msg
    <3> HIDE DEF beat
    <3>2. Append(inbox, beat(k)) \in Seq(Msg) /\ Range(Append(inbox, beat(k))) = Range(inbox) \union {beat(k)}
      BY <3>1, RangeAppend
    <3>3. QED
      BY <2>2, <3>2
  <2>3. inbox' = inbox \/ \E k \in join_data : inbox' = Append(inbox, beat(k))
    BY DEF HeartSend, HeartAnswered
  <2> HIDE DEF beat
  <2>4. QED
    BY <2>1, <2>2, <2>3
<1>4. LinkType' /\ RcvType' /\ BoundType' /\ UNCHANGED <<late, auth, accepted>>
  BY <1>1, <1>2, KeptTypes, Unpacked DEF LinkType, link
<1>5. DataType' /\ Range(batch)' = Range(batch) /\ UNCHANGED id
  BY <1>1, <1>3, Unpacked DEF DataType
<1>6. Timely'
  <2>1. inbox' = inbox \/ join_data' = {}
    BY DEF HeartSend
  <2>2. \A m \in Range(inbox)' \union Range(batch)' :
            m \in Range(inbox) \union Range(batch) \/ m.last = id
    BY <1>3, <1>5
  <2>3. inbox' = inbox => Range(inbox)' = Range(inbox)
    OBVIOUS
  <2>4. QED
    BY <1>1, <1>4, <1>5, <2>1, <2>2, <2>3 DEF Inv, Timely
<1>7. Starting'
  <2>1. Yes \in Range(inbox)' => Yes \in Range(inbox)
    BY <1>3, Answers
  <2>2. QED
    BY <1>1, <1>2, <1>4, <2>1, StartingStays DEF Inv
<1>8. QED
  BY <1>2, <1>4, <1>5, <1>6, <1>7 DEF Inv, TypeInv, Calls

-----------------------------------------------------------------------------
(* The receiver.                                                           *)

\* The receiver goes on without a call.
LEMMA ReceiverMoves ==
    ASSUME Inv, pc["recv"] \in Idle \ {"none", "done"}, UNCHANGED <<stack, tries>>,
           pc' = [pc EXCEPT !["recv"] = pc'["recv"]], pc'["recv"] \in Idle \ {"tried", "none"}
    PROVE  Calls' /\ StepOf("recv")
BY Moved, Unpacked

LEMMA RecvInv == Inv /\ (Recv \/ RecvFails) => Inv'
<1> SUFFICES ASSUME Inv, Recv \/ RecvFails PROVE Inv'
  OBVIOUS
<1>1. /\ pc["recv"] \in {"call", "recv"} /\ UNCHANGED <<relock, link, stack, tries, data, alive, bounds>>
      /\ pc' = [pc EXCEPT !["recv"] = pc'["recv"]] /\ pc'["recv"] \in {"error", "recv"}
      /\ rcv' = rcv \/ rcv' = [rcv EXCEPT !["recv"] = "live"]
  BY Unpacked DEF Recv, RecvFails, At, Goto, CallType
<1>2. Calls' /\ StepOf("recv")
  BY <1>1, ReceiverMoves DEF Idle
<1>3. LinkType' /\ BoundType' /\ UNCHANGED <<late, auth, accepted>>
  BY <1>1, KeptTypes, Unpacked
<1>4. RcvType'
  BY <1>1, Unpacked DEF RcvType
<1>5. QED
  BY <1>1, <1>2, <1>3, <1>4, OnlyMoves

LEMMA RecvReadsInv == Inv /\ RecvReads => Inv'
<1> SUFFICES ASSUME Inv, RecvReads PROVE Inv'
  OBVIOUS
<1>1. /\ pc["recv"] = "recv" /\ UNCHANGED <<relock, link, stack, tries, rcv, id, join_data, alive, bounds>>
      /\ pc' = [pc EXCEPT !["recv"] = pc'["recv"]] /\ pc'["recv"] = "handle"
  BY Unpacked DEF RecvReads, At, Goto, CallType
<1>2. PICK n \in 1..Len(inbox) :
        batch' = SubSeq(inbox, 1, n) /\ inbox' = SubSeq(inbox, n + 1, Len(inbox))
  BY DEF RecvReads
<1>3. /\ SubSeq(inbox, 1, n) \in Seq(Msg) /\ SubSeq(inbox, n + 1, Len(inbox)) \in Seq(Msg)
      /\ Range(SubSeq(inbox, 1, n)) \subseteq Range(inbox)
      /\ Range(SubSeq(inbox, n + 1, Len(inbox))) \subseteq Range(inbox)
  BY RangeSplit, Unpacked DEF DataType
<1>4. DataType' /\ Range(inbox)' \subseteq Range(inbox) /\ Range(batch)' \subseteq Range(inbox)
  BY <1>1, <1>2, <1>3, Unpacked DEF DataType
<1>5. Calls' /\ StepOf("recv")
  BY <1>1, ReceiverMoves DEF Idle
<1>6. LinkType' /\ RcvType' /\ BoundType' /\ UNCHANGED <<late, auth, accepted>>
  BY <1>1, KeptTypes, Unpacked
<1>7. Timely'
  BY <1>1, <1>4, <1>6, TimelyStays DEF Inv
<1>8. Starting'
  BY <1>1, <1>4, <1>5, <1>6, StartingStays DEF Inv
<1>9. QED
  BY <1>4, <1>5, <1>6, <1>7, <1>8 DEF Inv, TypeInv, Calls

LEMMA HandleInv == Inv /\ Handle_Message_Type => Inv'
<1> SUFFICES ASSUME Inv, Handle_Message_Type PROVE Inv'
  OBVIOUS
<1>1. pc["recv"] = "handle" /\ UNCHANGED <<relock, link, tries, rcv, inbox, id, join_data, alive, bounds>>
  BY DEF Handle_Message_Type, At
<1>2. batch' \in Seq(Msg) /\ Range(batch)' \subseteq Range(batch)
  <2>1. CASE batch = << >>
    <3>1. batch' = batch
      BY <2>1 DEF Handle_Message_Type
    <3>2. QED
      BY <3>1, Unpacked DEF DataType
  <2>2. CASE batch # << >>
    <3>1. batch' = Tail(batch) /\ Tail(batch) \in Seq(Msg)
      BY <2>2, Pop, Unpacked DEF Handle_Message_Type, DataType
    <3>2. Range(Tail(batch)) \subseteq Range(batch)
      BY <2>2, RangeTail, Unpacked DEF DataType
    <3>3. QED
      BY <3>1, <3>2
  <2>3. QED
    BY <2>1, <2>2
<1>3. Calls' /\ StepOf("recv") /\ pc'["recv"] # "none"
  <2>1. CASE Call("recv", "handle")
    <3>1. pc'["recv"] = "reconnect"
      BY <2>1, Unpacked DEF Call, Goto, CallType
    <3>2. QED
      BY <1>1, <2>1, <3>1, Called, Unpacked DEF Idle
  <2>2. CASE pc' = pc /\ UNCHANGED stack
    <3>1. pc' = [pc EXCEPT !["recv"] = pc'["recv"]] /\ pc'["recv"] = "handle"
      BY <1>1, <2>2, Unpacked DEF CallType
    <3>2. QED
      BY <1>1, <2>2, <3>1, ReceiverMoves DEF Idle
  <2>3. CASE (Goto("recv", "call") \/ Goto("recv", "reply")) /\ UNCHANGED stack
    <3>1. pc' = [pc EXCEPT !["recv"] = pc'["recv"]] /\ pc'["recv"] \in {"call", "reply"}
      BY <2>3, Unpacked DEF Goto, CallType
    <3>2. QED
      BY <1>1, <2>3, <3>1, ReceiverMoves DEF Idle
  <2>4. batch # << >> => Head(batch).type \in {"auth", "heart", "command"}
    BY RangeTail, Unpacked DEF DataType, Msg
  <2>5. QED
    BY <2>1, <2>2, <2>3, <2>4 DEF Handle_Message_Type
<1>4. LinkType' /\ RcvType' /\ BoundType' /\ UNCHANGED <<late, auth, accepted>>
  BY <1>1, KeptTypes, Unpacked
<1>5. DataType' /\ Range(inbox)' = Range(inbox)
  BY <1>1, <1>2, Unpacked DEF DataType
<1>6. Timely'
  BY <1>1, <1>2, <1>4, <1>5, TimelyStays DEF Inv
<1>7. Starting'
  BY <1>1, <1>3, <1>4, <1>5, StartingStays DEF Inv
<1>8. QED
  BY <1>3, <1>4, <1>5, <1>6, <1>7 DEF Inv, TypeInv, Calls

LEMMA ReplyInv == Inv /\ Reply => Inv'
<1> SUFFICES ASSUME Inv, Reply PROVE Inv'
  OBVIOUS
<1>1. pc["recv"] = "reply" /\ UNCHANGED <<relock, link, tries, rcv, data, bounds>>
  BY DEF Reply, At
<1>2. Calls' /\ StepOf("recv") /\ pc'["recv"] # "none" /\ alive' \in BOOLEAN
  <2>1. CASE Goto("recv", "handle") /\ UNCHANGED <<stack, alive>>
    <3>1. pc' = [pc EXCEPT !["recv"] = pc'["recv"]] /\ pc'["recv"] = "handle"
      BY <2>1, Unpacked DEF Goto, CallType
    <3>2. QED
      BY <1>1, <2>1, <3>1, ReceiverMoves, Unpacked DEF Idle, LinkType
  <2>2. CASE Fails /\ Call("recv", "handle")
    <3>1. pc'["recv"] = "reconnect"
      BY <2>2, Unpacked DEF Call, Goto, CallType
    <3>2. QED
      BY <1>1, <2>2, <3>1, Called, FailsType, Unpacked DEF Idle
  <2>3. QED
    BY <2>1, <2>2 DEF Reply
<1>3. LinkType' /\ RcvType' /\ BoundType' /\ UNCHANGED <<late, auth, accepted>>
  BY <1>1, <1>2, KeptTypes, Unpacked DEF LinkType, link
<1>4. QED
  BY <1>1, <1>2, <1>3, OnlyMoves

LEMMA ReadFlagInv == Inv /\ ReadFlag => Inv'
<1> SUFFICES ASSUME Inv, ReadFlag PROVE Inv'
  OBVIOUS
<1>1. /\ pc["recv"] = "error" /\ UNCHANGED <<relock, link, stack, tries, rcv, data, alive, bounds>>
      /\ pc' = [pc EXCEPT !["recv"] = pc'["recv"]] /\ pc'["recv"] \in {"mine", "theirs"}
  BY Unpacked DEF ReadFlag, At, Goto, CallType
<1>2. Calls' /\ StepOf("recv")
  BY <1>1, ReceiverMoves DEF Idle
<1>3. LinkType' /\ RcvType' /\ BoundType' /\ UNCHANGED <<late, auth, accepted>>
  BY <1>1, KeptTypes, Unpacked
<1>4. QED
  BY <1>1, <1>2, <1>3, OnlyMoves

LEMMA ClearFlagInv == Inv /\ ClearFlag => Inv'
<1> SUFFICES ASSUME Inv, ClearFlag PROVE Inv'
  OBVIOUS
<1>1. /\ pc["recv"] = "mine" /\ flag' = FALSE
      /\ UNCHANGED <<relock, sock, lock, auth, accepted, stack, tries, rcv, data, alive, bounds>>
      /\ pc' = [pc EXCEPT !["recv"] = pc'["recv"]] /\ pc'["recv"] = "call"
  BY Unpacked DEF ClearFlag, At, Goto, CallType
<1>2. Calls' /\ StepOf("recv")
  BY <1>1, ReceiverMoves DEF Idle
<1>3. LinkType' /\ RcvType' /\ BoundType' /\ UNCHANGED late
  BY <1>1, KeptTypes, Unpacked DEF LinkType
<1>4. QED
  BY <1>1, <1>2, <1>3, OnlyMoves

LEMMA TakeOverInv == Inv /\ TakeOver => Inv'
<1> SUFFICES ASSUME Inv, TakeOver PROVE Inv'
  OBVIOUS
<1>1. /\ pc["recv"] = "theirs" /\ lock' = "recv" /\ sock' = "new" /\ accepted' = FALSE /\ inbox' = << >>
      /\ rcv' = [u \in Thread |-> IF Waiting(u) THEN "shut" ELSE rcv[u]]
      /\ UNCHANGED <<relock, flag, auth, stack, tries, batch, id, join_data, alive, bounds>>
      /\ pc' = [pc EXCEPT !["recv"] = pc'["recv"]] /\ pc'["recv"] = "takeover"
  BY Unpacked DEF TakeOver, CloseAndReopen, At, Goto, CallType
<1>2. Calls' /\ StepOf("recv")
  BY <1>1, ReceiverMoves DEF Idle
<1>3. LinkType' /\ RcvType' /\ BoundType' /\ UNCHANGED late
  BY <1>1, KeptTypes, Unpacked DEF LinkType, RcvType
<1>4. DataType' /\ Range(inbox)' = {} /\ Range(batch)' = Range(batch)
  <2>1. << >> \in Seq(Msg)
    OBVIOUS
  <2>2. QED
    BY <1>1, <2>1, Empty, Unpacked DEF DataType
<1>5. Timely'
  BY <1>1, <1>3, <1>4, TimelyStays DEF Inv
<1>6. Starting'
  BY <1>1, <1>4, Unpacked DEF Inv, Starting, CallType
<1>7. QED
  BY <1>2, <1>3, <1>4, <1>5, <1>6 DEF Inv, TypeInv, Calls

LEMMA TakenOverInv == Inv /\ TakenOver => Inv'
<1> SUFFICES ASSUME Inv, TakenOver PROVE Inv'
  OBVIOUS
<1>1. /\ pc["recv"] = "takeover" /\ Tcp_Reconnection /\ lock' = "none"
      /\ UNCHANGED <<relock, flag, auth, accepted, stack, tries, rcv, data, alive, late, no, cmds>>
      /\ pc' = [pc EXCEPT !["recv"] = pc'["recv"]] /\ pc'["recv"] = "unflag"
  BY Unpacked DEF TakenOver, At, Goto, CallType
<1>2. Calls' /\ StepOf("recv")
  BY <1>1, ReceiverMoves DEF Idle
<1>3. LinkType' /\ RcvType' /\ BoundType' /\ UNCHANGED late
  BY <1>1, ConnectTypes, KeptTypes, Unpacked DEF LinkType
<1>4. QED
  BY <1>1, <1>2, <1>3, OnlyMoves

\* The receiver's own authentications.
LEMMA TryInv == Inv /\ (Unflag \/ Tried) => Inv'
<1> SUFFICES ASSUME Inv, Unflag \/ Tried PROVE Inv'
  OBVIOUS
<1>1. /\ pc["recv"] \in {"unflag", "tried"}
      /\ UNCHANGED <<relock, sock, lock, auth, accepted, stack, rcv, data, alive, bounds>>
      /\ flag' \in {flag, FALSE}
      /\ pc' = [pc EXCEPT !["recv"] = pc'["recv"]] /\ pc'["recv"] \in {"auth", "call"}
  BY Unpacked DEF Unflag, Tried, At, Goto, CallType, link
<1>2. stack["recv"] = << >>
  BY <1>1 DEF Inv, Calls, Stacked, Idle
<1>3. Round("recv", 1) = tries
  BY <1>2 DEF Round
<1>4. tries' \in 0..3 /\ (pc'["recv"] = "auth" => tries' <= 2)
  <2>1. CASE Unflag
    BY <2>1 DEF Unflag
  <2>2. CASE Tried
    <3>1. tries \in 0..2
      BY <1>3, <2>2, Unpacked DEF Tried, At, Inv, Calls, Stacked, CallType
    <3>2. pc'["recv"] = IF auth \/ tries + 1 = 3 THEN "call" ELSE "auth"
      BY <2>2, Unpacked DEF Tried, Goto, CallType
    <3>3. QED
      BY <2>2, <3>1, <3>2 DEF Tried
  <2>3. QED
    BY <2>1, <2>2
<1>5. StepOf("recv")
  BY <1>1, Unpacked DEF StepOf, CallType, Idle, Common
<1>6. Stacked("recv")'
  <2>1. Round("recv", 1)' = tries'
    BY <1>1, <1>2 DEF Round
  <2>2. QED
    BY <1>1, <1>2, <1>4, <2>1 DEF Stacked, Idle, Loop
<1>7. Calls'
  BY <1>4, <1>5, <1>6, StepCalls DEF Inv
<1>8. LinkType' /\ RcvType' /\ BoundType' /\ UNCHANGED late
  BY <1>1, KeptTypes, Unpacked DEF LinkType
<1>9. QED
  BY <1>1, <1>5, <1>7, <1>8, OnlyMoves

LEMMA ReceiverInv == Inv /\ Receiver => Inv'
BY RecvInv, RecvReadsInv, HandleInv, ReplyInv, ReadFlagInv, ClearFlagInv, TakeOverInv,
   TakenOverInv, TryInv DEF Receiver

-----------------------------------------------------------------------------
(* The server, the network and the watchdog.                               *)

\* No thread does anything.
LEMMA NoThread ==
    ASSUME Inv, UNCHANGED <<threads, accepted, auth, late, batch, id, join_data>>, LinkType', BoundType',
           inbox' \in Seq(Msg), \A m \in Range(inbox)' : m \in Range(inbox) \/ m.type = "command"
    PROVE  Inv'
<1>1. Calls' /\ RcvType'
  BY Unpacked DEF threads, Calls, CallType, RcvType, Stacked, Round, Inv
<1>2. DataType' /\ Range(batch)' = Range(batch)
  BY Unpacked DEF DataType
<1>3. Timely'
  BY <1>2, TimelyStays DEF Inv
<1>4. Starting'
  BY Answers DEF threads, Inv, Starting
<1>5. QED
  BY <1>1, <1>2, <1>3, <1>4 DEF Inv, TypeInv, Calls

LEMMA NetworkInv == Inv /\ (FirstConnect \/ Breaks \/ ConfUnreadable \/ Command) => Inv'
<1> SUFFICES ASSUME Inv, FirstConnect \/ Breaks \/ ConfUnreadable \/ Command PROVE Inv'
  OBVIOUS
<1>1. CASE FirstConnect
  <2>1. LinkType' /\ BoundType' /\ UNCHANGED <<threads, accepted, auth, late, batch, id, join_data>>
    BY <1>1, KeptTypes, Unpacked DEF FirstConnect, LinkType, data
  <2>2. inbox' = inbox /\ inbox' \in Seq(Msg)
    BY <1>1, Unpacked DEF FirstConnect, data, DataType
  <2>3. QED
    BY <2>1, <2>2, NoThread
<1>2. CASE Breaks
  <2>1. UNCHANGED <<relock, lock, flag, auth, accepted, threads, data, alive, late, no, cmds>>
        /\ sock' = "dead" /\ faults' \in 0..MaxFaults
    BY <1>2, Bounds, Unpacked DEF Breaks, BoundType
  <2>2. LinkType' /\ BoundType' /\ UNCHANGED <<threads, accepted, auth, late, batch, id, join_data>>
    BY <2>1, Unpacked DEF LinkType, BoundType, data
  <2>3. inbox' = inbox /\ inbox' \in Seq(Msg)
    BY <2>1, Unpacked DEF data, DataType
  <2>4. QED
    BY <2>2, <2>3, NoThread
<1>3. CASE Command
  <2> DEFINE m == [type |-> "command", n |-> 0]
  <2>1. UNCHANGED <<relock, link, threads, batch, id, join_data, alive, faults, late, no>>
        /\ inbox' = Append(inbox, m) /\ cmds' \in 0..MaxCmds
    BY <1>3, Bounds, Unpacked DEF Command, BoundType
  <2>2. LinkType' /\ BoundType' /\ UNCHANGED <<threads, accepted, auth, late, batch, id, join_data>>
    BY <2>1, KeptTypes, Unpacked DEF BoundType
  <2>3. inbox \in Seq(Msg) /\ m \in Msg /\ m.type = "command"
    BY Unpacked DEF DataType, Msg
  <2> HIDE DEF m
  <2>4. Append(inbox, m) \in Seq(Msg) /\ Range(Append(inbox, m)) = Range(inbox) \union {m}
    BY <2>3, RangeAppend
  <2>5. inbox' \in Seq(Msg) /\ Range(inbox)' = Range(inbox) \union {m}
    BY <2>1, <2>4
  <2>6. QED
    BY <2>2, <2>3, <2>5, NoThread
<1>4. CASE ConfUnreadable
  <2>1. UNCHANGED <<relock, link, threads, data, late, no, cmds>>
        /\ alive' = FALSE /\ faults' \in 0..MaxFaults
    BY <1>4, Bounds, Unpacked DEF ConfUnreadable, BoundType
  <2>2. LinkType' /\ BoundType' /\ UNCHANGED <<threads, accepted, auth, late, batch, id, join_data>>
    BY <2>1, Unpacked DEF LinkType, BoundType, link, data
  <2>3. inbox' = inbox /\ inbox' \in Seq(Msg)
    BY <2>1, Unpacked DEF data, DataType
  <2>4. QED
    BY <2>2, <2>3, NoThread
<1>5. QED
  BY <1>1, <1>2, <1>3, <1>4

LEMMA BootedNext == (Booted /\ relock \in {"blocks", "refused"} /\ BoundType)' => Inv'
BY BootedInv, PTL

LEMMA WatchdogInv == Inv /\ Watchdog => Inv'
<1> SUFFICES ASSUME Inv, Watchdog PROVE Inv'
  OBVIOUS
<1>1. Booted'
  BY DEF Watchdog, Booted
<1>2. relock' \in {"blocks", "refused"} /\ BoundType'
  BY KeptTypes, Unpacked DEF Watchdog, LinkType
<1>3. QED
  BY <1>1, <1>2, BootedNext

LEMMA NextInv == Inv /\ [Next]_vars => Inv'
<1> SUFFICES ASSUME Inv, [Next]_vars PROVE Inv'
  OBVIOUS
<1>1. CASE UNCHANGED vars
  <2>1. UNCHANGED <<threads, accepted, auth, late, batch, id, join_data>> /\ inbox' = inbox
    BY <1>1 DEF vars, link, threads, data, bounds
  <2>2. LinkType' /\ BoundType' /\ inbox' \in Seq(Msg)
    BY <1>1, <2>1, KeptTypes, Unpacked DEF vars, DataType
  <2>3. QED
    BY <2>1, <2>2, NoThread
<1>2. CASE \E t \in Thread : Shared(t)
  BY <1>2, SharedInv
<1>3. QED
  BY <1>1, <1>2, NetworkInv, CheckInv, HeartbeatInv, HeartSendInv, ReceiverInv, WatchdogInv DEF Next

LEMMA Invariance == Spec => []Inv
<1>1. QED
  BY InitInv, NextInv, PTL DEF Spec

\* Who moves: a thread that is not where an action wants it stays where it is.
LEMMA SharedMoves ==
    ASSUME Inv, NEW t \in Thread, Shared(t), NEW u \in Thread, pc[u] \notin Common
    PROVE  pc'[u] = pc[u]
<1>1. pc[t] \in Common /\ t # u
  BY DEF Shared, HUB_Authentication, HUB_Authentication_Ack, AckReads, AckFails, AckCloses,
         ReconnectWith_Server, Reconnected, Retry, Returned, At, Common
<1>2. \E l : pc' = [pc EXCEPT ![t] = l]
  BY DEF Shared, HUB_Authentication, HUB_Authentication_Ack, AckReads, AckFails, AckCloses,
         ReconnectWith_Server, Reconnected, Retry, Returned, AckReturns, Call, Goto
<1>3. QED
  BY <1>1, <1>2, Unpacked DEF CallType

LEMMA HandlerMoves ==
    ASSUME Inv, Next, pc["recv"] = "handle", pc'["recv"] = "reconnect"
    PROVE  Handle_Message_Type
<1>1. ASSUME NEW t \in Thread, Shared(t) PROVE FALSE
  BY <1>1, SharedMoves DEF Common
<1>2. ~(FirstConnect \/ Breaks \/ ConfUnreadable \/ Command \/ Watchdog)
  BY DEF FirstConnect, Breaks, ConfUnreadable, Command, Watchdog, threads
<1>3. ~(Check \/ Heartbeat \/ HeartSend)
  BY Unpacked, SMTT(30) DEF Check, Heartbeat, HeartSend, Call, Goto, CallType
<1>4. ~(Recv \/ RecvFails \/ RecvReads \/ Reply \/ ReadFlag \/ ClearFlag \/ TakeOver \/ TakenOver \/ Unflag \/ Tried)
  BY DEF Recv, RecvFails, RecvReads, Reply, ReadFlag, ClearFlag, TakeOver, TakenOver, Unflag, Tried, At
<1>5. QED
  BY <1>1, <1>2, <1>3, <1>4 DEF Next, Receiver

-----------------------------------------------------------------------------
\* The type invariant of the link: however calls of ReconnectWith_Server nest,
\* no loop of authentications begins a fourth round.
THEOREM HubLinkTypeCorrect == Spec => []TypeOK
<1>1. Inv => TypeOK
  BY Types DEF Inv
<1>2. QED
  BY <1>1, Invariance, PTL

\* A heartbeat's answer makes the receiver give up the connection only when one
\* came later than the next heartbeat, or when it is for an earlier heartbeat of
\* a frame that carried several; however much was lost and reconnected.
THEOREM OnlyLateAnswersReconnect == Spec => OnlyLateReconnects
<1>1. Inv /\ [Next]_vars =>
        [pc["recv"] = "handle" /\ pc'["recv"] = "reconnect" =>
           late > 0 \/ Head(batch).n # Head(batch).last]_vars
  <2> SUFFICES ASSUME Inv, Next, pc["recv"] = "handle", pc'["recv"] = "reconnect",
                      Head(batch).n = Head(batch).last
               PROVE  late > 0
    BY DEF vars, threads
  <2>1. Handle_Message_Type
    BY HandlerMoves
  <2>2. batch # << >> /\ Head(batch).type = "heart" /\ ~IsCurrent(Head(batch).n)
    <3>1. pc' # pc /\ pc'["recv"] \notin {"call", "reply"}
      OBVIOUS
    <3>2. ~Goto("recv", "call") /\ ~Goto("recv", "reply")
      BY Unpacked DEF Goto, CallType
    <3>3. batch # << >> => Head(batch).type \in {"auth", "heart", "command"}
      BY RangeTail, Unpacked DEF DataType, Msg
    <3>4. QED
      BY <2>1, <3>1, <3>2, <3>3 DEF Handle_Message_Type
  <2>3. Head(batch) \in Range(batch) /\ Head(batch).n # id
    BY <2>2, RangeTail, Unpacked DEF DataType, IsCurrent
  <2>4. late # 0
    BY <2>2, <2>3 DEF Inv, Timely
  <2>5. late \in Nat
    BY Bounds, Unpacked DEF BoundType
  <2>6. QED
    BY <2>4, <2>5
<1>2. QED
  BY <1>1, Invariance, PTL DEF Spec, OnlyLateReconnects

\* The threads and lora_pkt_communicate are started on an accepted connection,
\* whatever the register held that main took for a result.
THEOREM StartsOnAcceptance == Spec => StartsAccepted
<1>1. Inv /\ [Next]_vars => [pc["main"] = "check" /\ pc'["main"] = "done" => accepted]_vars
  <2> SUFFICES ASSUME Inv, Next, pc["main"] = "check", pc'["main"] = "done" PROVE accepted
    BY DEF vars, threads
  <2>1. ASSUME NEW t \in Thread, Shared(t) PROVE FALSE
    BY <2>1, SharedMoves DEF Common
  <2>2. ~(FirstConnect \/ Breaks \/ ConfUnreadable \/ Command \/ Watchdog)
    BY DEF FirstConnect, Breaks, ConfUnreadable, Command, Watchdog, threads
  <2>3. ~(Receiver \/ Heartbeat \/ HeartSend)
    <3>1. pc["recv"] = "none" /\ pc["heart"] = "none"
      BY DEF Inv, Starting
    <3>2. QED
      BY <3>1 DEF Receiver, Recv, RecvFails, RecvReads, Handle_Message_Type, Reply, ReadFlag, ClearFlag,
                  TakeOver, TakenOver, Unflag, Tried, Heartbeat, HeartSend, At
  <2>4. Check /\ auth
    <3>1. Check
      BY <2>1, <2>2, <2>3 DEF Next
    <3>2. QED
      BY <3>1, Unpacked DEF Check, CallType
  <2>5. QED
    BY <2>4 DEF Inv, Starting
<1>2. QED
  BY <1>1, Invariance, PTL DEF Spec, StartsAccepted
=============================================================================
