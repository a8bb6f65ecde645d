------------------------- MODULE CommunicateProofs -------------------------
(***************************************************************************)
(* Theorems about lora_pkt_communicate: its connection (DataLink), for any *)
(* number of breaks and late answers and any range of heartbeat numbers,   *)
(* and what it makes of the server's messages (ServerData), for answers    *)
(* and parts of any length.                                                *)
(***************************************************************************)
EXTENDS DataLink, ServerData, Integers, TLAPS

\* Whoever replaces the connection holds the lock.
Locking ==
    /\ sock = "new" => lock # "none"
    /\ \A s \in Sender : pc[s] = "connect" <=> lock = s
    /\ lock = "recv" <=> rpc \in {"takeover", "reconnect"}

\* What is left of a sender's failures in its buffer.
Failures(s) == IF pc[s] = "ready" THEN carry[s] - 1 ELSE carry[s]

\* A sender has failed at most once per connection that broke or was not made,
\* and not yet on this one while it can still fail on it.
Carrying ==
    \A s \in Sender :
        /\ pc[s] = "ready" => carry[s] > 0
        /\ Failures(s) <= faults
        /\ pc[s] \in {"idle", "ready"} /\ sock \in {"dead", "bare"} => Failures(s) < faults

\* A receiver woken by a sender will find the flag raised.
Woken ==
    /\ rpc = "recv" /\ rcv = "shut" => flag \/ lock \in Sender
    /\ rpc = "error" /\ cause = "own" => flag \/ lock \in Sender
    /\ rpc = "theirs" => cause # "own"

Inv == TypeOK /\ Locking /\ Carrying /\ Woken

USE DEF vars, heartVars, Sender

LEMMA LinkBounds == IdMod \in Nat /\ IdMod > 0 /\ MaxFaults \in Nat /\ MaxLate \in Nat
BY DataLinkAssumption DEF DataLinkAssumption

LEMMA HeadTail ==
    ASSUME NEW S, NEW q \in Seq(S), q # << >>
    PROVE  Head(q) \in S /\ Tail(q) \in Seq(S)
OBVIOUS

LEMMA Split ==
    ASSUME NEW S, NEW q \in Seq(S), NEW n \in 1..Len(q)
    PROVE  SubSeq(q, 1, n) \in Seq(S) /\ SubSeq(q, n + 1, Len(q)) \in Seq(S)
<1>1. Len(q) \in Nat /\ \A i \in 1..Len(q) : q[i] \in S
  OBVIOUS
<1>2. QED
  BY <1>1

LEMMA InitInv == Init => Inv
<1> SUFFICES ASSUME Init PROVE Inv
  OBVIOUS
<1>1. id \in Id /\ first \in Id /\ acks \in Seq(Id) /\ batch \in Seq(Id)
  BY LinkBounds DEF Init, Id
<1>2. faults \in 0..MaxFaults /\ late \in 0..MaxLate
  BY LinkBounds DEF Init
<1>3. TypeOK
  BY <1>1, <1>2 DEF Init, TypeOK
<1>4. Locking /\ Carrying /\ Woken
  BY DEF Init, Locking, Carrying, Failures, Woken
<1>5. QED
  BY <1>3, <1>4 DEF Inv

-----------------------------------------------------------------------------
LEMMA BuildInv ==
    ASSUME Inv, NEW s \in Sender, Build(s)
    PROVE  Inv'
<1> USE DEF Build
<1>1. id' \in Id /\ first' \in Id /\ late' \in 0..MaxLate
  BY LinkBounds, SMTT(30) DEF Inv, TypeOK, NextId, Slept, Id
<1>2. /\ pc' = [pc EXCEPT ![s] = "ready"]
      /\ carry' = [carry EXCEPT ![s] = @ + 1]
      /\ UNCHANGED <<sock, lock, flag, rpc, rcv, cause, acks, batch, alive, faults>>
  OBVIOUS
<1>3. TypeOK'
  BY <1>1, <1>2 DEF Inv, TypeOK
<1>4. Locking' /\ Woken'
  BY <1>2 DEF Inv, TypeOK, Locking, Woken
<1>5. Carrying'
  BY <1>2 DEF Inv, TypeOK, Carrying, Failures
<1>6. QED
  BY <1>3, <1>4, <1>5 DEF Inv

LEMMA SendInv ==
    ASSUME Inv, NEW s \in Sender, Send(s)
    PROVE  Inv'
<1>1. sock \in {"open", "dead", "bare"} /\ faults \in Nat
  <2>1. lock = "none"
    BY DEF Send, SendOk, SendFails, Unlocked
  <2>2. QED
    BY <2>1, LinkBounds DEF Inv, TypeOK, Locking
<1>2. CASE SendOk(s)
  <2>1. acks' \in Seq(Id)
    <3>1. acks \in Seq(Id) /\ first \in Id /\ id \in Id
      BY DEF Inv, TypeOK
    <3>2. acks' = acks \/ \E k \in Id : acks' = Append(acks, k)
      BY <1>2, <3>1 DEF SendOk, Answered
    <3>3. QED
      BY <3>1, <3>2
  <2>2. /\ carry' = [carry EXCEPT ![s] = 0] /\ pc' = [pc EXCEPT ![s] = "idle"]
        /\ pc[s] = "ready"
        /\ UNCHANGED <<sock, lock, flag, rpc, rcv, cause, id, first, batch, late, alive, faults>>
    BY <1>2 DEF SendOk
  <2>3. TypeOK'
    BY <2>1, <2>2 DEF Inv, TypeOK
  <2>4. Locking' /\ Woken'
    BY <2>2 DEF Inv, TypeOK, Locking, Woken
  <2>5. Carrying'
    BY <1>1, <2>2 DEF Inv, TypeOK, Carrying, Failures
  <2>6. QED
    BY <2>3, <2>4, <2>5 DEF Inv
<1>3. CASE SendFails(s)
  <2>1. /\ sock \in {"dead", "bare"} /\ pc[s] = "ready" /\ pc' = [pc EXCEPT ![s] = "failed"]
        /\ alive' \in BOOLEAN
        /\ UNCHANGED <<sock, lock, flag, carry, rpc, rcv, cause, heartVars, faults>>
    BY <1>1, <1>3 DEF SendFails
  <2>2. TypeOK' /\ Locking' /\ Woken'
    BY <2>1 DEF Inv, TypeOK, Locking, Woken
  <2>3. Carrying'
    BY <1>1, <2>1 DEF Inv, TypeOK, Carrying, Failures
  <2>4. QED
    BY <2>2, <2>3 DEF Inv
<1>4. QED
  BY <1>2, <1>3 DEF Send

LEMMA ReconnectInv ==
    ASSUME Inv, NEW s \in Sender, Reconnect(s) \/ Reconnected(s)
    PROVE  Inv'
<1>1. CASE Reconnect(s)
  <2> USE <1>1 DEF Reconnect, CloseAndReopen, Unlocked
  <2>1. TypeOK'
    BY DEF Inv, TypeOK
  <2>2. Locking' /\ Woken'
    BY DEF Inv, TypeOK, Locking, Woken
  <2>3. Carrying'
    BY DEF Inv, TypeOK, Carrying, Failures
  <2>4. QED
    BY <2>1, <2>2, <2>3 DEF Inv
<1>2. CASE Reconnected(s)
  <2> USE <1>2 DEF Reconnected
  <2>0. /\ sock' \in {"open", "bare"} /\ faults' \in 0..MaxFaults
        /\ faults \in Nat /\ ((faults' = faults /\ sock' = "open") \/ faults' = faults + 1)
    BY LinkBounds DEF Tcp_Reconnection, Inv, TypeOK
  <2>1. TypeOK'
    BY <2>0 DEF Inv, TypeOK
  <2>2. Locking' /\ Woken'
    BY <2>0 DEF Inv, TypeOK, Locking, Woken
  <2>3. Carrying'
    BY <2>0 DEF Inv, TypeOK, Carrying, Failures
  <2>4. QED
    BY <2>1, <2>2, <2>3 DEF Inv
<1>3. QED
  BY <1>1, <1>2

\* The receiver leaves the buffers and the senders alone; if it comes back
\* without a connection, that is counted.
LEMMA CarryingQuiet ==
    ASSUME Inv, UNCHANGED <<pc, carry>>,
           \/ UNCHANGED faults /\ (sock' = sock \/ sock' \in {"new", "open"})
           \/ faults' = faults + 1
    PROVE  Carrying'
BY LinkBounds DEF Inv, TypeOK, Carrying, Failures

LEMMA ReceiverInv ==
    ASSUME Inv, Receiver \/ RecvOther
    PROVE  Inv'
<1>1. Carrying'
  BY CarryingQuiet DEF Receiver, Recv, RecvFails, RecvAcks, RecvOther, Handle,
     HeartReconnect, HeartReconnected, ReadFlag, ClearFlag, TakeOver, TakenOver,
     Unflag, CloseAndReopen, Tcp_Reconnection
<1>2. CASE RecvAcks
  <2>1. batch' \in Seq(Id) /\ acks' \in Seq(Id)
    <3>1. acks \in Seq(Id)
      BY DEF Inv, TypeOK
    <3>2. PICK n \in 1..Len(acks) :
            batch' = SubSeq(acks, 1, n) /\ acks' = SubSeq(acks, n + 1, Len(acks))
      BY <1>2 DEF RecvAcks
    <3>3. QED
      BY <3>1, <3>2, Split
  <2>2. TypeOK'
    BY <1>2, <2>1 DEF RecvAcks, Inv, TypeOK
  <2>3. Locking' /\ Woken'
    BY <1>2 DEF RecvAcks, Inv, Locking, Woken
  <2>4. QED
    BY <1>1, <2>2, <2>3 DEF Inv
<1>3. CASE Handle
  <2>1. batch' \in Seq(Id)
    <3>1. batch \in Seq(Id)
      BY DEF Inv, TypeOK
    <3>2. batch' = batch \/ (batch # << >> /\ batch' = Tail(batch))
      BY <1>3 DEF Handle
    <3>3. QED
      BY <3>1, <3>2, HeadTail
  <2>2. TypeOK'
    BY <1>3, <2>1 DEF Handle, Inv, TypeOK
  <2>3. Locking' /\ Woken'
    BY <1>3 DEF Handle, Inv, Locking, Woken
  <2>4. QED
    BY <1>1, <2>2, <2>3 DEF Inv
<1>4. CASE Recv \/ RecvFails \/ RecvOther \/ ReadFlag
  <2>1. TypeOK'
    BY <1>4 DEF Recv, RecvFails, RecvOther, ReadFlag, Inv, TypeOK
  <2>2. Locking'
    BY <1>4 DEF Recv, RecvFails, RecvOther, ReadFlag, Inv, Locking
  <2>3. Woken'
    BY <1>4 DEF Recv, RecvFails, RecvOther, ReadFlag, Unlocked, Inv, TypeOK, Locking, Woken
  <2>4. QED
    BY <1>1, <2>1, <2>2, <2>3 DEF Inv
<1>5. CASE HeartReconnect \/ TakeOver
  <2>1. TypeOK'
    <3>1. << >> \in Seq(Id)
      OBVIOUS
    <3>2. /\ lock' = "recv" /\ sock' = "new" /\ rcv' \in {rcv, "shut"} /\ acks' = << >>
          /\ rpc' \in {"reconnect", "takeover"}
          /\ UNCHANGED <<flag, pc, carry, cause, id, first, batch, late, alive, faults>>
      BY <1>5 DEF HeartReconnect, TakeOver, CloseAndReopen
    <3>3. QED
      BY <3>1, <3>2 DEF Inv, TypeOK
  <2>2. Locking' /\ Woken'
    BY <1>5 DEF HeartReconnect, TakeOver, CloseAndReopen, Unlocked, Inv, TypeOK,
       Locking, Woken
  <2>3. QED
    BY <1>1, <2>1, <2>2 DEF Inv
<1>6. CASE HeartReconnected \/ TakenOver \/ ClearFlag \/ Unflag
  <2>0. /\ faults' \in 0..MaxFaults
        /\ sock' \in {"open", "bare"} \/ UNCHANGED <<sock, lock>>
    BY <1>6, LinkBounds DEF HeartReconnected, TakenOver, ClearFlag, Unflag, Tcp_Reconnection,
       Inv, TypeOK
  <2>1. TypeOK'
    <3>1. /\ lock' \in {lock, "none"} /\ rpc' \in {"handle", "unflag", "call"}
          /\ UNCHANGED <<pc, carry, rcv, cause, heartVars, alive>>
      BY <1>6 DEF HeartReconnected, TakenOver, ClearFlag, Unflag
    <3>2. flag' \in BOOLEAN
      BY <1>6 DEF HeartReconnected, TakenOver, ClearFlag, Unflag, Inv, TypeOK
    <3>3. /\ sock' \in {"new", "open", "dead", "bare"}
          /\ lock' \in Sender \cup {"none", "tcp", "recv", "never"}
      BY <2>0, <3>1 DEF Inv, TypeOK
    <3>4. QED
      BY <2>0, <3>1, <3>2, <3>3 DEF Inv, TypeOK
  <2>2. Locking'
    BY <1>6, <2>0 DEF HeartReconnected, TakenOver, ClearFlag, Unflag, Inv, Locking
  <2>3. Woken'
    BY <1>6 DEF HeartReconnected, TakenOver, ClearFlag, Unflag, Unlocked, Inv, Woken
  <2>4. QED
    BY <1>1, <2>1, <2>2, <2>3 DEF Inv
<1>7. QED
  BY <1>2, <1>3, <1>4, <1>5, <1>6 DEF Receiver

LEMMA NextInv == Inv /\ [Next]_vars => Inv'
<1> SUFFICES ASSUME Inv, [Next]_vars PROVE Inv'
  OBVIOUS
<1>1. CASE FirstConnect
  <2>1. TypeOK' /\ Locking' /\ Woken'
    BY <1>1 DEF FirstConnect, Inv, TypeOK, Locking, Woken
  <2>2. QED
    BY <1>1, <2>1, CarryingQuiet DEF FirstConnect, Inv
<1>2. CASE Breaks
  <2>1. TypeOK' /\ Locking' /\ Woken'
    BY <1>2, LinkBounds DEF Breaks, Inv, TypeOK, Locking, Woken
  <2>2. Carrying'
    BY <1>2, LinkBounds DEF Breaks, Inv, TypeOK, Carrying, Failures
  <2>3. QED
    BY <2>1, <2>2 DEF Inv
<1>3. ASSUME NEW s \in Sender, Build(s) \/ SendStep(s)
      PROVE  Inv'
  BY <1>3, BuildInv, SendInv, ReconnectInv DEF SendStep
<1>4. CASE Receiver \/ RecvOther
  BY <1>4, ReceiverInv
<1>5. CASE ConfUnreadable
  <2>1. /\ alive' \in BOOLEAN
        /\ UNCHANGED <<sock, lock, flag, pc, carry, rpc, rcv, cause, heartVars, faults>>
    BY <1>5 DEF ConfUnreadable
  <2>2. TypeOK'
    BY <2>1 DEF Inv, TypeOK
  <2>3. Locking' /\ Carrying' /\ Woken'
    BY <2>1 DEF Inv, Locking, Carrying, Failures, Woken
  <2>4. QED
    BY <2>2, <2>3 DEF Inv
<1>6. CASE UNCHANGED vars
  BY <1>6 DEF Inv, TypeOK, Locking, Carrying, Failures, Woken
<1>7. QED
  BY <1>1, <1>2, <1>3, <1>4, <1>5, <1>6 DEF Next

LEMMA Invariance == Spec => []Inv
<1>1. QED
  BY InitInv, NextInv, PTL DEF Spec

-----------------------------------------------------------------------------
\* The type invariant of the link; the heartbeat number stays below its modulus.
THEOREM LinkTypeCorrect == Spec => []TypeOK
<1>1. Inv => TypeOK
  BY DEF Inv
<1>2. QED
  BY <1>1, Invariance, PTL

\* However often the connection breaks or is not made, a buffer that is only
\* reset after a successful send holds at most a message for each time and the
\* current one.
THEOREM BufferIsBounded == Spec => []CarryBounded
<1>1. Inv => CarryBounded
  <2> SUFFICES ASSUME Inv, NEW s \in Sender PROVE carry[s] <= faults + 1
    BY DEF CarryBounded
  <2>1. carry[s] \in Nat /\ faults \in Nat /\ Failures(s) <= faults
    BY LinkBounds DEF Inv, TypeOK, Carrying
  <2>2. QED
    BY <2>1 DEF Failures
<1>2. QED
  BY <1>1, Invariance, PTL

\* The lock keeps every sender off a socket that is being replaced.
THEOREM NoSendDuringReconnection == Spec => SendsOnConnection
<1>1. Inv /\ [Next]_vars => [\A s \in Sender : Send(s) => sock # "new"]_vars
  BY DEF Inv, Locking, Send, SendOk, SendFails, Unlocked
<1>2. QED
  BY <1>1, Invariance, PTL DEF Spec, SendsOnConnection

\* The receiver never mistakes another thread's reconnection for a connection
\* closed by the server, in spite of the unlocked write to the flag.
THEOREM ReceiverKnowsItsOwn == Spec => OwnCloseRecognised
<1>1. Inv /\ [Next]_vars => [TakeOver => cause # "own"]_vars
  BY DEF Inv, Woken, TakeOver
<1>2. QED
  BY <1>1, Invariance, PTL DEF Spec, OwnCloseRecognised
-----------------------------------------------------------------------------
(* Answers and their pieces (ServerData).                                  *)

USE DEF serverVars

LEMMA DataBounds ==
    /\ Size \in Nat /\ LenMod \in Nat /\ Size < LenMod
    /\ MaxAnswers \in Nat /\ MaxOther \in Nat /\ MaxUplinks \in Nat
    /\ Uplinked \subseteq Nat \X Nat /\ Garbage \subseteq Int
    /\ \A x \in Shape : x[1] \in Nat /\ x[1] > 0 /\ x[2] \in Nat
BY ServerDataAssumption DEF ServerDataAssumption

\* k pieces of n bytes are one more than k - 1, and no fewer than j <= k.
LEMMA Times ==
    ASSUME NEW n \in Nat, NEW k \in Nat
    PROVE  /\ k * n \in Nat
           /\ k > 0 => (k - 1) * n \in Nat /\ k * n = (k - 1) * n + n
           /\ \A j \in 0..k : j * n \in Nat /\ j * n <= k * n
<1>1. \A a \in Nat : a * n \in Nat
  OBVIOUS
<1>2. k > 0 => k - 1 \in Nat /\ k * n = (k - 1) * n + n
  OBVIOUS
<1>3. ASSUME NEW j \in 0..k PROVE j * n <= k * n
  <2>1. (k - j) * n \in Nat /\ k * n = j * n + (k - j) * n
    BY <1>1
  <2>2. j * n \in Nat /\ k * n \in Nat
    BY <1>1
  <2>3. QED
    BY <2>1, <2>2
<1>4. QED
  BY <1>1, <1>2, <1>3

\* As many pieces of n bytes as it takes, and no more.
LEMMA Division ==
    ASSUME NEW len \in Nat, len > 0, NEW n \in Nat, n > 0,
           NEW k, k = (len + n - 1) \div n
    PROVE  k \in Nat /\ k > 0 /\ (k - 1) * n < len /\ len <= k * n
<1> DEFINE r == (len + n - 1) % n
<1>1. k \in Int /\ r \in 0..n-1 /\ len + n - 1 = n * k + r
  BY DEF r
<1> HIDE DEF r
<1>2. k > 0
  <2>1. CASE k <= 0
    <3>1. n * k <= 0
      BY <2>1, <1>1
    <3>2. QED
      BY <3>1, <1>1
  <2>2. QED
    BY <2>1, <1>1
<1>3. (k - 1) * n = n * k - n /\ k * n = n * k
  BY <1>1
<1>4. QED
  BY <1>1, <1>2, <1>3

LEMMA Slice ==
    ASSUME NEW S, NEW b \in Seq(S), NEW f \in Nat, NEW t \in Nat, f <= t, t <= Len(b)
    PROVE  /\ SubSeq(b, f + 1, t) \in Seq(S) /\ Len(SubSeq(b, f + 1, t)) = t - f
           /\ \A i \in 1..t - f : SubSeq(b, f + 1, t)[i] = b[f + i]
OBVIOUS

\* P is b cut into pieces of n bytes.
Cut(P, b, n) ==
    /\ Len(P) > 0
    /\ (Len(P) - 1) * n + Len(P[Len(P)]) = Len(b)
    /\ \A k \in 1..Len(P) - 1 : Len(P[k]) = n
    /\ \A k \in 1..Len(P) :
         /\ Len(P[k]) <= n /\ (k - 1) * n + Len(P[k]) <= Len(b)
         /\ \A i \in 1..Len(P[k]) : P[k][i] = b[(k - 1) * n + i]

LEMMA PiecesCut ==
    ASSUME NEW S, NEW b \in Seq(S), Len(b) > 0, NEW n \in Nat, n > 0
    PROVE  Pieces(b, n) \in Seq(Seq(S)) /\ Cut(Pieces(b, n), b, n)
<1> DEFINE K == (Len(b) + n - 1) \div n
           P == Pieces(b, n)
           from(k) == (k - 1) * n
           to(k) == Least(k * n, Len(b))
<1>1. Len(b) \in Nat /\ K \in Nat /\ K > 0 /\ from(K) < Len(b) /\ Len(b) <= K * n
  <2>1. Len(b) \in Nat
    OBVIOUS
  <2>2. QED
    BY <2>1, Division
<1>2. P = [k \in 1..K |-> SubSeq(b, from(k) + 1, to(k))]
  BY DEF Pieces
<1> HIDE DEF K, P
<1>3. ASSUME NEW k \in 1..K
      PROVE  /\ from(k) \in Nat /\ to(k) \in Nat /\ k * n = from(k) + n /\ from(k) < Len(b)
             /\ k < K => to(k) = from(k) + n
             /\ k = K => to(k) = Len(b)
             /\ from(k) < to(k) /\ to(k) <= Len(b) /\ to(k) <= from(k) + n
  <2>1. k \in Nat /\ k > 0 /\ k * n \in Nat /\ from(k) \in Nat /\ k * n = from(k) + n
    BY Times, <1>1
  <2>2. from(k) <= from(K) /\ from(K) \in Nat
    BY <1>1, Times, k - 1 \in 0..(K - 1), K - 1 \in Nat
  <2>3. k < K => k * n <= from(K)
    BY <1>1, Times, K - 1 \in Nat
  <2>4. QED
    BY <1>1, <2>1, <2>2, <2>3 DEF Least
<1> HIDE DEF from, to
<1>4. ASSUME NEW k \in 1..K
      PROVE  /\ P[k] \in Seq(S) /\ Len(P[k]) = to(k) - from(k)
             /\ \A i \in 1..Len(P[k]) : P[k][i] = b[from(k) + i]
  <2>1. P[k] = SubSeq(b, from(k) + 1, to(k))
    BY <1>2
  <2>2. from(k) \in Nat /\ to(k) \in Nat /\ from(k) <= to(k) /\ to(k) <= Len(b)
    BY <1>3
  <2>3. QED
    BY <2>1, <2>2, Slice, SMTT(30)
<1>5. P \in Seq(Seq(S)) /\ Len(P) = K
  <2>1. P \in [1..K -> Seq(S)]
    BY <1>2, <1>4
  <2>2. QED
    BY <2>1, <1>1
<1>6. Cut(P, b, n)
  <2>0. K \in 1..K /\ from(K) = (K - 1) * n
    BY <1>1 DEF from
  <2>1. (Len(P) - 1) * n + Len(P[Len(P)]) = Len(b)
    <3>1. from(K) \in Nat /\ to(K) = Len(b) /\ Len(P[K]) = to(K) - from(K)
      BY <2>0, <1>3, <1>4
    <3>2. QED
      BY <3>1, <2>0, <1>1, <1>5
  <2>2. ASSUME NEW k \in 1..Len(P) - 1 PROVE Len(P[k]) = n
    <3>1. k \in 1..K /\ k < K
      BY <1>1, <1>5
    <3>2. from(k) \in Nat /\ to(k) = from(k) + n /\ Len(P[k]) = to(k) - from(k)
      BY <3>1, <1>3, <1>4
    <3>3. QED
      BY <3>2
  <2>3. ASSUME NEW k \in 1..Len(P)
        PROVE  /\ Len(P[k]) <= n /\ (k - 1) * n + Len(P[k]) <= Len(b)
               /\ \A i \in 1..Len(P[k]) : P[k][i] = b[(k - 1) * n + i]
    <3>1. (k - 1) * n = from(k) /\ k \in 1..K
      BY <1>5 DEF from
    <3>2. /\ from(k) \in Nat /\ to(k) \in Nat /\ to(k) <= Len(b) /\ to(k) <= from(k) + n
          /\ Len(P[k]) = to(k) - from(k)
          /\ \A i \in 1..Len(P[k]) : P[k][i] = b[from(k) + i]
      BY <3>1, <1>3, <1>4
    <3>3. \A f, t \in Nat : t <= f + n => f + (t - f) = t /\ t - f <= n
      OBVIOUS
    <3>4. QED
      BY <3>1, <3>2, <3>3
  <2>4. QED
    BY <1>1, <1>5, <2>1, <2>2, <2>3 DEF Cut
<1>7. QED
  BY <1>5, <1>6 DEF P

-----------------------------------------------------------------------------
(* The stream is what the server sent, from where the receiver is; what it *)
(* collected is the beginning of the answer whose next part it awaits.     *)

\* A message is one the server sends: a part has the bytes of its place.
Genuine(sh, x) ==
    /\ x.kind = "part" =>
         /\ x.ans \in 1..Len(sh) /\ x.number \in 1..x.sum /\ sh[x.ans][2] > 0
         /\ x.number # x.sum => Len(x.bytes) = sh[x.ans][2]
         /\ x.number = x.sum => (x.number - 1) * sh[x.ans][2] + Len(x.bytes) = sh[x.ans][1]
         /\ (x.number - 1) * sh[x.ans][2] + Len(x.bytes) <= sh[x.ans][1]
         /\ \A i \in 1..Len(x.bytes) : x.bytes[i] = <<x.ans, (x.number - 1) * sh[x.ans][2] + i>>
    /\ x.kind = "whole" /\ x.bytes # << >> =>
         /\ x.ans \in 1..Len(sh) /\ Len(x.bytes) = sh[x.ans][1]
         /\ \A i \in 1..Len(x.bytes) : x.bytes[i] = <<x.ans, i>>

Incomplete(x) == x.kind = "part" /\ x.number # x.sum

\* What may come after x.
Follows(x, y) ==
    IF Incomplete(x) THEN y.kind = "part" /\ y.ans = x.ans /\ y.number = x.number + 1
                     ELSE y.kind = "part" => y.number = 1

InOrder ==
    /\ \A i \in 1..Len(stream) : Genuine(shapes, stream[i].msg)
    /\ \A i \in 1..Len(stream) : ~stream[i].end =>
          i < Len(stream) /\ stream[i + 1] = [msg |-> stream[i].msg, end |-> TRUE]
    /\ \A i \in 1..Len(stream) - 1 : stream[i].end =>
          ~stream[i + 1].end /\ Follows(stream[i].msg, stream[i + 1].msg)
    /\ Len(stream) > 0 => ~Incomplete(stream[Len(stream)].msg)
    /\ piece > 0 => stream[piece].end

\* The first k parts of answer a are in store, if a is one that fits it.
Collected(k, a) ==
    shapes[a][1] <= Size =>
        /\ sumLen = k * shapes[a][2]
        /\ \A i \in 1..Size : i <= k * shapes[a][2] => store[i] = <<a, i>>

Awaited ==
    clean => IF Len(stream) > 0 /\ stream[1].msg.kind = "part"
             THEN ~stream[1].end /\ Collected(stream[1].msg.number - 1, stream[1].msg.ans)
             ELSE sumLen = 0

\* What passed as an answer is one of the server.
FromServer == \A k \in Passed : out[k].fit \in {"yes", "last"} => out[k].ans \in 1..Len(shapes)

DataInv == DataTypeOK /\ InOrder /\ Awaited /\ FromServer /\ Delivered

-----------------------------------------------------------------------------
(* What the server sends.                                                  *)

\* M is one answer, or one other message, from its beginning to its end.
Chained(M) ==
    /\ Len(M) > 0 /\ (M[1].kind = "part" => M[1].number = 1)
    /\ \A k \in 1..Len(M) - 1 : Follows(M[k], M[k + 1])
    /\ ~Incomplete(M[Len(M)])

LEMMA BytesOfAnswer ==
    ASSUME NEW a \in 1..MaxAnswers, NEW len \in Nat
    PROVE  /\ Content(a, len) \in Seq(Byte) /\ Len(Content(a, len)) = len
           /\ \A i \in 1..len : Content(a, len)[i] = <<a, i>>
<1>1. \A i \in 1..len : <<a, i>> \in Byte
  BY DataBounds DEF Byte
<1>2. QED
  BY <1>1 DEF Content

LEMMA WholeAnswer ==
    ASSUME NEW a \in 1..MaxAnswers, NEW shape \in Shape, NEW type \in {2, 3}, shape[2] = 0,
           NEW sh, a \in 1..Len(sh), sh[a] = shape,
           NEW M, M = Messages(a, shape, type)
    PROVE  M \in Seq(Message) /\ Chained(M) /\ \A k \in 1..Len(M) : Genuine(sh, M[k])
<1> DEFINE x == Msg("whole", a, type, 0, 0, Content(a, shape[1]))
<1>1. M = <<x>>
  BY DEF Messages
<1>2. /\ Content(a, shape[1]) \in Seq(Byte) /\ Len(Content(a, shape[1])) = shape[1]
      /\ \A i \in 1..shape[1] : Content(a, shape[1])[i] = <<a, i>>
  BY BytesOfAnswer, DataBounds
<1>3. x \in Message
  BY <1>2, DataBounds DEF Msg, Message
<1>4. x.kind = "whole" /\ x.ans = a /\ x.bytes = Content(a, shape[1])
  BY DEF Msg
<1>5. Genuine(sh, x) /\ ~Incomplete(x)
  BY <1>2, <1>4 DEF Genuine, Incomplete
<1> HIDE DEF x
<1>6. Len(M) = 1 /\ M[1] = x /\ M \in Seq(Message)
  BY <1>1, <1>3
<1>7. QED
  BY <1>4, <1>5, <1>6 DEF Chained

LEMMA AnswerInParts ==
    ASSUME NEW a \in 1..MaxAnswers, NEW shape \in Shape, NEW type \in {2, 3}, shape[2] # 0,
           NEW sh, a \in 1..Len(sh), sh[a] = shape,
           NEW M, M = Messages(a, shape, type)
    PROVE  M \in Seq(Message) /\ Chained(M) /\ \A k \in 1..Len(M) : Genuine(sh, M[k])
<1> DEFINE b == Content(a, shape[1])
           n == shape[2]
           P == Pieces(b, n)
           K == Len(P)
<1>1. /\ b \in Seq(Byte) /\ Len(b) = shape[1] /\ \A i \in 1..Len(b) : b[i] = <<a, i>>
      /\ n \in Nat /\ n > 0 /\ Len(b) > 0
  <2>1. shape[1] \in Nat /\ shape[1] > 0 /\ shape[2] \in Nat
    BY DataBounds
  <2>2. b \in Seq(Byte) /\ Len(b) = shape[1] /\ \A i \in 1..shape[1] : b[i] = <<a, i>>
    BY <2>1, BytesOfAnswer
  <2> HIDE DEF b
  <2>3. QED
    BY <2>1, <2>2
<1> HIDE DEF b
<1>2. P \in Seq(Seq(Byte)) /\ Cut(P, b, n)
  BY <1>1, PiecesCut
<1>3. M = [k \in DOMAIN P |-> Msg("part", a, type, k, K, P[k])]
  BY <1>1 DEF Messages, b
<1> HIDE DEF P, n
<1>4. K \in Nat /\ K > 0 /\ DOMAIN P = 1..K /\ \A k \in 1..K : P[k] \in Seq(Byte)
  BY <1>2 DEF Cut
<1> HIDE DEF K
<1>5. /\ (K - 1) * n + Len(P[K]) = Len(b)
      /\ \A k \in 1..K : k # K => Len(P[k]) = n
      /\ \A k \in 1..K : /\ (k - 1) * n + Len(P[k]) <= Len(b)
                         /\ \A i \in 1..Len(P[k]) : P[k][i] = b[(k - 1) * n + i]
  <2>1. \A k \in 1..K : k # K => k \in 1..K - 1
    BY <1>4
  <2>2. QED
    BY <1>2, <2>1 DEF Cut, K
<1>6. ASSUME NEW k \in 1..K
      PROVE  /\ M[k].kind = "part" /\ M[k].ans = a /\ M[k].number = k /\ M[k].sum = K
             /\ M[k].bytes = P[k] /\ M[k] \in Message
  <2>1. M[k] = [kind |-> "part", ans |-> a, type |-> type, number |-> k,
                sum |-> K, bytes |-> P[k]]
    BY <1>3, <1>4 DEF Msg
  <2>2. QED
    BY <2>1, <1>4, DataBounds DEF Message
<1>7. M \in Seq(Message) /\ Len(M) = K
  <2>1. M \in [1..K -> Message]
    BY <1>3, <1>4, <1>6
  <2>2. QED
    BY <2>1, <1>4
<1>8. Chained(M)
  <2>1. M[1].number = 1 /\ ~Incomplete(M[K])
    BY <1>4, <1>6 DEF Incomplete
  <2>2. ASSUME NEW k \in 1..K - 1
        PROVE  Follows(M[k], M[k + 1])
    <3>1. k \in 1..K /\ k + 1 \in 1..K /\ k # K
      BY <1>4
    <3>2. /\ M[k].ans = a /\ M[k].number = k
          /\ M[k + 1].kind = "part" /\ M[k + 1].ans = a /\ M[k + 1].number = k + 1
      BY <3>1, <1>6
    <3>3. Incomplete(M[k])
      BY <3>1, <1>6 DEF Incomplete
    <3>4. QED
      BY <3>2, <3>3 DEF Follows
  <2>3. QED
    BY <1>4, <1>7, <2>1, <2>2 DEF Chained
<1>9. ASSUME NEW k \in 1..K PROVE Genuine(sh, M[k])
  <2>1. /\ M[k].kind = "part" /\ M[k].ans = a /\ M[k].number = k /\ M[k].sum = K
        /\ M[k].bytes = P[k]
    BY <1>6
  <2>2. sh[a][1] = Len(b) /\ sh[a][2] = n
    BY <1>1 DEF n
  <2>3. ASSUME NEW i \in 1..Len(P[k]) PROVE P[k][i] = <<a, (k - 1) * n + i>>
    <3> DEFINE f == (k - 1) * n
    <3>1. f \in Nat /\ Len(P[k]) \in Nat
      BY <1>1, <1>4, Times
    <3>2. f + Len(P[k]) <= Len(b) /\ P[k][i] = b[f + i]
      BY <1>5
    <3> HIDE DEF f
    <3>3. f + i \in 1..Len(b)
      BY <3>1, <3>2, <1>1, SMTT(30)
    <3>4. P[k][i] = <<a, f + i>>
      BY <3>2, <3>3, <1>1
    <3>5. QED
      BY <3>4 DEF f
  <2>4. /\ k \in 1..K /\ n > 0 /\ (k # K => Len(P[k]) = n)
        /\ k = K => (k - 1) * n + Len(P[k]) = Len(b)
        /\ (k - 1) * n + Len(P[k]) <= Len(b)
    BY <1>1, <1>5
  <2>5. QED
    BY <2>1, <2>2, <2>3, <2>4 DEF Genuine
<1>10. QED
  BY <1>7, <1>8, <1>9

LEMMA AnswerSends ==
    ASSUME NEW a \in 1..MaxAnswers, NEW shape \in Shape, NEW type \in {2, 3},
           NEW sh, a \in 1..Len(sh), sh[a] = shape,
           NEW M, M = Messages(a, shape, type)
    PROVE  M \in Seq(Message) /\ Chained(M) /\ \A k \in 1..Len(M) : Genuine(sh, M[k])
BY WholeAnswer, AnswerInParts

LEMMA Joined ==
    ASSUME NEW S, NEW q \in Seq(S), NEW r \in Seq(S)
    PROVE  /\ q \o r \in Seq(S) /\ Len(q \o r) = Len(q) + Len(r)
           /\ \A i \in 1..Len(q) : (q \o r)[i] = q[i]
           /\ \A i \in 1..Len(r) : (q \o r)[Len(q) + i] = r[i]
OBVIOUS

\* The two cells of each message, after those of the messages before.
LEMMA StreamCells ==
    ASSUME stream \in Seq(Cell), NEW M \in Seq(Message), InStream(M)
    PROVE  /\ stream' \in Seq(Cell) /\ Len(stream') = Len(stream) + 2 * Len(M)
           /\ \A i \in 1..Len(stream) : stream'[i] = stream[i]
           /\ \A k \in 1..Len(M) :
                /\ stream'[Len(stream) + 2 * k - 1] = [msg |-> M[k], end |-> FALSE]
                /\ stream'[Len(stream) + 2 * k] = [msg |-> M[k], end |-> TRUE]
<1> DEFINE L == Len(stream)
           K == Len(M)
           cells == [i \in 1..2 * K |-> [msg |-> M[(i + 1) \div 2], end |-> i % 2 = 0]]
<1>1. L \in Nat /\ K \in Nat /\ DOMAIN M = 1..K /\ stream' = stream \o cells
  BY DEF InStream
<1>2. \A i \in 1..2 * K : (i + 1) \div 2 \in 1..K
  BY <1>1
<1>3. cells \in [1..2 * K -> Cell]
  BY <1>1, <1>2 DEF Cell
<1>4. \A k \in 1..K : /\ 2 * k - 1 \in 1..2 * K /\ 2 * k \in 1..2 * K
                      /\ (2 * k - 1 + 1) \div 2 = k /\ (2 * k + 1) \div 2 = k
                      /\ (2 * k - 1) % 2 # 0 /\ (2 * k) % 2 = 0
  BY <1>1
<1>5. ASSUME NEW k \in 1..K
      PROVE  /\ cells[2 * k - 1] = [msg |-> M[k], end |-> FALSE]
             /\ cells[2 * k] = [msg |-> M[k], end |-> TRUE]
  BY <1>4
<1> HIDE DEF cells
<1>6. cells \in Seq(Cell) /\ Len(cells) = 2 * K
  <2>1. 2 * K \in Nat
    BY <1>1
  <2>2. \A n \in Nat : cells \in [1..n -> Cell] => cells \in Seq(Cell) /\ Len(cells) = n
    OBVIOUS
  <2>3. QED
    BY <2>1, <2>2, <1>3
<1>7. /\ stream' \in Seq(Cell) /\ Len(stream') = L + 2 * K
      /\ \A i \in 1..L : stream'[i] = stream[i]
      /\ \A i \in 1..2 * K : stream'[L + i] = cells[i]
  BY <1>1, <1>6, Joined
<1>8. ASSUME NEW k \in 1..K
      PROVE  /\ stream'[L + 2 * k - 1] = [msg |-> M[k], end |-> FALSE]
             /\ stream'[L + 2 * k] = [msg |-> M[k], end |-> TRUE]
  <2>1. /\ stream'[L + (2 * k - 1)] = cells[2 * k - 1]
        /\ stream'[L + 2 * k] = cells[2 * k]
    BY <1>4, <1>7
  <2>2. L + (2 * k - 1) = L + 2 * k - 1
    BY <1>1
  <2>3. QED
    BY <2>1, <2>2, <1>5
<1>9. QED
  BY <1>7, <1>8

\* An index after the first n cells is that of one of the cells of a message.
LEMMA CellOf ==
    ASSUME NEW n \in Nat, NEW k \in Nat, NEW i \in n + 1..n + 2 * k
    PROVE  \E j \in 1..k : i = n + 2 * j - 1 \/ i = n + 2 * j
<1>1. (i - n + 1) \div 2 \in 1..k
  OBVIOUS
<1>2. i = n + 2 * ((i - n + 1) \div 2) - 1 \/ i = n + 2 * ((i - n + 1) \div 2)
  OBVIOUS
<1>3. QED
  BY <1>1, <1>2

\* The answers so far have kept their shapes.
Older == \A a \in 1..Len(shapes) : a \in 1..Len(shapes') /\ shapes'[a] = shapes[a]

LEMMA StaysGenuine ==
    ASSUME Older, NEW x, Genuine(shapes, x)
    PROVE  Genuine(shapes', x)
BY DEF Older, Genuine

LEMMA StreamGrows ==
    ASSUME DataTypeOK, InOrder, Older, NEW M \in Seq(Message), Chained(M), InStream(M),
           \A k \in 1..Len(M) : Genuine(shapes', M[k]), piece' = piece
    PROVE  /\ stream' \in Seq(Cell) /\ piece \in 0..Len(stream') /\ InOrder'
           /\ Len(stream) > 0 => Len(stream') > 0 /\ stream'[1] = stream[1]
           /\ Len(stream) = 0 => /\ Len(stream') > 0 /\ ~stream'[1].end
                                 /\ stream'[1].msg.kind = "part" => stream'[1].msg.number = 1
<1> DEFINE L == Len(stream)
           K == Len(M)
<1>1. /\ L \in Nat /\ K \in Nat /\ K > 0 /\ stream \in Seq(Cell) /\ piece \in 0..L
      /\ \A k \in 1..K : M[k] \in Message
  BY DEF DataTypeOK, Chained
<1>2. /\ stream' \in Seq(Cell) /\ Len(stream') = L + 2 * K
      /\ \A i \in 1..L : stream'[i] = stream[i]
      /\ \A k \in 1..K : /\ stream'[L + 2 * k - 1] = [msg |-> M[k], end |-> FALSE]
                         /\ stream'[L + 2 * k] = [msg |-> M[k], end |-> TRUE]
  BY <1>1, StreamCells
<1>3. /\ (M[1].kind = "part" => M[1].number = 1) /\ ~Incomplete(M[K])
      /\ \A k \in 1..K - 1 : Follows(M[k], M[k + 1])
  BY DEF Chained
<1>4. /\ \A i \in 1..L : Genuine(shapes, stream[i].msg)
      /\ \A i \in 1..L : ~stream[i].end =>
            i < L /\ stream[i + 1] = [msg |-> stream[i].msg, end |-> TRUE]
      /\ \A i \in 1..L - 1 : stream[i].end =>
            ~stream[i + 1].end /\ Follows(stream[i].msg, stream[i + 1].msg)
      /\ L > 0 => ~Incomplete(stream[L].msg)
      /\ piece > 0 => stream[piece].end
  BY DEF InOrder
<1>5. \A k \in 1..K : Genuine(shapes', M[k])
  OBVIOUS
<1> HIDE DEF L, K
<1>6. \A i \in 1..L + 2 * K : \/ i \in 1..L
                              \/ \E k \in 1..K : i = L + 2 * k - 1 \/ i = L + 2 * k
  <2> SUFFICES ASSUME NEW i \in 1..L + 2 * K, i \notin 1..L
               PROVE  \E k \in 1..K : i = L + 2 * k - 1 \/ i = L + 2 * k
    OBVIOUS
  <2>1. i \in L + 1..L + 2 * K
    BY <1>1
  <2>2. QED
    BY <2>1, <1>1, CellOf
<1>7. ASSUME NEW i \in 1..L + 2 * K PROVE Genuine(shapes', stream'[i].msg)
  <2>1. CASE i \in 1..L
    BY <2>1, <1>2, <1>4, StaysGenuine
  <2>2. ASSUME NEW k \in 1..K, i = L + 2 * k - 1 \/ i = L + 2 * k
        PROVE  stream'[i].msg = M[k]
    <3>1. /\ stream'[L + 2 * k - 1] = [msg |-> M[k], end |-> FALSE]
          /\ stream'[L + 2 * k] = [msg |-> M[k], end |-> TRUE]
      BY <1>2
    <3>2. stream'[L + 2 * k - 1].msg = M[k] /\ stream'[L + 2 * k].msg = M[k]
      BY <3>1
    <3>3. QED
      BY <2>2, <3>2
  <2>3. QED
    BY <2>1, <2>2, <1>5, <1>6
<1>8. ASSUME NEW i \in 1..L + 2 * K, ~stream'[i].end
      PROVE  i < L + 2 * K /\ stream'[i + 1] = [msg |-> stream'[i].msg, end |-> TRUE]
  <2>1. CASE i \in 1..L
    <3>1. ~stream[i].end
      BY <2>1, <1>2, <1>8
    <3>2. i < L
      BY <2>1, <3>1, <1>4
    <3>3. i + 1 \in 1..L
      BY <3>2, <2>1, <1>1
    <3>4. QED
      BY <2>1, <3>1, <3>2, <3>3, <1>1, <1>2, <1>4
  <2>2. ASSUME NEW k \in 1..K, i = L + 2 * k - 1 \/ i = L + 2 * k
        PROVE  i < L + 2 * K /\ stream'[i + 1] = [msg |-> stream'[i].msg, end |-> TRUE]
    <3>1. /\ stream'[L + 2 * k - 1] = [msg |-> M[k], end |-> FALSE]
          /\ stream'[L + 2 * k] = [msg |-> M[k], end |-> TRUE]
      BY <1>2
    <3>2. i = L + 2 * k - 1
      BY <2>2, <3>1, <1>8
    <3>3. i + 1 = L + 2 * k /\ i < L + 2 * K
      BY <3>2, <1>1
    <3>4. stream'[i] = [msg |-> M[k], end |-> FALSE] /\ stream'[i + 1] = [msg |-> M[k], end |-> TRUE]
      BY <3>1, <3>2, <3>3
    <3>5. QED
      BY <3>3, <3>4
  <2>3. QED
    BY <2>1, <2>2, <1>6
<1>9. ASSUME NEW i \in 1..(L + 2 * K) - 1, stream'[i].end
      PROVE  ~stream'[i + 1].end /\ Follows(stream'[i].msg, stream'[i + 1].msg)
  <2>1. CASE i \in 1..L - 1
    <3>1. i \in 1..L /\ i + 1 \in 1..L
      BY <2>1, <1>1
    <3>2. QED
      BY <2>1, <3>1, <1>2, <1>4, <1>9
  <2>2. CASE i = L
    <3>1. /\ stream'[i] = stream[i] /\ L > 0 /\ 1 \in 1..K
          /\ stream'[i + 1] = [msg |-> M[1], end |-> FALSE]
      <4>1. L > 0 /\ L \in 1..L /\ 1 \in 1..K /\ L + 2 * 1 - 1 = i + 1
        BY <2>2, <1>1
      <4>2. QED
        BY <4>1, <2>2, <1>2
    <3>2. QED
      BY <3>1, <2>2, <1>3, <1>4 DEF Follows
  <2>3. ASSUME NEW k \in 1..K, i = L + 2 * k - 1 \/ i = L + 2 * k
        PROVE  ~stream'[i + 1].end /\ Follows(stream'[i].msg, stream'[i + 1].msg)
    <3>1. i = L + 2 * k
      <4>1. stream'[L + 2 * k - 1] = [msg |-> M[k], end |-> FALSE]
        BY <1>2
      <4>2. ~stream'[L + 2 * k - 1].end
        BY <4>1
      <4>3. QED
        BY <2>3, <4>2, <1>9
    <3>2. k \in 1..K - 1 /\ k + 1 \in 1..K /\ i + 1 = L + 2 * (k + 1) - 1
      BY <3>1, <1>1
    <3>3. stream'[i] = [msg |-> M[k], end |-> TRUE] /\ stream'[i + 1] = [msg |-> M[k + 1], end |-> FALSE]
      <4>1. /\ stream'[L + 2 * k] = [msg |-> M[k], end |-> TRUE]
            /\ stream'[L + 2 * (k + 1) - 1] = [msg |-> M[k + 1], end |-> FALSE]
        BY <3>2, <1>2
      <4>2. QED
        BY <4>1, <3>1, <3>2
    <3>4. QED
      BY <3>2, <3>3, <1>3
  <2>4. i \in 1..L + 2 * K /\ (i \in 1..L => i \in 1..L - 1 \/ i = L)
    BY <1>1
  <2>5. QED
    BY <2>1, <2>2, <2>3, <2>4, <1>6
<1>10. ~Incomplete(stream'[L + 2 * K].msg) /\ (piece > 0 => stream'[piece].end)
  <2>1. K \in 1..K /\ (piece > 0 => piece \in 1..L)
    BY <1>1
  <2>2. stream'[L + 2 * K] = [msg |-> M[K], end |-> TRUE]
    BY <2>1, <1>2
  <2>3. QED
    BY <2>1, <2>2, <1>2, <1>3, <1>4
<1>11. InOrder'
  BY <1>1, <1>2, <1>7, <1>8, <1>9, <1>10 DEF InOrder
<1>12. L > 0 => Len(stream') > 0 /\ stream'[1] = stream[1]
  BY <1>1, <1>2
<1>13. L = 0 => /\ Len(stream') > 0 /\ ~stream'[1].end
                /\ stream'[1].msg.kind = "part" => stream'[1].msg.number = 1
  <2>1. 1 \in 1..K /\ (L = 0 => L + 2 * 1 - 1 = 1)
    BY <1>1
  <2>2. L = 0 => stream'[1] = [msg |-> M[1], end |-> FALSE]
    BY <2>1, <1>2
  <2>3. QED
    BY <2>2, <1>1, <1>2, <1>3
<1>14. piece \in 0..Len(stream')
  BY <1>1, <1>2
<1>15. QED
  BY <1>2, <1>11, <1>12, <1>13, <1>14 DEF L

-----------------------------------------------------------------------------
(* What the receiver has dealt with.                                       *)

LEMMA StreamDrops ==
    ASSUME DataTypeOK, InOrder, shapes' = shapes, NEW n \in 0..Len(stream),
           stream' = SubSeq(stream, n + 1, Len(stream)),
           (piece = 0 /\ piece' = 0) \/ (n <= piece /\ piece' = piece - n)
    PROVE  /\ stream' \in Seq(Cell) /\ Len(stream') = Len(stream) - n
           /\ \A i \in 1..Len(stream) - n : stream'[i] = stream[n + i]
           /\ piece' \in 0..Len(stream') /\ InOrder'
<1> DEFINE L == Len(stream)
           L2 == L - n
<1>1. stream \in Seq(Cell) /\ L \in Nat /\ n \in Nat /\ n <= L /\ L2 \in Nat /\ piece \in 0..L
  BY DEF DataTypeOK
<1>2. /\ stream' \in Seq(Cell) /\ Len(stream') = L2
      /\ \A i \in 1..L2 : stream'[i] = stream[n + i]
  BY <1>1, Slice
<1>3. /\ \A i \in 1..L : Genuine(shapes, stream[i].msg)
      /\ \A i \in 1..L : ~stream[i].end =>
            i < L /\ stream[i + 1] = [msg |-> stream[i].msg, end |-> TRUE]
      /\ \A i \in 1..L - 1 : stream[i].end =>
            ~stream[i + 1].end /\ Follows(stream[i].msg, stream[i + 1].msg)
      /\ L > 0 => ~Incomplete(stream[L].msg)
      /\ piece > 0 => stream[piece].end
  BY DEF InOrder
<1>4. L = n + L2
  BY <1>1
<1> HIDE DEF L, L2
<1>5. ASSUME NEW i \in 1..L2
      PROVE  /\ Genuine(shapes, stream'[i].msg)
             /\ ~stream'[i].end =>
                  i < L2 /\ stream'[i + 1] = [msg |-> stream'[i].msg, end |-> TRUE]
  <2>1. n + i \in 1..L /\ stream'[i] = stream[n + i]
    BY <1>1, <1>2, <1>4
  <2>2. i < L2 => i + 1 \in 1..L2 /\ n + (i + 1) = n + i + 1
    BY <1>1
  <2>3. i < L2 => stream'[i + 1] = stream[n + i + 1]
    BY <2>2, <1>2
  <2>4. n + i < L => i < L2
    BY <1>1, <1>4
  <2>5. QED
    BY <2>1, <2>3, <2>4, <1>3
<1>6. ASSUME NEW i \in 1..L2 - 1, stream'[i].end
      PROVE  ~stream'[i + 1].end /\ Follows(stream'[i].msg, stream'[i + 1].msg)
  <2>1. /\ i \in 1..L2 /\ i + 1 \in 1..L2 /\ n + i \in 1..L - 1
        /\ n + (i + 1) = n + i + 1
    BY <1>1, <1>4
  <2>2. stream'[i] = stream[n + i] /\ stream'[i + 1] = stream[n + i + 1]
    BY <2>1, <1>2
  <2>3. QED
    BY <2>1, <2>2, <1>3, <1>6
<1>7. L2 > 0 => ~Incomplete(stream'[L2].msg)
  <2>1. L2 > 0 => L2 \in 1..L2 /\ n + L2 = L /\ L > 0
    BY <1>1, <1>4
  <2>2. QED
    BY <2>1, <1>2, <1>3
<1>8. piece' \in 0..L2 /\ (piece' > 0 => stream'[piece'].end)
  <2>1. piece' \in 0..L2 /\ (piece' > 0 => piece > 0 /\ n + piece' = piece)
    BY <1>1, <1>4
  <2>2. piece' > 0 => stream'[piece'] = stream[piece]
    BY <2>1, <1>2, <1>1
  <2>3. QED
    BY <2>1, <2>2, <1>3
<1>9. InOrder'
  BY <1>2, <1>5, <1>6, <1>7, <1>8 DEF InOrder
<1>10. QED
  BY <1>2, <1>8, <1>9 DEF L2, L

\* A message that is handled has come as a whole; the next one is in order.
LEMMA Handled ==
    ASSUME DataTypeOK, InOrder, shapes' = shapes, NEW kind, Handle_Message_Type(kind)
    PROVE  /\ stream' \in Seq(Cell) /\ piece' \in 0..Len(stream') /\ InOrder'
           /\ Len(stream) > 0 /\ ~stream[1].end /\ m.kind = kind
           /\ m \in Message /\ Genuine(shapes, m)
           /\ Len(stream') > 0 => ~stream'[1].end /\ Follows(m, stream'[1].msg)
           /\ Incomplete(m) => Len(stream') > 0
<1> DEFINE L == Len(stream)
<1>1. /\ stream \in Seq(Cell) /\ L \in Nat /\ piece \in 1..L /\ ~stream[1].end
      /\ m = stream[1].msg /\ m.kind = kind
      /\ stream' = SubSeq(stream, 2 + 1, L) /\ piece' = piece - 2
  BY DEF DataTypeOK, Handle_Message_Type, HeadMoves, m
<1>2. /\ stream[piece].end
      /\ 1 < L /\ stream[1 + 1] = [msg |-> m, end |-> TRUE]
      /\ Genuine(shapes, m)
  BY <1>1 DEF InOrder
<1>3. piece # 1 /\ 2 <= piece /\ 2 \in 0..L
  BY <1>1, <1>2
<1>4. /\ stream' \in Seq(Cell) /\ Len(stream') = L - 2
      /\ \A i \in 1..L - 2 : stream'[i] = stream[2 + i]
      /\ piece' \in 0..Len(stream') /\ InOrder'
  BY <1>1, <1>3, StreamDrops
<1>5. L > 2 => ~stream'[1].end /\ Follows(m, stream'[1].msg)
  <2>1. L > 2 => 2 \in 1..L - 1 /\ 1 \in 1..L - 2
    BY <1>1
  <2>2. stream[2].end /\ stream[2].msg = m
    BY <1>2
  <2>3. L > 2 => ~stream[2 + 1].end /\ Follows(stream[2].msg, stream[2 + 1].msg)
    BY <2>1, <2>2 DEF InOrder
  <2>4. L > 2 => stream'[1] = stream[2 + 1]
    BY <2>1, <1>4
  <2>5. QED
    BY <2>2, <2>3, <2>4
<1>6. L = 2 => ~Incomplete(m)
  <2>1. stream[2].msg = m
    BY <1>2
  <2>2. QED
    BY <2>1 DEF InOrder
<1>7. m \in Message
  <2>1. stream[1] \in Cell
    BY <1>1
  <2>2. QED
    BY <2>1, <1>1 DEF Cell
<1>8. QED
  BY <1>1, <1>2, <1>4, <1>5, <1>6, <1>7

\* Before the first part of an answer nothing has been collected.
LEMMA AwaitsFirst ==
    ASSUME shapes' \in Seq(Shape), InOrder', clean' => sumLen' = 0,
           clean' /\ Len(stream') > 0 /\ stream'[1].msg.kind = "part" =>
              ~stream'[1].end /\ stream'[1].msg.number = 1
    PROVE  Awaited'
<1> SUFFICES ASSUME clean', Len(stream') > 0, stream'[1].msg.kind = "part"
             PROVE  Collected(stream[1].msg.number - 1, stream[1].msg.ans)'
  BY DEF Awaited
<1> DEFINE a == stream'[1].msg.ans
<1>1. sumLen' = 0 /\ stream'[1].msg.number - 1 = 0
  OBVIOUS
<1>2. a \in 1..Len(shapes')
  BY Len(stream') \in Nat DEF InOrder, Genuine
<1>3. shapes'[a][2] \in Nat
  BY <1>2, DataBounds
<1>4. 0 * shapes'[a][2] = 0
  BY <1>3
<1>5. QED
  BY <1>1, <1>4, DataBounds DEF Collected

-----------------------------------------------------------------------------
(* What is passed on.                                                      *)

LEMMA DeliveredStays ==
    ASSUME DataTypeOK, FromServer, Delivered, Older, out' = out
    PROVE  FromServer' /\ Delivered'
<1>1. Passed' = Passed /\ PacketsFit'
  BY DEF Passed, Delivered, PacketsFit
<1>2. ASSUME NEW k \in Passed, out[k].fit \in {"yes", "last"}
      PROVE  /\ out[k].ans \in 1..Len(shapes') /\ shapes'[out[k].ans] = shapes[out[k].ans]
             /\ out[k].fit = "yes" => IsAnswer(out[k].packets, out[k].max, out[k].ans)
             /\ out[k].fit = "last" => IsEnd(out[k].packets, out[k].ans)
  BY <1>2 DEF FromServer, Delivered, DeliveredExactly, EndDelivered, IsEnd, Older
<1>3. FromServer' /\ DeliveredExactly'
  BY <1>1, <1>2 DEF FromServer, DeliveredExactly, IsAnswer
<1>4. EndDelivered'
  BY <1>1, <1>2 DEF EndDelivered, IsEnd
<1>5. QED
  BY <1>1, <1>3, <1>4 DEF Delivered

\* What is sent for a message is within the limit, and an answer, or its end, if
\* it fits.
Right(sent) ==
    /\ sent.fit # "over" /\ sent.max > 0 => \A j \in DOMAIN sent.packets : Len(sent.packets[j]) <= sent.max
    /\ sent.fit = "yes" => sent.ans \in 1..Len(shapes) /\ IsAnswer(sent.packets, sent.max, sent.ans)
    /\ sent.fit = "last" => sent.ans \in 1..Len(shapes) /\ IsEnd(sent.packets, sent.ans)

LEMMA DeliveredPasses ==
    ASSUME DataTypeOK, FromServer, Delivered, shapes' = shapes,
           NEW sent \in Record, out' = Append(out, sent), sent.port = 5557 => Right(sent)
    PROVE  out' \in Seq(Record) /\ FromServer' /\ Delivered'
<1>1. out \in Seq(Record)
  BY DEF DataTypeOK
<1>2. /\ out' \in Seq(Record) /\ DOMAIN out' = 1..Len(out) + 1 /\ DOMAIN out = 1..Len(out)
      /\ out'[Len(out) + 1] = sent /\ \A k \in DOMAIN out : out'[k] = out[k]
  BY <1>1
<1> DEFINE Old(k) == k \in Passed /\ out'[k] = out[k]
           New(k) == sent.port = 5557 /\ out'[k] = sent
<1> HIDE DEF Old, New
<1>3. ASSUME NEW k \in Passed'
      PROVE  Old(k) \/ New(k)
  <2>1. k \in DOMAIN out' /\ out'[k].port = 5557
    BY DEF Passed
  <2>2. CASE k \in DOMAIN out
    <3>1. out'[k] = out[k]
      BY <2>2, <1>2
    <3>2. out[k].port = 5557
      BY <3>1, <2>1
    <3>3. k \in Passed
      BY <3>2, <2>2 DEF Passed
    <3>4. QED
      BY <3>1, <3>3 DEF Old
  <2>3. CASE k \notin DOMAIN out
    <3>1. k = Len(out) + 1
      BY <2>1, <2>3, <1>2
    <3>2. QED
      BY <3>1, <2>1, <1>2 DEF New
  <2>4. QED
    BY <2>2, <2>3
<1>4. FromServer'
  <2> SUFFICES ASSUME NEW k \in Passed', out'[k].fit \in {"yes", "last"}
               PROVE  out'[k].ans \in 1..Len(shapes)
    BY DEF FromServer
  <2>1. CASE Old(k)
    BY <2>1 DEF Old, FromServer
  <2>2. CASE New(k)
    BY <2>2 DEF New, Right
  <2>3. QED
    BY <1>3, <2>1, <2>2
<1>5. DeliveredExactly'
  <2> SUFFICES ASSUME NEW k \in Passed', out'[k].fit = "yes"
               PROVE  IsAnswer(out[k].packets, out[k].max, out[k].ans)'
    BY DEF DeliveredExactly
  <2>1. CASE Old(k)
    <3>1. IsAnswer(out[k].packets, out[k].max, out[k].ans)
      BY <2>1 DEF Old, Delivered, DeliveredExactly
    <3>2. QED
      BY <3>1, <2>1 DEF Old, IsAnswer
  <2>2. CASE New(k)
    BY <2>2 DEF New, Right, IsAnswer
  <2>3. QED
    BY <1>3, <2>1, <2>2
<1>6. PacketsFit'
  <2> SUFFICES ASSUME NEW k \in Passed', out'[k].fit # "over", out'[k].max > 0,
                      NEW j \in DOMAIN out'[k].packets
               PROVE  Len(out'[k].packets[j]) <= out'[k].max
    BY DEF PacketsFit
  <2>1. CASE Old(k)
    BY <2>1 DEF Old, Delivered, PacketsFit
  <2>2. CASE New(k)
    BY <2>2 DEF New, Right
  <2>3. QED
    BY <1>3, <2>1, <2>2
<1>7. EndDelivered'
  <2> SUFFICES ASSUME NEW k \in Passed', out'[k].fit = "last"
               PROVE  IsEnd(out[k].packets, out[k].ans)'
    BY DEF EndDelivered, IsEnd
  <2>1. CASE Old(k)
    <3>1. IsEnd(out[k].packets, out[k].ans)
      BY <2>1 DEF Old, Delivered, EndDelivered, IsEnd
    <3>2. QED
      BY <3>1, <2>1 DEF Old, IsEnd
  <2>2. CASE New(k)
    BY <2>2 DEF New, Right, IsEnd
  <2>3. QED
    BY <1>3, <2>1, <2>2
<1>8. QED
  BY <1>2, <1>4, <1>5, <1>6, <1>7 DEF Delivered

\* The answer whose bytes are b, cut into packets.
LEMMA CutIsAnswer ==
    ASSUME NEW b \in Seq(Byte), NEW n \in Nat, n > 0, Len(b) > 0,
           NEW a \in 1..Len(shapes), Len(b) = shapes[a][1],
           \A i \in 1..Len(b) : b[i] = <<a, i>>
    PROVE  IsAnswer(Pieces(b, n), n, a)
<1> DEFINE P == Pieces(b, n)
<1>1. P \in Seq(Seq(Byte)) /\ Cut(P, b, n)
  BY PiecesCut
<1> HIDE DEF P
<1>2. DOMAIN P = 1..Len(P) /\ Len(P) \in Nat /\ \A j \in DOMAIN P : P[j] \in Seq(Byte)
  BY <1>1
<1>3. ASSUME NEW j \in DOMAIN P, NEW i \in DOMAIN P[j]
      PROVE  P[j][i] = <<a, (j - 1) * n + i>>
  <2> DEFINE f == (j - 1) * n
  <2>1. j \in 1..Len(P) /\ j \in Nat /\ j > 0 /\ i \in 1..Len(P[j]) /\ Len(P[j]) \in Nat
    BY <1>2
  <2>2. f \in Nat
    BY <2>1, Times
  <2>3. f + Len(P[j]) <= Len(b) /\ P[j][i] = b[f + i]
    BY <1>1, <2>1 DEF Cut
  <2> HIDE DEF f
  <2>4. f + i \in 1..Len(b)
    BY <2>1, <2>2, <2>3, SMTT(30)
  <2>5. P[j][i] = <<a, f + i>>
    BY <2>3, <2>4
  <2>6. QED
    BY <2>5 DEF f
<1>4. /\ \A j \in 1..Len(P) - 1 : Len(P[j]) = n
      /\ (Len(P) - 1) * n + Len(P[Len(P)]) = shapes[a][1]
  BY <1>1 DEF Cut
<1>5. QED
  BY <1>3, <1>4 DEF IsAnswer, P

LEMMA LastOfSome ==
    ASSUME NEW R \in SUBSET (1..9), R # {}
    PROVE  \E i \in R : \A j \in R : j <= i
<1> DEFINE Bound(k) == \A j \in R : j <= k
           Last == \E i \in R : Bound(i)
<1>1. Bound(9) /\ ~Bound(0)
  <2>1. PICK i : i \in R
    OBVIOUS
  <2>2. i \in Nat /\ i > 0 /\ ~(i <= 0)
    BY <2>1
  <2>3. ~Bound(0)
    BY <2>1, <2>2
  <2>4. Bound(9)
    OBVIOUS
  <2>5. QED
    BY <2>3, <2>4
<1>2. ASSUME NEW k \in 1..9, Bound(k) PROVE Bound(k - 1) \/ Last
  <2>1. CASE k \in R
    BY <2>1, <1>2
  <2>2. CASE k \notin R
    BY <2>2, <1>2
  <2>3. QED
    BY <2>1, <2>2
<1> HIDE DEF Bound, Last
<1>3. Last
  BY <1>1, <1>2
<1>4. QED
  BY <1>3 DEF Bound, Last

\* Whatever frequency and data rate, and what is left in maxpayload.
LEMMA MaxPayloadsAreIntegers ==
    ASSUME DataTypeOK
    PROVE  MaxPayloads \subseteq Int
<1> DEFINE f == confirmed[1]
           dr == confirmed[2]
           last == CHOOSE i \in Region(f) : \A j \in Region(f) : j <= i
<1>1. f \in Nat /\ dr \in Nat
  BY DEF DataTypeOK
<1>2. DOMAIN Band = 1..9
  BY DEF Band
<1>3. ASSUME NEW i \in 1..9, NEW d \in DOMAIN Band[i][3] PROVE Band[i][3][d] \in Nat
  <2>1. i \in {1, 2, 3, 4, 5, 6, 7, 8, 9}
    OBVIOUS
  <2>2. QED
    BY <2>1 DEF Band
<1>4. Assigned(f, dr) \in Nat
  <2>1. CASE Region(f) = {}
    BY <2>1 DEF Assigned
  <2>2. CASE Region(f) # {}
    <3>1. Region(f) \in SUBSET (1..9)
      BY <1>2 DEF Region
    <3>2. last \in 1..9
      BY <3>1, <2>2, LastOfSome
    <3> HIDE DEF last
    <3>3. Assigned(f, dr) = IF dr + 1 \in DOMAIN Band[last][3] THEN Band[last][3][dr + 1] ELSE 0
      BY <2>2 DEF Assigned, last
    <3>4. QED
      BY <3>2, <3>3, <1>3
  <2>3. QED
    BY <2>1, <2>2
<1>5. Garbage \subseteq Int
  BY DataBounds
<1>6. MaxPayloads = IF Assigned(f, dr) = 0 THEN Garbage ELSE {Assigned(f, dr)}
  BY DEF MaxPayloads
<1>7. CASE Assigned(f, dr) = 0
  BY <1>5, <1>6, <1>7
<1>8. CASE Assigned(f, dr) # 0
  <2> DEFINE size == Assigned(f, dr)
  <2>1. MaxPayloads = {size} /\ size \in Nat
    BY <1>4, <1>6, <1>8
  <2> HIDE DEF size
  <2>2. QED
    BY <2>1
<1>9. QED
  BY <1>7, <1>8

-----------------------------------------------------------------------------
(* The buffer of the parts.                                                *)

\* A part, and what is made of it, has its type.
LEMMA PartTypes ==
    ASSUME DataTypeOK, m \in Message, m.kind = "part", Genuine(shapes, m)
    PROVE  /\ m.ans \in 1..Len(shapes) /\ m.ans \in 1..MaxAnswers /\ m.number \in Nat /\ m.number > 0
           /\ m.sum \in Nat /\ m.bytes \in Seq(Byte) /\ Len(m.bytes) \in Nat
           /\ shapes[m.ans][1] \in Nat /\ shapes[m.ans][1] > 0
           /\ shapes[m.ans][2] \in Nat /\ shapes[m.ans][2] > 0
           /\ Offset \in Nat /\ Total \in 0..LenMod - 1 /\ Copied \in [1..Size -> Byte]
<1>1. /\ m.ans \in 1..Len(shapes) /\ m.number \in 1..m.sum /\ m.sum \in Nat
      /\ m.bytes \in Seq(Byte) /\ Len(m.bytes) \in Nat /\ shapes[m.ans][2] > 0
  BY DEF Message, Genuine
<1>2. shapes \in Seq(Shape) /\ Len(shapes) \in Nat /\ Len(shapes) <= MaxAnswers /\ MaxAnswers \in Nat
  BY DataBounds DEF DataTypeOK
<1>3. shapes[m.ans] \in Shape /\ m.ans \in 1..MaxAnswers /\ m.number \in Nat /\ m.number > 0
  BY <1>1, <1>2
<1>4. Offset \in Nat
  BY <1>1, <1>3, Times DEF Offset
<1>5. Total \in 0..LenMod - 1
  <2>1. sumLen + Len(m.bytes) \in Nat /\ LenMod \in Nat /\ LenMod > 0
    BY <1>1, DataBounds DEF DataTypeOK
  <2>2. QED
    BY <2>1 DEF Total
<1>6. ASSUME NEW i \in 1..Size, i - 1 \in Offset..(Offset + Len(m.bytes) - 1)
      PROVE  m.bytes[i - Offset] \in Byte
  <2>1. i - Offset \in 1..Len(m.bytes)
    BY <1>1, <1>4, <1>6, DataBounds
  <2>2. QED
    BY <2>1, <1>1
<1>7. Copied \in [1..Size -> Byte]
  BY <1>6 DEF Copied, DataTypeOK
<1>8. QED
  BY <1>1, <1>3, <1>4, <1>5, <1>7, DataBounds

LEMMA NoWrap ==
    ASSUME NEW x \in Nat, NEW y \in Nat, x < y
    PROVE  x % y = x
OBVIOUS

\* A place is where the part's bytes are, counted from 0.
LEMMA Places ==
    ASSUME NEW o \in Nat, NEW l \in Nat, NEW i \in Nat, o < i, i <= o + l
    PROVE  i - 1 \in o..(o + l - 1) /\ i - o \in 1..l /\ o + (i - o) = i
OBVIOUS

\* The receiver, who knows only this part's length, finds the right place.
InPlace == Offset = (m.number - 1) * shapes[m.ans][2]

\* A part that goes to its place continues what has been collected.
LEMMA PartContinues ==
    ASSUME DataTypeOK, m \in Message, m.kind = "part", Genuine(shapes, m),
           Collected(m.number - 1, m.ans), shapes[m.ans][1] <= Size,
           InPlace, NEW e, e = Offset + Len(m.bytes)
    PROVE  /\ e \in Nat /\ e <= shapes[m.ans][1] /\ Total = e
           /\ \A i \in 1..e : i \in 1..Size /\ Copied[i] = <<m.ans, i>>
<1>1. /\ Offset \in Nat /\ Len(m.bytes) \in Nat /\ shapes[m.ans][1] \in Nat
      /\ Size \in Nat /\ LenMod \in Nat /\ Size < LenMod
  BY PartTypes, DataBounds
<1>2. /\ sumLen = Offset /\ \A i \in 1..Size : i <= Offset => store[i] = <<m.ans, i>>
      /\ \A i \in 1..Len(m.bytes) : m.bytes[i] = <<m.ans, Offset + i>>
      /\ e <= shapes[m.ans][1]
  BY DEF Collected, Genuine, InPlace
<1>3. e \in Nat /\ e <= Size /\ Total = e
  <2>1. e \in Nat /\ e < LenMod /\ sumLen + Len(m.bytes) = e
    BY <1>1, <1>2
  <2>2. e % LenMod = e
    BY <2>1, <1>1, NoWrap
  <2>3. e <= Size
    BY <1>1, <1>2
  <2>4. QED
    BY <2>1, <2>2, <2>3 DEF Total
<1>4. ASSUME NEW i \in 1..e PROVE i \in 1..Size /\ Copied[i] = <<m.ans, i>>
  <2>1. i \in 1..Size /\ i \in Nat
    BY <1>1, <1>3
  <2>2. CASE i <= Offset
    <3>1. i - 1 \notin Offset..(Offset + Len(m.bytes) - 1)
      BY <2>1, <2>2, <1>1
    <3>2. QED
      BY <3>1, <2>1, <2>2, <1>2 DEF Copied
  <2>3. CASE i > Offset
    <3>1. i <= Offset + Len(m.bytes)
      BY <1>4
    <3>2. /\ i - 1 \in Offset..(Offset + Len(m.bytes) - 1)
          /\ i - Offset \in 1..Len(m.bytes) /\ Offset + (i - Offset) = i
      BY <3>1, <2>1, <2>3, <1>1, Places
    <3>3. Copied[i] = m.bytes[i - Offset]
      BY <3>2, <2>1 DEF Copied
    <3>4. QED
      BY <3>2, <3>3, <2>1, <1>2
  <2>4. QED
    BY <2>1, <2>2, <2>3, <1>1
<1>5. QED
  BY <1>2, <1>3, <1>4

-----------------------------------------------------------------------------
(* The actions.                                                            *)

LEMMA InitData == DataInit => DataInv
<1> SUFFICES ASSUME DataInit PROVE DataInv
  OBVIOUS
<1>1. DataTypeOK
  <2>1. store \in [1..Size -> Byte] /\ sumLen \in 0..LenMod - 1
    BY DataBounds DEF DataInit, Empty, Byte
  <2>2. shapes = << >> /\ shapes \in Seq(Shape) /\ Len(shapes) <= MaxAnswers
    BY DataBounds DEF DataInit
  <2>3. stream \in Seq(Cell) /\ piece \in 0..Len(stream) /\ out \in Seq(Record)
    BY DEF DataInit
  <2>4. QED
    BY <2>1, <2>2, <2>3, DataBounds DEF DataInit, DataTypeOK
<1>2. InOrder /\ Awaited
  BY DEF DataInit, InOrder, Awaited
<1>3. Passed = {}
  BY DEF DataInit, Passed
<1>4. FromServer /\ Delivered
  BY <1>3 DEF FromServer, Delivered, DeliveredExactly, EndDelivered, PacketsFit
<1>5. QED
  BY <1>1, <1>2, <1>4 DEF DataInv

\* Whatever the server adds leaves what is awaited.
LEMMA AwaitedGrows ==
    ASSUME DataTypeOK, InOrder, Awaited, Older, InOrder', shapes' \in Seq(Shape),
           UNCHANGED <<store, sumLen, clean>>,
           Len(stream) > 0 => Len(stream') > 0 /\ stream'[1] = stream[1],
           Len(stream) = 0 => /\ ~stream'[1].end
                              /\ stream'[1].msg.kind = "part" => stream'[1].msg.number = 1
    PROVE  Awaited'
<1>1. CASE Len(stream) > 0
  <2>1. Len(stream) \in Nat
    BY DEF DataTypeOK
  <2>2. Genuine(shapes, stream[1].msg)
    BY <1>1, <2>1 DEF InOrder
  <2>3. stream[1].msg.kind = "part" => shapes'[stream[1].msg.ans] = shapes[stream[1].msg.ans]
    BY <2>2 DEF Genuine, Older
  <2>4. QED
    BY <1>1, <2>3 DEF Awaited, Collected
<1>2. CASE ~(Len(stream) > 0)
  <2>1. Len(stream) = 0 /\ (clean => sumLen = 0)
    BY <1>2 DEF DataTypeOK, Awaited
  <2>2. QED
    BY <2>1, AwaitsFirst
<1>3. QED
  BY <1>1, <1>2

LEMMA ServerAnswersData == ASSUME DataInv, ServerAnswers PROVE DataInv'
<1> DEFINE a == Len(shapes) + 1
<1>1. DataTypeOK /\ InOrder /\ Awaited /\ FromServer /\ Delivered
  BY DEF DataInv
<1>2. PICK shape \in Shape, type \in {2, 3} :
        /\ InStream(Messages(a, shape, type)) /\ shapes' = Append(shapes, shape)
        /\ Len(shapes) < MaxAnswers
        /\ UNCHANGED <<piece, store, sumLen, confirmed, out, clean, running, others, uplinks>>
  BY DEF ServerAnswers
<1>3. shapes \in Seq(Shape) /\ Len(shapes) \in Nat
  BY <1>1 DEF DataTypeOK
<1>4. /\ shapes' \in Seq(Shape) /\ Len(shapes') = a /\ shapes'[a] = shape
      /\ \A i \in 1..Len(shapes) : shapes'[i] = shapes[i]
  BY <1>2, <1>3
<1>5. a \in 1..MaxAnswers /\ a \in 1..Len(shapes') /\ Older
  BY <1>2, <1>3, <1>4, DataBounds DEF Older
<1> DEFINE M == Messages(a, shape, type)
<1>6. M \in Seq(Message) /\ Chained(M) /\ \A k \in 1..Len(M) : Genuine(shapes', M[k])
  BY <1>4, <1>5, AnswerSends
<1>7. InStream(M) /\ piece' = piece
  BY <1>2
<1> HIDE DEF M
<1>8. /\ stream' \in Seq(Cell) /\ piece \in 0..Len(stream') /\ InOrder'
      /\ Len(stream) > 0 => Len(stream') > 0 /\ stream'[1] = stream[1]
      /\ Len(stream) = 0 => /\ Len(stream') > 0 /\ ~stream'[1].end
                            /\ stream'[1].msg.kind = "part" => stream'[1].msg.number = 1
  BY <1>1, <1>5, <1>6, <1>7, StreamGrows
<1>9. Len(shapes') <= MaxAnswers
  BY <1>4, <1>5
<1>10. DataTypeOK'
  BY <1>1, <1>2, <1>4, <1>8, <1>9 DEF DataTypeOK
<1>11. Awaited'
  BY <1>1, <1>2, <1>4, <1>5, <1>8, AwaitedGrows
<1>12. FromServer' /\ Delivered'
  BY <1>1, <1>2, <1>5, DeliveredStays
<1>13. QED
  BY <1>8, <1>10, <1>11, <1>12 DEF DataInv

LEMMA ServerSendsData == ASSUME DataInv, ServerSends PROVE DataInv'
<1>1. DataTypeOK /\ InOrder /\ Awaited /\ FromServer /\ Delivered
  BY DEF DataInv
<1>2. PICK x \in {Msg("whole", 0, 1, 0, 0, << >>), Msg("whole", 0, 3, 0, 0, << >>),
                  Msg("classC", 0, 2, 0, 0, <<None>>), Msg("debug", 0, 0, 0, 0, <<None>>),
                  Msg("other", 0, 0, 0, 0, << >>)} : InStream(<<x>>)
  BY DEF ServerSends
<1>3. /\ others < MaxOther /\ others' = others + 1
      /\ UNCHANGED <<piece, store, sumLen, confirmed, out, clean, running, shapes, uplinks>>
  BY DEF ServerSends
<1>4. x \in Message /\ x.kind # "part" /\ (x.kind = "whole" => x.bytes = << >>)
  <2>1. <<None>> \in Seq(Byte) /\ << >> \in Seq(Byte) /\ 0 \in 0..MaxAnswers
    BY DataBounds DEF Byte
  <2>2. CASE x = Msg("whole", 0, 1, 0, 0, << >>)
    BY <2>1, <2>2 DEF Msg, Message
  <2>3. CASE x = Msg("whole", 0, 3, 0, 0, << >>)
    BY <2>1, <2>3 DEF Msg, Message
  <2>4. CASE x = Msg("classC", 0, 2, 0, 0, <<None>>)
    BY <2>1, <2>4 DEF Msg, Message
  <2>5. CASE x = Msg("debug", 0, 0, 0, 0, <<None>>)
    BY <2>1, <2>5 DEF Msg, Message
  <2>6. CASE x = Msg("other", 0, 0, 0, 0, << >>)
    BY <2>1, <2>6 DEF Msg, Message
  <2>7. QED
    BY <1>2, <2>2, <2>3, <2>4, <2>5, <2>6
<1> DEFINE M == <<x>>
<1>5. /\ M \in Seq(Message) /\ Len(M) = 1 /\ M[1] = x
      /\ Genuine(shapes', x) /\ ~Incomplete(x)
  BY <1>4 DEF Genuine, Incomplete
<1>6. InStream(M)
  BY <1>2
<1> HIDE DEF M
<1>7. Chained(M) /\ \A k \in 1..Len(M) : Genuine(shapes', M[k])
  BY <1>4, <1>5 DEF Chained
<1>8. Older /\ piece' = piece /\ shapes' \in Seq(Shape)
  BY <1>1, <1>3 DEF Older, DataTypeOK
<1>9. /\ stream' \in Seq(Cell) /\ piece \in 0..Len(stream') /\ InOrder'
      /\ Len(stream) > 0 => Len(stream') > 0 /\ stream'[1] = stream[1]
      /\ Len(stream) = 0 => /\ Len(stream') > 0 /\ ~stream'[1].end
                            /\ stream'[1].msg.kind = "part" => stream'[1].msg.number = 1
  BY <1>1, <1>5, <1>6, <1>7, <1>8, StreamGrows
<1>10. others' \in 0..MaxOther
  BY <1>1, <1>3, DataBounds DEF DataTypeOK
<1>11. DataTypeOK'
  BY <1>1, <1>3, <1>9, <1>10 DEF DataTypeOK
<1>12. Awaited'
  BY <1>1, <1>3, <1>8, <1>9, AwaitedGrows
<1>13. FromServer' /\ Delivered'
  BY <1>1, <1>3, <1>8, DeliveredStays
<1>14. QED
  BY <1>9, <1>11, <1>12, <1>13 DEF DataInv

LEMMA UplinkPassesData == ASSUME DataInv, UplinkPasses PROVE DataInv'
<1>1. DataTypeOK /\ InOrder /\ Awaited /\ FromServer /\ Delivered
  BY DEF DataInv
<1>2. /\ uplinks < MaxUplinks /\ uplinks' = uplinks + 1
      /\ confirmed' \in Uplinked \/ UNCHANGED confirmed
      /\ UNCHANGED <<stream, piece, store, sumLen, out, clean, running, shapes, others>>
  BY DEF UplinkPasses
<1>3. uplinks' \in 0..MaxUplinks /\ confirmed' \in Nat \X Nat
  BY <1>1, <1>2, DataBounds DEF DataTypeOK
<1>4. DataTypeOK'
  BY <1>1, <1>2, <1>3 DEF DataTypeOK
<1>5. InOrder' /\ Awaited' /\ Older
  BY <1>1, <1>2 DEF InOrder, Awaited, Collected, Older
<1>6. FromServer' /\ Delivered'
  BY <1>1, <1>2, <1>5, DeliveredStays
<1>7. QED
  BY <1>4, <1>5, <1>6 DEF DataInv

LEMMA ReceiveData == ASSUME DataInv, Receive PROVE DataInv'
<1>1. DataTypeOK /\ InOrder /\ Awaited /\ FromServer /\ Delivered
  BY DEF DataInv
<1>2. PICK n \in 1..Len(stream) : stream[n].end /\ piece' = n
  BY DEF Receive
<1>3. UNCHANGED <<stream, store, sumLen, confirmed, out, clean, running, shapes, others, uplinks>>
  BY DEF Receive
<1>4. piece' \in 0..Len(stream) /\ stream[piece'].end
  BY <1>1, <1>2 DEF DataTypeOK
<1>5. DataTypeOK'
  BY <1>1, <1>3, <1>4 DEF DataTypeOK
<1>6. InOrder'
  BY <1>1, <1>3, <1>4 DEF InOrder
<1>7. Awaited' /\ Older
  BY <1>1, <1>3 DEF Awaited, Collected, Older
<1>8. FromServer' /\ Delivered'
  BY <1>1, <1>3, <1>7, DeliveredStays
<1>9. QED
  BY <1>5, <1>6, <1>7, <1>8 DEF DataInv

\* What is dropped before it is handled, with the parts that clean tells of.
LEMMA DropData ==
    ASSUME DataInv, NEW n \in 1..Len(stream),
           stream' = SubSeq(stream, n + 1, Len(stream)),
           (piece = 0 /\ piece' = 0) \/ (n <= piece /\ piece' = piece - n),
           UNCHANGED <<store, sumLen, confirmed, out, running, shapes, others, uplinks>>,
           clean' = (clean /\ \A i \in 1..n : stream[i].msg.kind # "part")
    PROVE  DataInv'
<1>1. DataTypeOK /\ InOrder /\ Awaited /\ FromServer /\ Delivered /\ shapes' = shapes
  BY DEF DataInv
<1>2. stream \in Seq(Cell) /\ Len(stream) \in Nat /\ n \in 0..Len(stream) /\ n \in 1..n
  BY <1>1 DEF DataTypeOK
<1>3. /\ stream' \in Seq(Cell) /\ Len(stream') = Len(stream) - n
      /\ \A i \in 1..Len(stream) - n : stream'[i] = stream[n + i]
      /\ piece' \in 0..Len(stream') /\ InOrder'
  BY <1>1, <1>2, StreamDrops
<1>4. DataTypeOK'
  BY <1>1, <1>3 DEF DataTypeOK
<1>5. ASSUME clean' PROVE sumLen' = 0
  <2>1. 1 \in 1..n /\ n \in 1..n
    BY <1>2
  <2>2. clean /\ stream[1].msg.kind # "part"
    BY <2>1, <1>5
  <2>3. QED
    BY <2>2, <1>1 DEF Awaited
<1>6. ASSUME clean', Len(stream') > 0, stream'[1].msg.kind = "part"
      PROVE  ~stream'[1].end /\ stream'[1].msg.number = 1
  <2>0. n \in 1..Len(stream) - 1 /\ 1 \in 1..Len(stream) - n
    BY <1>2, <1>3, <1>6
  <2>1. stream'[1] = stream[n + 1] /\ stream[n].msg.kind # "part"
    BY <2>0, <1>2, <1>3, <1>6
  <2>2. stream[n].end
    <3>1. ~stream[n].end => stream[n + 1] = [msg |-> stream[n].msg, end |-> TRUE]
      BY <1>1 DEF InOrder
    <3>2. QED
      BY <3>1, <2>1, <1>6
  <2>3. ~stream[n + 1].end /\ Follows(stream[n].msg, stream[n + 1].msg)
    BY <2>0, <2>2, <1>1 DEF InOrder
  <2>4. QED
    BY <2>1, <2>3, <1>6 DEF Follows, Incomplete
<1>7. Awaited'
  BY <1>1, <1>3, <1>5, <1>6, AwaitsFirst DEF DataTypeOK
<1>8. FromServer' /\ Delivered'
  BY <1>1, DeliveredStays DEF Older, DataTypeOK
<1>9. QED
  BY <1>3, <1>4, <1>7, <1>8 DEF DataInv

LEMMA RecvDataErrorData == ASSUME DataInv, RecvDataError PROVE DataInv'
<1>1. PICK n \in 1..Len(stream) :
        /\ stream' = SubSeq(stream, n + 1, Len(stream))
        /\ clean' = (clean /\ \A i \in 1..n : stream[i].msg.kind # "part")
  BY DEF RecvDataError
<1>2. /\ piece = 0 /\ piece' = 0
      /\ UNCHANGED <<store, sumLen, confirmed, out, running, shapes, others, uplinks>>
  BY DEF RecvDataError
<1>3. QED
  BY <1>1, <1>2, DropData

LEMMA MicErrorData == ASSUME DataInv, MicError PROVE DataInv'
<1>1. piece \in 0..Len(stream) /\ Len(stream) \in Nat /\ piece > 0
  BY DEF DataInv, DataTypeOK, MicError
<1>2. /\ stream' = SubSeq(stream, 1 + 1, Len(stream)) /\ piece' = piece - 1
      /\ clean' = (clean /\ stream[1].msg.kind # "part")
      /\ UNCHANGED <<store, sumLen, confirmed, out, running, shapes, others, uplinks>>
  BY DEF MicError, HeadMoves, m
<1>3. 1 \in 1..Len(stream) /\ 1 <= piece
  BY <1>1
<1>4. clean' = (clean /\ \A i \in 1..1 : stream[i].msg.kind # "part")
  BY <1>2
<1>5. QED
  BY <1>2, <1>3, <1>4, DropData

\* A message that is no part leaves the buffer.
LEMMA NoPart ==
    ASSUME DataInv, NEW kind, kind # "part", Handle_Message_Type(kind),
           UNCHANGED <<store, sumLen, confirmed, clean, shapes, others, uplinks>>,
           running' \in BOOLEAN, out' \in Seq(Record), FromServer', Delivered'
    PROVE  DataInv'
<1>1. DataTypeOK /\ InOrder /\ Awaited
  BY DEF DataInv
<1>2. /\ stream' \in Seq(Cell) /\ piece' \in 0..Len(stream') /\ InOrder'
      /\ Len(stream) > 0 /\ m.kind = kind
      /\ Len(stream') > 0 => ~stream'[1].end /\ Follows(m, stream'[1].msg)
  BY <1>1, Handled
<1>3. DataTypeOK'
  BY <1>1, <1>2 DEF DataTypeOK
<1>4. clean => sumLen = 0
  BY <1>1, <1>2 DEF Awaited, m
<1>5. Len(stream') > 0 => (stream'[1].msg.kind = "part" => stream'[1].msg.number = 1)
  BY <1>2 DEF Follows, Incomplete
<1>6. Awaited'
  BY <1>2, <1>3, <1>4, <1>5, AwaitsFirst DEF DataTypeOK
<1>7. QED
  BY <1>2, <1>3, <1>6 DEF DataInv

LEMMA ClassCData == ASSUME DataInv, ClassC PROVE DataInv'
<1>1. DataTypeOK /\ InOrder /\ FromServer /\ Delivered
  BY DEF DataInv
<1> DEFINE sent == [port |-> 5558, ans |-> 0, packets |-> <<m.bytes>>, max |-> 0, fit |-> "no"]
<1>2. /\ Handle_Message_Type("classC") /\ out' = Append(out, sent)
      /\ UNCHANGED <<store, sumLen, confirmed, clean, shapes, others, uplinks>>
  BY DEF ClassC, Passes
<1>3. m \in Message
  BY <1>1, <1>2, Handled
<1>4. sent \in Record /\ sent.port # 5557
  <2>1. <<m.bytes>> \in Seq(Seq(Byte)) /\ 0 \in 0..MaxAnswers
    BY <1>3, DataBounds DEF Message
  <2>2. QED
    BY <2>1 DEF Record
<1> HIDE DEF sent
<1>5. out' \in Seq(Record) /\ FromServer' /\ Delivered'
  BY <1>1, <1>2, <1>4, DeliveredPasses
<1>6. running' \in BOOLEAN
  BY <1>1 DEF ClassC, Passes, DataTypeOK
<1>7. QED
  BY <1>2, <1>5, <1>6, NoPart

LEMMA DebugData == ASSUME DataInv, Debug PROVE DataInv'
<1>1. DataTypeOK /\ InOrder /\ FromServer /\ Delivered
  BY DEF DataInv
<1>2. /\ Handle_Message_Type("debug")
      /\ UNCHANGED <<store, sumLen, confirmed, clean, shapes, others, uplinks>>
  BY DEF Debug
<1>3. PICK hole \in {0, 1} :
        Passes(5560, 0, <<[i \in 1..hole |-> None] \o m.bytes>>, 0, "no")
  BY DEF Debug
<1>4. m \in Message
  BY <1>1, <1>2, Handled
<1> DEFINE gap == [i \in 1..hole |-> None]
           data == gap \o m.bytes
           sent == [port |-> 5560, ans |-> 0, packets |-> <<data>>, max |-> 0, fit |-> "no"]
<1>5. gap \in Seq(Byte)
  <2>1. hole \in Nat /\ None \in Byte
    BY DEF Byte
  <2>2. QED
    BY <2>1
<1>6. data \in Seq(Byte)
  <2>1. m.bytes \in Seq(Byte)
    BY <1>4 DEF Message
  <2> HIDE DEF gap
  <2>2. QED
    BY <2>1, <1>5, Joined
<1>7. out' = Append(out, sent) /\ running' \in BOOLEAN
  BY <1>1, <1>3 DEF Passes, DataTypeOK
<1> HIDE DEF data
<1>8. sent \in Record /\ sent.port # 5557
  <2>1. <<data>> \in Seq(Seq(Byte)) /\ 0 \in 0..MaxAnswers
    BY <1>6, DataBounds
  <2>2. QED
    BY <2>1 DEF Record
<1> HIDE DEF sent
<1>9. out' \in Seq(Record) /\ FromServer' /\ Delivered'
  BY <1>1, <1>2, <1>7, <1>8, DeliveredPasses
<1>10. QED
  BY <1>2, <1>7, <1>9, NoPart

LEMMA UnhandledData == ASSUME DataInv, Unhandled PROVE DataInv'
<1>1. DataTypeOK /\ InOrder /\ FromServer /\ Delivered
  BY DEF DataInv
<1>2. /\ Handle_Message_Type("other")
      /\ UNCHANGED <<store, sumLen, confirmed, out, clean, running, shapes, others, uplinks>>
  BY DEF Unhandled
<1>3. FromServer' /\ Delivered' /\ out' \in Seq(Record) /\ running' \in BOOLEAN
  BY <1>1, <1>2, DeliveredStays DEF Older, DataTypeOK
<1>4. QED
  BY <1>2, <1>3, NoPart

\* An answer the server sent as a whole, within a frame, is the one packet.
LEMMA WholeIsAnswer ==
    ASSUME m.bytes # << >>, m.kind = "whole", Genuine(shapes, m), m.bytes \in Seq(Byte),
           shapes[m.ans][1] \in Nat, NEW max \in Int
    PROVE  IsAnswer(<<m.bytes>>, max, m.ans)
<1> DEFINE b == m.bytes
           P == <<b>>
<1>1. b \in Seq(Byte) /\ Len(b) = shapes[m.ans][1] /\ \A i \in 1..Len(b) : b[i] = <<m.ans, i>>
  BY DEF Genuine
<1>2. Len(P) = 1 /\ DOMAIN P = {1} /\ P[1] = b /\ 1 - 1 = 0 /\ 0 * max = 0
  OBVIOUS
<1> HIDE DEF b, P
<1>3. \A j \in DOMAIN P : \A i \in DOMAIN P[j] : P[j][i] = <<m.ans, (j - 1) * max + i>>
  <2> SUFFICES ASSUME NEW i \in DOMAIN b PROVE b[i] = <<m.ans, (1 - 1) * max + i>>
    BY <1>2
  <2>1. i \in 1..Len(b) /\ Len(b) \in Nat
    BY <1>1
  <2>2. (1 - 1) * max + i = i
    BY <2>1, <1>2
  <2>3. QED
    BY <2>1, <2>2, <1>1
<1>4. (Len(P) - 1) * max + Len(P[Len(P)]) = shapes[m.ans][1]
  BY <1>1, <1>2
<1>5. \A j \in 1..Len(P) - 1 : Len(P[j]) = max
  BY <1>2
<1>6. QED
  BY <1>3, <1>4, <1>5 DEF IsAnswer, P, b

\* Whatever the limit is: the packets made of b are right, or the process ends.
LEMMA CutsRight ==
    ASSUME DataTypeOK, FromServer, Delivered, shapes' = shapes, m.ans \in 0..MaxAnswers,
           NEW b \in Seq(Byte), NEW max \in Int, Len(b) > max,
           NEW fit \in {"yes", "no"}, Cuts(b, max, fit),
           fit = "yes" => /\ max > 0 /\ m.ans \in 1..Len(shapes) /\ Len(b) = shapes[m.ans][1]
                          /\ \A i \in 1..Len(b) : b[i] = <<m.ans, i>>
    PROVE  running' \in BOOLEAN /\ out' \in Seq(Record) /\ FromServer' /\ Delivered'
<1> DEFINE P == Packets(b, max)
           sent == [port |-> 5557, ans |-> m.ans, packets |-> P, max |-> max, fit |-> fit]
<1>1. CASE Crashes(Len(b), max)
  <2>1. running' = FALSE /\ out' = out
    BY <1>1 DEF Cuts
  <2>2. QED
    BY <2>1, DeliveredStays DEF Older, DataTypeOK
<1>2. CASE ~Crashes(Len(b), max)
  <2>1. out' = Append(out, sent) /\ running' = running
    BY <1>2 DEF Cuts, Passes
  <2>2. CASE max > 0
    <3>1. P = Pieces(b, max) /\ max \in Nat /\ Len(b) > 0
      BY <2>2 DEF Packets
    <3>2. P \in Seq(Seq(Byte)) /\ Cut(P, b, max)
      BY <2>2, <3>1, PiecesCut
    <3>3. fit = "yes" => IsAnswer(P, max, m.ans)
      BY <2>2, <3>1, CutIsAnswer
    <3> HIDE DEF P
    <3>4. \A j \in DOMAIN P : Len(P[j]) <= max
      <4>1. DOMAIN P = 1..Len(P)
        BY <3>2
      <4>2. QED
        BY <4>1, <3>2 DEF Cut
    <3>5. /\ sent \in Record /\ sent.packets = P /\ sent.max = max /\ sent.ans = m.ans
          /\ sent.fit = fit
      BY <3>2 DEF Record
    <3> HIDE DEF sent
    <3>6. Right(sent)
      BY <3>3, <3>4, <3>5 DEF Right
    <3>7. QED
      BY <2>1, <3>5, <3>6, DeliveredPasses DEF DataTypeOK
  <2>3. CASE ~(max > 0)
    <3>1. P = <<b>> \/ P = << >>
      BY <2>3 DEF Packets
    <3> HIDE DEF P
    <3>2. P \in Seq(Seq(Byte))
      <4>1. <<b>> \in Seq(Seq(Byte)) /\ << >> \in Seq(Seq(Byte))
        OBVIOUS
      <4>2. QED
        BY <3>1, <4>1, Zenon
    <3>3. sent \in Record /\ sent.max = max /\ sent.fit = "no"
      BY <2>3, <3>2 DEF Record
    <3> HIDE DEF sent
    <3>4. Right(sent)
      BY <2>3, <3>3 DEF Right
    <3>5. QED
      BY <2>1, <3>3, <3>4, DeliveredPasses DEF DataTypeOK
  <2>4. QED
    BY <2>2, <2>3
<1>3. QED
  BY <1>1, <1>2

LEMMA WholeData == ASSUME DataInv, Whole PROVE DataInv'
<1>1. DataTypeOK /\ InOrder /\ FromServer /\ Delivered
  BY DEF DataInv
<1>2. /\ Handle_Message_Type("whole")
      /\ UNCHANGED <<store, sumLen, confirmed, clean, shapes, others, uplinks>>
  BY DEF Whole
<1>3. PICK max \in MaxPayloads :
        IF Len(m.bytes) > max
          THEN Cuts(FromByte30, max, "no")
          ELSE IF m.type \in {2, 3} /\ m.bytes # << >>
                 THEN Passes(5557, m.ans, <<m.bytes>>, max, "yes")
                 ELSE UNCHANGED <<out, running>>
  BY DEF Whole
<1>4. m \in Message /\ m.kind = "whole" /\ Genuine(shapes, m)
  BY <1>1, <1>2, Handled
<1>5. /\ max \in Int /\ m.bytes \in Seq(Byte) /\ Len(m.bytes) \in Nat
      /\ m.ans \in 0..MaxAnswers
  BY <1>1, <1>4, MaxPayloadsAreIntegers DEF Message
<1>6. CASE Len(m.bytes) > max
  <2> DEFINE b == FromByte30
  <2>1. b \in Seq(Byte) /\ Len(b) = Len(m.bytes)
    <3>1. \A i \in 1..Len(m.bytes) :
            (IF i + 4 <= Len(m.bytes) THEN m.bytes[i + 4] ELSE None) \in Byte
      BY <1>5 DEF Byte
    <3>2. b \in [1..Len(m.bytes) -> Byte]
      BY <3>1 DEF FromByte30
    <3> HIDE DEF b
    <3>3. QED
      BY <3>2, <1>5
  <2>2. Cuts(b, max, "no")
    BY <1>3, <1>6
  <2> HIDE DEF b
  <2>3. running' \in BOOLEAN /\ out' \in Seq(Record) /\ FromServer' /\ Delivered'
    BY <1>1, <1>2, <1>5, <1>6, <2>1, <2>2, CutsRight
  <2>4. QED
    BY <1>2, <2>3, NoPart
<1>7. CASE ~(Len(m.bytes) > max) /\ m.type \in {2, 3} /\ m.bytes # << >>
  <2> DEFINE P == <<m.bytes>>
             sent == [port |-> 5557, ans |-> m.ans, packets |-> P, max |-> max, fit |-> "yes"]
  <2>1. out' = Append(out, sent) /\ running' \in BOOLEAN
    BY <1>1, <1>3, <1>7 DEF Passes, DataTypeOK
  <2>2. m.ans \in 1..Len(shapes) /\ shapes[m.ans][1] \in Nat
    <3>1. m.ans \in 1..Len(shapes) /\ shapes \in Seq(Shape)
      BY <1>1, <1>4, <1>7 DEF Genuine, DataTypeOK
    <3>2. QED
      BY <3>1, DataBounds
  <2>3. IsAnswer(P, max, m.ans)
    BY <1>4, <1>5, <1>7, <2>2, WholeIsAnswer, SMTT(30)
  <2>4. P \in Seq(Seq(Byte)) /\ \A j \in DOMAIN P : Len(P[j]) <= max
    BY <1>5, <1>7
  <2> HIDE DEF P
  <2>5. sent \in Record /\ sent.packets = P /\ sent.max = max /\ sent.ans = m.ans /\ sent.fit = "yes"
    BY <2>4, <1>5 DEF Record
  <2> HIDE DEF sent
  <2>6. out' \in Seq(Record) /\ FromServer' /\ Delivered'
    BY <1>1, <1>2, <2>1, <2>2, <2>3, <2>4, <2>5, DeliveredPasses DEF Right
  <2>7. QED
    BY <1>2, <2>1, <2>6, NoPart
<1>8. CASE ~(Len(m.bytes) > max) /\ ~(m.type \in {2, 3} /\ m.bytes # << >>)
  <2>1. out' = out /\ running' \in BOOLEAN
    BY <1>1, <1>3, <1>8 DEF DataTypeOK
  <2>2. FromServer' /\ Delivered' /\ out' \in Seq(Record)
    BY <1>1, <1>2, <2>1, DeliveredStays DEF Older, DataTypeOK
  <2>3. QED
    BY <1>2, <2>1, <2>2, NoPart
<1>9. QED
  BY <1>6, <1>7, <1>8

\* What is collected before a part, if nothing was dropped.
LEMMA CollectedSoFar ==
    ASSUME DataTypeOK, Awaited, clean, Len(stream) > 0, m.kind = "part"
    PROVE  Collected(m.number - 1, m.ans)
BY DEF Awaited, m

LEMMA PartData == ASSUME DataInv, Part PROVE DataInv'
<1> DEFINE a == m.ans
           k == m.number
           p == shapes[a][2]
<1>1. DataTypeOK /\ InOrder /\ Awaited /\ FromServer /\ Delivered
  BY DEF DataInv
<1>2. /\ Handle_Message_Type("part") /\ m.number # m.sum /\ store' = Copied /\ sumLen' = Total
      /\ UNCHANGED <<confirmed, out, clean, running, shapes, others, uplinks>>
  BY DEF Part
<1>3. /\ stream' \in Seq(Cell) /\ piece' \in 0..Len(stream') /\ InOrder'
      /\ Len(stream) > 0 /\ m.kind = "part" /\ m \in Message /\ Genuine(shapes, m)
      /\ Len(stream') > 0 => ~stream'[1].end /\ Follows(m, stream'[1].msg)
      /\ Incomplete(m) => Len(stream') > 0
  BY <1>1, <1>2, Handled
<1>4. /\ a \in 1..Len(shapes) /\ k \in Nat /\ k > 0 /\ p \in Nat /\ Len(m.bytes) \in Nat
      /\ Offset \in Nat /\ Total \in 0..LenMod - 1 /\ Copied \in [1..Size -> Byte]
  BY <1>1, <1>3, PartTypes
<1>5. DataTypeOK'
  BY <1>1, <1>2, <1>3, <1>4 DEF DataTypeOK
<1>6. /\ Len(stream') > 0 /\ ~stream'[1].end
      /\ stream'[1].msg.kind = "part" /\ stream'[1].msg.ans = a /\ stream'[1].msg.number = k + 1
  BY <1>2, <1>3 DEF Incomplete, Follows
<1>7. ASSUME clean, shapes[a][1] <= Size
      PROVE  sumLen' = k * p /\ \A i \in 1..Size : i <= k * p => store'[i] = <<a, i>>
  <2>1. Len(m.bytes) = p
    BY <1>2, <1>3 DEF Genuine
  <2>2. InPlace
    BY <2>1 DEF InPlace, Offset
  <2> DEFINE e == Offset + Len(m.bytes)
  <2>3. /\ Total = e /\ \A i \in 1..e : Copied[i] = <<a, i>>
    BY <1>1, <1>3, <1>7, <2>2, CollectedSoFar, PartContinues
  <2>4. e = k * p /\ e \in Nat
    <3>1. Offset = (k - 1) * p
      BY <2>2 DEF InPlace
    <3>2. k * p = (k - 1) * p + p /\ k * p \in Nat
      BY <1>4, Times
    <3>3. QED
      BY <3>1, <3>2, <2>1
  <2> HIDE DEF e
  <2>5. \A i \in 1..Size : i <= e => i \in 1..e
    BY <2>4, DataBounds
  <2>6. QED
    BY <1>2, <2>3, <2>4, <2>5
<1>8. Awaited'
  <2>1. k \in Nat
    BY <1>4
  <2>2. clean' /\ shapes'[a][1] <= Size =>
          sumLen' = k * shapes'[a][2] /\ \A i \in 1..Size : i <= k * shapes'[a][2] => store'[i] = <<a, i>>
    BY <1>2, <1>7
  <2> HIDE DEF a, k
  <2>3. clean' => Collected(stream[1].msg.number - 1, stream[1].msg.ans)'
    <3> DEFINE x == stream'[1].msg
    <3>1. x.ans = a /\ x.number - 1 = k
      <4>1. x.ans = a /\ x.number = k + 1
        BY <1>6
      <4>2. QED
        BY <4>1, <2>1
    <3> HIDE DEF x
    <3>2. clean' /\ shapes'[x.ans][1] <= Size =>
            /\ sumLen' = (x.number - 1) * shapes'[x.ans][2]
            /\ \A i \in 1..Size : i <= (x.number - 1) * shapes'[x.ans][2] => store'[i] = <<x.ans, i>>
      BY <2>2, <3>1
    <3>3. QED
      BY <3>2 DEF Collected, x
  <2>4. QED
    BY <1>6, <2>3 DEF Awaited
<1>9. FromServer' /\ Delivered'
  BY <1>1, <1>2, DeliveredStays DEF Older, DataTypeOK
<1>10. QED
  BY <1>3, <1>5, <1>8, <1>9 DEF DataInv

\* If all parts are there and have the same length, the first sum_len bytes of
\* ServerAckData are the answer.
LEMMA CompleteIsAnswer ==
    ASSUME DataTypeOK, Awaited, Len(stream) > 0, m \in Message, m.kind = "part",
           Genuine(shapes, m), m.number = m.sum, Complete
    PROVE  /\ Total = shapes[m.ans][1]
           /\ \A i \in 1..Total : FirstBytes(Total)[i] = <<m.ans, i>>
<1> DEFINE a == m.ans
           k == m.number
           p == shapes[a][2]
           l == Len(m.bytes)
           whole == shapes[a][1]
<1>1. k \in Nat /\ k > 0 /\ p \in Nat /\ l \in Nat /\ whole \in Nat
  BY PartTypes
<1>2. k * l = whole /\ whole <= Size /\ clean
  BY DEF Complete
<1>3. (k - 1) * p + l = whole
  BY DEF Genuine
<1>4. (k - 1) * l \in Nat /\ (k - 1) * p \in Nat /\ k * l = (k - 1) * l + l
  BY <1>1, Times
<1>5. (k - 1) * l = (k - 1) * p
  BY <1>1, <1>2, <1>3, <1>4
<1>6. InPlace /\ Offset = (k - 1) * l
  BY <1>5 DEF InPlace, Offset
<1>7. Offset + l = whole
  BY <1>1, <1>2, <1>4, <1>6
<1>8. Total = whole /\ \A i \in 1..whole : i \in 1..Size /\ Copied[i] = <<a, i>>
  BY <1>2, <1>6, <1>7, CollectedSoFar, PartContinues
<1> HIDE DEF a, whole
<1>9. ASSUME NEW i \in 1..Total PROVE FirstBytes(Total)[i] = <<a, i>>
  <2>1. i \in 1..whole /\ Copied[i] = <<a, i>> /\ i <= Size
    BY <1>8, DataBounds
  <2>2. FirstBytes(Total)[i] = Copied[i]
    BY <2>1 DEF FirstBytes
  <2>3. QED
    BY <2>1, <2>2
<1>10. QED
  BY <1>8, <1>9 DEF a, whole

\* The last part ends where the answer does.
LEMMA LastIsEnd ==
    ASSUME DataTypeOK, m \in Message, m.kind = "part", Genuine(shapes, m), m.number = m.sum
    PROVE  IsEnd(<<m.bytes>>, m.ans)
<1> DEFINE before == (m.number - 1) * shapes[m.ans][2]
           P == <<m.bytes>>
<1>1. Len(m.bytes) \in Nat /\ shapes[m.ans][1] \in Nat /\ before \in Nat
  BY PartTypes, Times
<1>2. before + Len(m.bytes) = shapes[m.ans][1]
  BY DEF Genuine
<1>3. \A i \in 1..Len(m.bytes) : m.bytes[i] = <<m.ans, before + i>>
  BY DEF Genuine
<1> HIDE DEF before
<1>4. before = shapes[m.ans][1] - Len(m.bytes)
  BY <1>1, <1>2
<1>5. DOMAIN m.bytes = 1..Len(m.bytes)
  BY PartTypes
<1>6. Len(P) = 1 /\ P[1] = m.bytes
  OBVIOUS
<1> HIDE DEF P
<1>7. IsEnd(P, m.ans)
  BY <1>3, <1>4, <1>5, <1>6 DEF IsEnd
<1>8. QED
  BY <1>7 DEF P

LEMMA LastPartData == ASSUME DataInv, LastPart PROVE DataInv'
<1>1. DataTypeOK /\ InOrder /\ Awaited /\ FromServer /\ Delivered
  BY DEF DataInv
<1>2. /\ Handle_Message_Type("part") /\ m.number = m.sum
      /\ store' = Empty /\ sumLen' = 0 /\ clean' = TRUE
      /\ UNCHANGED <<confirmed, shapes, others, uplinks>>
  BY DEF LastPart
<1>3. PICK max \in MaxPayloads :
        IF Total > max
          THEN Cuts(FirstBytes(Total), max, IF Complete /\ max > 0 THEN "yes" ELSE "no")
          ELSE Passes(5557, m.ans, <<m.bytes>>, max, IF Overflows THEN "over" ELSE "last")
  BY DEF LastPart
<1>4. /\ stream' \in Seq(Cell) /\ piece' \in 0..Len(stream') /\ InOrder'
      /\ Len(stream) > 0 /\ m.kind = "part" /\ m \in Message /\ Genuine(shapes, m)
      /\ Len(stream') > 0 => ~stream'[1].end /\ Follows(m, stream'[1].msg)
  BY <1>1, <1>2, Handled
<1>5. /\ m.ans \in 1..Len(shapes) /\ m.ans \in 0..MaxAnswers /\ m.bytes \in Seq(Byte)
      /\ Len(m.bytes) \in Nat /\ Total \in Nat /\ Copied \in [1..Size -> Byte]
  BY <1>1, <1>4, PartTypes, DataBounds, SMTT(30)
<1>6. max \in Int
  BY <1>1, MaxPayloadsAreIntegers
<1>7. running' \in BOOLEAN /\ out' \in Seq(Record) /\ FromServer' /\ Delivered'
  <2>1. CASE Total > max
    <3> DEFINE b == FirstBytes(Total)
               fit == IF Complete /\ max > 0 THEN "yes" ELSE "no"
    <3>1. Cuts(b, max, fit)
      BY <1>3, <2>1
    <3>2. b \in Seq(Byte) /\ Len(b) = Total
      <4>1. \A i \in 1..Total : (IF i <= Size THEN Copied[i] ELSE None) \in Byte
        BY <1>5, DataBounds DEF Byte
      <4>2. b \in [1..Total -> Byte]
        BY <4>1 DEF FirstBytes
      <4> HIDE DEF b
      <4>3. QED
        BY <4>2, <1>5
    <3>3. Complete => Total = shapes[m.ans][1] /\ \A i \in 1..Total : b[i] = <<m.ans, i>>
      BY <1>1, <1>2, <1>4, CompleteIsAnswer
    <3> HIDE DEF b
    <3>4. fit \in {"yes", "no"} /\ (fit = "yes" => Complete /\ max > 0)
      OBVIOUS
    <3> HIDE DEF fit
    <3>5. QED
      BY <3>1, <3>2, <3>3, <3>4, <2>1, <1>1, <1>2, <1>5, <1>6, CutsRight
  <2>2. CASE ~(Total > max)
    <3> DEFINE P == <<m.bytes>>
               sent == [port |-> 5557, ans |-> m.ans, packets |-> P, max |-> max,
                        fit |-> IF Overflows THEN "over" ELSE "last"]
    <3>1. out' = Append(out, sent) /\ running' = running
      BY <1>3, <2>2 DEF Passes
    <3>2. P \in Seq(Seq(Byte)) /\ DOMAIN P = {1} /\ P[1] = m.bytes
      BY <1>5
    <3>3. IsEnd(P, m.ans)
      BY <1>1, <1>2, <1>4, LastIsEnd
    <3> HIDE DEF P
    <3>4. ~Overflows => Len(m.bytes) <= max
      <4>1. sumLen \in Nat /\ LenMod \in Nat
        BY <1>1, DataBounds DEF DataTypeOK
      <4>2. ~Overflows => Total = sumLen + Len(m.bytes)
        <5>1. sumLen + Len(m.bytes) \in Nat
          BY <4>1, <1>5
        <5>2. ~Overflows => sumLen + Len(m.bytes) < LenMod
          BY <4>1, <5>1 DEF Overflows
        <5>3. QED
          BY <4>1, <5>1, <5>2, NoWrap DEF Total
      <4>3. QED
        BY <4>1, <4>2, <2>2, <1>5, <1>6
    <3>5. /\ sent \in Record /\ sent.packets = P /\ sent.max = max /\ sent.fit # "yes"
          /\ sent.ans = m.ans
          /\ sent.fit # "over" => ~Overflows
      BY <3>2, <1>5, <1>6 DEF Record
    <3> HIDE DEF sent
    <3>6. Right(sent)
      BY <3>2, <3>3, <3>4, <3>5, <1>5 DEF Right
    <3>7. QED
      BY <3>1, <3>5, <3>6, <1>1, <1>2, DeliveredPasses DEF DataTypeOK
  <2>3. QED
    BY <2>1, <2>2
<1>8. DataTypeOK'
  <2>1. Empty \in [1..Size -> Byte] /\ 0 \in 0..LenMod - 1
    BY DataBounds DEF Empty, Byte
  <2>2. QED
    BY <1>1, <1>2, <1>4, <1>7, <2>1 DEF DataTypeOK
<1>9. Len(stream') > 0 => (stream'[1].msg.kind = "part" => stream'[1].msg.number = 1)
  BY <1>2, <1>4 DEF Follows, Incomplete
<1>10. Awaited'
  BY <1>2, <1>4, <1>8, <1>9, AwaitsFirst DEF DataTypeOK
<1>11. QED
  BY <1>4, <1>7, <1>8, <1>10 DEF DataInv

LEMMA NextData == DataInv /\ [DataNext]_dataVars => DataInv'
<1> SUFFICES ASSUME DataInv, [DataNext]_dataVars PROVE DataInv'
  OBVIOUS
<1>1. CASE ServerAnswers
  BY <1>1, ServerAnswersData
<1>2. CASE ServerSends
  BY <1>2, ServerSendsData
<1>3. CASE UplinkPasses
  BY <1>3, UplinkPassesData
<1>4. CASE Receive
  BY <1>4, ReceiveData
<1>5. CASE RecvDataError
  BY <1>5, RecvDataErrorData
<1>6. CASE MicError
  BY <1>6, MicErrorData
<1>7. CASE Whole
  BY <1>7, WholeData
<1>8. CASE Part
  BY <1>8, PartData
<1>9. CASE LastPart
  BY <1>9, LastPartData
<1>10. CASE ClassC
  BY <1>10, ClassCData
<1>11. CASE Debug
  BY <1>11, DebugData
<1>12. CASE Unhandled
  BY <1>12, UnhandledData
<1>13. CASE UNCHANGED dataVars
  <2>1. DataTypeOK' /\ InOrder' /\ Awaited'
    BY <1>13 DEF dataVars, DataInv, DataTypeOK, InOrder, Awaited, Collected
  <2>2. FromServer' /\ Delivered'
    BY <1>13, DeliveredStays DEF dataVars, DataInv, Older, DataTypeOK
  <2>3. QED
    BY <2>1, <2>2 DEF DataInv
<1>14. QED
  BY <1>1, <1>2, <1>3, <1>4, <1>5, <1>6, <1>7, <1>8, <1>9, <1>10, <1>11, <1>12, <1>13
     DEF DataNext

LEMMA DataSafe == DataSpec => []DataInv
BY InitData, NextData, PTL DEF DataSpec

\* The type invariant: among others, head never passes what was received.
THEOREM DataTypeCorrect == DataSpec => []DataTypeOK
<1>1. DataInv => DataTypeOK
  BY DEF DataInv
<1>2. QED
  BY <1>1, DataSafe, PTL

\* In however many pieces the stream comes and whatever is lost or handled
\* before: an answer sent whole and within a frame, or in parts of one length
\* that all arrived, fit ServerAckData and are longer than a frame, is passed on
\* with each of its bytes once and in order; of one whose parts are within a
\* frame the end is; and no packet exceeds the maxpayload unless sum_len
\* overflowed or maxpayload was never assigned and is not positive.
THEOREM AnswersDelivered == DataSpec => []Delivered
<1>1. DataInv => Delivered
  BY DEF DataInv
<1>2. QED
  BY <1>1, DataSafe, PTL
=============================================================================
