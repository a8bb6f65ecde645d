--------------------------- MODULE JoinFlowProofs ---------------------------
(***************************************************************************)
(* Theorems about JoinFlow, for any nodes, capacity, address space, abort  *)
(* limit and bounds: types, no lost wakeup, one answer per request,        *)
(* distinct addresses, and a table that agrees with the accepts.           *)
(***************************************************************************)
EXTENDS JoinFlow, TLAPS

\* Lost, posted and about to be posted tokens are not more than the requests.
TokenBound == lost + tokens + (IF mpc = "idle" THEN 0 ELSE 1) <= Len(owner)

CurIsRequest == spc # "wait" => cur \in Req

TypeInv == TypeOK /\ TokenBound /\ CurIsRequest

USE DEF Req, Addr

-----------------------------------------------------------------------------
LEMMA Sizes ==
    /\ MAXQUEUE \in Nat /\ MAXQUEUE > 0 /\ MaxReq \in Nat /\ MaxAddr \in Nat
    /\ MaxAddr > 0 /\ AbortLimit \in Nat /\ AbortLimit > 0
    /\ MaxUplinks \in Nat /\ MaxEdits \in Nat /\ AbpAddr \subseteq 1..MaxAddr
BY JoinFlowAssumption DEF JoinFlowAssumption

LEMMA KeysTypes ==
    /\ OldKeys \in Keys
    /\ \A r \in 0..MaxReq : KeysOf(r) \in Keys
    /\ \A k \in Keys : [k EXCEPT !.by = "data"] \in Keys
BY Sizes DEF Keys, KeysOf, OldKeys

LEMMA HeadType ==
    ASSUME NEW S, NEW s \in Seq(S), s # << >>
    PROVE  Head(s) \in S /\ Head(s) = s[1] /\ Len(s) > 0
OBVIOUS

LEMMA ElementType ==
    ASSUME NEW S, NEW s \in Seq(S)
    PROVE  \A i \in 1..Len(s) : s[i] \in S
OBVIOUS

\* DeQueue keeps the type of the queue and never makes it longer.
LEMMA DeQueueType ==
    ASSUME line \in Seq(Req), DeQueue
    PROVE  /\ line' \in Seq(Req)
           /\ Len(line') \in Nat /\ Len(line) \in Nat
           /\ Len(line') = IF Len(line) = 0 THEN 0 ELSE Len(line) - 1
           /\ \A i \in 1..Len(line') : i + 1 \in 1..Len(line) /\ line'[i] = line[i+1]
<1>1. CASE line = << >>
  <2>1. line' = << >>
    BY <1>1 DEF DeQueue
  <2>2. Len(line) = 0 /\ Len(line') = 0
    BY <1>1, <2>1
  <2>3. QED
    BY <2>1, <2>2
<1>2. CASE line # << >>
  <2>1. line' = Tail(line)
    BY <1>2 DEF DeQueue
  <2>2. QED
    BY <1>2, <2>1
<1>3. QED
  BY <1>1, <1>2

LEMMA InitType == Init => TypeInv
<1> SUFFICES ASSUME Init PROVE TypeInv
  OBVIOUS
<1>1. /\ mpc \in {"idle", "queue", "post"}
      /\ spc \in {"wait", "front", "alloc", "keys", "update", "send", "tx", "final"}
  BY DEF Init
<1>2. /\ owner \in Seq(Node) /\ Len(owner) = 0
      /\ line \in Seq(Req) /\ Len(line) = 0
  BY DEF Init
<1>3. /\ tokens \in 0..MaxReq /\ cur \in 0..MaxReq /\ skeys \in Keys
      /\ Len(owner) \in 0..MaxReq /\ Len(line) <= MAXQUEUE
      /\ addr \in Addr /\ counter \in Addr
      /\ polls \in 0..AbortLimit /\ apolls \in 0..AbortLimit+1
      /\ uplinks \in 0..MaxUplinks /\ edits \in 0..MaxEdits
  BY <1>2, Sizes, KeysTypes DEF Init
<1>9. /\ unsaved \in BOOLEAN /\ abp \subseteq Addr /\ adding \in Addr
      /\ lost \in 0..MaxReq /\ refused \subseteq Req /\ overlooked \subseteq Addr
  <2>1. AbpAddr \subseteq Addr
    BY Sizes
  <2>2. 0 \in Addr /\ 0 \in 0..MaxReq
    BY Sizes
  <2>3. QED
    BY <2>1, <2>2 DEF Init
<1>4. tbl \in [Node -> Row] /\ sent \subseteq Req
  <2>1. tbl \in [Node -> [present : {TRUE}, addr : Addr, key : {OldKeys}]]
    BY DEF Init
  <2>2. [present : {TRUE}, addr : Addr, key : {OldKeys}] \subseteq Row
    <3>1. {OldKeys} \subseteq Keys /\ {TRUE} \subseteq BOOLEAN
      BY KeysTypes
    <3>2. QED
      BY <3>1 DEF Row
  <2>3. QED
    BY <2>1, <2>2 DEF Init
<1>5. radio \in Packet
  BY Sizes DEF Init, Free, Packet
<1>6. pend \in [Node -> 0..MaxReq] /\ dev \in [Node -> Session]
  <2>1. pend \in [Node -> 0..MaxReq]
    BY Sizes DEF Init
  <2>2. \A n \in Node : [addr |-> tbl[n].addr, key |-> 0] \in Session
    BY <1>4, Sizes DEF Session, Row
  <2>3. QED
    BY <2>1, <2>2 DEF Init
<1>7. TokenBound /\ CurIsRequest
  BY <1>2 DEF Init, TokenBound, CurIsRequest
<1>8. QED
  BY <1>1, <1>2, <1>3, <1>4, <1>5, <1>6, <1>7, <1>9 DEF TypeInv, TypeOK

LEMMA TypesOf ==
    ASSUME TypeInv
    PROVE  /\ owner \in Seq(Node) /\ Len(owner) \in 0..MaxReq /\ Len(owner) \in Nat
           /\ line \in Seq(Req) /\ Len(line) \in Nat /\ Len(line) <= MAXQUEUE
           /\ tokens \in 0..MaxReq /\ cur \in 0..MaxReq /\ skeys \in Keys
           /\ addr \in Addr /\ counter \in Addr
           /\ polls \in 0..AbortLimit /\ apolls \in 0..AbortLimit+1
           /\ tbl \in [Node -> Row]
           /\ radio \in Packet
           /\ uplinks \in 0..MaxUplinks /\ edits \in 0..MaxEdits
           /\ unsaved \in BOOLEAN /\ abp \subseteq Addr /\ adding \in Addr
           /\ pend \in [Node -> 0..MaxReq] /\ dev \in [Node -> Session]
           /\ sent \subseteq Req /\ lost \in 0..MaxReq
           /\ refused \subseteq Req /\ overlooked \subseteq Addr
<1>1. owner \in Seq(Node) /\ line \in Seq(Req)
  BY Zenon DEF TypeInv, TypeOK
<1>2. Len(owner) \in Nat /\ Len(line) \in Nat
  BY <1>1
<1>3. QED
  BY <1>2, Zenon DEF TypeInv, TypeOK

LEMMA PacketTypes ==
    /\ Free \in Packet /\ Answer \in Packet
    /\ \A r \in 0..MaxReq, a \in Addr : Accept(r, a) \in Packet
    /\ \A p \in Packet : [p EXCEPT !.st = "emitting"] \in Packet
    /\ \A p \in Packet : p.req \in 0..MaxReq /\ p.addr \in Addr
<1>1. 0 \in 0..MaxReq /\ 0 \in Addr
  BY Sizes
<1>2. QED
  BY <1>1 DEF Packet, Free, Answer, Accept

LEMMA StoredType ==
    ASSUME NEW row \in Row, NEW k, addr \in Addr, skeys \in Keys
    PROVE  Stored(row, k) \in Row
BY DEF Row, Keys, Stored

LEMMA MainType == TypeInv /\ Main => TypeInv'
<1> SUFFICES ASSUME TypeInv, Main PROVE TypeInv'
  OBVIOUS
<1>0. /\ owner \in Seq(Node) /\ Len(owner) \in 0..MaxReq /\ Len(owner) \in Nat
      /\ line \in Seq(Req) /\ Len(line) \in Nat /\ Len(line) <= MAXQUEUE
      /\ tokens \in 0..MaxReq /\ lost \in 0..MaxReq /\ pend \in [Node -> 0..MaxReq]
  BY TypesOf
<1>1. ASSUME NEW n \in Node, RecvJoin(n)
      PROVE  TypeInv'
  <2>1. owner' \in Seq(Node) /\ Len(owner') = Len(owner) + 1 /\ Len(owner') \in 0..MaxReq
    BY <1>0, <1>1, Sizes DEF RecvJoin
  <2>2. pend' \in [Node -> 0..MaxReq]
    BY <1>0, <1>1, Sizes DEF RecvJoin
  <2>3. TokenBound'
    BY <1>0, <1>1, <2>1 DEF TypeInv, TokenBound, RecvJoin, ghosts
  <2>4. QED
    BY <1>1, <2>1, <2>2, <2>3 DEF TypeInv, TypeOK, CurIsRequest, RecvJoin,
       mainVars, sendVars, tableVars, airVars, answerVars, ghosts
<1>2. CASE Queue
  <2>1. line' \in Seq(Req) /\ Len(line') <= MAXQUEUE
    <3>1. CASE QueueIsFull
      BY <1>0, <1>2, <3>1 DEF Queue
    <3>2. CASE ~QueueIsFull
      <4>1. Len(owner) \in Req
        BY <1>0, <1>2, Sizes DEF TypeInv, TokenBound, Queue
      <4>2. QED
        BY <1>0, <1>2, <3>2, <4>1, Sizes DEF Queue, QueueIsFull
    <3>3. QED
      BY <3>1, <3>2
  <2>2. TokenBound'
    BY <1>2 DEF TypeInv, TokenBound, Queue, ghosts
  <2>3. QED
    BY <1>2, <2>1, <2>2 DEF TypeInv, TypeOK, CurIsRequest, Queue,
       mainVars, sendVars, tableVars, airVars, answerVars, ghosts
<1>3. CASE Post
  <2>1. tokens' \in 0..MaxReq /\ TokenBound'
    BY <1>0, <1>3, Sizes DEF TypeInv, TokenBound, Post, ghosts
  <2>2. QED
    BY <1>3, <2>1 DEF TypeInv, TypeOK, CurIsRequest, Post,
       mainVars, sendVars, tableVars, airVars, answerVars, ghosts
<1>4. QED
  BY <1>1, <1>2, <1>3 DEF Main

LEMMA SendType == TypeInv /\ SendThread => TypeInv'
<1> SUFFICES ASSUME TypeInv, SendThread PROVE TypeInv'
  OBVIOUS
<1> USE DEF mainVars, sendVars, tableVars, airVars, answerVars, ghosts
<1>0. /\ line \in Seq(Req) /\ Len(line) \in Nat /\ Len(line) <= MAXQUEUE
      /\ Len(owner) \in Nat /\ tokens \in 0..MaxReq /\ cur \in 0..MaxReq
      /\ addr \in Addr /\ counter \in Addr /\ skeys \in Keys
      /\ tbl \in [Node -> Row] /\ radio \in Packet /\ polls \in 0..AbortLimit
      /\ lost \in 0..MaxReq /\ edits \in 0..MaxEdits
      /\ refused \subseteq Req /\ overlooked \subseteq Addr
  BY TypesOf
<1>1. ASSUME DeQueue PROVE line' \in Seq(Req) /\ Len(line') <= MAXQUEUE
  BY <1>0, <1>1, DeQueueType, Sizes
<1>2. NextAddr \in Addr
  BY <1>0, Sizes DEF NextAddr
<1>3. CASE TakeToken
  <2>1. tokens' \in 0..MaxReq /\ lost' \in 0..MaxReq /\ TokenBound'
    <3>1. tokens > 0 /\ tokens' = tokens - 1 /\ UNCHANGED <<mpc, owner>>
      BY <1>3 DEF TakeToken
    <3>2. lost' = lost \/ lost' = lost + 1
      BY <1>3 DEF TakeToken, FrontReturns1
    <3>3. Len(owner) \in 0..MaxReq
      BY TypesOf
    <3>4. lost + tokens <= Len(owner)
      BY <1>0, <3>3, Sizes DEF TypeInv, TokenBound
    <3>5. QED
      BY <1>0, <3>1, <3>2, <3>3, <3>4, Sizes DEF TypeInv, TokenBound
  <2>2. CASE FrontReturns1
    BY <1>3, <2>1, <2>2 DEF TypeInv, TypeOK, CurIsRequest, TakeToken, FrontReturns1
  <2>3. CASE line # << >> /\ cur' = Head(line) /\ spc' = "front"
    <3>0. line # << >>
      BY <2>3
    <3>1. Head(line) \in Req /\ Head(line) \in 0..MaxReq
      <4>1. Head(line) \in Req
        BY <1>0, <3>0, HeadType
      <4>2. QED
        BY <4>1, Sizes
    <3>2. QED
      BY <1>3, <2>1, <2>3, <3>1 DEF TypeInv, TypeOK, CurIsRequest, TakeToken
  <2>4. QED
    BY <1>3, <2>2, <2>3 DEF TakeToken
<1>4. CASE DropFront
  BY <1>1, <1>4 DEF TypeInv, TypeOK, TokenBound, CurIsRequest, DropFront
<1>5. CASE Sleep
  BY <1>5 DEF TypeInv, TypeOK, TokenBound, CurIsRequest, Sleep
<1>6. CASE AllocateFails
  <2>1. counter' \in Addr
    BY <1>0, <1>2, <1>6 DEF AllocateFails
  <2>2. QED
    BY <1>1, <1>6, <2>1 DEF TypeInv, TypeOK, TokenBound, CurIsRequest, AllocateFails
<1>7. CASE Allocate
  <2>1. /\ counter' \in Addr /\ addr' \in Addr
        /\ edits' \in 0..MaxEdits /\ overlooked' \subseteq Addr
    <3>1. counter' \in Addr /\ addr' \in Addr
      BY <1>2, <1>7 DEF Allocate
    <3>2. overlooked' \subseteq Addr
      BY <1>0, <1>2, <1>7 DEF Allocate, LookupRefused, LookupFindsNone
    <3>3. edits' \in 0..MaxEdits
      BY <1>0, <1>7, Sizes DEF Allocate, Meddle
    <3>4. QED
      BY <3>1, <3>2, <3>3
  <2>2. QED
    BY <1>7, <2>1 DEF TypeInv, TypeOK, TokenBound, CurIsRequest, Allocate
<1>8. CASE ComputeSKeys
  <2>1. skeys' \in Keys
    BY <1>0, <1>8, KeysTypes DEF ComputeSKeys
  <2>2. QED
    BY <1>8, <2>1 DEF TypeInv, TypeOK, TokenBound, CurIsRequest, ComputeSKeys
<1>9. CASE UpdateTable
  <2>1. /\ tbl' \in [Node -> Row] /\ unsaved' \in BOOLEAN /\ edits' \in 0..MaxEdits
        /\ refused' \subseteq Req /\ overlooked' \subseteq Addr
    <3>1. CASE tbl[owner[cur]].present
      <4>1. PICK k \in Refusals, open \in BOOLEAN :
              /\ Meddle((IF k > 0 THEN 1 ELSE 0) + (IF open THEN 1 ELSE 0))
              /\ tbl' = [tbl EXCEPT ![owner[cur]] = Stored(@, k)]
              /\ refused' = IF k = 0 THEN refused ELSE refused \cup {cur}
              /\ unsaved' = open /\ (k = 4 => ~open)
              /\ overlooked' = IF adding = addr THEN overlooked \cup {addr} ELSE overlooked
        BY <1>9, <3>1 DEF UpdateTable
      <4>2. \A row \in Row : Stored(row, k) \in Row
        BY <1>0, StoredType
      <4>3. tbl' \in [Node -> Row]
        BY <1>0, <4>1, <4>2
      <4>4. cur \in Req
        BY <1>9 DEF TypeInv, CurIsRequest, UpdateTable
      <4>5. edits' \in 0..MaxEdits
        BY <1>0, <4>1, Sizes DEF Meddle
      <4>6. QED
        BY <1>0, <4>1, <4>3, <4>4, <4>5
    <3>2. CASE ~tbl[owner[cur]].present
      BY <1>0, <1>9, <3>2 DEF UpdateTable, TypeInv, TypeOK
    <3>3. QED
      BY <3>1, <3>2
  <2>2. QED
    BY <1>9, <2>1 DEF TypeInv, TypeOK, TokenBound, CurIsRequest, UpdateTable
<1>10. CASE Send
  <2>1. sent' \subseteq Req
    BY <1>10 DEF TypeInv, TypeOK, CurIsRequest, Send
  <2>2. radio' \in Packet
    BY <1>0, <1>10, PacketTypes DEF Send
  <2>3. polls' \in 0..AbortLimit
    BY <1>10, Sizes DEF Send
  <2>4. QED
    BY <1>10, <2>1, <2>2, <2>3 DEF TypeInv, TypeOK, TokenBound, CurIsRequest, Send
<1>11. CASE TxPoll
  <2>1. polls' \in 0..AbortLimit
    BY <1>0, <1>11, Sizes DEF TxPoll
  <2>2. radio' \in Packet
    BY <1>0, <1>11, PacketTypes DEF TxPoll
  <2>3. line' \in Seq(Req) /\ Len(line') <= MAXQUEUE
    BY <1>0, <1>1, <1>11 DEF TxPoll
  <2>4. QED
    BY <1>11, <2>1, <2>2, <2>3 DEF TypeInv, TypeOK, TokenBound, CurIsRequest, TxPoll
<1>12. CASE Final
  BY <1>1, <1>12 DEF TypeInv, TypeOK, TokenBound, CurIsRequest, Final
<1>13. QED
  BY <1>3, <1>4, <1>5, <1>6, <1>7, <1>8, <1>9, <1>10, <1>11, <1>12 DEF SendThread

LEMMA AnswerType == TypeInv /\ AnswerThread => TypeInv'
<1> SUFFICES ASSUME TypeInv, AnswerThread PROVE TypeInv'
  OBVIOUS
<1> USE DEF mainVars, sendVars, tableVars, airVars, answerVars, ghosts
<1>0. /\ line \in Seq(Req) /\ Len(line) \in Nat /\ Len(line) <= MAXQUEUE
      /\ radio \in Packet /\ apolls \in 0..AbortLimit+1 /\ uplinks \in 0..MaxUplinks
  BY TypesOf
<1>1. CASE AnswerSend
  <2>1. /\ radio' \in Packet /\ apolls' \in 0..AbortLimit+1
        /\ uplinks' \in 0..MaxUplinks
    BY <1>0, <1>1, PacketTypes, Sizes DEF AnswerSend
  <2>2. QED
    BY <1>1, <2>1 DEF TypeInv, TypeOK, TokenBound, CurIsRequest, AnswerSend
<1>2. CASE AnswerPoll
  <2>1. apolls' \in 0..AbortLimit+1
    BY <1>0, <1>2, Sizes DEF AnswerPoll
  <2>2. radio' \in Packet
    BY <1>0, <1>2, PacketTypes DEF AnswerPoll
  <2>3. line' \in Seq(Req) /\ Len(line') <= MAXQUEUE
    BY <1>0, <1>2, DeQueueType, Sizes DEF AnswerPoll
  <2>4. QED
    BY <1>2, <2>1, <2>2, <2>3 DEF TypeInv, TypeOK, TokenBound, CurIsRequest, AnswerPoll
<1>3. QED
  BY <1>1, <1>2 DEF AnswerThread

LEMMA AirType == TypeInv /\ Air => TypeInv'
<1> SUFFICES ASSUME TypeInv, Air PROVE TypeInv'
  OBVIOUS
<1> USE DEF mainVars, sendVars, tableVars, answerVars, ghosts
<1>0. /\ radio \in Packet /\ pend \in [Node -> 0..MaxReq] /\ dev \in [Node -> Session]
  BY TypesOf
<1>1. CASE Emit
  <2>1. radio' \in Packet
    BY <1>0, <1>1, PacketTypes DEF Emit
  <2>2. QED
    BY <1>1, <2>1 DEF TypeInv, TypeOK, TokenBound, CurIsRequest, Emit
<1>2. CASE Emitted
  <2>1. radio' \in Packet
    BY <1>2, PacketTypes DEF Emitted
  <2>2. pend' \in [Node -> 0..MaxReq] /\ dev' \in [Node -> Session]
    <3>1. CASE radio.kind = "accept" /\ pend[owner[radio.req]] = radio.req
      <4> DEFINE n == owner[radio.req]
                 s == [addr |-> radio.addr, key |-> radio.req]
      <4>1. dev' = [dev EXCEPT ![n] = s] /\ pend' = [pend EXCEPT ![n] = 0]
        BY <1>2, <3>1 DEF Emitted
      <4>2. s \in Session
        BY <1>0, PacketTypes DEF Session
      <4>3. 0 \in 0..MaxReq
        BY Sizes
      <4> HIDE DEF n, s
      <4>4. QED
        BY <1>0, <4>1, <4>2, <4>3
    <3>2. CASE ~(radio.kind = "accept" /\ pend[owner[radio.req]] = radio.req)
      BY <1>0, <1>2, <3>2 DEF Emitted
    <3>3. QED
      BY <3>1, <3>2
  <2>3. QED
    BY <1>2, <2>1, <2>2 DEF TypeInv, TypeOK, TokenBound, CurIsRequest, Emitted
<1>3. QED
  BY <1>1, <1>2 DEF Air

LEMMA OthersType ==
    TypeInv /\ (Others \/ (\E a \in Addr : RecvData(a)) \/ CommitLater) => TypeInv'
<1> SUFFICES ASSUME TypeInv, Others \/ (\E a \in Addr : RecvData(a)) \/ CommitLater
             PROVE  TypeInv'
  OBVIOUS
<1> USE DEF mainVars, sendVars, tableVars, airVars, answerVars, ghosts
<1>0. /\ pend \in [Node -> 0..MaxReq] /\ tbl \in [Node -> Row]
      /\ edits \in 0..MaxEdits /\ uplinks \in 0..MaxUplinks
      /\ abp \subseteq Addr /\ adding \in Addr /\ overlooked \subseteq Addr
  BY TypesOf
<1>3. ASSUME NEW n \in Node, GiveUp(n)
      PROVE  TypeInv'
  <2>1. pend' \in [Node -> 0..MaxReq]
    BY <1>0, <1>3, Sizes DEF GiveUp
  <2>2. QED
    BY <1>3, <2>1 DEF TypeInv, TypeOK, TokenBound, CurIsRequest, GiveUp
<1>4. ASSUME NEW n \in Node, EditNode(n)
      PROVE  TypeInv'
  <2>1. [present |-> ~tbl[n].present, addr |-> 0, key |-> OldKeys] \in Row
    BY Sizes, KeysTypes DEF Row
  <2>2. tbl' \in [Node -> Row]
    BY <1>0, <1>4, <2>1 DEF EditNode
  <2>3. edits' \in 0..MaxEdits
    BY <1>0, <1>4, Sizes DEF EditNode, Meddle
  <2>4. QED
    BY <1>4, <2>2, <2>3 DEF TypeInv, TypeOK, TokenBound, CurIsRequest, EditNode
<1>5. ASSUME NEW a \in Addr, RecvData(a)
      PROVE  TypeInv'
  <2>1. skeys' \in Keys /\ uplinks' \in 0..MaxUplinks
    BY <1>0, <1>5, KeysTypes, Sizes DEF RecvData, Row
  <2>2. QED
    BY <1>5, <2>1 DEF TypeInv, TypeOK, TokenBound, CurIsRequest, RecvData
<1>6. ASSUME NEW a \in Addr, AbpLookUp(a)
      PROVE  TypeInv'
  <2>1. adding' \in Addr /\ edits' \in 0..MaxEdits /\ overlooked' \subseteq Addr
    <3>1. adding' \in Addr
      BY <1>6 DEF AbpLookUp
    <3>2. overlooked' \subseteq Addr
      BY <1>0, <1>6 DEF AbpLookUp, LookupRefused, LookupFindsNone
    <3>3. edits' \in 0..MaxEdits
      BY <1>0, <1>6, Sizes DEF AbpLookUp, Meddle
    <3>4. QED
      BY <3>1, <3>2, <3>3
  <2>2. QED
    BY <1>6, <2>1 DEF TypeInv, TypeOK, TokenBound, CurIsRequest, AbpLookUp
<1>7. CASE AbpInsert
  <2>1. adding' \in Addr /\ abp' \subseteq Addr /\ overlooked' \subseteq Addr
    <3>1. adding' \in Addr
      BY <1>7, Sizes DEF AbpInsert
    <3>2. abp' \subseteq Addr
      BY <1>0, <1>7 DEF AbpInsert
    <3>3. addr \in Addr
      BY TypesOf
    <3>4. overlooked' \subseteq Addr
      BY <1>0, <1>7, <3>3 DEF AbpInsert
    <3>5. QED
      BY <3>1, <3>2, <3>4
  <2>2. QED
    BY <1>7, <2>1 DEF TypeInv, TypeOK, TokenBound, CurIsRequest, AbpInsert
<1>8. CASE CommitLater
  BY <1>8 DEF TypeInv, TypeOK, TokenBound, CurIsRequest, CommitLater
<1>9. QED
  BY <1>3, <1>4, <1>5, <1>6, <1>7, <1>8 DEF Others

LEMMA NextType == TypeInv /\ [Next]_vars => TypeInv'
<1> SUFFICES ASSUME TypeInv, [Next]_vars PROVE TypeInv'
  OBVIOUS
<1>1. CASE UNCHANGED vars
  BY <1>1 DEF TypeInv, TypeOK, TokenBound, CurIsRequest, vars,
     mainVars, sendVars, tableVars, airVars, answerVars, ghosts
<1>2. CASE Next
  BY <1>2, MainType, SendType, AnswerType, AirType, OthersType DEF Next
<1>3. QED
  BY <1>1, <1>2

LEMMA TypeInvariance == Spec => []TypeInv
<1>1. QED
  BY InitType, NextType, PTL DEF Spec

\* Every value stays in its type: no counter of the join path runs away.
THEOREM JoinTypeCorrect == Spec => []TypeOK
<1>1. TypeInv => TypeOK
  BY DEF TypeInv
<1>2. QED
  BY <1>1, TypeInvariance, PTL

-----------------------------------------------------------------------------
LEMMA NextWakeup ==
    ASSUME TypeInv, NoLostWakeup, [Next]_vars
    PROVE  NoLostWakeup'
<1> USE DEF NoLostWakeup, mainVars, sendVars, ghosts
<1>0. /\ line \in Seq(Req) /\ Len(line) \in Nat /\ tokens \in Nat
      /\ Len(owner) \in Nat /\ lost \in Nat
  <2>1. tokens \in 0..MaxReq /\ lost \in 0..MaxReq
    BY TypesOf
  <2>2. QED
    BY <2>1, TypesOf, Sizes
<1>1. ASSUME DeQueue
      PROVE  /\ Len(line') \in Nat
             /\ Len(line') = IF Len(line) = 0 THEN 0 ELSE Len(line) - 1
  BY <1>0, <1>1, DeQueueType
<1>2. CASE Main
  <2>1. CASE \E n \in Node : RecvJoin(n)
    BY <1>0, <2>1 DEF RecvJoin
  <2>2. CASE Queue
    <3>1. line' = line \/ Len(line') = Len(line) + 1
      BY <1>0, <2>2 DEF Queue
    <3>2. QED
      BY <1>0, <2>2, <3>1 DEF Queue
  <2>3. CASE Post
    BY <1>0, <2>3 DEF Post
  <2>4. QED
    BY <1>2, <2>1, <2>2, <2>3 DEF Main
<1>3. CASE TakeToken
  <2>1. CASE line = << >>
    <3>1. Len(line) = 0 /\ Len(line') = 0
      BY <1>3, <2>1 DEF TakeToken
    <3>2. QED
      BY <1>0, <1>3, <2>1, <3>1 DEF TakeToken, FrontReturns1
  <2>2. CASE line # << >>
    BY <1>0, <1>3, <2>2 DEF TakeToken, FrontReturns1
  <2>3. QED
    BY <2>1, <2>2
<1>4. CASE DropFront \/ AllocateFails \/ Final
  <2>1. DeQueue /\ spc # "wait" /\ spc' = "wait" /\ UNCHANGED <<tokens, mpc, lost>>
    BY <1>4 DEF DropFront, AllocateFails, Final
  <2>2. QED
    BY <1>0, <1>1, <2>1
<1>5. CASE Sleep \/ Allocate \/ ComputeSKeys \/ UpdateTable \/ Send
  <2>1. spc # "wait" /\ spc' # "wait" /\ UNCHANGED <<line, tokens, mpc, lost>>
    BY <1>5 DEF Sleep, Allocate, ComputeSKeys, UpdateTable, Send
  <2>2. QED
    BY <1>0, <2>1
<1>6. CASE TxPoll \/ AnswerPoll
  <2>1. DeQueue \/ line' = line
    BY <1>6 DEF TxPoll, AnswerPoll
  <2>2. UNCHANGED <<tokens, mpc, lost>> /\ (spc' = "wait" <=> spc = "wait")
    BY <1>6 DEF TxPoll, AnswerPoll
  <2>3. QED
    BY <1>0, <1>1, <2>1, <2>2
<1>7. CASE UNCHANGED <<line, tokens, spc, mpc, lost>>
  BY <1>7
<1>8. CASE AnswerSend \/ Air \/ Others \/ (\E a \in Addr : RecvData(a)) \/ CommitLater
  BY <1>7, <1>8 DEF AnswerSend, Air, Emit, Emitted, Others,
     GiveUp, EditNode, RecvData, AbpLookUp, AbpInsert, CommitLater
<1>9. CASE UNCHANGED vars
  BY <1>7, <1>9 DEF vars
<1>10. QED
  BY <1>2, <1>3, <1>4, <1>5, <1>6, <1>8, <1>9
  DEF Next, SendThread, AnswerThread

\* Whatever the two senders abort and however full the queue is, a queued join
\* request always finds a token, so the thread never sleeps with work to do;
\* what GetFront_Queue costs by returning 1 with a request there is one token
\* each time it does.
THEOREM JoinNeverSleepsOnWork == Spec => []NoLostWakeup
<1>1. Init => NoLostWakeup
  <2>1. SUFFICES ASSUME Init PROVE Len(line) = 0 /\ tokens = 0 /\ lost = 0
    BY DEF Init, NoLostWakeup
  <2>2. QED
    BY <2>1 DEF Init
<1>2. TypeInv /\ NoLostWakeup /\ [Next]_vars => NoLostWakeup'
  BY NextWakeup
<1>3. QED
  BY <1>1, <1>2, InitType, NextType, PTL DEF Spec

-----------------------------------------------------------------------------
\* The queue holds requests in order of arrival, the one in hand is not behind
\* its front, and what was answered is not ahead of the one in hand.
Order ==
    /\ \A i, j \in 1..Len(line) : i < j => line[i] < line[j]
    /\ \A i \in 1..Len(line) :
         /\ line[i] <= Len(owner) /\ (mpc = "queue" => line[i] < Len(owner))
         /\ line[i] >= cur /\ (spc = "wait" => line[i] > cur)
    /\ cur <= Len(owner) /\ (mpc = "queue" => cur < Len(owner))
    /\ \A r \in sent : r <= cur
    /\ spc \in {"front", "alloc", "keys", "update", "send"} => cur \notin sent

LEMMA InitOrder == Init => Order
<1> SUFFICES ASSUME Init PROVE Order
  OBVIOUS
<1>1. Len(line) = 0 /\ Len(owner) = 0
  BY DEF Init
<1>2. QED
  BY <1>1 DEF Init, Order

\* After a DeQueue everything left is behind the request in hand.
LEMMA DeQueueOrder ==
    ASSUME TypeInv, Order, DeQueue
    PROVE  /\ \A i, j \in 1..Len(line') : i < j => line'[i] < line'[j]
           /\ \A i \in 1..Len(line') :
                /\ line'[i] <= Len(owner) /\ (mpc = "queue" => line'[i] < Len(owner))
                /\ line'[i] > cur /\ line'[i] >= cur
<1>0. line \in Seq(Req) /\ Len(line) \in Nat /\ cur \in Nat
  <2>1. cur \in 0..MaxReq
    BY TypesOf
  <2>2. QED
    BY <2>1, TypesOf, Sizes
<1>1. /\ Len(line') \in Nat
      /\ \A i \in 1..Len(line') : i + 1 \in 1..Len(line) /\ line'[i] = line[i+1]
  BY <1>0, DeQueueType
<1>2. \A i \in 1..Len(line) : line[i] \in Nat
  <2>1. \A i \in 1..Len(line) : line[i] \in Req
    BY <1>0, ElementType
  <2>2. QED
    BY <2>1, Sizes
<1>3. ASSUME NEW i \in 1..Len(line') PROVE line'[i] > cur /\ line'[i] >= cur
  <2>1. 1 \in 1..Len(line) /\ i + 1 \in 1..Len(line) /\ 1 < i + 1
    BY <1>0, <1>1
  <2>2. line[1] >= cur /\ line[1] < line[i+1]
    BY <2>1 DEF Order
  <2>3. QED
    BY <1>0, <1>1, <1>2, <2>1, <2>2
<1>4. \A i \in 1..Len(line') :
        line'[i] <= Len(owner) /\ (mpc = "queue" => line'[i] < Len(owner))
  BY <1>1 DEF Order
<1>5. ASSUME NEW i \in 1..Len(line'), NEW j \in 1..Len(line'), i < j
      PROVE  line'[i] < line'[j]
  BY <1>1, <1>5 DEF Order
<1>6. QED
  BY <1>3, <1>4, <1>5

LEMMA NextOrder == TypeInv /\ Order /\ [Next]_vars => Order'
<1> SUFFICES ASSUME TypeInv, Order, [Next]_vars PROVE Order'
  OBVIOUS
<1> USE DEF mainVars, sendVars, ghosts
<1>0. /\ line \in Seq(Req) /\ Len(line) \in Nat /\ owner \in Seq(Node)
      /\ Len(owner) \in Nat /\ cur \in Nat
  <2>1. cur \in 0..MaxReq
    BY TypesOf
  <2>2. QED
    BY <2>1, TypesOf, Sizes
<1>1. \A i \in 1..Len(line) : line[i] \in Nat
  <2>1. \A i \in 1..Len(line) : line[i] \in Req
    BY <1>0, ElementType
  <2>2. QED
    BY <2>1, Sizes
<1>2. ASSUME UNCHANGED <<line, owner, mpc, spc, cur, sent>>
      PROVE  Order'
  BY <1>2 DEF Order
<1>3. ASSUME NEW n \in Node, RecvJoin(n)
      PROVE  Order'
  <2>1. Len(owner') = Len(owner) + 1
    BY <1>0, <1>3 DEF RecvJoin
  <2>2. UNCHANGED <<line, spc, cur, sent>>
    BY <1>3 DEF RecvJoin
  <2>3. \A i \in 1..Len(line) : line[i] < Len(owner) + 1
    BY <1>0, <1>1 DEF Order
  <2>4. cur < Len(owner) + 1
    BY <1>0 DEF Order
  <2>5. QED
    BY <1>0, <1>1, <2>1, <2>2, <2>3, <2>4 DEF Order
<1>4. CASE Queue
  <2>1. CASE line' = line
    BY <1>4, <2>1 DEF Order, Queue
  <2>2. CASE line' = Append(line, Len(owner))
    <3>1. Len(line') = Len(line) + 1
      BY <1>0, <2>2
    <3>2. \A i \in 1..Len(line') :
            \/ i \in 1..Len(line) /\ line'[i] = line[i]
            \/ i = Len(line) + 1 /\ line'[i] = Len(owner)
      BY <1>0, <2>2, <3>1
    <3>3. ASSUME NEW i \in 1..Len(line'), NEW j \in 1..Len(line'), i < j
          PROVE  line'[i] < line'[j]
      <4>1. i \in 1..Len(line) /\ line'[i] = line[i]
        BY <1>0, <3>1, <3>2, <3>3
      <4>2. QED
        BY <1>4, <3>2, <3>3, <4>1 DEF Order, Queue
    <3>4. \A i \in 1..Len(line') :
            /\ line'[i] <= Len(owner)
            /\ line'[i] >= cur /\ (spc = "wait" => line'[i] > cur)
      BY <1>0, <1>1, <1>4, <3>2 DEF Order, Queue
    <3>5. QED
      BY <1>4, <3>3, <3>4 DEF Order, Queue
  <2>3. QED
    BY <1>4, <2>1, <2>2 DEF Queue
<1>5. CASE Post
  BY <1>5 DEF Order, Post
<1>6. CASE TakeToken
  <2>1. CASE FrontReturns1
    BY <1>2, <1>6, <2>1 DEF TakeToken, FrontReturns1
  <2>2. CASE line # << >> /\ cur' = Head(line) /\ spc' = "front"
    <3>0. line # << >>
      BY <2>2
    <3>1. cur' = line[1] /\ 1 \in 1..Len(line)
      BY <1>0, <1>6, <2>2, <3>0, HeadType DEF TakeToken
    <3>2. cur' > cur /\ cur' \in Nat
      BY <1>1, <1>6, <3>1 DEF Order, TakeToken
    <3>3. UNCHANGED <<line, owner, mpc, sent>> /\ spc' = "front"
      BY <1>6, <2>2 DEF TakeToken
    <3>4. \A i \in 1..Len(line) : line[i] >= cur'
      <4>1. \A i \in 1..Len(line) : i = 1 \/ 1 < i
        BY <1>0
      <4>2. QED
        BY <1>1, <3>1, <4>1 DEF Order
    <3>5. \A r \in sent : r <= cur' /\ r # cur'
      <4>1. sent \subseteq Nat
        <5>1. sent \subseteq Req
          BY TypesOf
        <5>2. QED
          BY <5>1, Sizes
      <4>2. QED
        BY <1>0, <3>2, <4>1 DEF Order
    <3>6. cur' <= Len(owner) /\ (mpc = "queue" => cur' < Len(owner))
      BY <3>1 DEF Order
    <3>7. QED
      BY <3>3, <3>4, <3>5, <3>6 DEF Order
  <2>3. QED
    BY <1>6, <2>1, <2>2 DEF TakeToken
<1>7. CASE DropFront \/ AllocateFails \/ Final
  <2>1. DeQueue /\ spc' = "wait" /\ UNCHANGED <<owner, mpc, cur, sent>>
    BY <1>7 DEF DropFront, AllocateFails, Final
  <2>2. /\ \A i, j \in 1..Len(line') : i < j => line'[i] < line'[j]
        /\ \A i \in 1..Len(line') :
             /\ line'[i] <= Len(owner) /\ (mpc = "queue" => line'[i] < Len(owner))
             /\ line'[i] > cur /\ line'[i] >= cur
    BY <1>0, <2>1, DeQueueOrder
  <2>3. QED
    BY <2>1, <2>2 DEF Order
<1>8. CASE TxPoll \/ AnswerPoll
  <2>1. UNCHANGED <<owner, mpc, cur, sent>> /\ (DeQueue \/ line' = line)
    BY <1>8 DEF TxPoll, AnswerPoll
  <2>2. spc' = spc \/ (spc' \in {"tx", "final"} /\ spc = "tx")
    BY <1>8 DEF TxPoll, AnswerPoll
  <2>3. CASE line' = line
    BY <2>1, <2>2, <2>3 DEF Order
  <2>4. CASE DeQueue
    <3>1. /\ \A i, j \in 1..Len(line') : i < j => line'[i] < line'[j]
          /\ \A i \in 1..Len(line') :
               /\ line'[i] <= Len(owner) /\ (mpc = "queue" => line'[i] < Len(owner))
               /\ line'[i] > cur /\ line'[i] >= cur
      BY <1>0, <2>4, DeQueueOrder
    <3>2. QED
      BY <2>1, <2>2, <3>1 DEF Order
  <2>5. QED
    BY <2>1, <2>3, <2>4
<1>9. CASE Sleep \/ Allocate \/ ComputeSKeys \/ UpdateTable
  <2>1. /\ UNCHANGED <<line, owner, mpc, cur, sent>>
        /\ spc \in {"front", "alloc", "keys", "update"}
        /\ spc' \in {"alloc", "keys", "update", "send"}
    BY <1>9 DEF Sleep, Allocate, ComputeSKeys, UpdateTable
  <2>2. QED
    BY <2>1 DEF Order
<1>10. CASE Send
  <2>1. /\ UNCHANGED <<line, owner, mpc, cur>> /\ sent' = sent \cup {cur}
        /\ spc' \in {"tx", "final"}
    BY <1>10 DEF Send
  <2>2. QED
    BY <1>0, <2>1 DEF Order
<1>11. CASE AnswerSend \/ Air \/ Others \/ (\E a \in Addr : RecvData(a)) \/ CommitLater
  BY <1>2, <1>11 DEF AnswerSend, Air, Emit, Emitted, Others,
     GiveUp, EditNode, RecvData, AbpLookUp, AbpInsert, CommitLater
<1>12. CASE UNCHANGED vars
  BY <1>2, <1>12 DEF vars
<1>13. QED
  BY <1>3, <1>4, <1>5, <1>6, <1>7, <1>8, <1>9, <1>10, <1>11, <1>12
  DEF Next, Main, SendThread, AnswerThread

\* No join request is passed to lgw_send twice: the front that the thread read
\* before its sleep is gone by the time it reads the front again, whoever
\* removed it.
THEOREM NoJoinAnsweredTwice == Spec => AnsweredOnce
<1>1. Order /\ [Next]_vars => [Send => cur \notin sent]_vars
  BY DEF Order, Send
<1>2. QED
  BY <1>1, InitType, NextType, InitOrder, NextOrder, PTL DEF Spec, AnsweredOnce

-----------------------------------------------------------------------------
\* The address in hand is nobody's until it is stored, nor is the one that
\* another process looked up, or else it is among the overlooked.
Fresh ==
    /\ AddressesDistinct
    /\ spc \in {"keys", "update"} => addr # 0 /\ (InUse(addr) => addr \in overlooked)
    /\ adding # 0 => (InUse(adding) => adding \in overlooked)

LEMMA InitFresh == Init => Fresh
<1> SUFFICES ASSUME Init PROVE Fresh
  OBVIOUS
<1>1. \A n \in Node : ~Clash(n, tbl, abp)
  BY DEF Init
<1>2. QED
  BY <1>1 DEF Init, Fresh, AddressesDistinct

\* What the four UPDATEs leave in the row: its old address or the new one.
LEMMA StoreDistinct ==
    ASSUME TypeInv, Fresh, UpdateTable
    PROVE  Fresh'
<1> DEFINE o == owner[cur]
<1> USE DEF mainVars
<1>1. tbl \in [Node -> Row] /\ spc = "update" /\ spc' = "send"
      /\ UNCHANGED <<abp, adding, addr>>
  BY TypesOf DEF UpdateTable
<1>2. CASE ~tbl[o].present
  <2>1. UNCHANGED <<tbl, overlooked>>
    BY <1>2 DEF UpdateTable
  <2>2. QED
    BY <1>1, <2>1 DEF Fresh, AddressesDistinct, Clash, InUse
<1>3. CASE tbl[o].present
  <2>1. PICK k \in Refusals, open \in BOOLEAN :
          /\ tbl' = [tbl EXCEPT ![o] = Stored(@, k)]
          /\ overlooked' = IF adding = addr THEN overlooked \cup {addr} ELSE overlooked
    BY <1>3 DEF UpdateTable
  <2>2. \A m \in Node : /\ tbl'[m].present = tbl[m].present
                        /\ tbl'[m].addr = tbl[m].addr \/ (m = o /\ tbl'[m].addr = addr)
    BY <1>1, <2>1 DEF Row, Stored
  <2>3. overlooked \subseteq overlooked' /\ (adding = addr => addr \in overlooked')
    BY <2>1
  <2>4. InUse(addr) => addr \in overlooked
    BY <1>1 DEF Fresh
  <2>5. ASSUME NEW n \in Node, Clash(n, tbl', abp)
        PROVE  tbl'[n].addr \in overlooked'
    <3>1. CASE tbl'[n].addr = tbl[n].addr /\ Clash(n, tbl, abp)
      BY <2>3, <3>1 DEF Fresh, AddressesDistinct
    <3>2. CASE tbl'[n].addr = tbl[n].addr /\ ~Clash(n, tbl, abp)
      <4>1. tbl'[n].addr = addr
        BY <2>2, <2>5, <3>2 DEF Clash
      <4>2. InUse(addr)
        BY <2>2, <2>5, <3>2, <4>1 DEF Clash, InUse
      <4>3. QED
        BY <2>3, <2>4, <4>1, <4>2
    <3>3. CASE tbl'[n].addr # tbl[n].addr
      <4>1. n = o /\ tbl'[n].addr = addr
        BY <2>2, <3>3
      <4>2. InUse(addr)
        BY <2>2, <2>5, <4>1 DEF Clash, InUse
      <4>3. QED
        BY <2>3, <2>4, <4>1, <4>2
    <3>4. QED
      BY <3>1, <3>2, <3>3
  <2>6. AddressesDistinct'
    BY <1>1, <2>5 DEF AddressesDistinct, Clash
  <2>7. ASSUME adding # 0, adding \in abp \/ \E n \in Node : tbl'[n].present /\ tbl'[n].addr = adding
        PROVE  adding \in overlooked'
    <3>1. CASE adding = addr
      BY <2>3, <3>1
    <3>2. CASE adding # addr
      <4>1. InUse(adding)
        BY <2>2, <2>7, <3>2 DEF InUse
      <4>2. QED
        BY <2>3, <2>7, <4>1 DEF Fresh
    <3>3. QED
      BY <3>1, <3>2
  <2>8. (adding # 0 => (InUse(adding) => adding \in overlooked))'
    BY <1>1, <2>7 DEF InUse
  <2>9. QED
    BY <1>1, <2>6, <2>8 DEF Fresh
<1>4. QED
  BY <1>2, <1>3

LEMMA NextFresh == TypeInv /\ Fresh /\ [Next]_vars => Fresh'
<1> SUFFICES ASSUME TypeInv, Fresh, [Next]_vars PROVE Fresh'
  OBVIOUS
<1> USE DEF mainVars, sendVars, tableVars, airVars, answerVars, ghosts
<1>0. tbl \in [Node -> Row] /\ counter \in Addr
  BY TypesOf
<1>1. ASSUME UNCHANGED <<tbl, addr, abp, adding, overlooked>>,
             spc' \in {"keys", "update"} => spc \in {"keys", "update"}
      PROVE  Fresh'
  BY <1>1 DEF Fresh, AddressesDistinct, Clash, InUse
<1>2. CASE Allocate
  <2>1. NextAddr # 0
    BY <1>0, Sizes DEF NextAddr
  <2>2. /\ UNCHANGED <<tbl, abp, adding>> /\ addr' = NextAddr
        /\ overlooked \subseteq overlooked'
        /\ InUse(NextAddr) => NextAddr \in overlooked'
    BY <1>2 DEF Allocate, LookupRefused, LookupFindsNone
  <2>3. QED
    BY <2>1, <2>2 DEF Fresh, AddressesDistinct, Clash, InUse
<1>3. CASE UpdateTable
  BY <1>3, StoreDistinct
<1>4. ASSUME NEW n \in Node, EditNode(n)
      PROVE  Fresh'
  <2>1. \A m \in Node : tbl'[m] = IF m = n THEN [present |-> ~tbl[n].present, addr |-> 0, key |-> OldKeys]
                                            ELSE tbl[m]
    BY <1>0, <1>4 DEF EditNode
  <2>2. \A m \in Node : tbl'[m].addr = 0 \/ tbl'[m] = tbl[m]
    BY <2>1
  <2>3. UNCHANGED <<spc, addr, abp, adding, overlooked>>
    BY <1>4 DEF EditNode
  <2>4. AddressesDistinct'
    BY <2>2, <2>3 DEF Fresh, AddressesDistinct, Clash
  <2>5. \A a \in Addr \ {0} : InUse(a)' => InUse(a)
    BY <2>2, <2>3 DEF InUse
  <2>6. addr \in Addr /\ adding \in Addr
    BY TypesOf
  <2>7. QED
    BY <2>3, <2>4, <2>5, <2>6 DEF Fresh, InUse
<1>5. ASSUME NEW a \in Addr, AbpLookUp(a)
      PROVE  Fresh'
  <2>1. /\ UNCHANGED <<tbl, abp, addr, spc>> /\ adding' = a
        /\ overlooked \subseteq overlooked'
        /\ InUse(a) => a \in overlooked'
    BY <1>5 DEF AbpLookUp, LookupRefused, LookupFindsNone
  <2>2. QED
    BY <2>1 DEF Fresh, AddressesDistinct, Clash, InUse
<1>6. CASE AbpInsert
  <2>1. /\ UNCHANGED <<tbl, addr, spc>> /\ adding' = 0
        /\ overlooked \subseteq overlooked'
        /\ InUse(adding) => adding \in overlooked
        /\ \/ abp' = abp
           \/ /\ abp' = abp \cup {adding}
              /\ spc \in {"keys", "update"} /\ addr = adding => addr \in overlooked'
    BY <1>6 DEF AbpInsert, Fresh
  <2>2. AddressesDistinct'
    <3>1. ASSUME NEW n \in Node, Clash(n, tbl, abp')
          PROVE  tbl[n].addr \in overlooked'
      <4>1. CASE Clash(n, tbl, abp)
        BY <2>1, <4>1 DEF Fresh, AddressesDistinct
      <4>2. CASE ~Clash(n, tbl, abp)
        BY <2>1, <3>1, <4>2 DEF Clash, InUse
      <4>3. QED
        BY <4>1, <4>2
    <3>2. QED
      BY <2>1, <3>1 DEF AddressesDistinct, Clash
  <2>3. QED
    BY <2>1, <2>2 DEF Fresh, InUse
<1>7. CASE SendThread /\ ~Allocate /\ ~UpdateTable
  BY <1>1, <1>7 DEF SendThread, TakeToken, FrontReturns1, DropFront, Sleep, AllocateFails,
     ComputeSKeys, Send, TxPoll, Final
<1>8. CASE Main \/ AnswerThread \/ Air
  BY <1>1, <1>8 DEF Main, RecvJoin, Queue, Post, AnswerThread, AnswerSend, AnswerPoll,
     Air, Emit, Emitted
<1>9. CASE (\E n \in Node : GiveUp(n)) \/ (\E a \in Addr : RecvData(a)) \/ CommitLater
  BY <1>1, <1>9 DEF GiveUp, RecvData, CommitLater
<1>10. CASE UNCHANGED vars
  BY <1>1, <1>10 DEF vars
<1>11. QED
  BY <1>2, <1>3, <1>4, <1>5, <1>6, <1>7, <1>8, <1>9, <1>10 DEF Next, Others

\* Two rows have the same address only where a lookup was refused or a row was
\* stored between the lookup and the UPDATE or INSERT of another: whatever the
\* file devaddrinfo held, also after the counter wrapped, and while other
\* processes remove and add nodes.
THEOREM JoinedAddressesDistinct == Spec => []AddressesDistinct
<1>1. Fresh => AddressesDistinct
  BY DEF Fresh
<1>2. QED
  BY <1>1, InitType, NextType, InitFresh, NextFresh, PTL DEF Spec

-----------------------------------------------------------------------------
\* The row of n is not there, was emptied, or is what this request put there.
RowHas(n, a, r) ==
    tbl[n].present /\ tbl[n].addr # 0 =>
        /\ tbl[n].addr = a
        /\ tbl[n].key.by = "join" => tbl[n].key.nwk = r /\ tbl[n].key.app = r

\* An accept in the transmit buffer is the one its thread still waits for, so
\* no later request of the node can have touched the row.
Matching ==
    /\ radio.st = "free" => radio.kind # "accept"
    /\ radio.kind = "accept" => spc = "tx" /\ radio.req = cur /\ radio.addr = addr
    /\ spc = "update" => (skeys.by = "join" => skeys.nwk = cur /\ skeys.app = cur)
    /\ spc \in {"send", "tx"} => cur \in refused \/ RowHas(owner[cur], addr, cur)

LEMMA InitMatching == Init => Matching
BY DEF Init, Matching, Free

LEMMA NextMatching == TypeInv /\ Order /\ Matching /\ [Next]_vars => Matching'
<1> SUFFICES ASSUME TypeInv, Order, Matching, [Next]_vars PROVE Matching'
  OBVIOUS
<1> USE DEF mainVars, sendVars, tableVars, airVars, answerVars, ghosts
<1>0. /\ tbl \in [Node -> Row] /\ radio \in Packet /\ skeys \in Keys
      /\ owner \in Seq(Node) /\ Len(owner) \in Nat
  BY TypesOf
<1>c. spc # "wait" => cur \in 1..Len(owner) /\ owner[cur] \in Node
  <2>1. spc # "wait" => cur \in Nat /\ cur > 0 /\ cur <= Len(owner)
    BY Sizes DEF TypeInv, CurIsRequest, Order
  <2>2. QED
    BY <1>0, <2>1, ElementType
<1>1. ASSUME UNCHANGED <<radio, spc, cur, addr, skeys, tbl, refused>>,
             spc # "wait" => owner'[cur] = owner[cur]
      PROVE  Matching'
  BY <1>1 DEF Matching, RowHas
<1>2. ASSUME NEW n \in Node, RecvJoin(n)
      PROVE  Matching'
  <2>1. spc # "wait" => owner'[cur] = owner[cur]
    BY <1>0, <1>2, <1>c DEF RecvJoin
  <2>2. QED
    BY <1>1, <1>2, <2>1 DEF RecvJoin
<1>3. CASE \/ Queue \/ Post \/ CommitLater \/ \E n \in Node : GiveUp(n)
           \/ (\E a \in Addr : AbpLookUp(a)) \/ AbpInsert
  BY <1>1, <1>3 DEF Queue, Post, CommitLater, GiveUp, AbpLookUp, AbpInsert
<1>4. ASSUME NEW a \in Addr, RecvData(a)
      PROVE  Matching'
  <2>1. skeys'.by = "data"
    BY <1>0, <1>4, KeysTypes DEF RecvData, Row, Keys
  <2>2. QED
    BY <1>4, <2>1 DEF RecvData, Matching, RowHas
<1>5. CASE TakeToken \/ DropFront \/ Sleep \/ AllocateFails \/ Allocate \/ Final
  BY <1>5 DEF TakeToken, FrontReturns1, DropFront, Sleep, AllocateFails, Allocate, Final, Matching
<1>6. CASE ComputeSKeys
  BY <1>6 DEF ComputeSKeys, KeysOf, Matching
<1>7. CASE UpdateTable
  <2>1. (cur \in refused \/ RowHas(owner[cur], addr, cur))'
    <3> DEFINE o == owner[cur]
    <3>1. o \in Node /\ spc = "update" /\ UNCHANGED <<owner, cur, addr>>
      BY <1>7, <1>c DEF UpdateTable
    <3>2. CASE tbl[o].present
      <4>1. PICK k \in Refusals : /\ tbl' = [tbl EXCEPT ![o] = Stored(@, k)]
                                  /\ refused' = IF k = 0 THEN refused ELSE refused \cup {cur}
        BY <1>7, <3>2 DEF UpdateTable
      <4>2. CASE k # 0
        BY <3>1, <4>1, <4>2
      <4>3. CASE k = 0
        <5>1. tbl'[o] = Stored(tbl[o], 0)
          BY <1>0, <3>1, <4>1, <4>3
        <5>2. tbl'[o].addr = addr /\ tbl'[o].key = [nwk |-> skeys.nwk, app |-> skeys.app, by |-> skeys.by]
          BY <1>0, <3>1, <5>1 DEF Stored, Row
        <5>3. QED
          BY <3>1, <5>2 DEF Matching, RowHas
      <4>4. QED
        BY <4>2, <4>3
    <3>3. CASE ~tbl[o].present
      BY <1>7, <3>1, <3>3 DEF UpdateTable, RowHas
    <3>4. QED
      BY <3>2, <3>3
  <2>2. QED
    BY <1>7, <2>1 DEF UpdateTable, Matching
<1>8. CASE Send
  BY <1>8 DEF Send, Matching, RowHas, Accept
<1>9. CASE TxPoll
  BY <1>9 DEF TxPoll, Matching, RowHas, Free
<1>10. CASE AnswerSend
  BY <1>10 DEF AnswerSend, Matching, RowHas, Answer
<1>11. CASE AnswerPoll
  BY <1>11 DEF AnswerPoll, Matching, RowHas, Free
<1>12. CASE Emit
  BY <1>0, <1>12 DEF Emit, Matching, RowHas, Packet
<1>13. CASE Emitted
  BY <1>13 DEF Emitted, Matching, RowHas, Free
<1>14. ASSUME NEW n \in Node, EditNode(n)
       PROVE  Matching'
  <2>1. \A m \in Node : tbl'[m] = tbl[m] \/ tbl'[m].addr = 0
    BY <1>0, <1>14 DEF EditNode
  <2>2. spc # "wait" => owner[cur] \in Node
    BY <1>c
  <2>3. QED
    BY <1>14, <2>1, <2>2 DEF EditNode, Matching, RowHas
<1>15. CASE UNCHANGED vars
  BY <1>1, <1>15 DEF vars
<1>16. QED
  BY <1>2, <1>3, <1>4, <1>5, <1>6, <1>7, <1>8, <1>9, <1>10, <1>11, <1>12, <1>13, <1>14, <1>15
  DEF Next, Main, SendThread, AnswerThread, Air, Others

\* A device starts its session with the address and keys that its row has: an
\* accept that could differ from the row was overwritten, or was sent before
\* the thread went on to another request.
THEOREM TableAgreesWithAccepts == Spec => RowMatchesAccept
<1>1. TypeInv /\ Matching /\ [Next]_vars =>
        [\A n \in Node :
            /\ dev'[n] # dev[n]
            /\ dev'[n].key \notin refused
            /\ tbl[n].present /\ tbl[n].addr # 0
            => /\ tbl[n].addr = dev'[n].addr
               /\ tbl[n].key.by = "join" =>
                    tbl[n].key.nwk = dev'[n].key /\ tbl[n].key.app = dev'[n].key]_vars
  <2> SUFFICES ASSUME TypeInv, Matching, Next, NEW n \in Node,
                      dev'[n] # dev[n], dev'[n].key \notin refused,
                      tbl[n].present, tbl[n].addr # 0
               PROVE  /\ tbl[n].addr = dev'[n].addr
                      /\ tbl[n].key.by = "join" =>
                           tbl[n].key.nwk = dev'[n].key /\ tbl[n].key.app = dev'[n].key
    OBVIOUS
  <2> USE DEF mainVars, sendVars, tableVars, airVars, answerVars, ghosts
  <2>1. Emitted
    BY DEF Next, Main, RecvJoin, Queue, Post, SendThread, TakeToken, DropFront, Sleep,
       AllocateFails, Allocate, ComputeSKeys, UpdateTable, Send, TxPoll, Final,
       AnswerThread, AnswerSend, AnswerPoll, Air, Emit, Others, GiveUp, EditNode, RecvData,
       AbpLookUp, AbpInsert, CommitLater
  <2>2. dev \in [Node -> Session]
    BY TypesOf
  <2>3. /\ radio.kind = "accept" /\ n = owner[radio.req]
        /\ dev'[n] = [addr |-> radio.addr, key |-> radio.req]
    BY <2>1, <2>2 DEF Emitted
  <2>4. QED
    BY <2>3 DEF Matching, RowHas
<1>2. QED
  BY <1>1, InitType, NextType, InitOrder, NextOrder, InitMatching, NextMatching, PTL
  DEF Spec, RowMatchesAccept
=============================================================================
