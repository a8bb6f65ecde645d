------------------------------ MODULE JoinFlow ------------------------------
(***************************************************************************)
(* The join path of lora_pkt_fwd: from a join request that passed the      *)
(* checks of LoRaWAN_Parse, through the join queue `line' and the thread   *)
(* that answers it 4.8 s later (Thread_Send_Queue_Task), to the join       *)
(* accept on the air; with the other threads and processes that touch what *)
(* it uses: the thread that answers uplinks, the data branch of            *)
(* LoRaWAN_Parse, and the processes that edit the table GWINFO.            *)
(*                                                                         *)
(* The queue is a sequence in order of arrival: unless the clock falls     *)
(* while requests wait, that is what the list implements (Implements in    *)
(* DelayQueueProofs).  Requests are numbered; the number of a request      *)
(* stands for the session keys its accept derives, 0 for any older keys.   *)
(* Any statement of sqlite may be refused while another process has the    *)
(* data base; its result is only ever printed.                             *)
(***************************************************************************)
EXTENDS Naturals, Sequences

CONSTANTS
    Node,       \* the OTAA nodes
    MAXQUEUE,   \* bound of the join queue
    MaxAddr,    \* the largest device address, 0xffffffff
    AbortLimit, \* polls in TX_SCHEDULED after which a send is aborted, 55
    AbpAddr,    \* the addresses of the ABP rows there are at the start
    Unlucky,    \* nodes for whose requests GetFront_Queue may return 1
    MaxReq,     \* bound on join requests
    MaxUplinks, \* bound on data frames and on answers to them
    MaxEdits    \* bound on what other processes do: rows and refusals

ASSUME JoinFlowAssumption ==
    /\ MAXQUEUE \in Nat \ {0}
    /\ MaxAddr \in Nat \ {0}
    /\ AbortLimit \in Nat \ {0}
    /\ AbpAddr \subseteq 1..MaxAddr
    /\ Unlucky \subseteq Node
    /\ MaxReq \in Nat
    /\ MaxUplinks \in Nat
    /\ MaxEdits \in Nat

VARIABLES
    mpc,        \* main: "idle", or with a request to "queue" or to "post"
    owner,      \* owner[r]: the node that sent request r
    line,       \* the join queue
    tokens,     \* the value of Join_SemFlag
    spc,        \* where Thread_Send_Queue_Task is
    cur,        \* the request it copied out of the front of the queue
    addr,       \* join_devaddr
    polls,      \* its scheduled_counter
    counter,    \* the address in the file devaddrinfo
    skeys,      \* whose keys LoRaMacNwkSKey and LoRaMacAppSKey hold, and
                \* which branch wrote them last
    tbl,        \* the rows of GWINFO for the OTAA nodes, as this process sees them
    unsaved,    \* its last COMMIT was refused: the transaction is still open
    abp,        \* the addresses of the ABP rows
    adding,     \* the ABP address another process looked up and did not find
    radio,      \* the transmit buffer of the sx1301
    apolls,     \* scheduled_counter of the answering thread, 0 if it is idle
    uplinks, edits,     \* counters for the bounds
    pend,       \* the request a device waits for, or 0
    dev,        \* the session a device is in
    sent,       \* the requests that were passed to lgw_send
    lost,       \* tokens used up for a request that stayed in the queue
    refused,    \* requests for which a statement of the update was refused
    overlooked  \* addresses taken into use although their lookup was refused
                \* or before the row of another that looked them up was stored

mainVars == <<mpc, owner>>
sendVars == <<spc, cur, addr, polls, counter>>
tableVars == <<tbl, unsaved, abp, adding, edits>>
airVars == <<radio, pend, dev>>
answerVars == <<apolls, uplinks>>
ghosts == <<sent, lost, refused, overlooked>>
vars == <<mainVars, line, tokens, sendVars, skeys, tableVars, airVars, answerVars, ghosts>>

Req == 1..MaxReq
Addr == 0..MaxAddr

\* A row: whether it exists, its address (0: none yet) and its keys.
Keys == [nwk : 0..MaxReq, app : 0..MaxReq, by : {"join", "data"}]
KeysOf(r) == [nwk |-> r, app |-> r, by |-> "join"]
OldKeys == KeysOf(0)
Row == [present : BOOLEAN, addr : Addr, key : Keys]
Session == [addr : Addr, key : 0..MaxReq]

\* What the transmit buffer holds, and whether it waits for its time stamp.
Free == [kind |-> "none", st |-> "free", req |-> 0, addr |-> 0]
Answer == [kind |-> "answer", st |-> "scheduled", req |-> 0, addr |-> 0]
Accept(r, a) == [kind |-> "accept", st |-> "scheduled", req |-> r, addr |-> a]
Packet == [kind : {"none", "answer", "accept"}, st : {"free", "scheduled", "emitting"},
           req : 0..MaxReq, addr : Addr]

TypeOK ==
    /\ mpc \in {"idle", "queue", "post"}
    /\ owner \in Seq(Node) /\ Len(owner) \in 0..MaxReq
    /\ line \in Seq(Req) /\ Len(line) <= MAXQUEUE
    /\ tokens \in 0..MaxReq
    /\ spc \in {"wait", "front", "alloc", "keys", "update", "send", "tx", "final"}
    /\ cur \in 0..MaxReq
    /\ addr \in Addr /\ counter \in Addr
    /\ polls \in 0..AbortLimit /\ apolls \in 0..AbortLimit+1
    /\ skeys \in Keys
    /\ tbl \in [Node -> Row]
    /\ radio \in Packet
    /\ uplinks \in 0..MaxUplinks /\ edits \in 0..MaxEdits
    /\ pend \in [Node -> 0..MaxReq] /\ dev \in [Node -> Session]
    /\ unsaved \in BOOLEAN /\ abp \subseteq Addr /\ adding \in Addr
    /\ sent \subseteq Req /\ lost \in 0..MaxReq
    /\ refused \subseteq Req /\ overlooked \subseteq Addr

\* An address that a row of an OTAA node and another row both have.
Clash(n, t, a) ==
    /\ t[n].present /\ t[n].addr # 0
    /\ \/ t[n].addr \in a
       \/ \E m \in Node \ {n} : t[m].present /\ t[m].addr = t[n].addr

\* Some nodes joined before the last restart; the file goes on from there.
Init ==
    /\ mpc = "idle" /\ owner = << >> /\ line = << >> /\ tokens = 0
    /\ spc = "wait" /\ cur = 0 /\ addr = 0 /\ polls = 0
    /\ counter \in Addr
    /\ skeys = OldKeys
    /\ tbl \in {t \in [Node -> [present : {TRUE}, addr : Addr, key : {OldKeys}]] :
                  \A n \in Node : ~Clash(n, t, AbpAddr)}
    /\ unsaved = FALSE /\ abp = AbpAddr /\ adding = 0
    /\ edits = 0
    /\ radio = Free
    /\ apolls = 0 /\ uplinks = 0
    /\ pend = [n \in Node |-> 0]
    /\ dev = [n \in Node |-> [addr |-> tbl[n].addr, key |-> 0]]
    /\ sent = {} /\ lost = 0 /\ refused = {} /\ overlooked = {}

-----------------------------------------------------------------------------
(* main: LoRaWAN_Parse and the thread it creates per request and joins.    *)

\* A request that is no repetition, from a known node, with a good MIC.
RecvJoin(n) ==
    /\ mpc = "idle"
    /\ tbl[n].present
    /\ pend[n] = 0
    /\ Len(owner) < MaxReq
    /\ owner' = Append(owner, n)
    /\ pend' = [pend EXCEPT ![n] = Len(owner) + 1]
    /\ mpc' = "queue"
    /\ UNCHANGED <<line, tokens, sendVars, skeys, tableVars, radio, dev, answerVars, ghosts>>

QueueIsFullOff == Len(line) > MAXQUEUE      \* mutant: tested too late
QueueIsFull == Len(line) = MAXQUEUE

\* EnQueue refuses when the queue is full; nobody looks at its result.
Queue ==
    /\ mpc = "queue"
    /\ line' = IF QueueIsFull THEN line ELSE Append(line, Len(owner))
    /\ mpc' = "post"
    /\ UNCHANGED <<owner, tokens, sendVars, skeys, tableVars, airVars, answerVars, ghosts>>

Post ==
    /\ mpc = "post"
    /\ tokens' = tokens + 1
    /\ mpc' = "idle"
    /\ UNCHANGED <<owner, line, sendVars, skeys, tableVars, airVars, answerVars, ghosts>>

\* A data frame with address a, from whatever device: Parse_GwInfo_Table copies
\* the keys of a row that has the address into the globals.
RecvData(a) ==
    /\ mpc = "idle"
    /\ a # 0
    /\ uplinks < MaxUplinks
    /\ uplinks' = uplinks + 1
    /\ \/ \E m \in Node :
            /\ tbl[m].present /\ tbl[m].addr = a
            /\ skeys' = [tbl[m].key EXCEPT !.by = "data"]
       \/ a \in abp /\ skeys' = [OldKeys EXCEPT !.by = "data"]
    /\ UNCHANGED <<mainVars, line, tokens, sendVars, tableVars, airVars, apolls, ghosts>>

-----------------------------------------------------------------------------
(* Thread_Send_Queue_Task.                                                 *)

DeQueue == line' = IF line = << >> THEN line ELSE Tail(line)

\* GetFront_Queue returns 1 if the queue is empty and ends without a return
\* statement if it is not: the caller then gets what is in the register, with
\* gcc -O2 the last thing copied, half of the AppEui.
MayReturn1 == line # << >> => owner[Head(line)] \in Unlucky

\* Back to sem_wait; if there is a request it stays, without its token.
FrontReturns1 ==
    /\ MayReturn1
    /\ lost' = IF line = << >> THEN lost ELSE lost + 1
    /\ UNCHANGED <<spc, cur>>

\* sem_wait and GetFront_Queue.
TakeToken ==
    /\ spc = "wait"
    /\ tokens > 0
    /\ tokens' = tokens - 1
    /\ \/ FrontReturns1
       \/ line # << >> /\ cur' = Head(line) /\ spc' = "front" /\ UNCHANGED lost
    /\ UNCHANGED <<mainVars, line, addr, polls, counter, skeys, tableVars, airVars, answerVars,
                   sent, refused, overlooked>>

\* The time to leave has passed, or the node is gone: the front is dropped.
DropFront ==
    /\ spc = "front"
    /\ DeQueue
    /\ spc' = "wait"
    /\ UNCHANGED <<mainVars, tokens, cur, addr, polls, counter, skeys, tableVars, airVars, answerVars, ghosts>>

\* The application key is known; usleep until the request leaves the queue.
Sleep ==
    /\ spc = "front"
    /\ tbl[owner[cur]].present
    /\ spc' = "alloc"
    /\ UNCHANGED <<mainVars, line, tokens, cur, addr, polls, counter, skeys, tableVars, airVars, answerVars, ghosts>>

\* The address after the one in the file; the largest one wraps to 1.
NextAddr == IF counter = MaxAddr THEN 1 ELSE counter + 1

InUseNever(a) == FALSE      \* mutant: Prevent_Addr_Identical is not asked
InUse(a) == a \in abp \/ \E n \in Node : tbl[n].present /\ tbl[n].addr = a

\* A lookup that is refused finds nothing, which is what its caller wants.  A
\* process in a transaction that could not be committed keeps the others out
\* and is not refused anything itself.
LookupRefused(a) == overlooked' = overlooked \cup {a}
LookupFindsNone(a) == ~InUse(a) /\ UNCHANGED overlooked

\* Other processes do k more things: edit a row, or have the data base at the
\* moment at which a statement of this process is then refused.
Meddle(k) == edits + k <= MaxEdits /\ edits' = edits + k

\* Mutant of AllocateFails: the request stays in the queue.
AllocateFailsKeep ==
    /\ spc = "alloc"
    /\ counter' \in {counter, NextAddr}
    /\ spc' = "wait"
    /\ UNCHANGED <<mainVars, line, tokens, cur, addr, polls, skeys, tableVars, airVars, answerVars, ghosts>>

\* No file devaddrinfo; or the address is in use; or the radio settings are
\* not in the database.  The request is dropped; only in the first case the
\* address is not used up.
AllocateFails ==
    /\ spc = "alloc"
    /\ counter' \in {counter, NextAddr}
    /\ DeQueue
    /\ spc' = "wait"
    /\ UNCHANGED <<mainVars, tokens, cur, addr, polls, skeys, tableVars, airVars, answerVars, ghosts>>

\* Prevent_Addr_Identical takes everything but a row for a free address.
Allocate ==
    /\ spc = "alloc"
    /\ counter' = NextAddr
    /\ \/ ~unsaved /\ LookupRefused(NextAddr) /\ Meddle(1)
       \/ LookupFindsNone(NextAddr) /\ Meddle(0)
    /\ addr' = NextAddr
    /\ spc' = "keys"
    /\ UNCHANGED <<mainVars, line, tokens, cur, polls, skeys, tbl, unsaved, abp, adding,
                   airVars, answerVars, sent, lost, refused>>

\* Mutant of ComputeSKeys: the keys are only computed for the first request.
ComputeSKeysOnce ==
    /\ spc = "keys"
    /\ skeys' = IF skeys = OldKeys THEN KeysOf(cur) ELSE skeys
    /\ spc' = "update"
    /\ UNCHANGED <<mainVars, line, tokens, cur, addr, polls, counter, tableVars, airVars, answerVars, ghosts>>

\* LoRaMacJoinComputeSKeys writes the globals ...
ComputeSKeys ==
    /\ spc = "keys"
    /\ skeys' = KeysOf(cur)
    /\ spc' = "update"
    /\ UNCHANGED <<mainVars, line, tokens, cur, addr, polls, counter, tableVars, airVars, answerVars, ghosts>>

\* ... and Update_GwInfo_Table stores what they hold by now, if the row exists:
\* four UPDATEs, for Nwkskey, APPskey, Devaddr and APPEui.  The first k may be
\* refused, or all because the SELECT is (4); one that is not refused has the
\* lock that the others need.
Refusals == IF unsaved THEN {0} ELSE 0..4

Stored(row, k) ==
    [row EXCEPT
        !.addr = IF k <= 2 THEN addr ELSE @,
        !.key = [nwk |-> IF k = 0 THEN skeys.nwk ELSE @.nwk,
                 app |-> IF k <= 1 THEN skeys.app ELSE @.app,
                 by |-> IF k <= 1 THEN skeys.by ELSE @.by]]

\* The COMMIT may be refused too.  The accept is sent in any case.
UpdateTable ==
    LET n == owner[cur]
    IN  /\ spc = "update"
        /\ IF tbl[n].present
           THEN \E k \in Refusals, open \in BOOLEAN :
                  /\ Meddle((IF k > 0 THEN 1 ELSE 0) + (IF open THEN 1 ELSE 0))
                  /\ tbl' = [tbl EXCEPT ![n] = Stored(@, k)]
                  /\ refused' = IF k = 0 THEN refused ELSE refused \cup {cur}
                  /\ unsaved' = open /\ (k = 4 => ~open)
                  /\ overlooked' = IF adding = addr THEN overlooked \cup {addr} ELSE overlooked
           ELSE UNCHANGED <<tbl, refused, unsaved, overlooked, edits>>
        /\ spc' = "send"
        /\ UNCHANGED <<mainVars, line, tokens, cur, addr, polls, counter, skeys, abp, adding,
                       airVars, answerVars, sent, lost>>

\* Some other COMMIT of this process ends the transaction.
CommitLater ==
    /\ unsaved
    /\ unsaved' = FALSE
    /\ UNCHANGED <<mainVars, line, tokens, sendVars, skeys, tbl, abp, adding, edits,
                   airVars, answerVars, ghosts>>

\* lgw_send fails, or schedules the accept in place of what was there.
Send ==
    /\ spc = "send"
    /\ sent' = sent \cup {cur}
    /\ polls' = 0
    /\ \/ spc' = "final" /\ UNCHANGED radio
       \/ spc' = "tx" /\ radio' = Accept(cur, addr)
    /\ UNCHANGED <<mainVars, line, tokens, cur, addr, counter, skeys, tableVars, pend, dev, answerVars,
                   lost, refused, overlooked>>

\* One iteration of the loop that waits for TX_FREE.  Once the limit is
\* reached every iteration aborts and drops the front, and the status it
\* ends on is the one read before the abort.
TxPoll ==
    LET n == IF radio.st = "scheduled" /\ polls < AbortLimit THEN polls + 1 ELSE polls
    IN  /\ spc = "tx"
        /\ polls' = n
        /\ IF n < AbortLimit
           THEN UNCHANGED <<line, radio>>
           ELSE DeQueue /\ radio' \in {Free, radio}
        /\ spc' = IF radio.st = "free" THEN "final" ELSE "tx"
        /\ UNCHANGED <<mainVars, tokens, cur, addr, counter, skeys, tableVars, pend, dev, answerVars, ghosts>>

\* Mutant of Final: nothing is removed after a send.
FinalKeep ==
    /\ spc = "final"
    /\ spc' = "wait"
    /\ UNCHANGED <<mainVars, line, tokens, cur, addr, polls, counter, skeys, tableVars, airVars, answerVars, ghosts>>

Final ==
    /\ spc = "final"
    /\ DeQueue
    /\ spc' = "wait"
    /\ UNCHANGED <<mainVars, tokens, cur, addr, polls, counter, skeys, tableVars, airVars, answerVars, ghosts>>

-----------------------------------------------------------------------------
(* Thread_Handle_Data_Task, as far as the join path can see it.            *)

\* It answers an uplink, in the same transmit buffer.
AnswerSend ==
    /\ apolls = 0
    /\ uplinks < MaxUplinks
    /\ uplinks' = uplinks + 1
    /\ apolls' = 1
    /\ radio' = Answer
    /\ UNCHANGED <<mainVars, line, tokens, sendVars, skeys, tableVars, pend, dev, ghosts>>

\* Its loop is a copy of the other one and drops from the join queue too.
AnswerPoll ==
    LET n == IF radio.st = "scheduled" /\ apolls <= AbortLimit THEN apolls + 1 ELSE apolls
    IN  /\ apolls > 0
        /\ IF n <= AbortLimit
           THEN UNCHANGED <<line, radio>>
           ELSE DeQueue /\ radio' \in {Free, radio}
        /\ apolls' = IF radio.st = "free" THEN 0 ELSE n
        /\ UNCHANGED <<mainVars, tokens, sendVars, skeys, tableVars, pend, dev, uplinks, ghosts>>

-----------------------------------------------------------------------------
(* The radio, the devices and the other processes.                         *)

Emit ==
    /\ radio.st = "scheduled"
    /\ radio' = [radio EXCEPT !.st = "emitting"]
    /\ UNCHANGED <<mainVars, line, tokens, sendVars, skeys, tableVars, pend, dev, answerVars, ghosts>>

\* A device that still waits for this accept starts a session with it.
Emitted ==
    /\ radio.st = "emitting"
    /\ radio' = Free
    /\ IF radio.kind = "accept" /\ pend[owner[radio.req]] = radio.req
       THEN LET n == owner[radio.req]
            IN  /\ dev' = [dev EXCEPT ![n] = [addr |-> radio.addr, key |-> radio.req]]
                /\ pend' = [pend EXCEPT ![n] = 0]
       ELSE UNCHANGED <<dev, pend>>
    /\ UNCHANGED <<mainVars, line, tokens, sendVars, skeys, tableVars, answerVars, ghosts>>

\* The receive windows of a device pass; it may ask again.
GiveUp(n) ==
    /\ pend[n] # 0
    /\ pend' = [pend EXCEPT ![n] = 0]
    /\ UNCHANGED <<mainVars, line, tokens, sendVars, skeys, tableVars, radio, dev, answerVars, ghosts>>

\* ServerDeleteSingleNode, ServerAddSingleNode and their twins in lora_conf.
EditNode(n) ==
    /\ ~unsaved
    /\ Meddle(1)
    /\ tbl' = [tbl EXCEPT ![n] = [present |-> ~tbl[n].present, addr |-> 0, key |-> OldKeys]]
    /\ UNCHANGED <<mainVars, line, tokens, sendVars, skeys, unsaved, abp, adding,
                   airVars, answerVars, ghosts>>

\* ServerAddAbpNode and its twin: the address is looked up in a transaction ...
AbpLookUp(a) ==
    /\ adding = 0 /\ a # 0
    /\ LookupRefused(a) \/ (~unsaved /\ LookupFindsNone(a))
    /\ Meddle(1)
    /\ adding' = a
    /\ UNCHANGED <<mainVars, line, tokens, sendVars, skeys, tbl, unsaved, abp,
                   airVars, answerVars, sent, lost, refused>>

\* ... and its row inserted in another, unless that is refused.
AbpInsert ==
    /\ adding # 0
    /\ adding' = 0
    /\ \/ /\ ~unsaved
          /\ abp' = abp \cup {adding}
          /\ overlooked' = IF spc \in {"keys", "update"} /\ addr = adding
                           THEN overlooked \cup {addr} ELSE overlooked
       \/ UNCHANGED <<abp, overlooked>>
    /\ UNCHANGED <<mainVars, line, tokens, sendVars, skeys, tbl, unsaved, edits,
                   airVars, answerVars, sent, lost, refused>>

-----------------------------------------------------------------------------
Main == (\E n \in Node : RecvJoin(n)) \/ Queue \/ Post
SendThread ==
    \/ TakeToken \/ DropFront \/ Sleep \/ AllocateFails \/ Allocate
    \/ ComputeSKeys \/ UpdateTable \/ Send \/ TxPoll \/ Final
AnswerThread == AnswerSend \/ AnswerPoll
Air == Emit \/ Emitted
Others ==
    \/ \E n \in Node : GiveUp(n) \/ EditNode(n)
    \/ \E a \in Addr : AbpLookUp(a)
    \/ AbpInsert

Next ==
    \/ Main \/ SendThread \/ AnswerThread \/ Air \/ Others
    \/ \E a \in Addr : RecvData(a)
    \/ CommitLater

Spec == Init /\ [][Next]_vars

\* The threads are scheduled and the radio emits what it is given.
Fairness ==
    /\ WF_vars(Queue \/ Post) /\ WF_vars(SendThread) /\ WF_vars(AnswerPoll) /\ WF_vars(Air)

FairSpec == Spec /\ Fairness

-----------------------------------------------------------------------------
\* Join_SemFlag never runs behind the queue: apart from the request in hand
\* and the one whose token is about to be posted, each queued request has its
\* token, however many requests the abort paths of the two senders remove.
\* Otherwise the thread would sleep with a request queued.  The only tokens to
\* get lost are those for which GetFront_Queue says 1 with a request there.
NoLostWakeup ==
    Len(line) <= tokens + (IF spc = "wait" THEN 0 ELSE 1)
                        + (IF mpc = "post" THEN 1 ELSE 0) + lost

\* No node that joined has the address of another node or of an ABP row,
\* whatever the file said and also after the address counter wrapped, unless
\* the lookup of the address was refused or another process stored a row with
\* it between the lookup and the UPDATE (or the other way round).
AddressesDistinct == \A n \in Node : Clash(n, tbl, abp) => tbl[n].addr \in overlooked

\* A request is answered at most once, even though the thread reads the front
\* long before it removes it and the queue moves in between.
AnsweredOnce == [][Send => cur \notin sent]_vars

\* When a device starts its session, its row has the address and the keys of
\* this very accept, although other requests were answered and other accepts
\* overwritten meanwhile, unless a statement of the update of its row was
\* refused.  The keys may be others only if a data frame was parsed between
\* their computation and the update of the table; a row that was removed
\* meanwhile has no address.
RowMatchesAccept ==
    [][\A n \in Node :
        /\ dev'[n] # dev[n]
        /\ dev'[n].key \notin refused
        /\ tbl[n].present /\ tbl[n].addr # 0
        => /\ tbl[n].addr = dev'[n].addr
           /\ tbl[n].key.by = "join" =>
                tbl[n].key.nwk = dev'[n].key /\ tbl[n].key.app = dev'[n].key]_vars

\* Every queued request leaves the queue, unless a token got lost.
Queued(r) == \E i \in 1..Len(line) : line[i] = r
RequestsLeave == \A r \in Req : Queued(r) ~> ~Queued(r) \/ lost > 0

\* An abort gives up the send it waits for and no other request.
AbortDropsItsOwn == [][TxPoll => line' = line \/ Head(line) = cur]_vars
=============================================================================
