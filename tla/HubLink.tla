------------------------------- MODULE HubLink ------------------------------
(***************************************************************************)
(* The TCP link of lora_pkt_server to the management server                *)
(* (lora_pkt_server.c, as built: communication version 1.0.3, without      *)
(* registration).  main authenticates the hub and then starts a thread     *)
(* that receives and one that sends heartbeats.  Whoever finds the         *)
(* connection lost replaces it and authenticates again, in                 *)
(* ReconnectWith_Server with the lock rw_close_socket_flag held, which the *)
(* authentication and its answer lock once more.                           *)
(*                                                                         *)
(* What a thread does when it locks what it has locked itself is left to   *)
(* the C library: musl blocks it for ever; uClibc and glibc refuse, and as *)
(* the result is not looked at, the inner unlock then gives the lock up    *)
(* and the outer one finds it free, or another thread's.                   *)
(***************************************************************************)
EXTENDS Naturals, Sequences, SequencesExt

CONSTANTS
    IdMod,      \* heart_beat_id runs through 0..IdMod-1; 65535
    MaxFaults,  \* bound on connections that break or are not made, and on exits
    MaxLate,    \* bound on heartbeats sent before the last one was answered
    MaxNo,      \* bound on authentications the server turns down
    MaxCmds,    \* bound on commands of the server
    MaxDepth    \* bound on a thread's calls of ReconnectWith_Server from itself

ASSUME HubLinkAssumption ==
    /\ IdMod \in Nat \ {0}
    /\ MaxFaults \in Nat /\ MaxLate \in Nat /\ MaxNo \in Nat /\ MaxCmds \in Nat
    /\ MaxDepth \in Nat \ {0}

Thread == {"main", "recv", "heart"}

VARIABLES
    relock,     \* what locking again does: "blocks" or "refused"
    sock,       \* tcp_sock_fd: "new", "open", "dead", "closed" or "bare" (never
                \* connected)
    lock,       \* the writer of rw_close_socket_flag; "jammed" when readers
                \* that do not exist are left in it, "never" when it is never released
    flag,       \* closeSocket_Bymyself
    auth,       \* Auth_Successful_Flag
    pc,         \* where each thread is
    stack,      \* its calls of ReconnectWith_Server: where they return to, and i
    tries,      \* i of the receiver's own authentications
    rcv,        \* the connection a thread's recv waits on: "live" or "shut"
    inbox,      \* what the server has sent on the connection
    batch,      \* what the receiver has read and still has to handle
    accepted,   \* the server has accepted an authentication on the connection
    id,         \* heart_beat_id
    join_data,  \* the heartbeats in the buffer of that name
    alive,      \* the process was not killed by SIGPIPE and has not left
    faults, late, no, cmds      \* counters for the bounds

link == <<sock, lock, flag, auth, accepted>>
threads == <<pc, stack, tries, rcv>>
data == <<inbox, batch, id, join_data>>
bounds == <<faults, late, no, cmds>>
vars == <<relock, link, threads, data, alive, bounds>>

Id == 0..IdMod-1

\* The answer to heartbeat n; `last` is the last heartbeat of the frame it answers.
Msg == [type : {"auth"}, n : 0..1] \union [type : {"heart"}, n : Id, last : Id]
         \union [type : {"command"}, n : {0}]
Yes == [type |-> "auth", n |-> 1]
No == [type |-> "auth", n |-> 0]

Idle == {"sleep", "check", "done", "none", "idle", "send", "call", "recv", "handle",
         "reply", "error", "mine", "theirs", "takeover", "unflag", "tried"}
Common == {"auth", "ack", "acked", "close", "reconnect", "connect", "retry", "release"}

TypeOK ==
    /\ relock \in {"blocks", "refused"}
    /\ sock \in {"new", "open", "dead", "closed", "bare"}
    /\ lock \in Thread \union {"none", "tcp", "jammed", "never"}
    /\ flag \in BOOLEAN /\ auth \in BOOLEAN /\ alive \in BOOLEAN /\ accepted \in BOOLEAN
    /\ pc \in [Thread -> Idle \union Common]
    /\ stack \in [Thread -> Seq([ret : {"ack", "idle", "handle"}, i : 0..3])]
    /\ tries \in 0..3
    /\ rcv \in [Thread -> {"live", "shut"}]
    /\ inbox \in Seq(Msg) /\ batch \in Seq(Msg) /\ id \in Id /\ join_data \subseteq Id
    /\ faults \in 0..MaxFaults /\ late \in 0..MaxLate /\ no \in 0..MaxNo /\ cmds \in 0..MaxCmds

\* Thread_Tcp_Connect has the lock when main, 5 s later, goes on; it keeps it if
\* it has closed its socket because the address is not accepted.
Booted ==
    /\ sock = "new" /\ lock \in {"tcp", "never"} /\ flag = FALSE /\ auth = FALSE /\ accepted = FALSE
    /\ pc = [main |-> "check", recv |-> "none", heart |-> "none"]
    /\ stack = [t \in Thread |-> << >>] /\ tries = 0
    /\ rcv = [t \in Thread |-> "live"]
    /\ inbox = << >> /\ batch = << >> /\ id = 0 /\ join_data = {} /\ alive = TRUE

Init ==
    /\ Booted /\ relock \in {"blocks", "refused"}
    /\ faults = 0 /\ late = 0 /\ no = 0 /\ cmds = 0

At(t, l) == alive /\ pc[t] = l
Goto(t, l) == pc' = [pc EXCEPT ![t] = l]

-----------------------------------------------------------------------------
(* The lock.                                                               *)

CanLock(t) == lock = "none" \/ (lock = t /\ relock = "refused")

\* After a nested lock and unlock the lock is free.
Unlocked == "none"

\* The last unlock of ReconnectWith_Server, of a lock that is not its own any
\* more: a free one is left with a reader too few, another thread's is freed.
Release(t) == IF lock = "none" THEN "jammed" ELSE "none"

-----------------------------------------------------------------------------
(* What the threads share: authentication, its answer, reconnection.       *)

FirstConnect ==
    /\ alive /\ lock = "tcp"
    /\ sock' = "open" /\ lock' = "none"
    /\ UNCHANGED <<relock, flag, auth, accepted, threads, data, alive, bounds>>

Sendable == sock \in {"open", "dead"}

\* send fails, or raises SIGPIPE, which nobody ignores or handles; a closed
\* descriptor does not raise it.
Fails == sock # "open" /\ (alive' = TRUE \/ (sock # "closed" /\ alive' = FALSE))

Call(t, ret) ==
    /\ Len(stack[t]) < MaxDepth
    /\ stack' = [stack EXCEPT ![t] = <<[ret |-> ret, i |-> 0]>> \o @]
    /\ Goto(t, "reconnect")

\* The server answers every authentication that reaches it, or closes.
AuthAnswered ==
    \/ /\ inbox' = Append(inbox, Yes)
       /\ accepted' = TRUE /\ UNCHANGED no
    \/ /\ no < MaxNo /\ no' = no + 1
       /\ inbox' = Append(inbox, No) /\ UNCHANGED accepted

HUB_Authentication(t) ==
    /\ At(t, "auth") /\ CanLock(t)
    /\ lock' = Unlocked
    /\ \/ /\ Sendable
          /\ Goto(t, "ack")
          /\ IF sock = "open" THEN AuthAnswered ELSE UNCHANGED <<inbox, accepted, no>>
          /\ UNCHANGED <<stack, alive>>
       \/ /\ Fails
          /\ Call(t, "ack")
          /\ UNCHANGED <<inbox, accepted, no>>
    /\ UNCHANGED <<relock, sock, flag, auth, tries, rcv, batch, id, join_data, faults, late, cmds>>

HUB_Authentication_Ack(t) ==
    /\ At(t, "ack") /\ CanLock(t)
    /\ lock' = t
    /\ rcv' = [rcv EXCEPT ![t] = "live"]
    /\ Goto(t, "acked")
    /\ UNCHANGED <<relock, sock, flag, auth, accepted, stack, tries, data, alive, bounds>>

\* Mutant: the result in the answer is not looked at.
AcceptsAnyAnswer(msgs) == msgs = <<Yes>> \/ msgs = <<No>>

\* One message, the answer, with the result 0x00.
Accepts(msgs) == msgs = <<Yes>>

\* In ReconnectWith_Server the answer ends a round of its loop; main repeats
\* until the result is not 1.
AckReturns(t, results) ==
    IF stack[t] # << >>
    THEN /\ stack' = [stack EXCEPT ![t][1].i = @ + 1]
         /\ Goto(t, "retry")
    ELSE /\ UNCHANGED stack
         /\ IF t = "recv" THEN Goto(t, "tried")
            ELSE \E r \in results : Goto(t, IF r = 1 THEN "auth" ELSE "check")

Broken(t) == rcv[t] = "shut" \/ sock # "open"

\* recv returns what has arrived, or some of it, as one message.
AckReads(t) ==
    /\ At(t, "acked") /\ rcv[t] = "live"
    /\ \E n \in 1..Len(inbox) :
        LET msgs == SubSeq(inbox, 1, n)
        IN  /\ inbox' = SubSeq(inbox, n + 1, Len(inbox))
            /\ auth' = (auth \/ Accepts(msgs))
            /\ AckReturns(t, {IF Accepts(msgs) THEN 0 ELSE 1})
    /\ lock' = Unlocked
    /\ UNCHANGED <<relock, sock, flag, accepted, tries, rcv, batch, id, join_data, alive, bounds>>

AckFails(t) ==
    /\ At(t, "acked") /\ Broken(t)
    /\ lock' = Unlocked
    /\ Goto(t, "close")
    /\ UNCHANGED <<relock, sock, flag, auth, accepted, stack, tries, rcv, data, alive, bounds>>

\* After the unlock the socket is closed, and there is no return statement:
\* what main takes for the result is what a register holds.
AckCloses(t) ==
    /\ At(t, "close")
    /\ sock' = "closed"
    /\ AckReturns(t, {0, 1})
    /\ UNCHANGED <<relock, lock, flag, auth, accepted, tries, rcv, data, alive, bounds>>

InRecv(t) == pc[t] = IF t = "recv" THEN "recv" ELSE "acked"
Waiting(t) == InRecv(t) \/ pc[t] = "acked"

\* shutdown, close and socket.
CloseAndReopen(t) ==
    /\ lock' = t
    /\ sock' = "new" /\ accepted' = FALSE /\ inbox' = << >>
    /\ rcv' = [u \in Thread |-> IF Waiting(u) THEN "shut" ELSE rcv[u]]

ReconnectWith_Server(t) ==
    /\ At(t, "reconnect") /\ CanLock(t)
    /\ CloseAndReopen(t)
    /\ Goto(t, "connect")
    /\ UNCHANGED <<relock, flag, auth, stack, tries, batch, id, join_data, alive, bounds>>

\* It tries until it is connected: for ever, on a descriptor that another thread
\* has closed; not at all if inet_aton does not accept the address.
Tcp_Reconnection ==
    /\ sock = "new"
    /\ \/ sock' = "open" /\ UNCHANGED faults
       \/ faults < MaxFaults /\ faults' = faults + 1 /\ sock' = "bare"

\* server_conf.json, which others write too, is not JSON: exit.
ConfUnreadable ==
    /\ alive /\ (lock = "tcp" \/ \E t \in Thread : pc[t] \in {"auth", "connect", "takeover"})
    /\ faults < MaxFaults /\ faults' = faults + 1
    /\ alive' = FALSE
    /\ UNCHANGED <<relock, link, threads, data, late, no, cmds>>

Reconnected(t) ==
    /\ At(t, "connect")
    /\ Tcp_Reconnection
    /\ flag' = TRUE /\ auth' = FALSE
    /\ Goto(t, "retry")
    /\ UNCHANGED <<relock, lock, accepted, stack, tries, rcv, data, alive, late, no, cmds>>

Retry(t) ==
    /\ At(t, "retry")
    /\ Goto(t, IF stack[t][1].i < 3 /\ ~auth THEN "auth" ELSE "release")
    /\ UNCHANGED <<relock, link, stack, tries, rcv, data, alive, bounds>>

Returned(t) ==
    /\ At(t, "release")
    /\ lock' = Release(t)
    /\ Goto(t, stack[t][1].ret)
    /\ stack' = [stack EXCEPT ![t] = Tail(@)]
    /\ UNCHANGED <<relock, sock, flag, auth, accepted, tries, rcv, data, alive, bounds>>

Shared(t) ==
    \/ HUB_Authentication(t) \/ HUB_Authentication_Ack(t)
    \/ AckReads(t) \/ AckFails(t) \/ AckCloses(t)
    \/ ReconnectWith_Server(t) \/ Reconnected(t) \/ Retry(t) \/ Returned(t)

-----------------------------------------------------------------------------
(* main and the heartbeats.                                                *)

Check ==
    /\ At("main", "check")
    /\ pc' = IF auth THEN [main |-> "done", recv |-> "call", heart |-> "idle"]
             ELSE [pc EXCEPT !["main"] = "auth"]
    /\ UNCHANGED <<relock, link, stack, tries, rcv, data, alive, bounds>>

NextIdNoWrap == id + 1      \* mutant: no reset at 65535
NextId == IF id + 1 = IdMod THEN 0 ELSE id + 1

Outstanding == \E m \in Range(inbox \o batch) : m.type = "heart"

\* The thread sleeps for 60 s, except after a failure: the last heartbeat was
\* answered by then, or its answer is late.  It sleeps again when something was
\* received meanwhile.  A heartbeat is put behind what a failed send left in
\* join_data.
Heartbeat ==
    /\ At("heart", "idle")
    /\ \/ (join_data # {} \/ ~Outstanding) /\ UNCHANGED late
       \/ Outstanding /\ late < MaxLate /\ late' = late + 1
    /\ id' = NextId
    /\ join_data' = join_data \union {NextId}
    /\ Goto("heart", "send")
    /\ UNCHANGED <<relock, link, stack, tries, rcv, inbox, batch, alive, faults, no, cmds>>

\* The server answers one heartbeat of the frame it gets.
HeartAnswered ==
    \E k \in join_data : inbox' = Append(inbox, [type |-> "heart", n |-> k, last |-> id])

HeartSend ==
    /\ At("heart", "send") /\ CanLock("heart")
    /\ \/ /\ Sendable
          /\ Goto("heart", "idle")
          /\ join_data' = {}
          /\ IF sock = "open" THEN HeartAnswered ELSE UNCHANGED inbox
          /\ UNCHANGED <<stack, alive>>
       \/ /\ Fails
          /\ Call("heart", "idle")
          /\ UNCHANGED <<inbox, join_data>>
    /\ UNCHANGED <<relock, link, tries, rcv, batch, id, bounds>>

-----------------------------------------------------------------------------
(* Thread_Recv_ServerData.                                                 *)

\* recv on a socket without a connection fails at once.
Recv ==
    /\ At("recv", "call")
    /\ IF sock \in {"new", "closed", "bare"}
       THEN Goto("recv", "error") /\ UNCHANGED rcv
       ELSE Goto("recv", "recv") /\ rcv' = [rcv EXCEPT !["recv"] = "live"]
    /\ UNCHANGED <<relock, link, stack, tries, data, alive, bounds>>

RecvFails ==
    /\ At("recv", "recv") /\ Broken("recv")
    /\ rcv["recv"] = "live" => sock # "new"
    /\ Goto("recv", "error")
    /\ UNCHANGED <<relock, link, stack, tries, rcv, data, alive, bounds>>

RecvReads ==
    /\ At("recv", "recv") /\ rcv["recv"] = "live"
    /\ \E n \in 1..Len(inbox) :
         batch' = SubSeq(inbox, 1, n) /\ inbox' = SubSeq(inbox, n + 1, Len(inbox))
    /\ Goto("recv", "handle")
    /\ UNCHANGED <<relock, link, stack, tries, rcv, id, join_data, alive, bounds>>

IsCurrentOff(k) == k = NextId     \* mutant: compares with the next heartbeat
IsCurrent(k) == k = id

\* Handle_Message_Type: answers to authentications are not among its cases;
\* Server_Heartbeat_Ack reconnects on any answer but the one to the last heartbeat.
Handle_Message_Type ==
    /\ At("recv", "handle")
    /\ IF batch = << >>
       THEN Goto("recv", "call") /\ UNCHANGED <<batch, stack>>
       ELSE LET m == Head(batch)
            IN  /\ batch' = Tail(batch)
                /\ CASE m.type = "auth"    -> UNCHANGED <<pc, stack>>
                     [] m.type = "command" -> Goto("recv", "reply") /\ UNCHANGED stack
                     [] m.type = "heart"   ->
                          IF IsCurrent(m.n) THEN UNCHANGED <<pc, stack>>
                          ELSE Call("recv", "handle")
    /\ UNCHANGED <<relock, link, tries, rcv, inbox, id, join_data, alive, bounds>>

\* The functions of message_management.c send without the lock.
Reply ==
    /\ At("recv", "reply")
    /\ \/ Sendable /\ Goto("recv", "handle") /\ UNCHANGED <<stack, alive>>
       \/ Fails /\ Call("recv", "handle")
    /\ UNCHANGED <<relock, link, tries, rcv, data, bounds>>

\* Readers pass a lock that is jammed, as their own locking fails.
ReadFlag ==
    /\ At("recv", "error") /\ lock \in {"none", "jammed"}
    /\ Goto("recv", IF flag THEN "mine" ELSE "theirs")
    /\ UNCHANGED <<relock, link, stack, tries, rcv, data, alive, bounds>>

ClearFlag ==
    /\ At("recv", "mine") /\ CanLock("recv")
    /\ flag' = FALSE
    /\ Goto("recv", "call")
    /\ UNCHANGED <<relock, sock, lock, auth, accepted, stack, tries, rcv, data, alive, bounds>>

TakeOver ==
    /\ At("recv", "theirs") /\ CanLock("recv")
    /\ CloseAndReopen("recv")
    /\ Goto("recv", "takeover")
    /\ UNCHANGED <<relock, flag, auth, stack, tries, batch, id, join_data, alive, bounds>>

\* Mutant: the lock is kept for the authentication, as in ReconnectWith_Server.
TakenOverLocked ==
    /\ At("recv", "takeover")
    /\ Tcp_Reconnection
    /\ Goto("recv", "unflag")
    /\ UNCHANGED <<relock, lock, flag, auth, accepted, stack, tries, rcv, data, alive, late, no, cmds>>

TakenOver ==
    /\ At("recv", "takeover")
    /\ Tcp_Reconnection
    /\ lock' = "none"
    /\ Goto("recv", "unflag")
    /\ UNCHANGED <<relock, flag, auth, accepted, stack, tries, rcv, data, alive, late, no, cmds>>

\* The flag is cleared after the unlock; Auth_Successful_Flag stays what it was.
Unflag ==
    /\ At("recv", "unflag")
    /\ flag' = FALSE /\ tries' = 0
    /\ Goto("recv", "auth")
    /\ UNCHANGED <<relock, sock, lock, auth, accepted, stack, rcv, data, alive, bounds>>

Tried ==
    /\ At("recv", "tried")
    /\ tries' = IF auth THEN 0 ELSE tries + 1
    /\ Goto("recv", IF auth \/ tries + 1 = 3 THEN "call" ELSE "auth")
    /\ UNCHANGED <<relock, link, stack, rcv, data, alive, bounds>>

-----------------------------------------------------------------------------
(* The server, the network and the watchdog.                               *)

Breaks ==
    /\ alive /\ sock = "open" /\ faults < MaxFaults
    /\ faults' = faults + 1
    /\ sock' = "dead"
    /\ UNCHANGED <<relock, lock, flag, auth, accepted, threads, data, alive, late, no, cmds>>

Command ==
    /\ alive /\ sock = "open" /\ accepted /\ cmds < MaxCmds
    /\ cmds' = cmds + 1
    /\ inbox' = Append(inbox, [type |-> "command", n |-> 0])
    /\ UNCHANGED <<relock, link, threads, batch, id, join_data, alive, faults, late, no>>

\* watchdog_script starts a process that is gone; one that hangs is not.
Watchdog ==
    /\ ~alive
    /\ sock' = "new" /\ lock' \in {"tcp", "never"} /\ flag' = FALSE /\ auth' = FALSE /\ accepted' = FALSE
    /\ pc' = [main |-> "check", recv |-> "none", heart |-> "none"]
    /\ stack' = [t \in Thread |-> << >>] /\ tries' = 0
    /\ rcv' = [t \in Thread |-> "live"]
    /\ inbox' = << >> /\ batch' = << >> /\ id' = 0 /\ join_data' = {} /\ alive' = TRUE
    /\ UNCHANGED <<relock, bounds>>

Receiver ==
    \/ Recv \/ RecvFails \/ RecvReads \/ Handle_Message_Type \/ Reply
    \/ ReadFlag \/ ClearFlag \/ TakeOver \/ TakenOver \/ Unflag \/ Tried

Next ==
    \/ FirstConnect \/ Check \/ Heartbeat \/ HeartSend \/ Receiver
    \/ \E t \in Thread : Shared(t)
    \/ Breaks \/ ConfUnreadable \/ Command \/ Watchdog

Spec == Init /\ [][Next]_vars

\* The threads are scheduled, connect succeeds in the end, sleep(60) ends and
\* the watchdog runs.  That ConfUnreadable happens is not required.
FairSpec ==
    /\ Spec
    /\ WF_vars(FirstConnect) /\ WF_vars(Check) /\ WF_vars(Receiver)
    /\ WF_vars(Heartbeat) /\ WF_vars(HeartSend) /\ WF_vars(Watchdog)
    /\ \A t \in Thread : WF_vars(Shared(t))

-----------------------------------------------------------------------------
(* Properties.                                                             *)

\* The receiver gives the connection up over a heartbeat's answer only when an
\* answer came later than the next heartbeat, or when a frame carried, with the
\* last heartbeat, those of failed sends, and the server answered one of them;
\* whatever was lost, reconnected or read in one piece with other messages.
OnlyLateReconnects ==
    [][pc["recv"] = "handle" /\ pc'["recv"] = "reconnect" =>
         late > 0 \/ Head(batch).n # Head(batch).last]_vars

\* The threads and lora_pkt_communicate are started only after the server has
\* accepted the hub on this very connection, whatever answers main took for one
\* and however often it was reconnected.
StartsAccepted == [][pc["main"] = "check" /\ pc'["main"] = "done" => accepted]_vars

Reconnecting == \E t \in Thread : stack[t] # << >>

\* The receiver comes back to listen, again and again, after closed connections,
\* refused authentications, a kill by SIGPIPE or an unreadable file, as long as no
\* thread has to call ReconnectWith_Server and the first connect ends.
Listens ==
    []<>((pc["recv"] = "recv" /\ rcv["recv"] = "live") \/ lock = "never") \/ <>Reconnecting
=============================================================================
