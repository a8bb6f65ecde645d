------------------------------ MODULE DataLink ------------------------------
(***************************************************************************)
(* The TCP link of lora_pkt_communicate (communicate.c): three threads     *)
(* send (joins, node data, heartbeats), one receives, and each of the four *)
(* may find the connection broken and replace it.  They share the socket,  *)
(* the lock rw_close_socket_flag and the flag closeSocket_Bymyself, from   *)
(* which the receiver tells a connection that another thread closed from   *)
(* one that the server closed.                                             *)
(*                                                                         *)
(* A message is only counted.  A send is one step: the code holds the lock *)
(* across it.                                                              *)
(***************************************************************************)
EXTENDS Naturals, Sequences

CONSTANTS
    IdMod,      \* heart_beat_id runs through 0..IdMod-1; 65535
    MaxFaults,  \* bound on connections that break or are not made
    MaxLate     \* bound on heartbeats sent before the last one was answered

ASSUME DataLinkAssumption ==
    /\ IdMod \in Nat \ {0}
    /\ MaxFaults \in Nat
    /\ MaxLate \in Nat

Sender == {"join", "node", "heart"}

VARIABLES
    sock,       \* tcp_sock_fd: "new" (being replaced), "open", "dead", or "bare"
                \* (never connected)
    lock,       \* who holds rw_close_socket_flag for a reconnection; "never": it is
                \* never released
    flag,       \* closeSocket_Bymyself
    pc,         \* where each sender is
    carry,      \* the messages in each sender's join_data
    rpc,        \* where Thread_Recv_ServerData is
    rcv,        \* the connection its recv waits on: "live", "shut" or "stale"
    cause,      \* who ended that connection
    id,         \* heart_beat_id
    first,      \* the first heartbeat in its join_data
    acks,       \* heartbeat answers that the receiver has not read
    batch,      \* those it read with one recv and still has to handle
    alive,      \* the process was not killed by SIGPIPE and has not left
    faults, late        \* counters for the bounds

heartVars == <<id, first, acks, batch, late>>
vars == <<sock, lock, flag, pc, carry, rpc, rcv, cause, heartVars, alive, faults>>

Id == 0..IdMod-1

TypeOK ==
    /\ sock \in {"new", "open", "dead", "bare"}
    /\ lock \in Sender \cup {"none", "tcp", "recv", "never"}
    /\ flag \in BOOLEAN /\ alive \in BOOLEAN
    /\ pc \in [Sender -> {"idle", "ready", "failed", "connect"}]
    /\ carry \in [Sender -> Nat]
    /\ rpc \in {"call", "recv", "error", "mine", "theirs", "takeover", "unflag",
                "handle", "mismatch", "reconnect"}
    /\ rcv \in {"live", "shut", "stale"}
    /\ cause \in {"start", "own", "peer", "none"}
    /\ id \in Id /\ first \in Id /\ acks \in Seq(Id) /\ batch \in Seq(Id)
    /\ faults \in 0..MaxFaults /\ late \in 0..MaxLate

\* Thread_Tcp_Connect has the lock when, seconds later, the others start; it
\* keeps it if it has closed its socket because the address is not accepted.
Init ==
    /\ sock = "new" /\ lock \in {"tcp", "never"} /\ flag = FALSE
    /\ pc = [s \in Sender |-> "idle"] /\ carry = [s \in Sender |-> 0]
    /\ rpc = "call" /\ rcv = "live" /\ cause = "start"
    /\ id = 0 /\ first = 0 /\ acks = << >> /\ batch = << >>
    /\ alive = TRUE /\ faults = 0 /\ late = 0

Unlocked == alive /\ lock = "none"

FirstConnect ==
    /\ alive /\ lock = "tcp"
    /\ sock' = "open"
    /\ lock' = "none"
    /\ UNCHANGED <<flag, pc, carry, rpc, rcv, cause, heartVars, alive, faults>>

\* Mutants: the lock is not taken; without the shutdown recv sleeps on.
CloseAndReopenUnlocked(t) ==
    /\ lock' = lock
    /\ sock' = "new"
    /\ rcv' = IF rpc = "recv" THEN "shut" ELSE rcv
    /\ acks' = << >>
CloseWithoutShutdown(t) ==
    /\ lock' = t
    /\ sock' = "new"
    /\ rcv' = IF rpc = "recv" THEN "stale" ELSE rcv
    /\ acks' = << >>

\* shutdown, close and socket, with the lock held from here to the unlock.
\* shutdown wakes the receiver; what was on its way is gone.
CloseAndReopen(t) ==
    /\ lock' = t
    /\ sock' = "new"
    /\ rcv' = IF rpc = "recv" THEN "shut" ELSE rcv
    /\ acks' = << >>

\* The lock is still held.  The socket is new again, but not connected, if
\* inet_aton does not accept the address in server_conf.json.
Tcp_Reconnection ==
    \/ sock' = "open" /\ UNCHANGED faults
    \/ faults < MaxFaults /\ faults' = faults + 1 /\ sock' = "bare"

\* server_conf.json, which others write too, is not JSON: exit.
ConfUnreadable ==
    /\ alive /\ lock \in Sender \cup {"recv"}
    /\ alive' = FALSE
    /\ UNCHANGED <<sock, lock, flag, pc, carry, rpc, rcv, cause, heartVars, faults>>

-----------------------------------------------------------------------------
(* The senders.                                                            *)

NextIdNoWrap == id + 1      \* mutant: no reset at 65535
NextId == IF id + 1 = IdMod THEN 0 ELSE id + 1

\* The heartbeat thread sleeps for 60 s, except after a failure; the last
\* heartbeat was answered by then, or its answer is late.
Slept ==
    \/ (carry["heart"] > 0 \/ acks \o batch = << >>) /\ UNCHANGED late
    \/ late < MaxLate /\ late' = late + 1

\* A message is put behind what a failed send left in join_data.
Build(s) ==
    /\ alive /\ pc[s] = "idle"
    /\ carry' = [carry EXCEPT ![s] = @ + 1]
    /\ pc' = [pc EXCEPT ![s] = "ready"]
    /\ IF s = "heart"
       THEN id' = NextId /\ first' = (IF carry[s] = 0 THEN NextId ELSE first) /\ Slept
       ELSE UNCHANGED <<id, first, late>>
    /\ UNCHANGED <<sock, lock, flag, rpc, rcv, cause, acks, batch, alive, faults>>

\* The server answers the first or the last heartbeat of the frame it gets.
Answered == \E k \in {first, id} : acks' = Append(acks, k)

\* Mutant of SendOk: the buffer is not reset.
SendOkNoReset(s) ==
    /\ Unlocked /\ pc[s] = "ready"
    /\ sock \in {"open", "dead"}
    /\ pc' = [pc EXCEPT ![s] = "idle"]
    /\ IF s = "heart" /\ sock = "open" THEN Answered ELSE UNCHANGED acks
    /\ UNCHANGED <<sock, lock, flag, carry, rpc, rcv, cause, id, first, batch, late, alive, faults>>

\* send succeeds; on a broken connection the data may still be buffered.
SendOk(s) ==
    /\ Unlocked /\ pc[s] = "ready"
    /\ sock \in {"open", "dead"}
    /\ carry' = [carry EXCEPT ![s] = 0]
    /\ pc' = [pc EXCEPT ![s] = "idle"]
    /\ IF s = "heart" /\ sock = "open" THEN Answered ELSE UNCHANGED acks
    /\ UNCHANGED <<sock, lock, flag, rpc, rcv, cause, id, first, batch, late, alive, faults>>

\* send fails, or raises SIGPIPE, which nobody ignores or handles.
SendFails(s) ==
    /\ Unlocked /\ pc[s] = "ready"
    /\ sock # "open"
    /\ pc' = [pc EXCEPT ![s] = "failed"]
    /\ alive' \in {TRUE, FALSE}
    /\ UNCHANGED <<sock, lock, flag, carry, rpc, rcv, cause, heartVars, faults>>

Send(s) == SendOk(s) \/ SendFails(s)

\* ReconnectWith_Server.
Reconnect(s) ==
    /\ Unlocked /\ pc[s] = "failed"
    /\ CloseAndReopen(s)
    /\ pc' = [pc EXCEPT ![s] = "connect"]
    /\ UNCHANGED <<flag, carry, rpc, cause, id, first, batch, late, alive, faults>>

\* Mutant of Reconnected: the flag is not raised.
ReconnectedSilently(s) ==
    /\ alive /\ pc[s] = "connect"
    /\ Tcp_Reconnection
    /\ lock' = "none"
    /\ pc' = [pc EXCEPT ![s] = "idle"]
    /\ UNCHANGED <<flag, carry, rpc, rcv, cause, heartVars, alive>>

Reconnected(s) ==
    /\ alive /\ pc[s] = "connect"
    /\ Tcp_Reconnection
    /\ flag' = TRUE
    /\ lock' = "none"
    /\ pc' = [pc EXCEPT ![s] = "idle"]
    /\ UNCHANGED <<carry, rpc, rcv, cause, heartVars, alive>>

-----------------------------------------------------------------------------
(* Thread_Recv_ServerData.                                                 *)

\* recv on a socket without a connection fails at once.
Recv ==
    /\ alive /\ rpc = "call"
    /\ IF sock = "new"
       THEN rpc' = "error" /\ cause' = (IF lock \in {"tcp", "never"} THEN "start" ELSE "own") /\ UNCHANGED rcv
       ELSE IF sock = "bare"
       THEN rpc' = "error" /\ cause' = "none" /\ UNCHANGED rcv
       ELSE rpc' = "recv" /\ rcv' = "live" /\ UNCHANGED cause
    /\ UNCHANGED <<sock, lock, flag, pc, carry, heartVars, alive, faults>>

RecvFails ==
    /\ alive /\ rpc = "recv"
    /\ rcv = "shut" \/ (rcv = "live" /\ sock = "dead")
    /\ rpc' = "error"
    /\ cause' = IF rcv = "shut" THEN "own" ELSE "peer"
    /\ UNCHANGED <<sock, lock, flag, pc, carry, rcv, heartVars, alive, faults>>

\* One recv returns some of the answers that have arrived.
RecvAcks ==
    /\ alive /\ rpc = "recv" /\ rcv = "live"
    /\ \E n \in 1..Len(acks) :
         batch' = SubSeq(acks, 1, n) /\ acks' = SubSeq(acks, n + 1, Len(acks))
    /\ rpc' = "handle"
    /\ UNCHANGED <<sock, lock, flag, pc, carry, rcv, cause, id, first, late, alive, faults>>

\* Data and commands of the server, which do not concern the link.
RecvOther ==
    /\ alive /\ rpc = "recv" /\ rcv = "live" /\ sock = "open"
    /\ rpc' = "handle"
    /\ UNCHANGED <<sock, lock, flag, pc, carry, rcv, cause, heartVars, alive, faults>>

IsCurrent(k) == k = id

\* Handle_Message_Type for each message: Server_Heartbeat_Ack reconnects if
\* the answer is not the one to the last heartbeat that was built.
Handle ==
    /\ alive /\ rpc = "handle"
    /\ IF batch = << >>
       THEN rpc' = "call" /\ UNCHANGED batch
       ELSE /\ batch' = Tail(batch)
            /\ rpc' = IF IsCurrent(Head(batch)) THEN "handle" ELSE "mismatch"
    /\ UNCHANGED <<sock, lock, flag, pc, carry, rcv, cause, id, first, acks, late, alive, faults>>

HeartReconnect ==
    /\ Unlocked /\ rpc = "mismatch"
    /\ CloseAndReopen("recv")
    /\ rpc' = "reconnect"
    /\ UNCHANGED <<flag, pc, carry, cause, id, first, batch, late, alive, faults>>

HeartReconnected ==
    /\ alive /\ rpc = "reconnect"
    /\ Tcp_Reconnection
    /\ flag' = TRUE
    /\ lock' = "none"
    /\ rpc' = "handle"
    /\ UNCHANGED <<pc, carry, rcv, cause, heartVars, alive>>

\* The flag is read under the lock, after any reconnection in progress ...
ReadFlag ==
    /\ Unlocked /\ rpc = "error"
    /\ rpc' = IF flag THEN "mine" ELSE "theirs"
    /\ UNCHANGED <<sock, lock, flag, pc, carry, rcv, cause, heartVars, alive, faults>>

\* ... and cleared, or the connection replaced, under a second one.
ClearFlag ==
    /\ Unlocked /\ rpc = "mine"
    /\ flag' = FALSE
    /\ rpc' = "call"
    /\ UNCHANGED <<sock, lock, pc, carry, rcv, cause, heartVars, alive, faults>>

TakeOver ==
    /\ Unlocked /\ rpc = "theirs"
    /\ CloseAndReopen("recv")
    /\ rpc' = "takeover"
    /\ UNCHANGED <<flag, pc, carry, cause, id, first, batch, late, alive, faults>>

TakenOver ==
    /\ alive /\ rpc = "takeover"
    /\ Tcp_Reconnection
    /\ lock' = "none"
    /\ rpc' = "unflag"
    /\ UNCHANGED <<flag, pc, carry, rcv, cause, heartVars, alive>>

\* The flag is cleared once more, after the unlock.
Unflag ==
    /\ alive /\ rpc = "unflag"
    /\ flag' = FALSE
    /\ rpc' = "call"
    /\ UNCHANGED <<sock, lock, pc, carry, rcv, cause, heartVars, alive, faults>>

-----------------------------------------------------------------------------
\* The server closes the connection or the network loses it.
Breaks ==
    /\ alive /\ sock = "open"
    /\ faults < MaxFaults
    /\ faults' = faults + 1
    /\ sock' = "dead"
    /\ UNCHANGED <<lock, flag, pc, carry, rpc, rcv, cause, heartVars, alive>>

SendStep(s) == Send(s) \/ Reconnect(s) \/ Reconnected(s)
Receiver ==
    \/ Recv \/ RecvFails \/ RecvAcks \/ Handle \/ HeartReconnect \/ HeartReconnected
    \/ ReadFlag \/ ClearFlag \/ TakeOver \/ TakenOver \/ Unflag

Next ==
    \/ FirstConnect \/ Breaks \/ ConfUnreadable
    \/ \E s \in Sender : Build(s) \/ SendStep(s)
    \/ Receiver \/ RecvOther

Spec == Init /\ [][Next]_vars

\* The threads are scheduled, sleep(60) ends, and the server accepts again.
\* That ConfUnreadable happens is not required.
FairSpec ==
    /\ Spec
    /\ WF_vars(FirstConnect) /\ WF_vars(Receiver) /\ WF_vars(Build("heart"))
    /\ \A s \in Sender : WF_vars(SendStep(s))

-----------------------------------------------------------------------------
\* No thread sends on a socket that another one is just replacing.
SendsOnConnection == [][\A s \in Sender : Send(s) => sock # "new"]_vars

\* A failed send leaves its message in join_data, where the next one is put
\* behind it.  A connection that broke or was not made has a sender fail at most
\* once, so the buffer holds no more than a message for each and the current one.
CarryBounded == \A s \in Sender : carry[s] <= faults + 1

\* The receiver takes over only when it was not woken by another thread's own
\* reconnection, although it reads the flag well after it woke and clears it
\* outside the lock.
OwnCloseRecognised == [][TakeOver => cause # "own"]_vars

\* Reconnections do not set each other off for ever: once the connection stops
\* breaking and the address stays accepted it stays up, and the receiver comes
\* back, again and again, to listen on a connection that no thread has closed
\* under it; unless SIGPIPE or an unreadable server_conf.json ended the process,
\* or the first connect has the lock for good.
Lost == ~alive \/ lock = "never"
Settles == <>[](sock = "open" \/ Lost)
Listens == []<>((rpc = "recv" /\ rcv = "live") \/ Lost)
Recovers == Settles /\ Listens
=============================================================================
