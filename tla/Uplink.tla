------------------------------- MODULE Uplink -------------------------------
(***************************************************************************)
(* The data branch of LoRaWAN_Parse in lora_pkt_fwd: the batch of frames   *)
(* that lgw_receive returned, the frame counter and MIC of each, the       *)
(* thread that queues it for an answer and that main waits for, and the    *)
(* two threads that pass the decrypted frame on, to lora_conf (port 7789)  *)
(* and to lora_pkt_communicate (port 5556), out of one buffer each.        *)
(*                                                                         *)
(* A frame carries the session of its device, which stands for its address *)
(* and keys; a MIC matches if the frame is genuine, the global key is that *)
(* of its session and the reconstructed counter the one the device used.   *)
(* A frame that passed the MIC test gets a serial number, which stands for *)
(* its decrypted content.  A statement of sqlite is refused while another  *)
(* process has the data base.                                              *)
(***************************************************************************)
EXTENDS Naturals, Sequences

CONSTANTS
    Node,
    W,          \* a frame carries its counter modulo W; 2^16
    MaxBatch,   \* frames lgw_receive returns at once, 8
    MaxFcnt,    \* bound on the counters of the devices
    MaxFrames,  \* bound on frames sent
    MaxUp,      \* bound on accepted frames
    MaxJoins,   \* bound on sessions
    MaxEdits    \* bound on what other processes do: rows removed, refusals

ASSUME UplinkAssumption ==
    /\ W \in Nat \ {0} /\ W % 2 = 0
    /\ MaxBatch \in Nat \ {0}
    /\ MaxFcnt \in Nat /\ MaxFrames \in Nat /\ MaxUp \in Nat
    /\ MaxJoins \in Nat /\ MaxEdits \in Nat

Chan == {"conf", "server"}

VARIABLES
    air,        \* the frames in the sx1301
    sent,       \* how many there have been
    mpc,        \* where main is
    batch,      \* the frames it still has to parse, the current one first
    micOk,      \* isMicOk
    up,         \* upLinkCounter
    flag,       \* Fetch_Address_Successful
    nwk,        \* the node and session whose key LoRaMacNwkSKey holds
    hit,        \* what came in the way of the frame in hand
    row,        \* the rows of GWINFO: present, session (address, keys), FcntUp
    joining,    \* the nodes with a join request in the join queue
    derived,    \* the node whose new keys the join thread has yet to store
    sessions,   \* how many sessions there have been after the first ones
    dev,        \* the devices: session, next counter
    tpc,        \* Thread_Task_Queue
    count,      \* frames that passed the MIC test so far
    buf,        \* struct_decode_data and struct_serialization_data
    tok,        \* the semaphores of their threads
    spc,        \* where these are
    opened,     \* whether their UDP socket is open
    out,        \* what they sent: content and length
    edits

parseVars == <<flag, nwk, hit>>
mainVars == <<air, sent, mpc, batch, micOk, up, count, parseVars>>
joinVars == <<joining, derived, sessions>>
nodeVars == <<row, joinVars, dev, edits>>
chanVars == <<buf, tok, spc, opened, out>>
vars == <<mainVars, nodeVars, tpc, chanVars>>

\* Mixed: the address of one session and keys of another, which no device has.
Mixed == MaxJoins + 1
Sess == 0..Mixed
Serial == 0..MaxUp
Fcnt == 0..(MaxUp+1)*(W-1)

Data(n, s, c, g) == [kind |-> "data", node |-> n, sess |-> s, fcnt |-> c, good |-> g]
Join(n) == [kind |-> "join", node |-> n, sess |-> 0, fcnt |-> 0, good |-> TRUE]
Frame == [kind : {"data", "join"}, node : Node, sess : Sess, fcnt : 0..MaxFcnt+W, good : BOOLEAN]

TypeOK ==
    /\ air \in Seq(Frame) /\ Len(air) <= MaxBatch /\ sent \in 0..MaxFrames
    /\ mpc \in {"recv", "frame", "parse", "mic", "update", "copy1", "post1", "copy2", "post2", "join"}
    /\ batch \in Seq(Frame) /\ Len(batch) <= MaxBatch
    /\ micOk \in BOOLEAN /\ up \in Fcnt
    /\ flag \in BOOLEAN /\ nwk \in (Node \X Sess) \cup {<< >>}
    /\ hit \subseteq {"busy", "flag", "keys", "check"}
    /\ row \in [Node -> [present : BOOLEAN, sess : Sess, fcnt : Fcnt]]
    /\ joining \subseteq Node /\ derived \subseteq Node /\ sessions \in 0..MaxJoins
    /\ dev \in [Node -> [sess : Sess, fcnt : 0..MaxFcnt]]
    /\ tpc \in {"none", "check", "stuck"}
    /\ count \in Serial
    /\ buf \in [Chan -> [data : Serial, len : Serial]]
    /\ tok \in [Chan -> Serial]
    /\ spc \in [Chan -> {"wait", "clear"}]
    /\ opened \in [Chan -> BOOLEAN]
    /\ out \in [Chan -> SUBSET [data : Serial, len : Serial]]
    /\ edits \in 0..MaxEdits

Cleared == [data |-> 0, len |-> 0]

Init ==
    /\ air = << >> /\ sent = 0 /\ mpc = "recv" /\ batch = << >> /\ micOk = FALSE /\ up = 0
    /\ flag = FALSE /\ nwk = << >> /\ hit = {}
    /\ row = [n \in Node |-> [present |-> TRUE, sess |-> 0, fcnt |-> 0]]
    /\ joining = {} /\ derived = {} /\ sessions = 0
    /\ dev = [n \in Node |-> [sess |-> 0, fcnt |-> 0]]
    /\ tpc = "none" /\ count = 0
    /\ buf = [c \in Chan |-> Cleared]
    /\ tok = [c \in Chan |-> 0]
    /\ spc = [c \in Chan |-> "wait"]
    /\ opened = [c \in Chan |-> TRUE]
    /\ out = [c \in Chan |-> {}]
    /\ edits = 0

-----------------------------------------------------------------------------
(* The devices and the other threads and processes.                        *)

Arrives(frame) ==
    /\ Len(air) < MaxBatch /\ sent < MaxFrames
    /\ air' = Append(air, frame) /\ sent' = sent + 1

\* A device sends, and repeats the frame or goes on to the next counter; or
\* the frame is lost.
Transmit(n) ==
    /\ \E k \in {0, 1} :
         /\ dev[n].fcnt + k <= MaxFcnt
         /\ dev' = [dev EXCEPT ![n].fcnt = @ + k]
    /\ Arrives(Data(n, dev[n].sess, dev[n].fcnt, TRUE))
    /\ UNCHANGED <<mpc, batch, micOk, up, count, parseVars, row, joinVars, edits, tpc, chanVars>>

Lost(n) ==
    /\ dev[n].fcnt < MaxFcnt
    /\ dev' = [dev EXCEPT ![n].fcnt = @ + 1]
    /\ UNCHANGED <<mainVars, row, joinVars, edits, tpc, chanVars>>

\* A frame whose MIC is wrong: damaged, or of a device of another network
\* that has the same address.
Foreign(n) ==
    /\ \E c \in 0..W-1 : Arrives(Data(n, row[n].sess, c, FALSE))
    /\ UNCHANGED <<mpc, batch, micOk, up, count, parseVars, nodeVars, tpc, chanVars>>

Request(n) ==
    /\ sessions < MaxJoins
    /\ Arrives(Join(n))
    /\ UNCHANGED <<mpc, batch, micOk, up, count, parseVars, nodeVars, tpc, chanVars>>

\* Another process has the data base when this one wants to execute something.
Refused == edits < MaxEdits /\ edits' = edits + 1

\* What main has between Parse_GwInfo_Table and the MIC.
Interferes(what) == hit' = IF mpc = "mic" THEN hit \cup {what} ELSE hit

\* The join thread computes new keys, in the globals that main uses ...
Derive(n) ==
    /\ n \in joining /\ derived = {} /\ sessions < MaxJoins
    /\ joining' = joining \ {n} /\ derived' = {n} /\ sessions' = sessions + 1
    /\ nwk' = <<n, sessions + 1>>
    /\ Interferes("keys")
    /\ UNCHANGED <<air, sent, mpc, batch, micOk, up, count, flag, row, dev, edits, tpc, chanVars>>

\* ... and stores them and a new address in the row, if there is one and unless
\* an UPDATE is refused; the device gets the accept, or it stays in its old
\* session.
Accept(n) ==
    /\ n \in derived
    /\ derived' = {}
    /\ IF row[n].present
       THEN \/ row' = [row EXCEPT ![n].sess = sessions] /\ UNCHANGED edits
            \/ Refused /\ (row' = [row EXCEPT ![n].sess = Mixed] \/ UNCHANGED row)
       ELSE UNCHANGED <<row, edits>>
    /\ \/ dev' = [dev EXCEPT ![n] = [sess |-> sessions, fcnt |-> 0]]
       \/ UNCHANGED dev
    /\ UNCHANGED <<mainVars, joining, sessions, tpc, chanVars>>

\* The threads of the downlink clear the flag in Fetch_Nwkskey_Appskey_Table.
ClearFlag ==
    /\ flag
    /\ flag' = FALSE
    /\ Interferes("flag")
    /\ UNCHANGED <<air, sent, mpc, batch, micOk, up, count, nwk, nodeVars, tpc, chanVars>>

\* lora_conf or lora_pkt_server removes the row.
Remove(n) ==
    /\ edits < MaxEdits
    /\ edits' = edits + 1
    /\ row' = [row EXCEPT ![n].present = FALSE]
    /\ UNCHANGED <<mainVars, joinVars, dev, tpc, chanVars>>

-----------------------------------------------------------------------------
(* main.                                                                   *)

\* isMicOk is FALSE when LoRaWAN_Parse is entered, and only then.
Receive ==
    /\ mpc = "recv" /\ air # << >>
    /\ batch' = air /\ air' = << >>
    /\ micOk' = FALSE
    /\ mpc' = "frame"
    /\ UNCHANGED <<sent, up, count, parseVars, nodeVars, tpc, chanVars>>

BatchDone ==
    /\ mpc = "frame" /\ batch = << >>
    /\ mpc' = "recv"
    /\ UNCHANGED <<air, sent, batch, micOk, up, count, parseVars, nodeVars, tpc, chanVars>>

f == Head(batch)
Next1 == batch' = Tail(batch) /\ mpc' = "frame"
InFrame(kind) == mpc = "frame" /\ batch # << >> /\ f.kind = kind

Zeroed == row' = [row EXCEPT ![f.node].fcnt = 0]
Queued == joining' = joining \cup {f.node}

\* A join request: the counters are cleared now, the rest is up to the join
\* thread.  A refused SELECT loses the request, the one for FcntDown after
\* FcntUp was cleared; a refused UPDATE leaves FcntUp as it is.
JoinFrame ==
    /\ InFrame("join")
    /\ IF row[f.node].present
       THEN \/ Zeroed /\ Queued /\ UNCHANGED edits
            \/ Refused /\ UNCHANGED row /\ (Queued \/ UNCHANGED joining)
            \/ Refused /\ Zeroed /\ UNCHANGED joining
       ELSE UNCHANGED <<row, joining, edits>>
    /\ Next1
    /\ UNCHANGED <<air, sent, micOk, up, count, parseVars, derived, sessions, dev, tpc, chanVars>>

Known == row[f.node].present /\ row[f.node].sess = f.sess

\* Fetch_GWinfo_FcntUp
FetchFcnt ==
    /\ InFrame("data")
    /\ \/ /\ Known
          /\ up' = row[f.node].fcnt
          /\ mpc' = "parse" /\ UNCHANGED batch
          /\ hit' = {} /\ UNCHANGED edits
       \/ ~Known /\ Next1 /\ hit' = {} /\ UNCHANGED <<up, edits>>
       \/ Refused /\ Next1 /\ hit' = {"busy"} /\ UNCHANGED up
    /\ UNCHANGED <<air, sent, micOk, count, flag, nwk, row, joinVars, dev, tpc, chanVars>>

\* Parse_GwInfo_Table: a second SELECT, for the keys.
ParseTable ==
    /\ mpc = "parse"
    /\ mpc' = "mic"
    /\ \/ /\ flag' = Known
          /\ nwk' = IF Known THEN <<f.node, f.sess>> ELSE nwk
          /\ UNCHANGED <<hit, edits>>
       \/ Refused /\ flag' = FALSE /\ hit' = hit \cup {"busy"} /\ UNCHANGED nwk
    /\ UNCHANGED <<air, sent, batch, micOk, up, count, row, joinVars, dev, tpc, chanVars>>

\* The 16 bit difference to the counter b, and the counter it leads to: with or
\* without a carry, whose cast to int16_t takes W off again.
Diff(b) == ((f.fcnt % W) + W - (b % W)) % W
NoCarry(b) == Diff(b) < W \div 2

\* Mutant of Reconstruct: the difference is not sign extended.
ReconstructUnsigned(b) == IF NoCarry(b) THEN b + Diff(b) ELSE b + W + Diff(b)

Reconstruct(b) == IF NoCarry(b) THEN b + Diff(b) ELSE (b + W + Diff(b)) - W

MicMatches == f.good /\ nwk = <<f.node, f.sess>> /\ Reconstruct(up) = f.fcnt

\* With a carry, upLinkCounter only changes if the MIC matches.
DataFrame ==
    /\ mpc = "mic"
    /\ IF flag
       THEN /\ micOk' = (micOk \/ MicMatches)
            /\ up' = IF NoCarry(up) \/ MicMatches THEN Reconstruct(up) ELSE up
            /\ IF micOk' THEN mpc' = "update" /\ UNCHANGED batch ELSE Next1
       ELSE Next1 /\ UNCHANGED <<micOk, up>>
    /\ UNCHANGED <<air, sent, count, parseVars, nodeVars, tpc, chanVars>>

StoredNext == up + 1     \* mutant of Stored: the counter that is due next
Stored == up

\* Update_GWinfo_FcntUp, in a transaction of its own: a refused SELECT is taken
\* for a missing row, a refused UPDATE is not noticed.  Then Thread_Task_Queue
\* is created and gets its token.
Passes ==
    /\ count' = count + 1
    /\ tpc' = "check"
    /\ mpc' = "copy1" /\ UNCHANGED batch

Update ==
    /\ mpc = "update" /\ count < MaxUp
    /\ \/ Known /\ row' = [row EXCEPT ![f.node].fcnt = Stored] /\ Passes /\ UNCHANGED <<hit, edits>>
       \/ Known /\ Refused /\ Passes /\ hit' = hit \cup {"busy"} /\ UNCHANGED row
       \/ Refused /\ Next1 /\ hit' = hit \cup {"busy"} /\ UNCHANGED <<row, count, tpc>>
       \/ ~Known /\ Next1 /\ UNCHANGED <<row, count, tpc, hit, edits>>
    /\ UNCHANGED <<air, sent, micOk, up, flag, nwk, joinVars, dev, chanVars>>

\* struct_decode_data is cleared and filled, struct_serialization_data only
\* filled; the length comes last, then the semaphore is posted.
Copy(c) ==
    /\ mpc = (IF c = "conf" THEN "copy1" ELSE "copy2")
    /\ buf' = [buf EXCEPT ![c] = [data |-> count, len |-> IF c = "conf" THEN 0 ELSE @.len]]
    /\ mpc' = (IF c = "conf" THEN "post1" ELSE "post2")
    /\ UNCHANGED <<air, sent, batch, micOk, up, count, parseVars, nodeVars, tpc, tok, spc, opened, out>>

\* Mutant of Finish: the semaphore is posted twice.
FinishPostsTwice(c) ==
    /\ mpc = (IF c = "conf" THEN "post1" ELSE "post2")
    /\ buf' = [buf EXCEPT ![c].len = count]
    /\ tok' = [tok EXCEPT ![c] = @ + 2]
    /\ mpc' = (IF c = "conf" THEN "copy2" ELSE "join")
    /\ UNCHANGED <<air, sent, batch, micOk, up, count, parseVars, nodeVars, tpc, spc, opened, out>>

\* After the second one the flag and the counter are cleared.
Finish(c) ==
    /\ mpc = (IF c = "conf" THEN "post1" ELSE "post2")
    /\ buf' = [buf EXCEPT ![c].len = count]
    /\ tok' = [tok EXCEPT ![c] = @ + 1]
    /\ IF c = "conf"
       THEN mpc' = "copy2" /\ UNCHANGED <<flag, up>>
       ELSE mpc' = "join" /\ flag' = FALSE /\ up' = 0
    /\ UNCHANGED <<air, sent, batch, micOk, count, nwk, hit, nodeVars, tpc, spc, opened, out>>

\* pthread_join
Joined ==
    /\ mpc = "join" /\ tpc = "none"
    /\ Next1
    /\ UNCHANGED <<air, sent, micOk, up, count, parseVars, nodeVars, tpc, chanVars>>

-----------------------------------------------------------------------------
\* Mutant of TaskQueue: it always goes back.
TaskQueueRepeats ==
    /\ tpc = "check"
    /\ tpc' = "stuck"
    /\ UNCHANGED <<mainVars, nodeVars, chanVars>>

\* Thread_Task_Queue: without the address in the table, or if Check_Devaddr is
\* refused, it goes back to its semaphore, which only main posts.
TaskQueue ==
    /\ tpc = "check"
    /\ \/ tpc' = (IF Known THEN "none" ELSE "stuck") /\ UNCHANGED <<hit, edits>>
       \/ Refused /\ tpc' = "stuck" /\ hit' = hit \cup {"check"}
    /\ UNCHANGED <<air, sent, mpc, batch, micOk, up, count, flag, nwk, row, joinVars, dev, chanVars>>

\* Thread_SendDecodeData and Thread_Send_Server_Data: sendto with length 0
\* returns 0, which is taken for an error.
SendTo(c) ==
    /\ spc[c] = "wait" /\ tok[c] > 0
    /\ tok' = [tok EXCEPT ![c] = @ - 1]
    /\ spc' = [spc EXCEPT ![c] = "clear"]
    /\ IF opened[c] /\ buf[c].len > 0
       THEN out' = [out EXCEPT ![c] = @ \cup {buf[c]}] /\ UNCHANGED opened
       ELSE opened' = [opened EXCEPT ![c] = FALSE] /\ UNCHANGED out
    /\ UNCHANGED <<mainVars, nodeVars, tpc, buf>>

\* Mutant of Clear: the buffer is left as it is.
ClearNothing(c) ==
    /\ spc[c] = "clear"
    /\ spc' = [spc EXCEPT ![c] = "wait"]
    /\ UNCHANGED <<mainVars, nodeVars, tpc, buf, tok, opened, out>>

Clear(c) ==
    /\ spc[c] = "clear"
    /\ buf' = [buf EXCEPT ![c] = Cleared]
    /\ spc' = [spc EXCEPT ![c] = "wait"]
    /\ UNCHANGED <<mainVars, nodeVars, tpc, tok, opened, out>>

-----------------------------------------------------------------------------
Main ==
    \/ BatchDone \/ JoinFrame \/ FetchFcnt \/ ParseTable \/ DataFrame \/ Update \/ Joined
    \/ \E c \in Chan : Copy(c) \/ Finish(c)
SendStep(c) == SendTo(c) \/ Clear(c)
Environment ==
    \/ \E n \in Node : \/ Transmit(n) \/ Lost(n) \/ Foreign(n) \/ Request(n)
                       \/ Derive(n) \/ Accept(n) \/ Remove(n)
    \/ ClearFlag

Next == Main \/ Receive \/ TaskQueue \/ Environment \/ \E c \in Chan : SendStep(c)

Spec == Init /\ [][Next]_vars

\* Every thread is scheduled.
FairSpec ==
    /\ Spec
    /\ WF_vars(Main \/ Receive) /\ WF_vars(TaskQueue)
    /\ \A c \in Chan : WF_vars(SendStep(c))

-----------------------------------------------------------------------------
\* A genuine frame of the current session whose counter is not behind and less
\* than W ahead is accepted, and its counter stored: losses of up to W-1 frames
\* do not lose the device, whichever half of the 16 bits the difference is in.
\* The exceptions: a statement was refused, the flag cleared or the key replaced
\* by another thread while the frame was in hand.
InWindow == f.good /\ f.fcnt >= row[f.node].fcnt /\ f.fcnt < row[f.node].fcnt + W

InWindowAccepted ==
    [][/\ mpc \in {"frame", "mic", "update"} /\ batch # << >> /\ f.kind = "data"
       /\ Known /\ InWindow
       => /\ batch' # batch => hit' # {}
          /\ count' # count => row'[f.node].fcnt = f.fcnt \/ hit' # {}]_vars

\* The stored counter gets ahead of the device's own, which would not be heard
\* until it has caught up, in two ways only: by a frame that rides on the MIC
\* of an earlier one of its batch, and by a join, whose FcntUp was cleared with
\* the request but could grow again before the accept.
RowNotAhead(n) == row[n].present /\ row[n].sess = dev[n].sess => row[n].fcnt <= dev[n].fcnt

Genuine == f.good /\ Reconstruct(row[f.node].fcnt) = f.fcnt

AheadExplained ==
    [][\A n \in Node : RowNotAhead(n) /\ ~RowNotAhead(n)' => Accept(n) \/ ~Genuine]_vars

\* No content is passed on twice, although the buffer is only cleared after it
\* was sent, by a thread that main does not wait for.
PassedOnOnce ==
    [][\A c \in Chan : SendTo(c) /\ buf[c].data > 0 /\ opened[c] /\ buf[c].len > 0
                         => \A o \in out[c] : o.data # buf[c].data]_vars

\* main comes back to lgw_receive, unless the row of the current frame was
\* removed or got a new address between the MIC test and Thread_Task_Queue, or
\* the lookup of that thread was refused.
MainReturns ==
    (mpc # "recv") ~>
        (mpc = "recv" \/ count = MaxUp \/ (tpc = "stuck" /\ (~Known \/ "check" \in hit)))
=============================================================================
