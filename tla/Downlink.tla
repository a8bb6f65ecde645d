------------------------------ MODULE Downlink ------------------------------
(***************************************************************************)
(* The answers of lora_pkt_fwd to data uplinks: Thread_Task_Queue queues   *)
(* each accepted uplink for 0.8 s, Thread_Fetch_Report_Data waits for that *)
(* time, and Thread_Handle_Data_Task sends class A debug data for the      *)
(* device, or what the server answered, into its receive window.           *)
(* Thread_Handle_Class_C_Task sends at any time.  All of them take the     *)
(* frame counter FcntDown from the device's row, add one and store it.     *)
(*                                                                         *)
(* The clock only moves forward here, so uplinks become due in the order   *)
(* in which they came; time is the number of uplinks that are due.         *)
(***************************************************************************)
EXTENDS Naturals, Sequences

CONSTANTS
    Node,
    Tiny,       \* the nodes whose answers have one byte: see GetFront
    MAXTASK,    \* tasks the queue of uplinks takes
    MAXDATA,    \* answers the queue of the server's data takes
    MaxUp,      \* bound on uplinks
    MaxPacket,  \* bound on the packets of a class C datagram
    MaxJoins,   \* bound on sessions
    MaxInputs   \* bound on what else happens: data of the server, joins,
                \* rows removed, statements that fail as the data base is busy

ASSUME DownlinkAssumption ==
    /\ Node # {} /\ Tiny \subseteq Node
    /\ MAXTASK \in Nat /\ MAXDATA \in Nat /\ MaxUp \in Nat
    /\ MaxPacket \in Nat \ {0} /\ MaxJoins \in Nat /\ MaxInputs \in Nat

VARIABLES
    ups,        \* the accepted uplinks: node, session
    mpc,        \* main: receives, or starts Thread_Task_Queue
    due,        \* how many of ups are due
    lastUp,     \* ClassA_Deveui
    tasks,      \* task_line: indices of ups
    taskSem,    \* Task_SemFlag
    prodSem,    \* Producer_SemFlag
    fpc, fup,   \* Thread_Fetch_Report_Data and the uplink it read
    hpc, hup,   \* Thread_Handle_Data_Task and the uplink it answers
    mode,       \* whether it answers with class A debug data
    hcount,     \* class_a_count
    packageid, queueCount,
    hreg,       \* address and counter it works with
    udp,        \* port 5557: the nodes the server's answers are for
    dataLine,   \* data_line
    classALine, \* class_a_line
    cpc, creg,  \* Thread_Handle_Class_C_Task
    cleft,      \* the packets of the datagram left
    row,        \* GWINFO: present, session (address and keys), FcntDown; and
                \* whether the node has a join request in the join queue
    radio,      \* TX_STATUS
    used,       \* counters that were sent: node, session, counter
    reused,     \* sessions in which one was sent again
    exposed,    \* sessions in which one of the known hazards occurred
    answered,   \* downlinks per uplink
    inputs      \* how much has happened

fetchVars == <<fpc, fup>>
handleVars == <<hpc, hup, mode, hcount, packageid, queueCount, hreg>>
classCVars == <<cpc, creg, cleft>>
mainVars == <<ups, mpc, lastUp>>
taskVars == <<tasks, taskSem, prodSem>>
lineVars == <<udp, dataLine, classALine>>
logVars == <<used, reused, answered>>
vars == <<mainVars, due, taskVars, fetchVars, handleVars, lineVars, classCVars,
          row, radio, logVars, exposed, inputs>>

Sess == 0..MaxJoins
Up == 0..MaxUp      \* 0 is none

Reg(n, s, c) == [node |-> n, sess |-> s, fcnt |-> c]
Registers == [node : Node, sess : Sess, fcnt : Nat]

TypeOK ==
    /\ ups \in Seq([node : Node, sess : Sess]) /\ Len(ups) <= MaxUp
    /\ mpc \in {"recv", "queue"}
    /\ due \in 0..Len(ups)
    /\ lastUp \in SUBSET Node
    /\ tasks \in Seq(1..MaxUp) /\ Len(tasks) <= MAXTASK
    /\ taskSem \in Nat /\ prodSem \in Nat
    /\ fpc \in {"wait", "sleep", "drop"} /\ fup \in Up
    /\ hpc \in {"wait", "look", "takeA", "take", "data", "fetch", "update", "keys",
                "send", "poll", "abort"}
    /\ hup \in Up /\ mode \in {"answer", "classA"}
    /\ hcount \in 0..MaxInputs
    /\ queueCount \in 0..MaxInputs /\ packageid \in Nat \ {0}
    /\ packageid <= queueCount \/ packageid = 1
    /\ hreg \in Registers /\ creg \in Registers
    /\ udp \in Seq(Node) /\ dataLine \in Seq(Node) /\ Len(dataLine) <= MAXDATA
    /\ classALine \in Seq(Node)
    /\ cpc \in {"recv", "fetch", "update", "keys", "send", "poll"} /\ cleft \in 0..MaxPacket
    /\ row \in [Node -> [present : BOOLEAN, sess : Sess, fcnt : Nat, asked : BOOLEAN]]
    /\ radio \in {"free", "busy"}
    /\ used \subseteq Node \X Sess \X Nat
    /\ reused \subseteq Node \X Sess /\ exposed \subseteq Node \X Sess
    /\ answered \in [1..MaxUp -> Nat]
    /\ inputs \in 0..MaxInputs

NoReg == Reg(CHOOSE n \in Node : TRUE, 0, 0)

Init ==
    /\ ups = << >> /\ mpc = "recv" /\ due = 0 /\ lastUp = {}
    /\ tasks = << >> /\ taskSem = 0 /\ prodSem = 0
    /\ fpc = "wait" /\ fup = 0
    /\ hpc = "wait" /\ hup = 0 /\ mode = "answer" /\ hcount = 0
    /\ packageid = 1 /\ queueCount = 0
    /\ hreg = NoReg /\ creg = NoReg
    /\ udp = << >> /\ dataLine = << >> /\ classALine = << >>
    /\ cpc = "recv" /\ cleft = 0
    /\ row = [n \in Node |-> [present |-> TRUE, sess |-> 0, fcnt |-> 0, asked |-> FALSE]]
    /\ radio = "free"
    /\ used = {} /\ reused = {} /\ exposed = {}
    /\ answered = [u \in 1..MaxUp |-> 0]
    /\ inputs = 0

Happens == inputs < MaxInputs /\ inputs' = inputs + 1

-----------------------------------------------------------------------------
(* main and Thread_Task_Queue, the server, the joins, the operator, time.  *)

Uplink(n) ==
    /\ mpc = "recv" /\ Len(ups) < MaxUp /\ row[n].present
    /\ ups' = Append(ups, [node |-> n, sess |-> row[n].sess])
    /\ lastUp' = {n}
    /\ mpc' = "queue"
    /\ UNCHANGED <<due, taskVars, fetchVars, handleVars, lineVars, classCVars, row,
                   radio, logVars, exposed, inputs>>

\* The result of Task_EnQueue is not looked at.
TaskQueue ==
    /\ mpc = "queue"
    /\ tasks' = IF Len(tasks) < MAXTASK THEN Append(tasks, Len(ups)) ELSE tasks
    /\ taskSem' = taskSem + 1
    /\ mpc' = "recv"
    /\ UNCHANGED <<ups, lastUp, due, prodSem, fetchVars, handleVars, lineVars, classCVars,
                   row, radio, logVars, exposed, inputs>>

Tick ==
    /\ due < Len(ups)
    /\ due' = due + 1
    /\ UNCHANGED <<mainVars, taskVars, fetchVars, handleVars, lineVars, classCVars, row,
                   radio, logVars, exposed, inputs>>

\* lora_pkt_communicate sends what the server answered, not for whom.
ServerAnswers(n) ==
    /\ Happens
    /\ udp' = Append(udp, n)
    /\ UNCHANGED <<mainVars, due, taskVars, fetchVars, handleVars, dataLine, classALine,
                   classCVars, row, radio, logVars, exposed>>

DataStore ==
    /\ udp # << >>
    /\ udp' = Tail(udp)
    /\ dataLine' = IF Len(dataLine) < MAXDATA THEN Append(dataLine, Head(udp)) ELSE dataLine
    /\ UNCHANGED <<mainVars, due, taskVars, fetchVars, handleVars, classALine, classCVars,
                   row, radio, logVars, exposed, inputs>>

ClassADataStore(n) ==
    /\ Happens
    /\ classALine' = Append(classALine, n)
    /\ UNCHANGED <<mainVars, due, taskVars, fetchVars, handleVars, udp, dataLine, classCVars,
                   row, radio, logVars, exposed>>

\* main clears FcntDown when it gets the join request, the join thread
\* stores the new session when it sends the accept.
ClearFcntDown(n) ==
    /\ Happens /\ row[n].present
    /\ row' = [row EXCEPT ![n].fcnt = 0, ![n].asked = TRUE]
    /\ exposed' = exposed \union {<<n, row[n].sess>>}
    /\ UNCHANGED <<mainVars, due, taskVars, fetchVars, handleVars, lineVars, classCVars,
                   radio, logVars>>

Accept(n) ==
    /\ row[n].present /\ row[n].asked /\ row[n].sess < MaxJoins
    /\ row' = [row EXCEPT ![n].sess = @ + 1, ![n].asked = FALSE]
    /\ UNCHANGED <<mainVars, due, taskVars, fetchVars, handleVars, lineVars, classCVars,
                   radio, logVars, exposed, inputs>>

Remove(n) ==
    /\ Happens /\ row[n].present
    /\ row' = [row EXCEPT ![n].present = FALSE]
    /\ UNCHANGED <<mainVars, due, taskVars, fetchVars, handleVars, lineVars, classCVars,
                   radio, logVars, exposed>>

Emitted ==
    /\ radio = "busy"
    /\ radio' = "free"
    /\ UNCHANGED <<mainVars, due, taskVars, fetchVars, handleVars, lineVars, classCVars,
                   row, logVars, exposed, inputs>>

-----------------------------------------------------------------------------
(* Thread_Fetch_Report_Data.                                               *)

Overdue(u) == u <= due

\* Mutant: a task that is overdue is left where it is.
FetchFrontLeaves ==
    /\ fpc = "wait" /\ taskSem > 0
    /\ taskSem' = taskSem - 1
    /\ IF tasks = << >> \/ Overdue(Head(tasks))
         THEN UNCHANGED fetchVars
         ELSE fup' = Head(tasks) /\ fpc' = "sleep"
    /\ UNCHANGED <<mainVars, due, tasks, prodSem, handleVars, lineVars, classCVars, row,
                   radio, logVars, exposed, inputs>>

FetchFront ==
    /\ fpc = "wait" /\ taskSem > 0
    /\ taskSem' = taskSem - 1
    /\ IF tasks = << >>
         THEN UNCHANGED fetchVars
         ELSE /\ fup' = Head(tasks)
              /\ fpc' = IF Overdue(Head(tasks)) THEN "drop" ELSE "sleep"
    /\ UNCHANGED <<mainVars, due, tasks, prodSem, handleVars, lineVars, classCVars, row,
                   radio, logVars, exposed, inputs>>

\* What is removed is the front of now.
FetchDrop ==
    /\ fpc = "drop"
    /\ fpc' = "wait" /\ fup' = 0
    /\ tasks' = IF tasks = << >> THEN tasks ELSE Tail(tasks)
    /\ UNCHANGED <<mainVars, due, taskSem, prodSem, handleVars, lineVars, classCVars, row,
                   radio, logVars, exposed, inputs>>

\* Mutant: the handler is not told.
FetchWakeSilent ==
    /\ fpc = "sleep" /\ Overdue(fup)
    /\ fpc' = "wait" /\ fup' = 0
    /\ UNCHANGED <<mainVars, due, taskVars, handleVars, lineVars, classCVars, row, radio,
                   logVars, exposed, inputs>>

FetchWake ==
    /\ fpc = "sleep" /\ Overdue(fup)
    /\ fpc' = "wait" /\ fup' = 0
    /\ prodSem' = prodSem + 1
    /\ UNCHANGED <<mainVars, due, tasks, taskSem, handleVars, lineVars, classCVars, row,
                   radio, logVars, exposed, inputs>>

-----------------------------------------------------------------------------
(* The frame counter, as every sender uses it: read, add one, store.       *)

Current(reg) == row[reg.node].present /\ row[reg.node].sess = reg.sess

\* Fetch_GWinfo_FcntDown; a fetch during another thread's read and store of
\* the same row is one of the hazards.
Holding(pc, reg, n, s) == pc = "update" /\ reg.node = n /\ reg.sess = s
Exposes(n, s) == exposed \union {<<n, s>>}

\* Mutant: a counter is stored once only.
StoredOnce(reg) ==
    row' = [row EXCEPT ![reg.node].fcnt = IF Current(reg) /\ @ = 0 THEN reg.fcnt ELSE @]

\* Update_GWinfo_FcntDown returns 1 also when the UPDATE failed.
Stored(reg) ==
    row' = [row EXCEPT ![reg.node].fcnt = IF Current(reg) THEN reg.fcnt ELSE @]

LogSent(reg) ==
    /\ used' = used \union {<<reg.node, reg.sess, reg.fcnt>>}
    /\ reused' = IF <<reg.node, reg.sess, reg.fcnt>> \in used
                   THEN reused \union {<<reg.node, reg.sess>>} ELSE reused

-----------------------------------------------------------------------------
(* Thread_Handle_Data_Task.                                                *)

HandleFront ==
    /\ hpc = "wait" /\ prodSem > 0
    /\ prodSem' = prodSem - 1
    /\ IF tasks = << >>
         THEN UNCHANGED <<hpc, hup>>
         ELSE hpc' = "look" /\ hup' = Head(tasks)
    /\ UNCHANGED <<mainVars, due, tasks, taskSem, fetchVars, mode, hcount, packageid,
                   queueCount, hreg, lineVars, classCVars, row, radio, logVars, exposed, inputs>>

\* Is there class A debug data for the device of the last uplink?
LookClassA ==
    /\ hpc = "look"
    /\ hcount' = Len(classALine)
    /\ hpc' = IF classALine # << >> /\ lastUp = {Head(classALine)} THEN "takeA" ELSE "take"
    /\ UNCHANGED <<mainVars, due, taskVars, fetchVars, hup, mode, packageid, queueCount, hreg,
                   lineVars, classCVars, row, radio, logVars, exposed, inputs>>

Bigger(a, b) == IF a > b THEN a ELSE b
Address(u) == Reg(ups[u].node, ups[u].sess, 0)

\* Task_DeQueue of whatever is at the front; SendClassADebugData removes its
\* data first.
TakeClassA ==
    /\ hpc = "takeA"
    /\ IF tasks = << >>
         THEN hpc' = "wait" /\ UNCHANGED <<tasks, queueCount, mode, hreg, classALine>>
         ELSE /\ tasks' = Tail(tasks)
              /\ queueCount' = Bigger(hcount, queueCount)
              /\ classALine' = IF classALine = << >> THEN classALine ELSE Tail(classALine)
              /\ mode' = "classA" /\ hreg' = Address(hup) /\ hpc' = "fetch"
    /\ UNCHANGED <<mainVars, due, taskSem, prodSem, fetchVars, hup, hcount, packageid, udp,
                   dataLine, classCVars, row, radio, logVars, exposed, inputs>>

Take ==
    /\ hpc = "take"
    /\ IF tasks = << >>
         THEN hpc' = "wait" /\ UNCHANGED tasks
         ELSE hpc' = "data" /\ tasks' = Tail(tasks)
    /\ UNCHANGED <<mainVars, due, taskSem, prodSem, fetchVars, hup, mode, hcount, packageid,
                   queueCount, hreg, lineVars, classCVars, row, radio, logVars, exposed, inputs>>

\* Data_GetFront_Queue has no return for a queue that is not empty; the
\* register holds the length, so that one byte looks like no data.
GetFront == dataLine # << >> /\ Head(dataLine) \notin Tiny

FetchData ==
    /\ hpc = "data" /\ GetFront
    /\ dataLine' = Tail(dataLine)
    /\ mode' = "answer" /\ hreg' = Address(hup) /\ hpc' = "fetch"
    /\ UNCHANGED <<mainVars, due, taskVars, fetchVars, hup, hcount, packageid, queueCount,
                   udp, classALine, classCVars, row, radio, logVars, exposed, inputs>>

\* No data, or the tables of the region cannot be read: the data stays.
NoData ==
    /\ hpc = "data"
    /\ \/ ~GetFront /\ UNCHANGED inputs
       \/ GetFront /\ Happens
    /\ hpc' = "wait"
    /\ UNCHANGED <<mainVars, due, taskVars, fetchVars, hup, mode, hcount, packageid,
                   queueCount, hreg, lineVars, classCVars, row, radio, logVars, exposed>>

\* SendClassADebugData ends here or below; the packages of a batch are counted.
Package ==
    IF mode = "classA"
      THEN IF packageid = queueCount
             THEN packageid' = 1 /\ queueCount' = 0
             ELSE packageid' = packageid + 1 /\ UNCHANGED queueCount
      ELSE UNCHANGED <<packageid, queueCount>>

HandleFetch ==
    /\ hpc = "fetch" /\ Current(hreg)
    /\ hreg' = [hreg EXCEPT !.fcnt = row[hreg.node].fcnt + 1]
    /\ hpc' = "update"
    /\ exposed' = IF Holding(cpc, creg, hreg.node, hreg.sess)
                    THEN Exposes(hreg.node, hreg.sess) ELSE exposed
    /\ UNCHANGED <<mainVars, due, taskVars, fetchVars, hup, mode, hcount, packageid,
                   queueCount, lineVars, classCVars, row, radio, logVars, inputs>>

\* There is no row with this address, or the data base is busy.
FetchFails(reg) == (~Current(reg) /\ UNCHANGED inputs) \/ (Current(reg) /\ Happens)

HandleFetchFails ==
    /\ hpc = "fetch" /\ mode = "answer"
    /\ FetchFails(hreg)
    /\ hpc' = "wait"
    /\ UNCHANGED <<mainVars, due, taskVars, fetchVars, hup, mode, hcount, packageid,
                   queueCount, hreg, lineVars, classCVars, row, radio, logVars, exposed>>

\* SendClassADebugData goes on with an uninitialised counter.
ClassAFetchFails ==
    /\ hpc = "fetch" /\ mode = "classA"
    /\ FetchFails(hreg)
    /\ \E c \in 1..MaxUp : hreg' = [hreg EXCEPT !.fcnt = c]
    /\ hpc' = "update"
    /\ exposed' = Exposes(hreg.node, hreg.sess)
    /\ UNCHANGED <<mainVars, due, taskVars, fetchVars, hup, mode, hcount, packageid,
                   queueCount, lineVars, classCVars, row, radio, logVars>>

HandleUpdate ==
    /\ hpc = "update"
    /\ Stored(hreg)
    /\ hpc' = IF Current(hreg) \/ mode = "classA" THEN "keys" ELSE "wait"
    /\ UNCHANGED <<mainVars, due, taskVars, fetchVars, hup, mode, hcount, packageid,
                   queueCount, hreg, lineVars, classCVars, radio, logVars, exposed, inputs>>

HandleUpdateFails ==
    /\ hpc = "update" /\ Happens
    /\ hpc' = "keys"
    /\ exposed' = Exposes(hreg.node, hreg.sess)
    /\ UNCHANGED <<mainVars, due, taskVars, fetchVars, hup, mode, hcount, packageid,
                   queueCount, hreg, lineVars, classCVars, row, radio, logVars>>

\* Fetch_Nwkskey_Appskey_Table.
HandleKeys ==
    /\ hpc = "keys" /\ (Current(hreg) \/ mode = "classA")
    /\ hpc' = "send"
    /\ UNCHANGED <<mainVars, due, taskVars, fetchVars, hup, mode, hcount, packageid,
                   queueCount, hreg, lineVars, classCVars, row, radio, logVars, exposed, inputs>>

HandleKeysFails ==
    /\ hpc = "keys" /\ mode = "answer"
    /\ FetchFails(hreg)
    /\ hpc' = "wait"
    /\ UNCHANGED <<mainVars, due, taskVars, fetchVars, hup, mode, hcount, packageid,
                   queueCount, hreg, lineVars, classCVars, row, radio, logVars, exposed>>

HandleSend ==
    /\ hpc = "send"
    /\ LogSent(hreg)
    /\ answered' = [answered EXCEPT ![hup] = @ + 1]
    /\ radio' = "busy" /\ hpc' = "poll"
    /\ UNCHANGED <<mainVars, due, taskVars, fetchVars, hup, mode, hcount, packageid,
                   queueCount, hreg, lineVars, classCVars, row, exposed, inputs>>

\* lgw_send returned an error.
HandleSendFails ==
    /\ hpc = "send" /\ Happens
    /\ hpc' = "wait" /\ Package
    /\ UNCHANGED <<mainVars, due, taskVars, fetchVars, hup, mode, hcount, hreg, lineVars,
                   classCVars, row, radio, logVars, exposed>>

HandleSent ==
    /\ hpc = "poll" /\ radio = "free"
    /\ hpc' = "wait" /\ Package
    /\ UNCHANGED <<mainVars, due, taskVars, fetchVars, hup, mode, hcount, hreg, lineVars,
                   classCVars, row, radio, logVars, exposed, inputs>>

\* From the 55th poll on each one aborts and drops the front of a queue: the
\* class A queue, or (in JoinFlow) the queue of the join requests.
AbortDrops ==
    classALine' = IF mode = "classA" /\ classALine # << >> THEN Tail(classALine) ELSE classALine

HandleAbort ==
    /\ hpc \in {"poll", "abort"} /\ radio = "busy"
    /\ radio' = "free" /\ hpc' = "abort" /\ AbortDrops
    /\ UNCHANGED <<mainVars, due, taskVars, fetchVars, hup, mode, hcount, packageid,
                   queueCount, hreg, udp, dataLine, classCVars, row, logVars, exposed, inputs>>

\* Mutant: an aborted answer is sent again.
HandleAbortedAgain ==
    /\ hpc = "abort" /\ radio = "free"
    /\ hpc' = "send" /\ AbortDrops
    /\ UNCHANGED <<mainVars, due, taskVars, fetchVars, hup, mode, hcount, packageid, queueCount,
                   hreg, udp, dataLine, classCVars, row, radio, logVars, exposed, inputs>>

HandleAborted ==
    /\ hpc = "abort" /\ radio = "free"
    /\ hpc' = "wait" /\ AbortDrops /\ Package
    /\ UNCHANGED <<mainVars, due, taskVars, fetchVars, hup, mode, hcount, hreg, udp, dataLine,
                   classCVars, row, radio, logVars, exposed, inputs>>

-----------------------------------------------------------------------------
(* Thread_Handle_Class_C_Task: a datagram is for one device and is sent in *)
(* packets of 51 bytes; the address is read once, the counter each time.   *)

ClassCRecv(n, k) ==
    /\ cpc = "recv" /\ Happens
    /\ IF row[n].present
         THEN cpc' = "fetch" /\ creg' = Reg(n, row[n].sess, 0) /\ cleft' = k
         ELSE UNCHANGED classCVars
    /\ UNCHANGED <<mainVars, due, taskVars, fetchVars, handleVars, lineVars, row, radio,
                   logVars, exposed>>

ClassCNext == cleft' = cleft - 1 /\ cpc' = IF cleft = 1 THEN "recv" ELSE "fetch"

ClassCFetch ==
    /\ cpc = "fetch" /\ Current(creg)
    /\ creg' = [creg EXCEPT !.fcnt = row[creg.node].fcnt + 1]
    /\ cpc' = "update"
    /\ exposed' = IF Holding(hpc, hreg, creg.node, creg.sess)
                    THEN Exposes(creg.node, creg.sess) ELSE exposed
    /\ UNCHANGED <<mainVars, due, taskVars, fetchVars, handleVars, lineVars, cleft, row,
                   radio, logVars, inputs>>

\* No row, or a busy data base: the packet is left out.
ClassCFetchFails ==
    /\ cpc \in {"fetch", "keys"}
    /\ FetchFails(creg)
    /\ ClassCNext
    /\ UNCHANGED <<mainVars, due, taskVars, fetchVars, handleVars, lineVars, creg, row,
                   radio, logVars, exposed>>

ClassCUpdate ==
    /\ cpc = "update"
    /\ Stored(creg)
    /\ IF Current(creg) THEN cpc' = "keys" /\ UNCHANGED cleft ELSE ClassCNext
    /\ UNCHANGED <<mainVars, due, taskVars, fetchVars, handleVars, lineVars, creg, radio,
                   logVars, exposed, inputs>>

ClassCUpdateFails ==
    /\ cpc = "update" /\ Happens
    /\ cpc' = "keys"
    /\ exposed' = Exposes(creg.node, creg.sess)
    /\ UNCHANGED <<mainVars, due, taskVars, fetchVars, handleVars, lineVars, creg, cleft, row,
                   radio, logVars>>

ClassCKeys ==
    /\ cpc = "keys" /\ Current(creg)
    /\ cpc' = "send"
    /\ UNCHANGED <<mainVars, due, taskVars, fetchVars, handleVars, lineVars, creg, cleft, row,
                   radio, logVars, exposed, inputs>>

ClassCSend ==
    /\ cpc = "send"
    /\ LogSent(creg)
    /\ radio' = "busy" /\ cpc' = "poll"
    /\ UNCHANGED <<mainVars, due, taskVars, fetchVars, handleVars, lineVars, creg, cleft, row,
                   answered, exposed, inputs>>

ClassCSent ==
    /\ cpc = "poll" /\ radio = "free"
    /\ ClassCNext
    /\ UNCHANGED <<mainVars, due, taskVars, fetchVars, handleVars, lineVars, creg, row, radio,
                   logVars, exposed, inputs>>

-----------------------------------------------------------------------------

Fetch == FetchFront \/ FetchDrop \/ FetchWake

Handle ==
    \/ HandleFront \/ LookClassA \/ TakeClassA \/ Take \/ FetchData \/ NoData
    \/ HandleFetch \/ HandleFetchFails \/ ClassAFetchFails
    \/ HandleUpdate \/ HandleUpdateFails \/ HandleKeys \/ HandleKeysFails
    \/ HandleSend \/ HandleSendFails \/ HandleSent \/ HandleAbort \/ HandleAborted

ClassC ==
    \/ \E n \in Node, k \in 1..MaxPacket : ClassCRecv(n, k)
    \/ ClassCFetch \/ ClassCFetchFails \/ ClassCUpdate \/ ClassCUpdateFails
    \/ ClassCKeys \/ ClassCSend \/ ClassCSent

Environment ==
    \/ \E n \in Node :
         \/ Uplink(n) \/ ServerAnswers(n) \/ ClassADataStore(n)
         \/ ClearFcntDown(n) \/ Accept(n) \/ Remove(n)
    \/ DataStore \/ Tick \/ Emitted

Next == TaskQueue \/ Fetch \/ Handle \/ ClassC \/ Environment

Spec == Init /\ [][Next]_vars

\* The threads are scheduled, time passes, the radio sends what is due.
FairSpec == Spec /\ WF_vars(TaskQueue) /\ WF_vars(Fetch) /\ WF_vars(Handle)
                 /\ WF_vars(Tick) /\ WF_vars(Emitted)

-----------------------------------------------------------------------------

InFlight ==
    (IF fpc = "wait" THEN 0 ELSE 1) + (IF hpc \in {"look", "takeA", "take"} THEN 1 ELSE 0)

\* Two threads remove tasks and one token travels over two semaphores: there
\* is a token on its way for each task that is queued, so none is left behind.
EveryTaskHasToken == Len(tasks) <= taskSem + prodSem + InFlight

\* The handler reads the front and removes whatever is the front later, and
\* the fetching thread removes too: still no uplink is answered twice.
AnsweredOnce == \A u \in 1..MaxUp : answered[u] <= 1

\* A counter is sent twice under the same keys only after one of: two threads
\* read FcntDown before the first of them stored it; the UPDATE failed and
\* was taken for done; class A data went out with an uninitialised counter;
\* the counter was cleared for a join before the session changed.
CounterReuseExplained == reused \subseteq exposed

\* Every queued uplink leaves the queue.
TasksLeave ==
    \A u \in 1..MaxUp : (\E i \in DOMAIN tasks : tasks[i] = u)
                         ~> ~(\E i \in DOMAIN tasks : tasks[i] = u)
=============================================================================
