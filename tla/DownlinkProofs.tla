--------------------------- MODULE DownlinkProofs ---------------------------
(***************************************************************************)
(* Theorems about Downlink, for any nodes, sizes of the queues and bounds: *)
(* types, a token for every task, one answer per uplink, and the only ways *)
(* in which a frame counter is sent twice under the same keys; and about   *)
(* Rx1, whose RateSpec says at what rate those answers go out.             *)
(***************************************************************************)
EXTENDS Downlink, Rx1, TLAPS

LEMMA Sizes ==
    /\ MAXTASK \in Nat /\ MAXDATA \in Nat /\ MaxUp \in Nat /\ MaxPacket \in Nat
    /\ MaxPacket > 0 /\ MaxJoins \in Nat /\ MaxInputs \in Nat /\ Node # {}
BY DownlinkAssumption DEF DownlinkAssumption

-----------------------------------------------------------------------------
(* What the steps of each thread leave alone.                              *)

LEMMA FetchFrame ==
    Fetch => UNCHANGED <<mainVars, due, handleVars, lineVars, classCVars, row, radio,
                         logVars, exposed, inputs>>
BY DEF Fetch, FetchFront, FetchDrop, FetchWake

\* The steps of the handler that neither take a task nor its data.
HandleRest ==
    \/ NoData \/ HandleFetch \/ HandleFetchFails \/ ClassAFetchFails \/ HandleUpdate
    \/ HandleUpdateFails \/ HandleKeys \/ HandleKeysFails \/ HandleSend \/ HandleSendFails
    \/ HandleSent \/ HandleAbort \/ HandleAborted

LEMMA HandleParts ==
    Handle => \/ HandleFront \/ LookClassA \/ TakeClassA \/ Take \/ FetchData
              \/ HandleRest
BY DEF Handle, HandleRest

LEMMA HandleFrame ==
    Handle => UNCHANGED <<mainVars, due, taskSem, fetchVars, udp, classCVars>>
<1>1. HandleRest => UNCHANGED <<mainVars, due, taskSem, fetchVars, udp, classCVars>>
  BY DEF HandleRest, NoData, HandleFetch, HandleFetchFails, ClassAFetchFails, HandleUpdate,
     HandleUpdateFails, HandleKeys, HandleKeysFails, HandleSend, HandleSendFails, HandleSent,
     HandleAbort, HandleAborted, lineVars, taskVars
<1>2. QED
  BY <1>1, HandleParts
     DEF HandleFront, LookClassA, TakeClassA, Take, FetchData, lineVars, taskVars

\* The handler has left the front of the queue behind in all of them.
LEMMA RestFrame ==
    HandleRest => /\ UNCHANGED <<taskVars, dataLine, hup, hcount, mode>>
                  /\ hpc \in {"data", "fetch", "update", "keys", "send", "poll", "abort"}
                  /\ hpc' \in {"wait", "fetch", "update", "keys", "send", "poll", "abort"}
                  /\ hpc' # "wait" => hpc \in {"fetch", "update", "keys", "send", "poll", "abort"}
BY DEF HandleRest, NoData, HandleFetch, HandleFetchFails, ClassAFetchFails, HandleUpdate,
   HandleUpdateFails, HandleKeys, HandleKeysFails, HandleSend, HandleSendFails, HandleSent,
   HandleAbort, HandleAborted, lineVars

LEMMA ClassCFrame ==
    ClassC => UNCHANGED <<mainVars, due, taskVars, fetchVars, handleVars, lineVars, answered>>
BY DEF ClassC, ClassCRecv, ClassCFetch, ClassCFetchFails, ClassCUpdate, ClassCUpdateFails,
   ClassCKeys, ClassCSend, ClassCSent, logVars

\* What is neither an uplink nor a thread's step changes lines, rows, the
\* clock and the radio.
Surroundings ==
    \/ \E n \in Node : \/ ServerAnswers(n) \/ ClassADataStore(n) \/ ClearFcntDown(n)
                       \/ Accept(n) \/ Remove(n)
    \/ DataStore \/ Tick \/ Emitted

LEMMA SurroundingsFrame ==
    Surroundings => UNCHANGED <<mainVars, taskVars, fetchVars, handleVars, classCVars, logVars>>
BY DEF Surroundings, ServerAnswers, ClassADataStore, ClearFcntDown, Accept, Remove, DataStore,
   Tick, Emitted

LEMMA NextParts ==
    Next => \/ TaskQueue \/ Fetch \/ Handle \/ ClassC \/ Surroundings
            \/ \E n \in Node : Uplink(n)
BY DEF Next, Environment, Surroundings

-----------------------------------------------------------------------------
(* Types, one group of variables at a time.                                *)

QueueType ==
    /\ ups \in Seq([node : Node, sess : Sess]) /\ Len(ups) <= MaxUp
    /\ mpc \in {"recv", "queue"} /\ (mpc = "queue" => Len(ups) > 0)
    /\ due \in 0..Len(ups)
    /\ lastUp \in SUBSET Node
    /\ tasks \in Seq(1..MaxUp) /\ Len(tasks) <= MAXTASK
    /\ \A i \in 1..Len(tasks) : tasks[i] <= Len(ups)
    /\ taskSem \in Nat /\ prodSem \in Nat
    /\ fpc \in {"wait", "sleep", "drop"} /\ fup \in Up

Sending == {"fetch", "update", "keys", "send", "poll", "abort"}

\* A batch of class A packages has a size as long as one of them is sent.
HandleType ==
    /\ hpc \in {"wait", "look", "takeA", "take", "data"} \union Sending
    /\ hup \in Up /\ (hpc # "wait" => hup \in 1..Len(ups))
    /\ mode \in {"answer", "classA"}
    /\ hcount \in 0..MaxInputs /\ (hpc = "takeA" => hcount >= 1)
    /\ queueCount \in 0..MaxInputs /\ (hpc \in Sending /\ mode = "classA" => queueCount >= 1)
    /\ packageid \in Nat \ {0} /\ (packageid <= queueCount \/ packageid = 1)
    /\ hreg \in Registers

LineType ==
    /\ udp \in Seq(Node)
    /\ dataLine \in Seq(Node) /\ Len(dataLine) <= MAXDATA
    /\ classALine \in Seq(Node) /\ Len(classALine) <= inputs
    /\ inputs \in 0..MaxInputs

ClassCType ==
    /\ cpc \in {"recv", "fetch", "update", "keys", "send", "poll"}
    /\ creg \in Registers /\ cleft \in 0..MaxPacket
    /\ cpc # "recv" => cleft > 0

Row == [present : BOOLEAN, sess : Sess, fcnt : Nat, asked : BOOLEAN]

LogType ==
    /\ row \in [Node -> Row]
    /\ radio \in {"free", "busy"}
    /\ used \subseteq Node \X Sess \X Nat
    /\ reused \subseteq Node \X Sess /\ exposed \subseteq Node \X Sess
    /\ answered \in [1..MaxUp -> Nat]

TypeInv == QueueType /\ HandleType /\ LineType /\ ClassCType /\ LogType

LEMMA TypeInvTypes == TypeInv => TypeOK
BY DEF TypeInv, QueueType, HandleType, LineType, ClassCType, LogType, TypeOK, Row, Sending

LEMMA NoRegType == NoReg \in Registers
<1>1. (CHOOSE n \in Node : TRUE) \in Node
  BY Sizes
<1>2. QED
  BY <1>1, Sizes DEF NoReg, Reg, Registers, Sess

LEMMA InitType == Init => TypeInv
<1> SUFFICES ASSUME Init PROVE TypeInv
  OBVIOUS
<1>1. QueueType
  BY Sizes DEF Init, QueueType, Up
<1>2. HandleType
  BY Sizes, NoRegType DEF Init, HandleType, Sending, Up
<1>3. LineType
  BY Sizes DEF Init, LineType
<1>4. ClassCType
  BY Sizes, NoRegType DEF Init, ClassCType
<1>5. LogType
  BY Sizes DEF Init, LogType, Row, Sess
<1>6. QED
  BY <1>1, <1>2, <1>3, <1>4, <1>5 DEF TypeInv

LEMMA ElementType ==
    ASSUME NEW S, NEW s \in Seq(S)
    PROVE  \A i \in 1..Len(s) : s[i] \in S
OBVIOUS

LEMMA TailType ==
    ASSUME NEW S, NEW s \in Seq(S), s # << >>
    PROVE  /\ Tail(s) \in Seq(S) /\ Len(s) > 0 /\ Len(s) \in Nat
           /\ Len(Tail(s)) = Len(s) - 1 /\ Head(s) \in S /\ Head(s) = s[1]
           /\ \A i \in 1..Len(Tail(s)) : i + 1 \in 1..Len(s) /\ Tail(s)[i] = s[i + 1]
OBVIOUS

LEMMA AppendType ==
    ASSUME NEW S, NEW s \in Seq(S), NEW e \in S
    PROVE  /\ Append(s, e) \in Seq(S) /\ Len(s) \in Nat
           /\ Len(Append(s, e)) = Len(s) + 1
           /\ \A i \in 1..Len(s) : Append(s, e)[i] = s[i]
           /\ Append(s, e)[Len(s) + 1] = e
OBVIOUS

\* Removing the front, if there is one, keeps the type of the queue.
LEMMA DequeueType ==
    ASSUME QueueType, tasks' = (IF tasks = << >> THEN tasks ELSE Tail(tasks))
    PROVE  /\ tasks' \in Seq(1..MaxUp) /\ Len(tasks') <= MAXTASK
           /\ Len(tasks') \in Nat /\ Len(tasks) \in Nat
           /\ Len(tasks') = IF Len(tasks) = 0 THEN 0 ELSE Len(tasks) - 1
           /\ \A i \in 1..Len(tasks') : i + 1 \in 1..Len(tasks) /\ tasks'[i] = tasks[i + 1]
<1>1. CASE tasks = << >>
  BY <1>1, Sizes DEF QueueType
<1>2. CASE tasks # << >>
  BY <1>2, TailType, Sizes DEF QueueType
<1>3. QED
  BY <1>1, <1>2

LEMMA TaskQueueType == TypeInv /\ TaskQueue => QueueType'
<1> SUFFICES ASSUME TypeInv, TaskQueue PROVE QueueType'
  OBVIOUS
<1>1. Len(ups) \in 1..MaxUp
  BY DEF TypeInv, QueueType, TaskQueue
<1>2. tasks' \in Seq(1..MaxUp) /\ Len(tasks') <= MAXTASK
  <2>1. CASE Len(tasks) < MAXTASK
    BY <1>1, <2>1, AppendType, Sizes DEF TypeInv, QueueType, TaskQueue
  <2>2. CASE ~(Len(tasks) < MAXTASK)
    BY <2>2 DEF TypeInv, QueueType, TaskQueue
  <2>3. QED
    BY <2>1, <2>2
<1>3. QED
  BY <1>2 DEF TypeInv, QueueType, TaskQueue, fetchVars

LEMMA UplinkType ==
    ASSUME TypeInv, NEW n \in Node, Uplink(n)
    PROVE  /\ QueueType' /\ Len(ups') = Len(ups) + 1 /\ Len(ups) \in Nat
           /\ ups'[Len(ups')] = [node |-> n, sess |-> row[n].sess]
           /\ \A u \in 1..Len(ups) : ups'[u] = ups[u]
<1>1. [node |-> n, sess |-> row[n].sess] \in [node : Node, sess : Sess]
  BY DEF TypeInv, LogType, Row
<1>2. ups' \in Seq([node : Node, sess : Sess]) /\ Len(ups') = Len(ups) + 1 /\ Len(ups) \in Nat
      /\ \A u \in 1..Len(ups) : ups'[u] = ups[u]
      /\ ups'[Len(ups) + 1] = [node |-> n, sess |-> row[n].sess]
  BY <1>1, AppendType DEF Uplink, TypeInv, QueueType
<1>3. QED
  BY <1>2, Sizes DEF Uplink, TypeInv, QueueType, taskVars, fetchVars

LEMMA QueueTypeNext == TypeInv /\ Next => QueueType'
<1> SUFFICES ASSUME TypeInv, Next PROVE QueueType'
  OBVIOUS
<1>1. ASSUME NEW n \in Node, Uplink(n) PROVE QueueType'
  BY <1>1, UplinkType
<1>2. CASE Fetch
  <2> USE FetchFrame DEF TypeInv, QueueType, mainVars, taskVars, fetchVars
  <2>1. CASE FetchFront
    <3>1. tasks # << >> => Head(tasks) \in 1..MaxUp
      BY TailType
    <3>2. QED
      BY <1>2, <2>1, <3>1, Sizes DEF FetchFront, Up
  <2>2. CASE FetchDrop
    BY <1>2, <2>2, DequeueType, Sizes DEF FetchDrop, Up
  <2>3. CASE FetchWake
    BY <1>2, <2>3, Sizes DEF FetchWake, Up
  <2>4. QED
    BY <1>2, <2>1, <2>2, <2>3 DEF Fetch
<1>3. CASE Handle
  <2> USE HandleFrame DEF TypeInv, QueueType, mainVars, taskVars, fetchVars
  <2>1. CASE HandleFront
    BY <1>3, <2>1 DEF HandleFront
  <2>2. CASE TakeClassA \/ Take
    <3>1. tasks' = (IF tasks = << >> THEN tasks ELSE Tail(tasks)) /\ prodSem' = prodSem
      BY <2>2 DEF TakeClassA, Take
    <3>2. QED
      BY <1>3, <3>1, DequeueType
  <2>3. CASE LookClassA \/ FetchData \/ HandleRest
    <3>1. UNCHANGED taskVars
      BY <2>3, RestFrame DEF LookClassA, FetchData
    <3>2. QED
      BY <1>3, <3>1
  <2>4. QED
    BY <1>3, <2>1, <2>2, <2>3, HandleParts
<1>4. CASE Surroundings
  <2>1. due' = due \/ (due < Len(ups) /\ due' = due + 1)
    BY <1>4 DEF Surroundings, ServerAnswers, ClassADataStore, ClearFcntDown, Accept, Remove,
       DataStore, Tick, Emitted
  <2>2. due' \in 0..Len(ups) /\ Len(ups) \in Nat
    BY <2>1 DEF TypeInv, QueueType
  <2>3. QED
    BY <1>4, <2>2, SurroundingsFrame DEF TypeInv, QueueType, mainVars, taskVars, fetchVars
<1>5. CASE ClassC
  BY <1>5, ClassCFrame DEF TypeInv, QueueType, mainVars, taskVars, fetchVars
<1>6. QED
  BY <1>1, <1>2, <1>3, <1>4, <1>5, TaskQueueType, NextParts

LEMMA AddressType ==
    ASSUME TypeInv, hpc # "wait" PROVE Address(hup) \in Registers
<1>1. hup \in 1..Len(ups) /\ ups \in Seq([node : Node, sess : Sess])
  BY DEF TypeInv, HandleType, QueueType
<1>2. ups[hup] \in [node : Node, sess : Sess]
  BY <1>1, ElementType
<1>3. QED
  BY <1>2 DEF Address, Reg, Registers

LEMMA PackageType ==
    ASSUME TypeInv, Package, mode = "classA" => queueCount >= 1
    PROVE  /\ queueCount' \in 0..MaxInputs /\ packageid' \in Nat \ {0}
           /\ packageid' <= queueCount' \/ packageid' = 1
BY Sizes DEF TypeInv, HandleType, Package

LEMMA CounterType ==
    ASSUME LogType, NEW reg \in Registers
    PROVE  [reg EXCEPT !.fcnt = row[reg.node].fcnt + 1] \in Registers
BY DEF LogType, Row, Registers

LEMMA HandleRestType == TypeInv /\ Handle /\ HandleRest => HandleType'
<1> SUFFICES ASSUME TypeInv, Handle, HandleRest PROVE HandleType'
  OBVIOUS
<1>1. /\ UNCHANGED <<hup, hcount, mode, ups>>
      /\ hpc' \in {"wait"} \union Sending /\ (hpc' # "wait" => hpc \in Sending)
  BY RestFrame, HandleFrame DEF mainVars, Sending
<1>2. hreg' \in Registers
  <2>1. CASE HandleFetch
    BY <2>1, CounterType DEF HandleFetch, TypeInv, HandleType
  <2>2. CASE ClassAFetchFails
    BY <2>2, Sizes, SMTT(30) DEF ClassAFetchFails, TypeInv, HandleType, Registers
  <2>3. CASE ~HandleFetch /\ ~ClassAFetchFails
    BY <2>3 DEF HandleRest, NoData, HandleFetchFails, HandleUpdate, HandleUpdateFails,
       HandleKeys, HandleKeysFails, HandleSend, HandleSendFails, HandleSent, HandleAbort,
       HandleAborted, TypeInv, HandleType
  <2>4. QED
    BY <2>1, <2>2, <2>3
<1>3. /\ queueCount' \in 0..MaxInputs /\ packageid' \in Nat \ {0}
      /\ packageid' <= queueCount' \/ packageid' = 1
      /\ hpc' \in Sending => queueCount' = queueCount
  <2>1. CASE HandleSendFails \/ HandleSent \/ HandleAborted
    BY <2>1, PackageType
       DEF HandleSendFails, HandleSent, HandleAborted, Sending, TypeInv, HandleType
  <2>2. CASE ~(HandleSendFails \/ HandleSent \/ HandleAborted)
    <3>1. UNCHANGED <<queueCount, packageid>>
      BY <2>2 DEF HandleRest, NoData, HandleFetch, HandleFetchFails, ClassAFetchFails,
         HandleUpdate, HandleUpdateFails, HandleKeys, HandleKeysFails, HandleSend, HandleAbort
    <3>2. QED
      BY <3>1 DEF TypeInv, HandleType
  <2>3. QED
    BY <2>1, <2>2
<1>4. QED
  BY <1>1, <1>2, <1>3 DEF TypeInv, HandleType, Sending

LEMMA HandleTypeNext == TypeInv /\ Next => HandleType'
<1> SUFFICES ASSUME TypeInv, Next PROVE HandleType'
  OBVIOUS
<1> USE DEF handleVars, mainVars
<1>1. ASSUME NEW n \in Node, Uplink(n) PROVE HandleType'
  <2>1. Len(ups') = Len(ups) + 1 /\ Len(ups) \in Nat /\ UNCHANGED handleVars
    BY <1>1, UplinkType DEF Uplink
  <2>2. QED
    BY <2>1 DEF TypeInv, HandleType
<1>2. CASE HandleFront
  <2>1. ASSUME tasks # << >> PROVE Head(tasks) \in 1..MaxUp /\ Head(tasks) <= Len(ups)
    <3>1. Len(tasks) > 0 /\ Head(tasks) \in 1..MaxUp /\ Head(tasks) = tasks[1]
      BY <2>1, TailType DEF TypeInv, QueueType
    <3>2. QED
      BY <3>1 DEF TypeInv, QueueType
  <2>2. QED
    BY <1>2, <2>1, Sizes DEF HandleFront, TypeInv, HandleType, QueueType, Sending, Up
<1>3. CASE LookClassA
  <2>1. Len(classALine) \in 0..MaxInputs /\ (classALine # << >> => Len(classALine) >= 1)
    BY Sizes DEF TypeInv, LineType
  <2>2. QED
    BY <1>3, <2>1 DEF LookClassA, TypeInv, HandleType, Sending
<1>4. CASE TakeClassA
  BY <1>4, AddressType, Sizes
     DEF TakeClassA, TypeInv, HandleType, Sending, Bigger
<1>5. CASE Take \/ FetchData
  BY <1>5, AddressType DEF Take, FetchData, TypeInv, HandleType, Sending
<1>6. CASE Handle /\ HandleRest
  BY <1>6, HandleRestType
<1>7. CASE TaskQueue \/ Fetch \/ ClassC \/ Surroundings
  <2>1. UNCHANGED <<handleVars, ups>>
    BY <1>7, FetchFrame, ClassCFrame, SurroundingsFrame DEF TaskQueue
  <2>2. QED
    BY <2>1 DEF TypeInv, HandleType
<1>8. QED
  BY <1>1, <1>2, <1>3, <1>4, <1>5, <1>6, <1>7, HandleParts, NextParts

\* One more input, or a failure that is taken for one, stays in the bound.
LEMMA InputsGrow == TypeInv /\ Happens => inputs' = inputs + 1 /\ inputs' \in 0..MaxInputs
BY Sizes DEF TypeInv, LineType, Happens

LEMMA LineTypeNext == TypeInv /\ Next => LineType'
<1> SUFFICES ASSUME TypeInv, Next PROVE LineType'
  OBVIOUS
<1> USE DEF lineVars
<1>1. inputs' = inputs \/ (inputs' = inputs + 1 /\ inputs' \in 0..MaxInputs)
  <2>1. inputs' = inputs \/ Happens
    <3>1. Fetch \/ TaskQueue \/ (\E n \in Node : Uplink(n)) => inputs' = inputs
      BY FetchFrame DEF TaskQueue, Uplink
    <3>2. Handle => inputs' = inputs \/ Happens
      BY DEF Handle, HandleFront, LookClassA, TakeClassA, Take, FetchData, NoData, HandleFetch,
         HandleFetchFails, ClassAFetchFails, HandleUpdate, HandleUpdateFails, HandleKeys,
         HandleKeysFails, HandleSend, HandleSendFails, HandleSent, HandleAbort, HandleAborted,
         FetchFails
    <3>3. ClassC => inputs' = inputs \/ Happens
      BY DEF ClassC, ClassCRecv, ClassCFetch, ClassCFetchFails, ClassCUpdate, ClassCUpdateFails,
         ClassCKeys, ClassCSend, ClassCSent, FetchFails
    <3>4. Surroundings => inputs' = inputs \/ Happens
      BY DEF Surroundings, ServerAnswers, ClassADataStore, ClearFcntDown, Accept, Remove,
         DataStore, Tick, Emitted
    <3>5. QED
      BY <3>1, <3>2, <3>3, <3>4, NextParts
  <2>2. QED
    BY <2>1, InputsGrow
<1>2. ASSUME NEW n \in Node, ServerAnswers(n) \/ ClassADataStore(n) PROVE LineType'
  <2>1. Happens
    BY <1>2 DEF ServerAnswers, ClassADataStore
  <2>2. CASE ServerAnswers(n)
    BY <2>1, <2>2, InputsGrow, AppendType DEF ServerAnswers, TypeInv, LineType
  <2>3. CASE ClassADataStore(n)
    BY <2>1, <2>3, InputsGrow, AppendType DEF ClassADataStore, TypeInv, LineType
  <2>4. QED
    BY <1>2, <2>2, <2>3
<1>3. CASE DataStore
  <2>1. Head(udp) \in Node /\ Tail(udp) \in Seq(Node)
    BY <1>3, TailType DEF DataStore, TypeInv, LineType
  <2>2. dataLine' \in Seq(Node) /\ Len(dataLine') <= MAXDATA
    <3>1. CASE Len(dataLine) < MAXDATA
      BY <1>3, <2>1, <3>1, AppendType, Sizes DEF DataStore, TypeInv, LineType
    <3>2. CASE ~(Len(dataLine) < MAXDATA)
      BY <1>3, <3>2 DEF DataStore, TypeInv, LineType
    <3>3. QED
      BY <3>1, <3>2
  <2>3. QED
    BY <1>3, <2>1, <2>2 DEF DataStore, TypeInv, LineType
<1>4. CASE FetchData
  <2>1. Tail(dataLine) \in Seq(Node) /\ Len(Tail(dataLine)) <= MAXDATA
    BY <1>4, TailType, Sizes DEF FetchData, GetFront, TypeInv, LineType
  <2>2. QED
    BY <1>4, <2>1 DEF FetchData, TypeInv, LineType
<1>5. ASSUME UNCHANGED <<udp, dataLine>>,
             classALine' = classALine \/ (classALine # << >> /\ classALine' = Tail(classALine))
      PROVE  LineType'
  <2>1. classALine' \in Seq(Node) /\ Len(classALine') <= inputs
    <3>1. CASE classALine' = classALine
      BY <3>1 DEF TypeInv, LineType
    <3>2. CASE classALine # << >> /\ classALine' = Tail(classALine)
      BY <3>2, TailType DEF TypeInv, LineType
    <3>3. QED
      BY <1>5, <3>1, <3>2
  <2>2. Len(classALine') \in Nat /\ inputs \in Nat /\ inputs' \in 0..MaxInputs /\ inputs' >= inputs
    BY <1>1, <2>1 DEF TypeInv, LineType
  <2>3. QED
    BY <1>5, <2>1, <2>2 DEF TypeInv, LineType
<1>6. CASE HandleFront \/ LookClassA \/ Take \/ TakeClassA \/ HandleRest
  <2>1. /\ UNCHANGED <<udp, dataLine>>
        /\ classALine' = classALine \/ (classALine # << >> /\ classALine' = Tail(classALine))
    BY <1>6 DEF HandleFront, LookClassA, Take, TakeClassA, HandleRest, NoData, HandleFetch,
       HandleFetchFails, ClassAFetchFails, HandleUpdate, HandleUpdateFails, HandleKeys,
       HandleKeysFails, HandleSend, HandleSendFails, HandleSent, HandleAbort, HandleAborted,
       AbortDrops
  <2>2. QED
    BY <1>5, <2>1
<1>7. CASE \/ TaskQueue \/ Fetch \/ ClassC \/ Tick \/ Emitted
           \/ \E n \in Node : Uplink(n) \/ ClearFcntDown(n) \/ Accept(n) \/ Remove(n)
  <2>1. UNCHANGED lineVars
    BY <1>7, FetchFrame, ClassCFrame
       DEF TaskQueue, Tick, Emitted, Uplink, ClearFcntDown, Accept, Remove
  <2>2. QED
    BY <1>5, <2>1
<1>8. QED
  BY <1>2, <1>3, <1>4, <1>6, <1>7, HandleParts, NextParts DEF Surroundings

LEMMA ClassCTypeNext == TypeInv /\ Next => ClassCType'
<1> SUFFICES ASSUME TypeInv, Next PROVE ClassCType'
  OBVIOUS
<1>1. CASE ClassC
  <2>1. ASSUME NEW n \in Node, NEW k \in 1..MaxPacket, ClassCRecv(n, k) PROVE ClassCType'
    <3>1. Reg(n, row[n].sess, 0) \in Registers
      BY DEF TypeInv, LogType, Row, Reg, Registers
    <3>2. QED
      BY <2>1, <3>1, Sizes DEF ClassCRecv, TypeInv, ClassCType, classCVars
  <2>2. CASE ClassCFetch
    BY <2>2, CounterType DEF ClassCFetch, TypeInv, ClassCType
  <2>3. CASE ClassCFetchFails \/ ClassCUpdate \/ ClassCSent
    <3>1. cpc # "recv" /\ creg' = creg
          /\ (ClassCNext \/ (cleft' = cleft /\ cpc' = "keys"))
      BY <2>3 DEF ClassCFetchFails, ClassCUpdate, ClassCSent
    <3>2. QED
      BY <3>1, Sizes DEF ClassCNext, TypeInv, ClassCType
  <2>4. CASE ClassCUpdateFails \/ ClassCKeys \/ ClassCSend
    BY <2>4 DEF ClassCUpdateFails, ClassCKeys, ClassCSend, TypeInv, ClassCType
  <2>5. QED
    BY <1>1, <2>1, <2>2, <2>3, <2>4 DEF ClassC
<1>2. CASE TaskQueue \/ Fetch \/ Handle \/ Surroundings \/ \E n \in Node : Uplink(n)
  <2>1. UNCHANGED classCVars
    BY <1>2, FetchFrame, HandleFrame, SurroundingsFrame DEF TaskQueue, Uplink
  <2>2. QED
    BY <2>1 DEF classCVars, TypeInv, ClassCType
<1>3. QED
  BY <1>1, <1>2, NextParts

LEMMA StoredType ==
    ASSUME LogType, NEW reg \in Registers, Stored(reg)
    PROVE  row' \in [Node -> Row]
BY DEF LogType, Row, Registers, Stored

LEMMA LogSentType ==
    ASSUME LogType, NEW reg \in Registers, LogSent(reg)
    PROVE  used' \subseteq Node \X Sess \X Nat /\ reused' \subseteq Node \X Sess
BY DEF LogType, Registers, LogSent

LEMMA ExposesType ==
    ASSUME LogType, NEW n \in Node, NEW s \in Sess
    PROVE  Exposes(n, s) \subseteq Node \X Sess
BY DEF LogType, Exposes

LEMMA HandleLogType == TypeInv /\ Handle => LogType'
<1> SUFFICES ASSUME TypeInv, Handle PROVE LogType'
  OBVIOUS
<1>1. hreg \in Registers /\ hreg.node \in Node /\ hreg.sess \in Sess /\ LogType
  BY DEF TypeInv, HandleType, Registers
<1>2. CASE HandleUpdate
  BY <1>1, <1>2, StoredType DEF HandleUpdate, LogType, logVars
<1>3. CASE HandleFetch \/ ClassAFetchFails \/ HandleUpdateFails
  BY <1>1, <1>3, ExposesType
     DEF HandleFetch, ClassAFetchFails, HandleUpdateFails, LogType, logVars
<1>4. CASE HandleSend
  <2>1. answered' \in [1..MaxUp -> Nat]
    <3>1. hup \in 1..MaxUp
      BY <1>4, Sizes DEF HandleSend, TypeInv, HandleType, QueueType
    <3>2. answered[hup] + 1 \in Nat
      BY <1>1, <3>1 DEF LogType
    <3>3. QED
      BY <1>1, <1>4, <3>2 DEF HandleSend, LogType
  <2>2. QED
    BY <1>1, <1>4, <2>1, LogSentType DEF HandleSend, LogType
<1>5. CASE \/ HandleFront \/ LookClassA \/ TakeClassA \/ Take \/ FetchData \/ NoData
           \/ HandleFetchFails \/ HandleKeys \/ HandleKeysFails \/ HandleSendFails
           \/ HandleSent \/ HandleAbort \/ HandleAborted
  <2>1. UNCHANGED <<row, logVars, exposed>> /\ (radio' = radio \/ radio' = "free")
    BY <1>5 DEF HandleFront, LookClassA, TakeClassA, Take, FetchData, NoData, HandleFetchFails,
       HandleKeys, HandleKeysFails, HandleSendFails, HandleSent, HandleAbort, HandleAborted
  <2>2. QED
    BY <1>1, <2>1 DEF LogType, logVars
<1>6. QED
  BY <1>2, <1>3, <1>4, <1>5 DEF Handle

LEMMA ClassCLogType == TypeInv /\ ClassC => LogType'
<1> SUFFICES ASSUME TypeInv, ClassC PROVE LogType'
  OBVIOUS
<1>1. creg \in Registers /\ creg.node \in Node /\ creg.sess \in Sess /\ LogType
  BY DEF TypeInv, ClassCType, Registers
<1>2. CASE ClassCUpdate
  BY <1>1, <1>2, StoredType DEF ClassCUpdate, LogType, logVars
<1>3. CASE ClassCFetch \/ ClassCUpdateFails
  BY <1>1, <1>3, ExposesType DEF ClassCFetch, ClassCUpdateFails, LogType, logVars
<1>4. CASE ClassCSend
  BY <1>1, <1>4, LogSentType DEF ClassCSend, LogType
<1>5. CASE \/ \E n \in Node, k \in 1..MaxPacket : ClassCRecv(n, k)
           \/ ClassCFetchFails \/ ClassCKeys \/ ClassCSent
  <2>1. UNCHANGED <<row, radio, logVars, exposed>>
    BY <1>5 DEF ClassCRecv, ClassCFetchFails, ClassCKeys, ClassCSent
  <2>2. QED
    BY <1>1, <2>1 DEF LogType, logVars
<1>6. QED
  BY <1>2, <1>3, <1>4, <1>5 DEF ClassC

LEMMA SurroundingsLogType == TypeInv /\ Surroundings => LogType'
<1> SUFFICES ASSUME TypeInv, Surroundings PROVE LogType'
  OBVIOUS
<1> USE DEF TypeInv, LogType, logVars
<1>1. ASSUME NEW n \in Node, ClearFcntDown(n) PROVE LogType'
  <2>1. row' \in [Node -> Row]
    BY <1>1 DEF ClearFcntDown, Row
  <2>2. <<n, row[n].sess>> \in Node \X Sess
    BY DEF Row
  <2>3. QED
    BY <1>1, <2>1, <2>2 DEF ClearFcntDown
<1>2. ASSUME NEW n \in Node, Accept(n) PROVE LogType'
  <2>1. row[n].sess + 1 \in Sess
    BY <1>2, Sizes DEF Accept, Row, Sess
  <2>2. row' \in [Node -> Row]
    BY <1>2, <2>1 DEF Accept, Row
  <2>3. QED
    BY <1>2, <2>2 DEF Accept
<1>3. ASSUME NEW n \in Node, Remove(n) PROVE LogType'
  <2>1. row' \in [Node -> Row]
    BY <1>3 DEF Remove, Row
  <2>2. QED
    BY <1>3, <2>1 DEF Remove
<1>4. CASE Tick \/ Emitted \/ DataStore
           \/ \E n \in Node : ServerAnswers(n) \/ ClassADataStore(n)
  BY <1>4 DEF Tick, Emitted, DataStore, ServerAnswers, ClassADataStore
<1>5. QED
  BY <1>1, <1>2, <1>3, <1>4 DEF Surroundings

LEMMA LogTypeNext == TypeInv /\ Next => LogType'
<1> SUFFICES ASSUME TypeInv, Next PROVE LogType'
  OBVIOUS
<1>1. CASE TaskQueue \/ Fetch \/ \E n \in Node : Uplink(n)
  <2>1. UNCHANGED <<row, radio, logVars, exposed>>
    BY <1>1, FetchFrame DEF TaskQueue, Uplink
  <2>2. QED
    BY <2>1 DEF TypeInv, LogType, logVars
<1>2. QED
  BY <1>1, HandleLogType, ClassCLogType, SurroundingsLogType, NextParts

LEMMA TypeNext == TypeInv /\ [Next]_vars => TypeInv'
<1> SUFFICES ASSUME TypeInv, [Next]_vars PROVE TypeInv'
  OBVIOUS
<1>1. CASE Next
  BY <1>1, QueueTypeNext, HandleTypeNext, LineTypeNext, ClassCTypeNext, LogTypeNext DEF TypeInv
<1>2. CASE UNCHANGED vars
  BY <1>2 DEF vars, mainVars, taskVars, fetchVars, handleVars, lineVars, classCVars, logVars,
     TypeInv, QueueType, HandleType, LineType, ClassCType, LogType
<1>3. QED
  BY <1>1, <1>2

LEMMA TypesHold == Spec => []TypeInv
BY InitType, TypeNext, PTL DEF Spec

\* Every variable keeps its type: queues, counts of a batch and of the
\* bounded inputs included.
THEOREM DownTypeCorrect == Spec => []TypeOK
BY TypesHold, TypeInvTypes, PTL

-----------------------------------------------------------------------------
(* A token for every task.                                                 *)

LEMMA TokenInit == Init => EveryTaskHasToken
BY DEF Init, EveryTaskHasToken, InFlight

LEMMA TokenNext == TypeInv /\ EveryTaskHasToken /\ Next => EveryTaskHasToken'
<1> SUFFICES ASSUME TypeInv, EveryTaskHasToken, Next PROVE EveryTaskHasToken'
  OBVIOUS
<1>1. Len(tasks) \in Nat /\ taskSem \in Nat /\ prodSem \in Nat
  BY DEF TypeInv, QueueType
<1> USE <1>1 DEF EveryTaskHasToken, InFlight
<1>2. CASE TaskQueue
  <2>1. Len(tasks') <= Len(tasks) + 1 /\ Len(tasks') \in Nat
    <3>1. CASE Len(tasks) < MAXTASK
      <4>1. Len(ups) \in 1..MaxUp
        BY <1>2 DEF TaskQueue, TypeInv, QueueType
      <4>2. QED
        BY <1>2, <3>1, <4>1, AppendType DEF TaskQueue, TypeInv, QueueType
    <3>2. CASE ~(Len(tasks) < MAXTASK)
      BY <1>2, <3>2 DEF TaskQueue
    <3>3. QED
      BY <3>1, <3>2
  <2>2. QED
    BY <1>2, <2>1 DEF TaskQueue, fetchVars, handleVars
<1>3. CASE Fetch
  <2>1. UNCHANGED hpc
    BY <1>3, FetchFrame DEF handleVars
  <2>2. CASE FetchFront
    BY <2>1, <2>2 DEF FetchFront, fetchVars
  <2>3. CASE FetchDrop
    BY <2>1, <2>3, DequeueType DEF FetchDrop, TypeInv
  <2>4. CASE FetchWake
    BY <2>1, <2>4 DEF FetchWake
  <2>5. QED
    BY <1>3, <2>2, <2>3, <2>4 DEF Fetch
<1>4. CASE Handle
  <2>1. UNCHANGED <<taskSem, fpc>>
    BY <1>4, HandleFrame DEF fetchVars
  <2>2. CASE HandleFront
    BY <2>1, <2>2 DEF HandleFront
  <2>3. CASE LookClassA
    BY <2>1, <2>3 DEF LookClassA, taskVars
  <2>4. CASE TakeClassA \/ Take
    <3>1. /\ hpc \in {"takeA", "take"} /\ hpc' \in {"wait", "data", "fetch"}
          /\ tasks' = (IF tasks = << >> THEN tasks ELSE Tail(tasks)) /\ prodSem' = prodSem
      BY <2>4 DEF TakeClassA, Take
    <3>2. QED
      BY <2>1, <3>1, DequeueType DEF TypeInv
  <2>5. CASE FetchData
    BY <2>1, <2>5 DEF FetchData, taskVars
  <2>6. CASE HandleRest
    BY <2>1, <2>6, RestFrame DEF taskVars
  <2>7. QED
    BY <1>4, <2>2, <2>3, <2>4, <2>5, <2>6, HandleParts
<1>5. CASE ClassC \/ Surroundings \/ \E n \in Node : Uplink(n)
  <2>1. UNCHANGED <<tasks, taskSem, prodSem, fpc, hpc>>
    BY <1>5, ClassCFrame, SurroundingsFrame DEF Uplink, taskVars, fetchVars, handleVars
  <2>2. QED
    BY <2>1
<1>6. QED
  BY <1>2, <1>3, <1>4, <1>5, NextParts

\* No task is left behind without a token of one of the two semaphores, or a
\* thread that has taken one for it: for any queue size and any schedule.
THEOREM TasksCovered == Spec => []EveryTaskHasToken
<1>1. TypeInv /\ EveryTaskHasToken /\ [Next]_vars => EveryTaskHasToken'
  <2>1. EveryTaskHasToken /\ UNCHANGED vars => EveryTaskHasToken'
    BY DEF vars, taskVars, fetchVars, handleVars, EveryTaskHasToken, InFlight
  <2>2. QED
    BY <2>1, TokenNext
<1>2. QED
  BY <1>1, TokenInit, TypesHold, PTL DEF Spec

-----------------------------------------------------------------------------
(* One answer per uplink: the tasks are in order of arrival and unanswered, *)
(* and the one the handler works on is older than all that are queued.     *)

Before == {"look", "takeA", "take"}
After == {"data", "fetch", "update", "keys", "send"}

OrderInv ==
    /\ \A i \in 1..Len(tasks) : answered[tasks[i]] = 0
    /\ mpc = "queue" => /\ \A i \in 1..Len(tasks) : tasks[i] < Len(ups)
                        /\ answered[Len(ups)] = 0
                        /\ hpc # "wait" => hup < Len(ups)
    /\ \A i, j \in 1..Len(tasks) : i < j => tasks[i] < tasks[j]
    /\ \A u \in 1..MaxUp : u > Len(ups) => answered[u] = 0
    /\ hpc \in Before => answered[hup] = 0 /\ \A i \in 1..Len(tasks) : hup <= tasks[i]
    /\ hpc \in After => answered[hup] = 0 /\ \A i \in 1..Len(tasks) : hup < tasks[i]
    /\ AnsweredOnce

LEMMA OrderInit == Init => OrderInv
<1> SUFFICES ASSUME Init PROVE OrderInv
  OBVIOUS
<1>1. Len(tasks) = 0 /\ mpc = "recv" /\ hpc = "wait"
  BY DEF Init
<1>2. \A u \in 1..MaxUp : answered[u] = 0
  BY DEF Init
<1>3. QED
  BY <1>1, <1>2 DEF OrderInv, Before, After, AnsweredOnce

\* What order needs of the types.
LEMMA OrderTypes ==
    ASSUME TypeInv
    PROVE  /\ Len(tasks) \in Nat /\ Len(ups) \in 0..MaxUp /\ MaxUp \in Nat
           /\ \A i \in 1..Len(tasks) : tasks[i] \in 1..MaxUp /\ tasks[i] <= Len(ups)
           /\ answered \in [1..MaxUp -> Nat] /\ hup \in Nat
           /\ hpc # "wait" => hup \in 1..Len(ups)
<1>1. \A i \in 1..Len(tasks) : tasks[i] \in 1..MaxUp /\ tasks[i] <= Len(ups)
  BY ElementType DEF TypeInv, QueueType
<1>2. Len(tasks) \in Nat /\ Len(ups) \in 0..MaxUp /\ MaxUp \in Nat
  BY Sizes DEF TypeInv, QueueType
<1>3. QED
  BY <1>1, <1>2 DEF TypeInv, HandleType, LogType, Up

LEMMA UplinkOrder ==
    ASSUME TypeInv, OrderInv, NEW n \in Node, Uplink(n) PROVE OrderInv'
<1>1. Len(ups') = Len(ups) + 1 /\ Len(ups) < MaxUp /\ mpc = "recv"
  BY UplinkType DEF Uplink
<1>2. UNCHANGED <<tasks, answered, hpc, hup>>
  BY DEF Uplink, taskVars, handleVars, logVars
<1>3. QED
  BY <1>1, <1>2, OrderTypes DEF OrderInv, AnsweredOnce, Before, After

LEMMA TaskQueueOrder ==
    ASSUME TypeInv, OrderInv, TaskQueue PROVE OrderInv'
<1>1. UNCHANGED <<ups, answered, hpc, hup>> /\ mpc = "queue" /\ mpc' = "recv"
  BY DEF TaskQueue, handleVars, logVars
<1>2. CASE Len(tasks) < MAXTASK
  <2>1. Len(ups) \in 1..MaxUp
    BY DEF TaskQueue, TypeInv, QueueType
  <2>2. /\ Len(tasks') = Len(tasks) + 1 /\ tasks'[Len(tasks) + 1] = Len(ups)
        /\ \A i \in 1..Len(tasks) : tasks'[i] = tasks[i]
    BY <1>2, <2>1, AppendType DEF TaskQueue, TypeInv, QueueType
  <2>3. \A i \in 1..Len(tasks') : i \in 1..Len(tasks) \/ i = Len(tasks) + 1
    BY <2>2, OrderTypes
  <2>4. \A i \in 1..Len(tasks') : answered[tasks'[i]] = 0
    BY <1>1, <2>2, <2>3 DEF OrderInv
  <2>5. \A i, j \in 1..Len(tasks') : i < j => tasks'[i] < tasks'[j]
    BY <1>1, <2>2, <2>3, OrderTypes DEF OrderInv
  <2>6. hpc \in Before \union After => hup < Len(ups)
    BY <1>1 DEF OrderInv, Before, After
  <2>7. /\ hpc \in Before => \A i \in 1..Len(tasks') : hup <= tasks'[i]
        /\ hpc \in After => \A i \in 1..Len(tasks') : hup < tasks'[i]
    BY <2>2, <2>3, <2>6, OrderTypes, SMTT(30) DEF OrderInv
  <2>8. QED
    BY <1>1, <2>4, <2>5, <2>7 DEF OrderInv, AnsweredOnce
<1>3. CASE ~(Len(tasks) < MAXTASK)
  BY <1>1, <1>3 DEF TaskQueue, OrderInv, AnsweredOnce
<1>4. QED
  BY <1>2, <1>3

\* The front leaves: what was older than all stays so, and what was not
\* younger than the front becomes older than all.
LEMMA DequeueOrder ==
    ASSUME TypeInv, OrderInv, tasks' = (IF tasks = << >> THEN tasks ELSE Tail(tasks))
    PROVE  /\ \A i \in 1..Len(tasks') : i + 1 \in 1..Len(tasks) /\ tasks'[i] = tasks[i + 1]
           /\ \A i \in 1..Len(tasks') : answered[tasks'[i]] = 0
           /\ \A i, j \in 1..Len(tasks') : i < j => tasks'[i] < tasks'[j]
           /\ hpc \in Before => \A i \in 1..Len(tasks') : hup < tasks'[i]
           /\ hpc \in After => \A i \in 1..Len(tasks') : hup < tasks'[i]
           /\ mpc = "queue" => \A i \in 1..Len(tasks') : tasks'[i] < Len(ups)
<1>1. /\ Len(tasks') \in Nat
      /\ \A i \in 1..Len(tasks') : i + 1 \in 1..Len(tasks) /\ tasks'[i] = tasks[i + 1]
  BY DequeueType DEF TypeInv
<1>2. \A i, j \in 1..Len(tasks') : i < j => tasks'[i] < tasks'[j]
  BY <1>1, OrderTypes DEF OrderInv
<1>3. hpc \in Before => \A i \in 1..Len(tasks') : hup < tasks'[i]
  <2> SUFFICES ASSUME hpc \in Before, NEW i \in 1..Len(tasks') PROVE hup < tasks'[i]
    OBVIOUS
  <2>1. 1 \in 1..Len(tasks) /\ i + 1 \in 1..Len(tasks) /\ 1 < i + 1
    BY <1>1, OrderTypes
  <2>2. hup <= tasks[1] /\ tasks[1] < tasks[i + 1]
    BY <2>1 DEF OrderInv
  <2>3. QED
    BY <1>1, <2>1, <2>2, OrderTypes
<1>4. QED
  BY <1>1, <1>2, <1>3 DEF OrderInv

LEMMA FetchOrder == TypeInv /\ OrderInv /\ Fetch => OrderInv'
<1> SUFFICES ASSUME TypeInv, OrderInv, Fetch PROVE OrderInv'
  OBVIOUS
<1>1. UNCHANGED <<ups, mpc, hpc, hup, answered>>
  BY FetchFrame DEF mainVars, handleVars, logVars
<1>2. CASE FetchDrop
  <2>1. tasks' = (IF tasks = << >> THEN tasks ELSE Tail(tasks))
    BY <1>2 DEF FetchDrop
  <2>2. hpc \in Before => \A i \in 1..Len(tasks') : hup <= tasks'[i]
    <3>1. \A i \in 1..Len(tasks') : tasks'[i] \in 1..MaxUp
      BY <2>1, DequeueOrder, OrderTypes
    <3>2. hpc \in Before => \A i \in 1..Len(tasks') : hup < tasks'[i]
      BY <2>1, DequeueOrder
    <3>3. QED
      BY <3>1, <3>2, OrderTypes
  <2>3. QED
    BY <1>1, <2>1, <2>2, DequeueOrder DEF OrderInv, AnsweredOnce
<1>3. CASE FetchFront \/ FetchWake
  <2>1. UNCHANGED tasks
    BY <1>3 DEF FetchFront, FetchWake
  <2>2. QED
    BY <1>1, <2>1 DEF OrderInv, AnsweredOnce
<1>4. QED
  BY <1>2, <1>3 DEF Fetch

LEMMA HandleOrder == TypeInv /\ OrderInv /\ Handle => OrderInv'
<1> SUFFICES ASSUME TypeInv, OrderInv, Handle PROVE OrderInv'
  OBVIOUS
<1> USE DEF Before, After
<1>1. UNCHANGED <<ups, mpc>>
  BY HandleFrame DEF mainVars
<1>2. CASE HandleFront
  <2>1. UNCHANGED <<tasks, answered>>
    BY <1>2 DEF HandleFront, logVars
  <2>2. CASE tasks = << >>
    BY <1>1, <1>2, <2>1, <2>2 DEF HandleFront, OrderInv, AnsweredOnce
  <2>3. CASE tasks # << >>
    <3>1. hpc' = "look" /\ hup' = tasks[1] /\ 1 \in 1..Len(tasks)
      BY <1>2, <2>3, TailType DEF HandleFront, TypeInv, QueueType
    <3>2. \A i \in 1..Len(tasks) : tasks[1] <= tasks[i]
      BY <3>1, OrderTypes DEF OrderInv
    <3>3. QED
      BY <1>1, <2>1, <3>1, <3>2 DEF OrderInv, AnsweredOnce
  <2>4. QED
    BY <2>2, <2>3
<1>3. CASE LookClassA
  <2>1. UNCHANGED <<tasks, answered, hup>> /\ hpc = "look" /\ hpc' \in {"takeA", "take"}
    BY <1>3 DEF LookClassA, logVars, taskVars
  <2>2. QED
    BY <1>1, <2>1 DEF OrderInv, AnsweredOnce
<1>4. CASE TakeClassA \/ Take
  <2>1. /\ hpc \in Before /\ hpc' \in {"wait", "data", "fetch"}
        /\ tasks' = (IF tasks = << >> THEN tasks ELSE Tail(tasks))
        /\ UNCHANGED <<answered, hup>>
    BY <1>4 DEF TakeClassA, Take, logVars
  <2>2. QED
    BY <1>1, <2>1, DequeueOrder DEF OrderInv, AnsweredOnce
<1>5. CASE FetchData
  <2>1. UNCHANGED <<tasks, answered, hup>> /\ hpc = "data" /\ hpc' = "fetch"
    BY <1>5 DEF FetchData, logVars, taskVars
  <2>2. QED
    BY <1>1, <2>1 DEF OrderInv, AnsweredOnce
<1>6. CASE HandleSend
  <2>1. /\ hpc = "send" /\ hpc' = "poll" /\ UNCHANGED <<tasks, hup>>
        /\ answered' = [answered EXCEPT ![hup] = @ + 1]
    BY <1>6 DEF HandleSend, taskVars
  <2>2. /\ hup \in 1..MaxUp /\ hup <= Len(ups) /\ (mpc = "queue" => hup < Len(ups))
        /\ answered[hup] = 0 /\ \A i \in 1..Len(tasks) : hup < tasks[i]
    BY <2>1, OrderTypes DEF OrderInv
  <2>3. \A u \in 1..MaxUp : answered'[u] = IF u = hup THEN 1 ELSE answered[u]
    BY <2>1, <2>2, OrderTypes
  <2>4. \A u \in 1..MaxUp : u > hup => answered'[u] = answered[u]
    BY <2>2, <2>3
  <2>5. \A i \in 1..Len(tasks) : answered'[tasks[i]] = 0
    BY <2>2, <2>4, OrderTypes DEF OrderInv
  <2>6. AnsweredOnce'
    BY <2>3 DEF OrderInv, AnsweredOnce
  <2>7. /\ \A u \in 1..MaxUp : u > Len(ups) => answered'[u] = 0
        /\ mpc = "queue" => answered'[Len(ups)] = 0
    BY <2>2, <2>4, OrderTypes DEF OrderInv
  <2>8. QED
    BY <1>1, <2>1, <2>5, <2>6, <2>7 DEF OrderInv
<1>7. CASE HandleRest /\ ~HandleSend
  <2>1. UNCHANGED <<tasks, hup>> /\ hpc' \notin Before
    BY <1>7, RestFrame DEF taskVars
  <2>2. answered' = answered /\ (hpc' \in After => hpc \in After)
    BY <1>7 DEF HandleRest, NoData, HandleFetch, HandleFetchFails, ClassAFetchFails,
       HandleUpdate, HandleUpdateFails, HandleKeys, HandleKeysFails, HandleSendFails,
       HandleSent, HandleAbort, HandleAborted, logVars
  <2>3. hpc' # "wait" => hpc # "wait"
    BY <1>7, RestFrame
  <2>4. QED
    BY <1>1, <2>1, <2>2, <2>3 DEF OrderInv, AnsweredOnce
<1>8. QED
  BY <1>2, <1>3, <1>4, <1>5, <1>6, <1>7, HandleParts

LEMMA OrderNext == TypeInv /\ OrderInv /\ [Next]_vars => OrderInv'
<1> SUFFICES ASSUME TypeInv, OrderInv, [Next]_vars PROVE OrderInv'
  OBVIOUS
<1>1. CASE ClassC \/ Surroundings \/ UNCHANGED vars
  <2>1. UNCHANGED <<ups, mpc, tasks, hpc, hup, answered>>
    BY <1>1, ClassCFrame, SurroundingsFrame DEF vars, mainVars, taskVars, handleVars, logVars
  <2>2. QED
    BY <2>1 DEF OrderInv, AnsweredOnce
<1>2. QED
  BY <1>1, UplinkOrder, TaskQueueOrder, FetchOrder, HandleOrder, NextParts

\* The handler reads the front of the queue and removes whatever is the front
\* later, and the fetching thread removes too: still no uplink gets two
\* answers, for any schedule, queue size and failures.
THEOREM NoUplinkAnsweredTwice == Spec => []AnsweredOnce
<1>1. Spec => []OrderInv
  BY OrderInit, OrderNext, TypesHold, PTL DEF Spec
<1>2. OrderInv => AnsweredOnce
  BY DEF OrderInv
<1>3. QED
  BY <1>1, <1>2, PTL

-----------------------------------------------------------------------------
(* Frame counters.  First, sessions only move forward, and nothing knows a *)
(* session before it starts.                                               *)

SessionInv ==
    /\ \A u \in 1..Len(ups) : ups[u].sess <= row[ups[u].node].sess
    /\ hreg.sess <= row[hreg.node].sess /\ creg.sess <= row[creg.node].sess
    /\ \A n \in Node, s \in Sess, c \in Nat : <<n, s, c>> \in used => s <= row[n].sess

\* What the steps that change no counter do to a row.
RowSteps ==
    \A n \in Node : /\ row[n].sess <= row'[n].sess
                    /\ row'[n].present => row[n].present

LEMMA SessTypes ==
    ASSUME TypeInv
    PROVE  /\ \A n \in Node : row[n].sess \in Sess /\ row[n].sess \in Nat /\ row[n].fcnt \in Nat
           /\ hreg \in Registers /\ hreg.node \in Node /\ hreg.sess \in Sess /\ hreg.sess \in Nat
           /\ creg \in Registers /\ creg.node \in Node /\ creg.sess \in Sess /\ creg.sess \in Nat
           /\ hreg.fcnt \in Nat /\ creg.fcnt \in Nat
           /\ \A u \in 1..Len(ups) : ups[u].node \in Node /\ ups[u].sess \in Nat
           /\ \A s \in Sess : s \in Nat
           /\ used \subseteq Node \X Sess \X Nat
<1>1. \A s \in Sess : s \in Nat
  BY Sizes DEF Sess
<1>2. \A u \in 1..Len(ups) : ups[u] \in [node : Node, sess : Sess]
  BY ElementType DEF TypeInv, QueueType
<1>3. hreg \in [node : Node, sess : Sess, fcnt : Nat] /\ creg \in [node : Node, sess : Sess, fcnt : Nat]
  BY DEF TypeInv, HandleType, ClassCType, Registers
<1>4. \A n \in Node : row[n] \in Row
  BY DEF TypeInv, LogType
<1>5. QED
  BY <1>1, <1>2, <1>3, <1>4 DEF Row, TypeInv, LogType, Registers

LEMMA RowsMoveForward == TypeInv /\ Next => RowSteps
<1> SUFFICES ASSUME TypeInv, Next PROVE RowSteps
  OBVIOUS
<1>0. row \in [Node -> Row] /\ \A n \in Node : row[n].sess \in Nat
  BY SessTypes DEF TypeInv, LogType
<1>1. ASSUME NEW reg \in Registers, Stored(reg) PROVE RowSteps
  BY <1>0, <1>1 DEF Stored, RowSteps, Row, Registers
<1>2. ASSUME NEW n \in Node, ClearFcntDown(n) \/ Accept(n) \/ Remove(n) PROVE RowSteps
  BY <1>0, <1>2 DEF ClearFcntDown, Accept, Remove, RowSteps, Row
<1>3. ASSUME UNCHANGED row PROVE RowSteps
  BY <1>0, <1>3 DEF RowSteps
<1>4. CASE HandleUpdate \/ ClassCUpdate
  BY <1>1, <1>4, SessTypes DEF HandleUpdate, ClassCUpdate
<1>5. CASE Handle /\ ~HandleUpdate
  BY <1>3, <1>5 DEF Handle, HandleFront, LookClassA, TakeClassA, Take, FetchData, NoData,
     HandleFetch, HandleFetchFails, ClassAFetchFails, HandleUpdateFails, HandleKeys,
     HandleKeysFails, HandleSend, HandleSendFails, HandleSent, HandleAbort, HandleAborted
<1>6. CASE ClassC /\ ~ClassCUpdate
  BY <1>3, <1>6 DEF ClassC, ClassCRecv, ClassCFetch, ClassCFetchFails, ClassCUpdateFails,
     ClassCKeys, ClassCSend, ClassCSent
<1>7. CASE TaskQueue \/ Fetch \/ \E n \in Node : Uplink(n)
  BY <1>3, <1>7, FetchFrame DEF TaskQueue, Uplink
<1>8. CASE Surroundings
  BY <1>2, <1>3, <1>8
     DEF Surroundings, ServerAnswers, ClassADataStore, DataStore, Tick, Emitted
<1>9. QED
  BY <1>4, <1>5, <1>6, <1>7, <1>8, NextParts

\* Where a register comes from.
LEMMA RegisterSteps ==
    ASSUME TypeInv, Next
    PROVE  /\ \/ hreg'.node = hreg.node /\ hreg'.sess = hreg.sess
              \/ hpc # "wait" /\ hreg' = Address(hup)
           /\ \/ creg'.node = creg.node /\ creg'.sess = creg.sess
              \/ \E n \in Node : creg' = Reg(n, row[n].sess, 0)
<1>1. CASE Handle
  BY <1>1, HandleFrame, SessTypes
     DEF Handle, HandleFront, LookClassA, TakeClassA, Take, FetchData, NoData,
     HandleFetch, HandleFetchFails, ClassAFetchFails, HandleUpdate, HandleUpdateFails, HandleKeys,
     HandleKeysFails, HandleSend, HandleSendFails, HandleSent, HandleAbort, HandleAborted,
     classCVars, Registers
<1>2. CASE ClassC
  BY <1>2, ClassCFrame, SessTypes
     DEF ClassC, ClassCRecv, ClassCFetch, ClassCFetchFails, ClassCUpdate, ClassCUpdateFails,
     ClassCKeys, ClassCSend, ClassCSent, classCVars, handleVars, Registers
<1>3. CASE TaskQueue \/ Fetch \/ Surroundings \/ \E n \in Node : Uplink(n)
  BY <1>3, FetchFrame, SurroundingsFrame DEF TaskQueue, Uplink, handleVars, classCVars
<1>4. QED
  BY <1>1, <1>2, <1>3, NextParts

LEMMA UsedSteps ==
    Next => UNCHANGED <<used, reused>> \/ (HandleSend /\ LogSent(hreg)) \/ (ClassCSend /\ LogSent(creg))
<1>1. Handle => UNCHANGED <<used, reused>> \/ (HandleSend /\ LogSent(hreg))
  BY DEF Handle, HandleFront, LookClassA, TakeClassA, Take, FetchData, NoData,
     HandleFetch, HandleFetchFails, ClassAFetchFails, HandleUpdate, HandleUpdateFails, HandleKeys,
     HandleKeysFails, HandleSend, HandleSendFails, HandleSent, HandleAbort, HandleAborted, logVars
<1>2. ClassC => UNCHANGED <<used, reused>> \/ (ClassCSend /\ LogSent(creg))
  BY DEF ClassC, ClassCRecv, ClassCFetch, ClassCFetchFails, ClassCUpdate, ClassCUpdateFails,
     ClassCKeys, ClassCSend, ClassCSent, logVars
<1>3. QED
  BY <1>1, <1>2, NextParts, FetchFrame, SurroundingsFrame DEF TaskQueue, Uplink, logVars

LEMMA SessionInit == Init => SessionInv
<1> SUFFICES ASSUME Init PROVE SessionInv
  OBVIOUS
<1>1. TypeInv
  BY InitType
<1>2. Len(ups) = 0 /\ used = {} /\ hreg.sess = 0 /\ creg.sess = 0
  BY DEF Init, NoReg, Reg
<1>3. QED
  BY <1>1, <1>2, SessTypes DEF SessionInv

LEMMA SessionNext == TypeInv /\ SessionInv /\ [Next]_vars => SessionInv'
<1> SUFFICES ASSUME TypeInv, SessionInv, Next PROVE SessionInv'
  BY DEF vars, mainVars, handleVars, classCVars, logVars, SessionInv
<1>1. TypeInv'
  BY TypeNext
<1>2. \A n \in Node : /\ row[n].sess <= row'[n].sess
                       /\ row[n].sess \in Nat /\ row'[n].sess \in Nat
  <2>1. \A n \in Node : row'[n] \in Row
    BY <1>1 DEF TypeInv, LogType
  <2>2. QED
    BY <2>1, RowsMoveForward, SessTypes DEF RowSteps, Row
<1>3. \A u \in 1..Len(ups') : ups'[u].sess <= row'[ups'[u].node].sess
  <2>0. ASSUME NEW u \in 1..Len(ups) PROVE ups[u].sess <= row'[ups[u].node].sess
    <3>1. /\ ups[u].sess \in Nat /\ ups[u].node \in Node
          /\ ups[u].sess <= row[ups[u].node].sess
      BY SessTypes DEF SessionInv
    <3>2. QED
      BY <3>1, <1>2
  <2>1. CASE UNCHANGED <<ups>>
    BY <2>0, <2>1
  <2>2. ASSUME NEW n \in Node, Uplink(n)
        PROVE  \A u \in 1..Len(ups') : ups'[u].sess <= row'[ups'[u].node].sess
    <3>1. /\ Len(ups') = Len(ups) + 1 /\ Len(ups) \in Nat
          /\ ups'[Len(ups')] = [node |-> n, sess |-> row[n].sess]
          /\ \A u \in 1..Len(ups) : ups'[u] = ups[u]
          /\ row' = row
      BY <2>2, UplinkType DEF Uplink
    <3>2. ASSUME NEW u \in 1..Len(ups') PROVE ups'[u].sess <= row'[ups'[u].node].sess
      <4>1. CASE u \in 1..Len(ups)
        BY <2>0, <3>1, <4>1
      <4>2. CASE u = Len(ups')
        BY <1>2, <3>1, <4>2
      <4>3. QED
        BY <3>1, <4>1, <4>2
    <3>3. QED
      BY <3>2
  <2>3. UNCHANGED <<ups>> \/ \E n \in Node : Uplink(n)
    BY NextParts, FetchFrame, HandleFrame, ClassCFrame, SurroundingsFrame
       DEF TaskQueue, mainVars
  <2>4. QED
    BY <2>1, <2>2, <2>3
<1>4. hreg'.sess <= row'[hreg'.node].sess
  <2>1. CASE hreg'.node = hreg.node /\ hreg'.sess = hreg.sess
    BY <1>1, <1>2, <2>1, SessTypes DEF SessionInv
  <2>2. CASE hpc # "wait" /\ hreg' = Address(hup)
    <3>1. hup \in 1..Len(ups)
      BY <2>2 DEF TypeInv, HandleType
    <3>2. hreg'.node = ups[hup].node /\ hreg'.sess = ups[hup].sess
      BY <2>2 DEF Address, Reg
    <3>3. QED
      BY <1>1, <1>2, <3>1, <3>2, SessTypes, SMTT(30) DEF SessionInv
  <2>3. QED
    BY <2>1, <2>2, RegisterSteps
<1>5. creg'.sess <= row'[creg'.node].sess
  <2>1. CASE creg'.node = creg.node /\ creg'.sess = creg.sess
    BY <1>1, <1>2, <2>1, SessTypes DEF SessionInv
  <2>2. ASSUME NEW n \in Node, creg' = Reg(n, row[n].sess, 0)
        PROVE  creg'.sess <= row'[creg'.node].sess
    BY <1>2, <2>2 DEF Reg
  <2>3. QED
    BY <2>1, <2>2, RegisterSteps
<1>6. \A n \in Node, s \in Sess, c \in Nat : <<n, s, c>> \in used' => s <= row'[n].sess
  <2> SUFFICES ASSUME NEW n \in Node, NEW s \in Sess, NEW c \in Nat, <<n, s, c>> \in used'
               PROVE  s <= row[n].sess
    BY <1>1, <1>2, SessTypes
  <2>1. CASE <<n, s, c>> \in used
    BY <2>1 DEF SessionInv
  <2>2. CASE <<n, s, c>> = <<hreg.node, hreg.sess, hreg.fcnt>>
    BY <2>2 DEF SessionInv
  <2>3. CASE <<n, s, c>> = <<creg.node, creg.sess, creg.fcnt>>
    BY <2>3 DEF SessionInv
  <2>4. QED
    BY <2>1, <2>2, <2>3, UsedSteps DEF LogSent
<1>7. QED
  BY <1>3, <1>4, <1>5, <1>6 DEF SessionInv

-----------------------------------------------------------------------------
(* Then, counters.  Both senders do the same, so the argument is about any *)
(* of them.                                                                *)

Senders == {"handler", "classC"}
Pc(t) == IF t = "handler" THEN hpc ELSE cpc
RegOf(t) == IF t = "handler" THEN hreg ELSE creg

Clean(reg) == <<reg.node, reg.sess>> \notin exposed
Holds(pc) == pc \in {"update", "keys", "send"}
Sent(reg) == <<reg.node, reg.sess, reg.fcnt>>

\* A counter that a sender has taken and not sent yet is new; it is one above
\* the row's until it is stored and not above it afterwards.
Fresh(t) ==
    Holds(Pc(t)) /\ Clean(RegOf(t)) =>
      /\ Sent(RegOf(t)) \notin used
      /\ Current(RegOf(t)) =>
           /\ Pc(t) = "update" => RegOf(t).fcnt = row[RegOf(t).node].fcnt + 1
           /\ Pc(t) # "update" => RegOf(t).fcnt <= row[RegOf(t).node].fcnt

\* The row is not behind what was sent in its session.
RowsAhead ==
    \A n \in Node, c \in Nat :
      row[n].present /\ <<n, row[n].sess>> \notin exposed /\ <<n, row[n].sess, c>> \in used
      => c <= row[n].fcnt

Apart ==
    \A t, o \in Senders : t # o /\ Holds(Pc(t)) /\ Holds(Pc(o)) /\ Clean(RegOf(t))
                           => RegOf(t) # RegOf(o)

CounterInv == RowsAhead /\ (\A t \in Senders : Fresh(t)) /\ Apart /\ CounterReuseExplained

LEMMA CounterInit == Init => CounterInv
<1> SUFFICES ASSUME Init PROVE CounterInv
  OBVIOUS
<1>1. used = {} /\ reused = {} /\ \A t \in Senders : ~Holds(Pc(t))
  BY DEF Init, Holds, Pc
<1>2. QED
  BY <1>1 DEF CounterInv, RowsAhead, Fresh, Apart, CounterReuseExplained

LEMMA RegTypes ==
    ASSUME TypeInv, NEW t \in Senders
    PROVE  /\ RegOf(t) \in Registers /\ RegOf(t).node \in Node /\ RegOf(t).sess \in Sess
           /\ RegOf(t).sess \in Nat /\ RegOf(t).fcnt \in Nat
BY SessTypes DEF RegOf

\* A sender that takes no counter, stores none and sends none, or that goes
\* on in a session that is exposed.
QuietStep(t) ==
    \/ ~Holds(Pc(t)')
    \/ ~Clean(RegOf(t))'
    \/ RegOf(t)' = RegOf(t) /\ (Pc(t)' = Pc(t) \/ (Pc(t) = "keys" /\ Pc(t)' = "send"))

LEMMA QuietCounter ==
    ASSUME CounterInv, UNCHANGED <<row, used, reused>>, exposed \subseteq exposed',
           \A t \in Senders : QuietStep(t)
    PROVE  CounterInv'
<1>1. ASSUME NEW t \in Senders, Holds(Pc(t)'), Clean(RegOf(t))'
      PROVE  /\ Holds(Pc(t)) /\ Clean(RegOf(t)) /\ RegOf(t)' = RegOf(t)
             /\ Pc(t)' = "update" <=> Pc(t) = "update"
  BY <1>1 DEF QuietStep, Clean, Holds
<1>2. RowsAhead'
  BY DEF CounterInv, RowsAhead
<1>3. ASSUME NEW t \in Senders PROVE Fresh(t)'
  BY <1>1 DEF CounterInv, Fresh, Current, Sent
<1>4. Apart'
  <2> SUFFICES ASSUME NEW t \in Senders, NEW o \in Senders, t # o, Holds(Pc(t)'), Holds(Pc(o)'),
                      Clean(RegOf(t))', RegOf(t)' = RegOf(o)'
               PROVE  FALSE
    BY DEF Apart, Holds
  <2>1. Clean(RegOf(o))'
    BY DEF Clean
  <2>2. QED
    BY <1>1, <2>1 DEF CounterInv, Apart
<1>5. CounterReuseExplained'
  BY DEF CounterInv, CounterReuseExplained
<1>6. QED
  BY <1>2, <1>3, <1>4, <1>5 DEF CounterInv

\* What the other sender has is as it was.
OtherRests(t) == \A o \in Senders : o # t => Pc(o)' = Pc(o) /\ RegOf(o)' = RegOf(o)

\* The counter is taken while the other sender is not about to store one.
LEMMA FetchCounter ==
    ASSUME TypeInv, CounterInv, NEW t \in Senders, OtherRests(t),
           UNCHANGED <<row, used, reused, exposed>>, Current(RegOf(t)),
           Pc(t)' = "update",
           RegOf(t)' = [RegOf(t) EXCEPT !.fcnt = row[RegOf(t).node].fcnt + 1],
           \A o \in Senders : o # t => ~Holding(Pc(o), RegOf(o), RegOf(t).node, RegOf(t).sess)
    PROVE  CounterInv'
<1> DEFINE n == RegOf(t).node
<1>1. /\ n \in Node /\ row[n].fcnt \in Nat /\ row[n].present /\ row[n].sess = RegOf(t).sess
      /\ RegOf(t)'.node = n /\ RegOf(t)'.sess = RegOf(t).sess
      /\ RegOf(t)'.fcnt = row[n].fcnt + 1
  BY RegTypes, SessTypes DEF Current, Registers
<1>2. RowsAhead' /\ CounterReuseExplained'
  BY DEF CounterInv, RowsAhead, CounterReuseExplained
<1>3. Fresh(t)'
  <2>1. ASSUME Clean(RegOf(t))' PROVE Sent(RegOf(t))' \notin used
    BY <1>1, <2>1 DEF CounterInv, RowsAhead, Clean, Sent
  <2>2. QED
    BY <1>1, <2>1 DEF Fresh
<1>4. ASSUME NEW o \in Senders, o # t PROVE Fresh(o)'
  <2>1. Fresh(o)
    BY DEF CounterInv
  <2>2. Pc(o)' = Pc(o) /\ RegOf(o)' = RegOf(o)
    BY <1>4 DEF OtherRests
  <2>3. QED
    BY <2>1, <2>2 DEF Fresh, Holds, Clean, Current, Sent
<1>5. ASSUME NEW o \in Senders, o # t, Holds(Pc(o)), Clean(RegOf(o)) PROVE RegOf(o) # RegOf(t)'
  <2> SUFFICES ASSUME RegOf(o).node = n, RegOf(o).sess = RegOf(t).sess,
                      RegOf(o).fcnt = row[n].fcnt + 1
               PROVE  FALSE
    BY <1>1
  <2>1. Pc(o) # "update"
    BY <1>5 DEF Holding
  <2>2. Fresh(o) /\ Current(RegOf(o))
    BY <1>1 DEF CounterInv, Current
  <2>3. QED
    BY <1>1, <1>5, <2>1, <2>2, RegTypes DEF Fresh
<1>6. Apart'
  <2> SUFFICES ASSUME NEW o \in Senders, o # t, Holds(Pc(o)'), Clean(RegOf(o))'
               PROVE  RegOf(o)' # RegOf(t)'
    <3>1. \A o, r \in Senders : o # r => o = t \/ r = t
      BY DEF Senders
    <3>2. QED
      BY <3>1 DEF Apart, Clean, Holds
  <2>1. Pc(o)' = Pc(o) /\ RegOf(o)' = RegOf(o)
    BY DEF OtherRests
  <2>2. QED
    BY <1>5, <2>1 DEF Clean, Holds
<1>7. QED
  BY <1>2, <1>3, <1>4, <1>6 DEF CounterInv

\* The counter is stored, or there is no row to store it in.
LEMMA UpdateCounter ==
    ASSUME TypeInv, CounterInv, NEW t \in Senders, OtherRests(t),
           UNCHANGED <<used, reused, exposed>>, Stored(RegOf(t)),
           Pc(t) = "update", Pc(t)' = "keys" \/ ~Holds(Pc(t)'), RegOf(t)' = RegOf(t)
    PROVE  CounterInv'
<1> DEFINE n == RegOf(t).node
<1>0. /\ row \in [Node -> Row] /\ n \in Node /\ row[n].fcnt \in Nat /\ RegOf(t).fcnt \in Nat
      /\ \A m \in Node : row[m].fcnt \in Nat
  BY RegTypes, SessTypes DEF TypeInv, LogType
<1>1. CASE ~Current(RegOf(t))
  <2>1. row' = row
    <3>1. \A m \in Node : row'[m] = row[m]
      BY <1>0, <1>1 DEF Stored, Row
    <3>2. QED
      BY <1>0, <3>1 DEF Stored
  <2>2. RowsAhead' /\ CounterReuseExplained'
    BY <2>1 DEF CounterInv, RowsAhead, CounterReuseExplained
  <2>3. ASSUME NEW o \in Senders PROVE Fresh(o)'
    <3>1. CASE o = t
      BY <1>1, <2>1, <3>1 DEF CounterInv, Fresh, Holds, Clean, Current, Sent
    <3>2. CASE o # t
      BY <2>1, <3>2 DEF CounterInv, Fresh, Holds, Clean, Current, Sent, OtherRests
    <3>3. QED
      BY <3>1, <3>2
  <2>4. Apart'
    BY DEF CounterInv, Apart, Holds, Clean, OtherRests
  <2>5. QED
    BY <2>2, <2>3, <2>4 DEF CounterInv
<1>2. CASE Current(RegOf(t))
  <2>1. /\ row'[n].fcnt = RegOf(t).fcnt /\ row'[n].sess = row[n].sess
        /\ row'[n].present = row[n].present
        /\ \A m \in Node : /\ row'[m].sess = row[m].sess /\ row'[m].present = row[m].present
                           /\ m # n => row'[m] = row[m]
    BY <1>0, <1>2 DEF Stored, Row
  <2>2. row[n].present /\ row[n].sess = RegOf(t).sess
    BY <1>2 DEF Current
  <2>3. Clean(RegOf(t)) => RegOf(t).fcnt = row[n].fcnt + 1
    BY <1>2 DEF CounterInv, Fresh, Holds
  <2>4. RowsAhead'
    <3> SUFFICES ASSUME NEW m \in Node, NEW c \in Nat, row[m].present,
                        <<m, row[m].sess>> \notin exposed, <<m, row[m].sess, c>> \in used
                 PROVE  c <= row'[m].fcnt
      BY <2>1 DEF RowsAhead
    <3>1. c <= row[m].fcnt
      BY DEF CounterInv, RowsAhead
    <3>2. CASE m = n
      BY <1>0, <2>1, <2>2, <2>3, <3>1, <3>2 DEF Clean
    <3>3. CASE m # n
      BY <2>1, <3>1, <3>3
    <3>4. QED
      BY <3>2, <3>3
  <2>5. Fresh(t)'
    BY <1>0, <1>2, <2>1 DEF CounterInv, Fresh, Holds, Clean, Current, Sent
  <2>6. ASSUME NEW o \in Senders, o # t PROVE Fresh(o)'
    <3> SUFFICES ASSUME Holds(Pc(o)), Clean(RegOf(o)), Current(RegOf(o))
                 PROVE  /\ Pc(o) = "update" => RegOf(o).fcnt = row'[RegOf(o).node].fcnt + 1
                        /\ Pc(o) # "update" => RegOf(o).fcnt <= row'[RegOf(o).node].fcnt
      <4>1. RegOf(o).node \in Node /\ Fresh(o) /\ Pc(o)' = Pc(o) /\ RegOf(o)' = RegOf(o)
        BY <2>6, RegTypes DEF CounterInv, OtherRests
      <4>2. Current(RegOf(o))' <=> Current(RegOf(o))
        BY <2>1, <4>1 DEF Current
      <4>3. QED
        BY <4>1, <4>2 DEF Fresh, Holds, Clean, Sent
    <3>1. /\ RegOf(o).node \in Node /\ RegOf(o).fcnt \in Nat
          /\ Pc(o) = "update" => RegOf(o).fcnt = row[RegOf(o).node].fcnt + 1
          /\ Pc(o) # "update" => RegOf(o).fcnt <= row[RegOf(o).node].fcnt
      BY RegTypes DEF CounterInv, Fresh
    <3>2. CASE RegOf(o).node = n
      <4>1. RegOf(o).sess = RegOf(t).sess /\ Clean(RegOf(t))
        BY <2>2, <3>2 DEF Current, Clean
      <4>2. RegOf(o) # RegOf(t)
        BY <2>6, <4>1 DEF CounterInv, Apart, Holds
      <4>3. RegOf(o).fcnt # RegOf(t).fcnt
        BY <3>2, <4>1, <4>2, RegTypes DEF Registers
      <4>4. QED
        BY <1>0, <2>1, <2>3, <3>1, <3>2, <4>1, <4>3
    <3>3. CASE RegOf(o).node # n
      BY <2>1, <3>1, <3>3
    <3>4. QED
      BY <3>2, <3>3
  <2>7. Apart'
    BY DEF CounterInv, Apart, Holds, Clean, OtherRests
  <2>8. CounterReuseExplained'
    BY DEF CounterInv, CounterReuseExplained
  <2>9. QED
    BY <2>4, <2>5, <2>6, <2>7, <2>8 DEF CounterInv
<1>3. QED
  BY <1>1, <1>2

\* A clean counter goes out: it was never sent, and the other sender's is
\* another one.
LEMMA SendCounter ==
    ASSUME TypeInv, CounterInv, NEW t \in Senders, OtherRests(t),
           UNCHANGED <<row, exposed>>, LogSent(RegOf(t)), Pc(t) = "send", ~Holds(Pc(t)')
    PROVE  CounterInv'
<1> DEFINE r == RegOf(t)
<1>1. /\ r.node \in Node /\ r.fcnt \in Nat
      /\ used' = used \union {Sent(r)}
      /\ reused' = IF Sent(r) \in used THEN reused \union {<<r.node, r.sess>>} ELSE reused
  BY RegTypes DEF LogSent, Sent
<1>2. Clean(r) => /\ Sent(r) \notin used
                  /\ Current(r) => r.fcnt <= row[r.node].fcnt
  BY DEF CounterInv, Fresh, Holds
<1>3. RowsAhead'
  <2> SUFFICES ASSUME NEW m \in Node, NEW c \in Nat, row[m].present,
                      <<m, row[m].sess>> \notin exposed, <<m, row[m].sess, c>> \in used'
               PROVE  c <= row[m].fcnt
    BY DEF RowsAhead
  <2>1. CASE <<m, row[m].sess, c>> \in used
    BY <2>1 DEF CounterInv, RowsAhead
  <2>2. CASE <<m, row[m].sess, c>> = Sent(r)
    <3>1. m = r.node /\ row[m].sess = r.sess /\ c = r.fcnt
      BY <2>2 DEF Sent
    <3>2. QED
      BY <1>2, <3>1 DEF Clean, Current
  <2>3. QED
    BY <1>1, <2>1, <2>2
<1>4. ASSUME NEW o \in Senders PROVE Fresh(o)'
  <2>1. CASE o = t
    BY <2>1 DEF Fresh, Holds
  <2>2. CASE o # t
    <3>1. Pc(o)' = Pc(o) /\ RegOf(o)' = RegOf(o) /\ Fresh(o)
      BY <2>2 DEF OtherRests, CounterInv
    <3>2. ASSUME Holds(Pc(o)), Clean(RegOf(o)) PROVE Sent(RegOf(o)) # Sent(r)
      <4> SUFFICES ASSUME Sent(RegOf(o)) = Sent(r) PROVE FALSE
        OBVIOUS
      <4>1. RegOf(o).node = r.node /\ RegOf(o).sess = r.sess /\ RegOf(o).fcnt = r.fcnt
        BY DEF Sent
      <4>2. RegOf(o) = r
        BY <4>1, RegTypes DEF Registers
      <4>3. QED
        BY <2>2, <3>2, <4>2 DEF CounterInv, Apart, Holds
    <3>3. QED
      BY <1>1, <3>1, <3>2 DEF Fresh, Holds, Clean, Current, Sent
  <2>3. QED
    BY <2>1, <2>2
<1>5. Apart'
  <2> SUFFICES ASSUME NEW o \in Senders, NEW q \in Senders, o # q, Holds(Pc(o)'), Holds(Pc(q)'),
                      Clean(RegOf(o))'
               PROVE  RegOf(o)' # RegOf(q)'
    BY DEF Apart, Holds
  <2>1. FALSE
    BY DEF Senders, Holds
  <2>2. QED
    BY <2>1
<1>6. CounterReuseExplained'
  BY <1>1, <1>2 DEF CounterInv, CounterReuseExplained, Clean
<1>7. QED
  BY <1>3, <1>4, <1>5, <1>6 DEF CounterInv

\* A row changes under the senders: removed, cleared for a join, or given the
\* next session, which no sender and nothing sent is of.
LEMMA RowCounter ==
    ASSUME TypeInv, SessionInv, CounterInv, UNCHANGED <<used, reused>>, exposed \subseteq exposed',
           \A t \in Senders : Pc(t)' = Pc(t) /\ RegOf(t)' = RegOf(t),
           \A m \in Node :
             \/ row'[m] = row[m]
             \/ ~row'[m].present
             \/ row'[m].sess = row[m].sess /\ <<m, row[m].sess>> \in exposed'
             \/ row'[m].sess = row[m].sess + 1
    PROVE  CounterInv'
<1>1. \A m \in Node : row[m].sess \in Nat
  BY SessTypes
<1>2. ASSUME NEW m \in Node, row'[m].sess = row[m].sess + 1
      PROVE  /\ \A c \in Nat : <<m, row'[m].sess, c>> \notin used
             /\ \A t \in Senders : RegOf(t).node = m => RegOf(t).sess # row'[m].sess
  <2>1. \A c \in Nat : <<m, row'[m].sess, c>> \notin used
    <3> SUFFICES ASSUME NEW c \in Nat, <<m, row'[m].sess, c>> \in used PROVE FALSE
      OBVIOUS
    <3>1. row'[m].sess \in Sess
      BY SessTypes
    <3>2. row'[m].sess <= row[m].sess
      BY <3>1 DEF SessionInv
    <3>3. QED
      BY <1>1, <1>2, <3>2
  <2>2. ASSUME NEW t \in Senders, RegOf(t).node = m PROVE RegOf(t).sess # row'[m].sess
    <3>1. RegOf(t).sess <= row[m].sess /\ RegOf(t).sess \in Nat
      BY <2>2, RegTypes DEF SessionInv, RegOf
    <3>2. QED
      BY <1>1, <1>2, <3>1
  <2>3. QED
    BY <2>1, <2>2
<1>3. RowsAhead'
  <2> SUFFICES ASSUME NEW m \in Node, NEW c \in Nat, row'[m].present,
                      <<m, row'[m].sess>> \notin exposed', <<m, row'[m].sess, c>> \in used
               PROVE  c <= row'[m].fcnt
    BY DEF RowsAhead
  <2>1. row'[m].sess # row[m].sess + 1
    BY <1>2
  <2>2. row'[m] = row[m]
    BY <2>1
  <2>3. QED
    BY <2>2 DEF CounterInv, RowsAhead
<1>4. ASSUME NEW t \in Senders PROVE Fresh(t)'
  <2> DEFINE n == RegOf(t).node
  <2>1. n \in Node /\ Fresh(t) /\ Pc(t)' = Pc(t) /\ RegOf(t)' = RegOf(t)
    BY RegTypes DEF CounterInv
  <2>2. ASSUME Clean(RegOf(t))', Current(RegOf(t))' PROVE row'[n] = row[n]
    <3>1. row'[n].present /\ row'[n].sess = RegOf(t).sess /\ <<n, RegOf(t).sess>> \notin exposed'
      BY <2>1, <2>2 DEF Current, Clean
    <3>2. row'[n].sess # row[n].sess + 1
      BY <1>2, <2>1, <3>1
    <3>3. QED
      BY <2>1, <3>1, <3>2
  <2>3. Clean(RegOf(t))' => Clean(RegOf(t))
    BY <2>1 DEF Clean
  <2>4. QED
    BY <2>1, <2>2, <2>3 DEF Fresh, Holds, Current, Sent
<1>5. Apart' /\ CounterReuseExplained'
  BY DEF CounterInv, Apart, CounterReuseExplained, Holds, Clean
<1>6. QED
  BY <1>3, <1>4, <1>5 DEF CounterInv

LEMMA HandleCounter == TypeInv /\ CounterInv /\ Handle => CounterInv'
<1> SUFFICES ASSUME TypeInv, CounterInv, Handle PROVE CounterInv'
  OBVIOUS
<1> DEFINE t == "handler"
<1>1. /\ t \in Senders /\ Pc(t) = hpc /\ RegOf(t) = hreg /\ Pc(t)' = hpc' /\ RegOf(t)' = hreg'
      /\ \A o \in Senders : o # t => Pc(o) = cpc /\ RegOf(o) = creg
      /\ OtherRests(t)
  BY HandleFrame DEF Senders, Pc, RegOf, OtherRests, classCVars
<1> HIDE DEF t
<1>2. ASSUME UNCHANGED <<row, used, reused>>, exposed \subseteq exposed', QuietStep(t)
      PROVE  CounterInv'
  <2>1. \A o \in Senders : QuietStep(o)
    BY <1>1, <1>2 DEF OtherRests, QuietStep
  <2>2. QED
    BY <1>2, <2>1, QuietCounter
<1>3. CASE HandleFetch
  <2>1. CASE Holding(cpc, creg, hreg.node, hreg.sess)
    <3>1. hreg'.node = hreg.node /\ hreg'.sess = hreg.sess
      BY <1>3, SessTypes DEF HandleFetch, Registers
    <3>2. ~Clean(RegOf(t))'
      BY <1>1, <1>3, <2>1, <3>1 DEF HandleFetch, Exposes, Clean
    <3>3. QED
      BY <1>2, <1>3, <2>1, <3>2 DEF HandleFetch, Exposes, QuietStep, logVars
  <2>2. CASE ~Holding(cpc, creg, hreg.node, hreg.sess)
    BY <1>1, <1>3, <2>2, FetchCounter DEF HandleFetch, logVars
  <2>3. QED
    BY <2>1, <2>2
<1>4. CASE ClassAFetchFails
  <2>1. hreg'.node = hreg.node /\ hreg'.sess = hreg.sess
    BY <1>4, SessTypes DEF ClassAFetchFails, Registers
  <2>2. ~Clean(RegOf(t))'
    BY <1>1, <1>4, <2>1 DEF ClassAFetchFails, Exposes, Clean
  <2>3. QED
    BY <1>2, <1>4, <2>2 DEF ClassAFetchFails, Exposes, QuietStep, logVars
<1>5. CASE HandleUpdate
  BY <1>1, <1>5, UpdateCounter DEF HandleUpdate, Holds, logVars
<1>6. CASE HandleUpdateFails
  <2>1. ~Clean(RegOf(t))'
    BY <1>1, <1>6 DEF HandleUpdateFails, Exposes, Clean
  <2>2. QED
    BY <1>2, <1>6, <2>1 DEF HandleUpdateFails, Exposes, QuietStep, logVars
<1>7. CASE HandleKeys
  BY <1>1, <1>2, <1>7 DEF HandleKeys, QuietStep, logVars
<1>8. CASE HandleSend
  BY <1>1, <1>8, SendCounter DEF HandleSend, Holds
<1>9. CASE \/ HandleFront \/ LookClassA \/ TakeClassA \/ Take \/ FetchData \/ NoData
           \/ HandleFetchFails \/ HandleKeysFails \/ HandleSendFails \/ HandleSent
           \/ HandleAbort \/ HandleAborted
  <2>1. UNCHANGED <<row, logVars, exposed>> /\ ~Holds(hpc')
    BY <1>9 DEF HandleFront, LookClassA, TakeClassA, Take, FetchData, NoData, HandleFetchFails,
       HandleKeysFails, HandleSendFails, HandleSent, HandleAbort, HandleAborted, Holds
  <2>2. QED
    BY <1>1, <1>2, <2>1 DEF QuietStep, logVars
<1>10. QED
  BY <1>3, <1>4, <1>5, <1>6, <1>7, <1>8, <1>9 DEF Handle

LEMMA ClassCCounter == TypeInv /\ CounterInv /\ ClassC => CounterInv'
<1> SUFFICES ASSUME TypeInv, CounterInv, ClassC PROVE CounterInv'
  OBVIOUS
<1> DEFINE t == "classC"
<1>1. /\ t \in Senders /\ Pc(t) = cpc /\ RegOf(t) = creg /\ Pc(t)' = cpc' /\ RegOf(t)' = creg'
      /\ \A o \in Senders : o # t => Pc(o) = hpc /\ RegOf(o) = hreg
      /\ OtherRests(t)
  BY ClassCFrame DEF Senders, Pc, RegOf, OtherRests, handleVars
<1> HIDE DEF t
<1>2. ASSUME UNCHANGED <<row, used, reused>>, exposed \subseteq exposed', QuietStep(t)
      PROVE  CounterInv'
  <2>1. \A o \in Senders : QuietStep(o)
    BY <1>1, <1>2 DEF OtherRests, QuietStep
  <2>2. QED
    BY <1>2, <2>1, QuietCounter
<1>3. CASE ClassCFetch
  <2>1. CASE Holding(hpc, hreg, creg.node, creg.sess)
    <3>1. creg'.node = creg.node /\ creg'.sess = creg.sess
      BY <1>3, SessTypes DEF ClassCFetch, Registers
    <3>2. ~Clean(RegOf(t))'
      BY <1>1, <1>3, <2>1, <3>1 DEF ClassCFetch, Exposes, Clean
    <3>3. QED
      BY <1>2, <1>3, <2>1, <3>2 DEF ClassCFetch, Exposes, QuietStep, logVars
  <2>2. CASE ~Holding(hpc, hreg, creg.node, creg.sess)
    BY <1>1, <1>3, <2>2, FetchCounter DEF ClassCFetch, logVars
  <2>3. QED
    BY <2>1, <2>2
<1>4. CASE ClassCUpdate
  BY <1>1, <1>4, UpdateCounter DEF ClassCUpdate, ClassCNext, Holds, logVars
<1>5. CASE ClassCUpdateFails
  <2>1. ~Clean(RegOf(t))'
    BY <1>1, <1>5 DEF ClassCUpdateFails, Exposes, Clean
  <2>2. QED
    BY <1>2, <1>5, <2>1 DEF ClassCUpdateFails, Exposes, QuietStep, logVars
<1>6. CASE ClassCKeys
  BY <1>1, <1>2, <1>6 DEF ClassCKeys, QuietStep, logVars
<1>7. CASE ClassCSend
  BY <1>1, <1>7, SendCounter DEF ClassCSend, Holds
<1>8. CASE \/ \E n \in Node, k \in 1..MaxPacket : ClassCRecv(n, k)
           \/ ClassCFetchFails \/ ClassCSent
  <2>1. UNCHANGED <<row, logVars, exposed>> /\ ~Holds(cpc')
    BY <1>8 DEF ClassCRecv, ClassCFetchFails, ClassCSent, ClassCNext, classCVars, Holds
  <2>2. QED
    BY <1>1, <1>2, <2>1 DEF QuietStep, logVars
<1>9. QED
  BY <1>3, <1>4, <1>5, <1>6, <1>7, <1>8 DEF ClassC

LEMMA SurroundingsCounter ==
    TypeInv /\ SessionInv /\ CounterInv /\ Surroundings => CounterInv'
<1> SUFFICES ASSUME TypeInv, SessionInv, CounterInv, Surroundings PROVE CounterInv'
  OBVIOUS
<1>1. /\ UNCHANGED <<used, reused>>
      /\ \A t \in Senders : Pc(t)' = Pc(t) /\ RegOf(t)' = RegOf(t)
  BY SurroundingsFrame DEF logVars, handleVars, classCVars, Pc, RegOf
<1>2. row \in [Node -> Row]
  BY DEF TypeInv, LogType
<1>3. ASSUME NEW n \in Node, ClearFcntDown(n) PROVE CounterInv'
  <2>1. \A m \in Node : \/ row'[m] = row[m]
                        \/ row'[m].sess = row[m].sess /\ <<m, row[m].sess>> \in exposed'
    BY <1>2, <1>3 DEF ClearFcntDown, Row
  <2>2. exposed \subseteq exposed'
    BY <1>3 DEF ClearFcntDown
  <2>3. QED
    BY <1>1, <2>1, <2>2, RowCounter
<1>4. ASSUME NEW n \in Node, Accept(n) \/ Remove(n) PROVE CounterInv'
  <2>1. \A m \in Node : \/ row'[m] = row[m] \/ ~row'[m].present
                        \/ row'[m].sess = row[m].sess + 1
    BY <1>2, <1>4 DEF Accept, Remove, Row
  <2>2. exposed \subseteq exposed'
    BY <1>4 DEF Accept, Remove
  <2>3. QED
    BY <1>1, <2>1, <2>2, RowCounter
<1>5. CASE DataStore \/ Tick \/ Emitted \/ \E n \in Node : ServerAnswers(n) \/ ClassADataStore(n)
  <2>1. UNCHANGED <<row, exposed>>
    BY <1>5 DEF DataStore, Tick, Emitted, ServerAnswers, ClassADataStore
  <2>2. QED
    BY <1>1, <2>1, RowCounter
<1>6. QED
  BY <1>3, <1>4, <1>5 DEF Surroundings

LEMMA CounterNext ==
    TypeInv /\ SessionInv /\ CounterInv /\ [Next]_vars => CounterInv'
<1> SUFFICES ASSUME TypeInv, SessionInv, CounterInv, [Next]_vars PROVE CounterInv'
  OBVIOUS
<1>1. CASE TaskQueue \/ Fetch \/ UNCHANGED vars \/ \E n \in Node : Uplink(n)
  <2>1. UNCHANGED <<row, used, reused, exposed, hpc, hreg, cpc, creg>>
    BY <1>1, FetchFrame DEF TaskQueue, Uplink, vars, handleVars, classCVars, logVars
  <2>2. QED
    BY <2>1, QuietCounter DEF QuietStep, Pc, RegOf
<1>2. QED
  BY <1>1, HandleCounter, ClassCCounter, SurroundingsCounter, NextParts

\* Two downlinks go out with one frame counter under the same keys only after
\* two senders took the counter before either stored it, a store that failed
\* was taken for done, class A data went out with an uninitialised counter, or
\* a join cleared the counter before the session changed: for any number of
\* nodes, packets, joins and failures.
THEOREM ReuseIsExplained == Spec => []CounterReuseExplained
<1>1. Spec => []SessionInv
  BY SessionInit, SessionNext, TypesHold, PTL DEF Spec
<1>2. Spec => []CounterInv
  BY <1>1, CounterInit, CounterNext, TypesHold, PTL DEF Spec
<1>3. CounterInv => CounterReuseExplained
  BY DEF CounterInv
<1>4. QED
  BY <1>2, <1>3, PTL
-----------------------------------------------------------------------------
(* The data rate of an answer (Rx1): what the functions and tables of      *)
(* region.c compute, region by region.                                     *)

LEMMA SubtractIsRegional ==
    ASSUME NEW r \in SubtractRegions, NEW dr \in 0..5, NEW off \in 0..5
    PROVE  RegionApplyDrOffset(r, dr, off) = {Regional(r, dr, off)}
<1>1. RegionApplyDrOffset(r, dr, off) = {Subtracted(dr, off)}
  BY DEF RegionApplyDrOffset, SubtractRegions, EffectiveRegions
<1>2. Regional(r, dr, off) = IF off > dr THEN 0 ELSE dr - off
  <2>1. r \notin EffectiveRegions /\ r # "AU915"
    BY DEF SubtractRegions, EffectiveRegions
  <2>2. QED
    BY <2>1 DEF Regional
<1>3. Subtracted(dr, off) = IF off > dr THEN 0 ELSE dr - off
  BY DEF Subtracted, AtLeast
<1>4. QED
  BY <1>1, <1>2, <1>3

\* The data rate nearest to one that may be out of range is the limited one.
LEMMA NearestIsLimited ==
    ASSUME NEW goal \in Int
    PROVE  Nearest(goal) = AtMost(5, AtLeast(0, goal))
<1> DEFINE c == AtMost(5, AtLeast(0, goal))
<1>1. c \in 0..5 /\ (c = goal \/ (c = 0 /\ goal < 0) \/ (c = 5 /\ goal > 5))
  BY DEF AtMost, AtLeast
<1>2. \A e \in 0..5 : Distance(c, goal) <= Distance(e, goal)
  BY <1>1 DEF Distance
<1>3. \A d \in 0..5 : Distance(d, goal) <= Distance(c, goal) => d = c
  BY <1>1 DEF Distance
<1> HIDE DEF c
<1>4. Nearest(goal) \in 0..5 /\ \A e \in 0..5 : Distance(Nearest(goal), goal) <= Distance(e, goal)
  BY <1>1, <1>2 DEF Nearest
<1>5. QED
  BY <1>1, <1>3, <1>4 DEF c

LEMMA EffectiveIsRegional ==
    ASSUME NEW r \in EffectiveRegions, NEW dr \in 0..5, NEW off \in 0..7
    PROVE  RegionApplyDrOffset(r, dr, off) = {Regional(r, dr, off)}
<1> DEFINE goal == dr - (IF off > 5 THEN 5 - off ELSE off)
<1>1. EffectiveRx1DrOffset[off] = IF off > 5 THEN 5 - off ELSE off
  BY DEF EffectiveRx1DrOffset
<1>2. goal \in Int
  OBVIOUS
<1>3. r \notin SubtractRegions /\ r # "AU915" /\ r \notin {"US915", "US915_HYBRID"}
  BY DEF SubtractRegions, EffectiveRegions
<1>4. RegionApplyDrOffset(r, dr, off) = {AtMost(5, AtLeast(0, goal))}
  BY <1>1, <1>3 DEF RegionApplyDrOffset, EffectiveApplied
<1>5. Regional(r, dr, off) = Nearest(goal)
  BY <1>3 DEF Regional
<1> HIDE DEF goal
<1>6. QED
  BY <1>2, <1>4, <1>5, NearestIsLimited

LEMMA TablesAreRegional ==
    ASSUME NEW r \in TableRegions, NEW dr \in DataRates(r), NEW off \in OffsetRange(r)
    PROVE  RegionApplyDrOffset(r, dr, off) = {Regional(r, dr, off)}
<1>1. r \notin SubtractRegions /\ r \notin EffectiveRegions
  BY DEF SubtractRegions, EffectiveRegions, TableRegions
<1>2. CASE r = "AU915"
  <2>1. dr \in 0..6 /\ off \in 0..5
    BY <1>1, <1>2 DEF DataRates, OffsetRange
  <2>2. /\ DOMAIN DatarateOffsetsAU915 = 1..7 /\ DOMAIN DatarateOffsetsAU915[1] = 1..6
        /\ DatarateOffsetsAU915[dr + 1][off + 1] = AtLeast(8, AtMost(13, dr + 8 - off))
    BY <2>1 DEF DatarateOffsetsAU915, AtLeast, AtMost
  <2>3. Entry(DatarateOffsetsAU915, dr, off) = {AtLeast(8, AtMost(13, dr + 8 - off))}
    BY <2>1, <2>2 DEF Entry
  <2>4. QED
    BY <1>1, <1>2, <2>3 DEF RegionApplyDrOffset, Regional
<1>3. CASE r # "AU915"
  <2>1. dr \in 0..4 /\ off \in 0..3
    BY <1>1, <1>3 DEF DataRates, OffsetRange, TableRegions
  <2>2. /\ DOMAIN DatarateOffsetsUS915 = 1..5 /\ DOMAIN DatarateOffsetsUS915[1] = 1..4
        /\ DatarateOffsetsUS915[dr + 1][off + 1] = AtLeast(8, AtMost(13, dr + 10 - off))
    BY <2>1 DEF DatarateOffsetsUS915, AtLeast, AtMost
  <2>3. Entry(DatarateOffsetsUS915, dr, off) = {AtLeast(8, AtMost(13, dr + 10 - off))}
    BY <2>1, <2>2 DEF Entry
  <2>4. QED
    BY <1>1, <1>3, <2>3 DEF RegionApplyDrOffset, Regional, TableRegions
<1>4. QED
  BY <1>2, <1>3

-----------------------------------------------------------------------------
(* What was configured, what was read, and what was computed from it.      *)
RateTypes ==
    /\ Region_Info \in Regions /\ region \in Regions
    /\ Rx1DRoffset \in 0..7 /\ rx1droffset \in 0..7
    /\ datarate \in LoraRates
Applied == rxpc = "send" => down_datarate \in RegionApplyDrOffset(region, datarate, rx1droffset)

LEMMA RateInit1 == RateInit => RateTypes /\ Applied
BY DEF RateInit, RateTypes, Applied, Regions, SubtractRegions

LEMMA RateNext1 == RateTypes /\ Applied /\ [RateNext]_rateVars => (RateTypes /\ Applied)'
<1> SUFFICES ASSUME RateTypes, Applied, [RateNext]_rateVars PROVE (RateTypes /\ Applied)'
  OBVIOUS
<1>1. "CN470" \in Regions
  BY DEF Regions, SubtractRegions
<1>2. ASSUME NEW r \in Regions, Ack_Region_Freq_Info(r) PROVE (RateTypes /\ Applied)'
  BY <1>2 DEF Ack_Region_Freq_Info, RateTypes, Applied
<1>3. ASSUME NEW off \in 0..7, Ack_Rx1DRoffset_Info(off) PROVE (RateTypes /\ Applied)'
  BY <1>3 DEF Ack_Rx1DRoffset_Info, RateTypes, Applied
<1>4. CASE Fetch_Region_Info \/ Fetch_RX1DRoffset_Info
  BY <1>4 DEF Fetch_Region_Info, Fetch_RX1DRoffset_Info, RateTypes, Applied
<1>5. CASE Thread_Handle_Data_Task
  BY <1>5 DEF Thread_Handle_Data_Task, RateTypes, Applied
<1>6. CASE NextUplink
  BY <1>1, <1>6 DEF NextUplink, RateTypes, Applied
<1>7. CASE UNCHANGED rateVars
  BY <1>7 DEF rateVars, RateTypes, Applied
<1>8. QED
  BY <1>2, <1>3, <1>4, <1>5, <1>6, <1>7 DEF RateNext, ReadFails, AnswerSent

LEMMA RateSafe == RateSpec => [](RateTypes /\ Applied)
BY RateInit1, RateNext1, PTL DEF RateSpec

\* Whatever region and offset PC and server configure, RegionApplyDrOffset is
\* the table of the regional parameters for it, also where that has negative
\* offsets, limits and data rates above the uplinks'.
THEOREM RatesAreRegional == RateSpec => []ApplyIsRegional
<1>1. RateTypes => ApplyIsRegional
  <2> SUFFICES ASSUME RateTypes, NEW dr \in DataRates(Region_Info), Rx1DRoffset \in OffsetRange(Region_Info)
               PROVE  RegionApplyDrOffset(Region_Info, dr, Rx1DRoffset)
                        = {Regional(Region_Info, dr, Rx1DRoffset)}
    BY DEF ApplyIsRegional
  <2>1. CASE Region_Info \in SubtractRegions
    <3>1. dr \in 0..5 /\ Rx1DRoffset \in 0..5
      BY <2>1 DEF DataRates, OffsetRange, SubtractRegions, EffectiveRegions
    <3>2. QED
      BY <2>1, <3>1, SubtractIsRegional
  <2>2. CASE Region_Info \in EffectiveRegions
    <3>1. dr \in 0..5 /\ Rx1DRoffset \in 0..7
      BY <2>2 DEF DataRates, OffsetRange, EffectiveRegions
    <3>2. QED
      BY <2>2, <3>1, EffectiveIsRegional
  <2>3. CASE Region_Info \in TableRegions
    BY <2>3, TablesAreRegional
  <2>4. QED
    BY <2>1, <2>2, <2>3 DEF RateTypes, Regions
<1>2. QED
  BY <1>1, RateSafe, PTL

\* An answer is sent at the rate of its uplink or the next faster one, or at none
\* that the sx1301 has, in the regions without a table and with an offset that
\* stands for a slower rate: also when another command came between the reads.
THEOREM AnswersAreHeard == RateSpec => []SentAsHeardOrFaster
<1>1. RateTypes /\ Applied => SentAsHeardOrFaster
  <2> SUFFICES ASSUME RateTypes, Applied, rxpc = "send", region \notin TableRegions,
                      rx1droffset \in 0..5, down_datarate \in LoraRates
               PROVE  down_datarate = datarate \/ 2 * down_datarate = datarate
    BY DEF SentAsHeardOrFaster
  <2>1. datarate \in LoraRates /\ down_datarate \in RegionApplyDrOffset(region, datarate, rx1droffset)
    BY DEF RateTypes, Applied
  <2>2. \/ down_datarate = Subtracted(datarate, rx1droffset)
        \/ down_datarate = AtMost(5, AtLeast(0, datarate - rx1droffset))
    <3>1. EffectiveRx1DrOffset[rx1droffset] = rx1droffset
      BY DEF EffectiveRx1DrOffset
    <3>2. QED
      BY <2>1, <3>1 DEF RegionApplyDrOffset, EffectiveApplied, TableRegions
  <2>3. QED
    BY <2>1, <2>2 DEF Subtracted, AtLeast, AtMost, LoraRates
<1>2. QED
  BY <1>1, RateSafe, PTL
=============================================================================
