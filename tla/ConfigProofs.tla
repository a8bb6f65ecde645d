----------------------------- MODULE ConfigProofs ----------------------------
(***************************************************************************)
(* Theorems about Config, for any number of commands and reconnections.    *)
(* The files are shared without a lock, so what is proved of a file is     *)
(* proved as long as its users have not overlapped: that it has a single   *)
(* user then, who holds what the commands have put there.                  *)
(***************************************************************************)
EXTENDS Config, TLAPS

\* The jobs of each thread.
JobsOf(t) ==
    {Nothing} \union
    CASE t = "pc" -> {ack_read_server, AckReadCommunicateServer, ack_read_sx1301,
                      ack_write_server, AckWriteCommunicateServer, ack_write_sx1301}
      [] t = "sx" -> {ack_write_sx1301}
      [] t = "handler" -> {ReadCommunicationServerInfo, ServerGetSX1301ConfInfo,
                           WriteCommunicationServerInfo, ServerOTADeviceUpgrade}
      [] t = "conn" -> {Tcp_Reconnection, HUB_Authentication}
      [] t = "comm" -> {Thread_Tcp_Connect}
      [] t = "fwd" -> {parse_SX1301_configuration}

Busy == {"fetch", "parse", "open", "kill", "write", "trunc"}
Contents == Content("server_conf") \union Content("global_conf") \union {Empty}

FilesType ==
    /\ file \in [Files -> Contents] /\ want \in [Files -> Contents]
    /\ \A f \in Files : file[f] \in Content(f) \union {Empty} /\ want[f] \in Content(f)

StepType ==
    /\ step \in [Thread -> Steps] /\ job \in [Thread -> Jobs] /\ val \in [Thread -> Value]
    /\ \A t \in Thread : /\ job[t] \in JobsOf(t)
                         /\ step[t] \in Busy => job[t] # Nothing

CopyType ==
    /\ copy \in [Thread -> Contents]
    /\ \A t \in Thread : copy[t] \in IF Holding(t) THEN Content(job[t].file) ELSE {Empty}

OtherType ==
    /\ uses \in [{"server", "comm", "fwd"} -> Value]
    /\ asked \in Value /\ known \in BOOLEAN /\ started \in BOOLEAN
    /\ scripts \subseteq {"fwd", "comm"} /\ hurt \subseteq Files
    /\ cmds \in 0..MaxCmds

TypeInv == FilesType /\ StepType /\ CopyType /\ OtherType

\* A file whose users have not overlapped has one user at most, whose copy is
\* what the commands made of the file, and between two users it has that itself.
HasFile(t, f) == Holding(t) /\ job[t].file = f
Single ==
    \A f \in Files \ hurt :
        /\ \A t, u \in Thread : HasFile(t, f) /\ HasFile(u, f) => t = u
        /\ \A t \in Thread : HasFile(t, f) => copy[t] = want[f]
        /\ Closed(f) => file[f] = want[f]

\* A change of the frequencies is on its way to lora_pkt_fwd: it is being
\* written, lora_pkt_fwd is about to be restarted, or lora_pkt_conf is gone.
\* Otherwise the script may have been forked and have lora_pkt_fwd yet to kill.
OnItsWay(t) ==
    \/ step[t] \in {"restart", "down"}
    \/ step[t] \in {"write", "trunc"} /\ job[t].then = "fwd"

Tuned ==
    "global_conf" \notin hurt /\ step["fwd"] \in {"write", "trunc", "idle"}
      => \/ uses["fwd"] = want["global_conf"].radio
         \/ "fwd" \in scripts
         \/ \E t \in {"pc", "sx"} : OnItsWay(t)

Inv == TypeInv /\ Single /\ Tuned

-----------------------------------------------------------------------------
(* Jobs, contents and threads.                                             *)

Job(f, sets, takes, first, then) ==
    [file |-> f, sets |-> sets, takes |-> takes, first |-> first, then |-> then]

LEMMA JobRecords ==
    /\ Nothing = Job("none", "none", "none", "none", "none")
    /\ ack_read_server = Job("server_conf", "none", "none", "none", "none")
    /\ AckReadCommunicateServer = ack_read_server
    /\ ReadCommunicationServerInfo = ack_read_server
    /\ ack_read_sx1301 = Job("global_conf", "none", "none", "none", "none")
    /\ ServerGetSX1301ConfInfo = ack_read_sx1301
    /\ ack_write_server = Job("server_conf", "server", "none", "server", "none")
    /\ AckWriteCommunicateServer = Job("server_conf", "comm", "none", "server", "none")
    /\ WriteCommunicationServerInfo = Job("server_conf", "comm", "none", "comm", "none")
    /\ ack_write_sx1301 = Job("global_conf", "radio", "none", "none", "fwd")
    /\ ServerOTADeviceUpgrade = Job("server_conf", "firmware", "none", "none", "reboot")
    /\ Tcp_Reconnection = Job("server_conf", "none", "server", "none", "auth")
    /\ HUB_Authentication = Job("server_conf", "none", "none", "none", "comm")
    /\ Thread_Tcp_Connect = Job("server_conf", "none", "comm", "none", "none")
    /\ parse_SX1301_configuration = Job("global_conf", "none", "fwd", "none", "none")
<1>1. \A f : Reader(f) = Job(f, "none", "none", "none", "none")
  BY DEF Reader, Job
<1>2. ack_write_server = Job("server_conf", "server", "none", "server", "none")
  <2>1. ack_write_server = [[Reader("server_conf") EXCEPT !.sets = "server"] EXCEPT !.first = "server"]
    BY DEF ack_write_server
  <2>2. [Reader("server_conf") EXCEPT !.sets = "server"] = Job("server_conf", "server", "none", "none", "none")
    BY <1>1 DEF Job
  <2>3. QED
    BY <2>1, <2>2 DEF Job
<1>3. AckWriteCommunicateServer = Job("server_conf", "comm", "none", "server", "none")
  BY <1>2 DEF AckWriteCommunicateServer, Job
<1>4. WriteCommunicationServerInfo = Job("server_conf", "comm", "none", "comm", "none")
  BY <1>3 DEF WriteCommunicationServerInfo, Job
<1>5. ack_write_sx1301 = Job("global_conf", "radio", "none", "none", "fwd")
  <2>1. ack_write_sx1301 = [[Reader("global_conf") EXCEPT !.sets = "radio"] EXCEPT !.then = "fwd"]
    BY DEF ack_write_sx1301
  <2>2. [Reader("global_conf") EXCEPT !.sets = "radio"] = Job("global_conf", "radio", "none", "none", "none")
    BY <1>1 DEF Job
  <2>3. QED
    BY <2>1, <2>2 DEF Job
<1>6. ServerOTADeviceUpgrade = Job("server_conf", "firmware", "none", "none", "reboot")
  <2>1. ServerOTADeviceUpgrade = [[Reader("server_conf") EXCEPT !.sets = "firmware"] EXCEPT !.then = "reboot"]
    BY DEF ServerOTADeviceUpgrade
  <2>2. [Reader("server_conf") EXCEPT !.sets = "firmware"] = Job("server_conf", "firmware", "none", "none", "none")
    BY <1>1 DEF Job
  <2>3. QED
    BY <2>1, <2>2 DEF Job
<1>7. Tcp_Reconnection = Job("server_conf", "none", "server", "none", "auth")
  <2>1. Tcp_Reconnection = [[Reader("server_conf") EXCEPT !.takes = "server"] EXCEPT !.then = "auth"]
    BY DEF Tcp_Reconnection
  <2>2. [Reader("server_conf") EXCEPT !.takes = "server"] = Job("server_conf", "none", "server", "none", "none")
    BY <1>1 DEF Job
  <2>3. QED
    BY <2>1, <2>2 DEF Job
<1>8. HUB_Authentication = Job("server_conf", "none", "none", "none", "comm")
  BY <1>1 DEF HUB_Authentication, Job
<1>9. Thread_Tcp_Connect = Job("server_conf", "none", "comm", "none", "none")
  BY <1>1 DEF Thread_Tcp_Connect, Job
<1>10. parse_SX1301_configuration = Job("global_conf", "none", "fwd", "none", "none")
  BY <1>1 DEF parse_SX1301_configuration, Job
<1>11. QED
  BY <1>1, <1>2, <1>3, <1>4, <1>5, <1>6, <1>7, <1>8, <1>9, <1>10
     DEF Nothing, ack_read_server, AckReadCommunicateServer, ReadCommunicationServerInfo,
         ack_read_sx1301, ServerGetSX1301ConfInfo

LEMMA JobFacts ==
    ASSUME NEW t \in Thread, NEW j \in JobsOf(t)
    PROVE  /\ j \in Jobs
           /\ j # Nothing => j.file \in Files
           /\ j.then = "fwd" => j.file = "global_conf"
           /\ j.file = "global_conf" /\ j.sets # "none" =>
                 t \in {"pc", "sx"} /\ j.then = "fwd" /\ j.first = "none"
           /\ j.takes # "none" =>
                 /\ j.takes \in {"server", "comm", "fwd"}
                 /\ FieldFor(j.takes) \in Fields(j.file)
           /\ t # "fwd" => j.takes # "fwd"
           /\ t = "fwd" /\ j # Nothing =>
                 /\ j.file = "global_conf" /\ j.takes = "fwd" /\ j.sets = "none"
                 /\ j.first = "none" /\ j.then = "none"
<1> USE JobRecords DEF Job, Thread, Files, Fields, FieldFor
<1>1. j \in Jobs
  BY DEF JobsOf, Jobs
<1>2. CASE t = "pc"
  BY <1>1, <1>2 DEF JobsOf
<1>3. CASE t = "sx"
  BY <1>1, <1>3 DEF JobsOf
<1>4. CASE t = "handler"
  BY <1>1, <1>4 DEF JobsOf
<1>5. CASE t \in {"conn", "comm", "fwd"}
  BY <1>1, <1>5 DEF JobsOf
<1>6. QED
  BY <1>2, <1>3, <1>4, <1>5

LEMMA FieldSet ==
    ASSUME NEW f, NEW c \in Content(f), NEW x, NEW v \in Value
    PROVE  [c EXCEPT ![x] = v] \in Content(f)
BY DEF Content

LEMMA Kinds ==
    /\ \A f \in Files : Content(f) \subseteq Contents
    /\ Empty \in Contents
    /\ 0 \in Value
BY ConfigAssumption DEF Files, Contents, Value, ConfigAssumption

LEMMA Processes ==
    ASSUME NEW t \in Thread
    PROVE  /\ ProcessOf(t) \in {"conf", "server", "comm", "fwd"} /\ t \in ThreadsOf(ProcessOf(t))
           /\ "fwd" \in ThreadsOf(ProcessOf(t)) => t = "fwd"
<1>1. \E p \in {"conf", "server", "comm", "fwd"} : t \in ThreadsOf(p)
  BY DEF Thread, ThreadsOf
<1>2. ProcessOf(t) \in {"conf", "server", "comm", "fwd"} /\ t \in ThreadsOf(ProcessOf(t))
  BY <1>1 DEF ProcessOf
<1>3. QED
  BY <1>2 DEF ThreadsOf

LEMMA Types == TypeInv => TypeOK
BY DEF TypeInv, FilesType, StepType, CopyType, OtherType, TypeOK

LEMMA InitInv == Init => Inv
<1> SUFFICES ASSUME Init PROVE Inv
  OBVIOUS
<1>1. \A f \in Files : [x \in Fields(f) |-> 0] \in Content(f)
  BY Kinds DEF Content
<1>2. FilesType
  BY <1>1, Kinds DEF Init, FilesType
<1>3. StepType
  <2>1. Nothing \in Jobs /\ Tcp_Reconnection \in Jobs /\ Tcp_Reconnection # Nothing
    BY JobRecords DEF Jobs, Job
  <2>2. QED
    BY <2>1, Kinds DEF Init, StepType, Thread, Steps, JobsOf, Busy
<1>4. CopyType
  BY Kinds DEF Init, CopyType, Holding, Thread
<1>5. OtherType
  <2>1. 0 \in 0..MaxCmds
    BY Kinds DEF Value
  <2>2. QED
    BY <2>1, Kinds DEF Init, OtherType
<1>6. \A t \in Thread : ~Holding(t)
  BY DEF Init, Holding, Thread
<1>7. Single
  BY <1>6 DEF Init, Single, HasFile
<1>8. Tuned
  BY DEF Init, Tuned, Thread
<1>9. QED
  BY <1>2, <1>3, <1>4, <1>5, <1>7, <1>8 DEF Inv, TypeInv

-----------------------------------------------------------------------------
(* A thread that a step does not touch, one that ends up without a copy --  *)
(* and if it had one, its file is hurt --, and one that goes on after a     *)
(* restart it has made.                                                    *)

Kept(t) == step'[t] = step[t] /\ job'[t] = job[t] /\ copy'[t] = copy[t]
Left(t) ==
    /\ ~Holding(t)' /\ copy'[t] = Empty
    /\ job'[t] \in JobsOf(t) /\ (step'[t] \in Busy => job'[t] # Nothing)
    /\ Holding(t) => job[t].file \in hurt'
Resumes(t) == step[t] = "kill" /\ step'[t] = "write" /\ job'[t] = job[t] /\ copy'[t] = copy[t]

Vectors ==
    /\ step' \in [Thread -> Steps] /\ val' \in [Thread -> Value]
    /\ job' = [t \in Thread |-> job'[t]] /\ copy' = [t \in Thread |-> copy'[t]]

\* A step that leaves the files alone and only does such things.
LEMMA Quietly ==
    ASSUME TypeInv, Single, UNCHANGED <<file, want>>, hurt \subseteq hurt', hurt' \subseteq Files,
           Vectors, \A t \in Thread : Kept(t) \/ Left(t) \/ Resumes(t)
    PROVE  FilesType' /\ StepType' /\ CopyType' /\ Single'
<1>1. FilesType'
  BY DEF TypeInv, FilesType
<1>2. \A t \in Thread : job'[t] \in JobsOf(t) /\ (step'[t] \in Busy => job'[t] # Nothing)
  BY DEF TypeInv, StepType, Kept, Left, Resumes, Busy
<1>3. StepType'
  BY <1>2, JobFacts DEF Vectors, StepType
<1>4. \A t \in Thread : /\ Holding(t)' => Holding(t) /\ job'[t] = job[t] /\ copy'[t] = copy[t]
                        /\ Holding(t) /\ ~Holding(t)' => job[t].file \in hurt'
                        /\ ~Holding(t)' => copy'[t] = Empty
  BY DEF TypeInv, CopyType, Kept, Left, Resumes, Holding
<1>5. CopyType'
  <2>1. \A t \in Thread : copy'[t] \in IF Holding(t)' THEN Content(job'[t].file) ELSE {Empty}
    BY <1>4 DEF TypeInv, CopyType
  <2>2. \A t \in Thread : copy'[t] \in Contents
    BY <1>4, Kinds DEF TypeInv, CopyType
  <2>3. QED
    BY <2>1, <2>2 DEF CopyType, Vectors
<1>6. Single'
  <2> SUFFICES ASSUME NEW f \in Files \ hurt'
               PROVE  /\ \A t, u \in Thread : HasFile(t, f)' /\ HasFile(u, f)' => t = u
                      /\ \A t \in Thread : HasFile(t, f)' => copy'[t] = want'[f]
                      /\ Closed(f)' => file'[f] = want'[f]
    BY DEF Single
  <2>1. \A t \in Thread : HasFile(t, f)' <=> HasFile(t, f)
    BY <1>4 DEF HasFile, Holding, TypeInv
  <2>2. Closed(f)' => Closed(f)
    BY <2>1 DEF Closed, HasFile
  <2>3. QED
    BY <1>4, <2>1, <2>2 DEF Single, HasFile
<1>7. QED
  BY <1>1, <1>3, <1>5, <1>6

Quiet == {"write", "trunc", "idle"}

\* lora_pkt_fwd goes on as it was.
LEMMA StaysTuned ==
    ASSUME Tuned, hurt \subseteq hurt', scripts \subseteq scripts', uses'["fwd"] = uses["fwd"],
           want'["global_conf"].radio = want["global_conf"].radio,
           step'["fwd"] \in Quiet => step["fwd"] \in Quiet,
           OnItsWay("pc") => OnItsWay("pc")', OnItsWay("sx") => OnItsWay("sx")'
    PROVE  Tuned'
BY DEF Tuned, Quiet

\* lora_pkt_fwd is started again, and will read the file.
LEMMA TunedLater == ASSUME step'["fwd"] \notin Quiet PROVE Tuned'
BY DEF Tuned, Quiet

-----------------------------------------------------------------------------
(* The steps of the commands: the thread was at no file, and is at none.   *)

LEMMA Beginning ==
    ASSUME Inv, UNCHANGED <<file, copy, uses, want, hurt>>, scripts \subseteq scripts',
           NEW t \in Thread, ~Holding(t), t # "fwd" \/ step'[t] \notin Quiet,
           step' = [step EXCEPT ![t] = step'[t]], step'[t] \in Steps,
           step'[t] \notin {"open", "kill", "write", "trunc"},
           step[t] \notin {"restart", "down"} \/ t \notin {"pc", "sx"} \/ "fwd" \in scripts',
           job' = [job EXCEPT ![t] = job'[t]], job'[t] \in JobsOf(t),
           step'[t] \in Busy => job'[t] # Nothing,
           val' = [val EXCEPT ![t] = val'[t]], val'[t] \in Value
    PROVE  FilesType' /\ StepType' /\ CopyType' /\ Single' /\ Tuned'
<1> USE DEF Inv, TypeInv
<1>1. Vectors
  BY DEF Vectors, StepType, CopyType
<1>2. \A u \in Thread : Kept(u) \/ Left(u)
  <2>1. Left(t)
    BY DEF Left, Holding, CopyType, StepType
  <2>2. \A u \in Thread \ {t} : Kept(u)
    BY DEF Kept, StepType
  <2>3. QED
    BY <2>1, <2>2
<1>3. hurt' \subseteq Files
  BY DEF OtherType
<1>4. Tuned'
  <2>1. CASE t = "fwd"
    BY <2>1, TunedLater
  <2>2. CASE "fwd" \in scripts'
    BY <2>2 DEF Tuned
  <2>3. CASE t # "fwd" /\ "fwd" \notin scripts'
    <3>1. \A u \in {"pc", "sx"} : OnItsWay(u) => OnItsWay(u)'
      BY <2>3 DEF OnItsWay, StepType, Thread, Holding
    <3>2. step'["fwd"] = step["fwd"]
      BY <2>3 DEF StepType, Thread
    <3>3. QED
      BY <3>1, <3>2, StaysTuned
  <2>4. QED
    BY <2>1, <2>2, <2>3
<1>5. QED
  BY <1>1, <1>2, <1>3, <1>4, Quietly

LEMMA More == ASSUME TypeInv, cmds < MaxCmds, cmds' = cmds + 1
              PROVE  cmds' \in 0..MaxCmds /\ cmds' \in Value
BY ConfigAssumption DEF TypeInv, OtherType, Value, ConfigAssumption

LEMMA PCInv == Inv /\ PC_Configuration => Inv'
<1> SUFFICES ASSUME Inv, PC_Configuration PROVE Inv'
  OBVIOUS
<1>1. PICK j \in JobsOf("pc"), v \in Value : Begin("pc", "parse", j, v) /\ j # Nothing
  BY More, Kinds, JobRecords DEF PC_Configuration, JobsOf, Job, Inv
<1>2. FilesType' /\ StepType' /\ CopyType' /\ Single' /\ Tuned'
  BY <1>1, Beginning DEF PC_Configuration, Begin, To, Holding, Thread, Steps, Busy, Inv, TypeInv, StepType
<1>3. OtherType'
  BY <1>1, More DEF PC_Configuration, Begin, Inv, TypeInv, OtherType
<1>4. QED
  BY <1>2, <1>3 DEF Inv, TypeInv

LEMMA HandlerInv == Inv /\ Handle_Message_Type => Inv'
<1> SUFFICES ASSUME Inv, Handle_Message_Type PROVE Inv'
  OBVIOUS
<1>1. PICK s \in {"fetch", "parse"}, j \in JobsOf("handler"), v \in Value :
        Begin("handler", s, j, v) /\ j # Nothing
  BY More, Kinds, JobRecords DEF Handle_Message_Type, Commanded, FetchFirmware, JobsOf, Job, Inv
<1>2. FilesType' /\ StepType' /\ CopyType' /\ Single' /\ Tuned'
  BY <1>1, Beginning
     DEF Handle_Message_Type, Commanded, Begin, To, Holding, Thread, Steps, Busy, Inv, TypeInv, StepType
<1>3. OtherType'
  BY <1>1, More DEF Handle_Message_Type, Commanded, Begin, Inv, TypeInv, OtherType
<1>4. QED
  BY <1>2, <1>3 DEF Inv, TypeInv

LEMMA FirmwareInv == Inv /\ Compute_file_md5 => Inv'
<1> SUFFICES ASSUME Inv, Compute_file_md5 PROVE Inv'
  OBVIOUS
<1>1. job["handler"] \in JobsOf("handler") \ {Nothing} /\ Nothing \in JobsOf("handler")
      /\ val["handler"] \in Value
  BY DEF Compute_file_md5, Inv, TypeInv, StepType, Thread, Busy, JobsOf
<1>2. FilesType' /\ StepType' /\ CopyType' /\ Single' /\ Tuned'
  BY <1>1, Beginning, Kinds
     DEF Compute_file_md5, UpgradeFails, Done, To, Holding, Thread, Steps, Busy, Inv, TypeInv, StepType
<1>3. OtherType'
  BY DEF Compute_file_md5, Inv, TypeInv, OtherType
<1>4. QED
  BY <1>2, <1>3 DEF Inv, TypeInv

LEMMA AskInv == Inv /\ ServerConfSX1301 => Inv'
<1> SUFFICES ASSUME Inv, ServerConfSX1301 PROVE Inv'
  OBVIOUS
<1>1. job["handler"] \in JobsOf("handler") /\ val["handler"] \in Value
  BY DEF Inv, TypeInv, StepType, Thread
<1>2. FilesType' /\ StepType' /\ CopyType' /\ Single' /\ Tuned'
  BY <1>1, Beginning
     DEF ServerConfSX1301, Commanded, To, Holding, Thread, Steps, Busy, Inv, TypeInv, StepType
<1>3. OtherType'
  BY More, Kinds DEF ServerConfSX1301, Commanded, Inv, TypeInv, OtherType
<1>4. QED
  BY <1>2, <1>3 DEF Inv, TypeInv

LEMMA AskedInv == Inv /\ ThreadHandleSx1301Task => Inv'
<1> SUFFICES ASSUME Inv, ThreadHandleSx1301Task PROVE Inv'
  OBVIOUS
<1>1. ack_write_sx1301 \in JobsOf("sx") \ {Nothing} /\ asked \in Value
  BY JobRecords DEF JobsOf, Job, Inv, TypeInv, OtherType
<1>2. FilesType' /\ StepType' /\ CopyType' /\ Single' /\ Tuned'
  BY <1>1, Beginning
     DEF ThreadHandleSx1301Task, Begin, To, Holding, Thread, Steps, Busy, Inv, TypeInv, StepType
<1>3. OtherType'
  BY Kinds DEF ThreadHandleSx1301Task, Begin, Inv, TypeInv, OtherType
<1>4. QED
  BY <1>2, <1>3 DEF Inv, TypeInv

LEMMA StartFwdInv == Inv /\ StartFwd => Inv'
<1> SUFFICES ASSUME Inv, StartFwd PROVE Inv'
  OBVIOUS
<1>1. parse_SX1301_configuration \in JobsOf("fwd") \ {Nothing} /\ val["fwd"] \in Value
  BY JobRecords DEF JobsOf, Job, Inv, TypeInv, StepType, Thread
<1>2. FilesType' /\ StepType' /\ CopyType' /\ Single' /\ Tuned'
  BY <1>1, Beginning
     DEF StartFwd, To, Holding, Thread, Steps, Quiet, Inv, TypeInv, StepType
<1>3. OtherType'
  BY DEF StartFwd, Inv, TypeInv, OtherType
<1>4. QED
  BY <1>2, <1>3 DEF Inv, TypeInv

LEMMA ReconnectInv == ASSUME NEW t \in Thread, Inv, Reconnect(t) PROVE Inv'
<1>1. Tcp_Reconnection \in JobsOf("conn") \ {Nothing} /\ Thread_Tcp_Connect \in JobsOf("comm") \ {Nothing}
      /\ val[t] \in Value
  BY JobRecords DEF JobsOf, Job, Inv, TypeInv, StepType, Thread
<1>2. FilesType' /\ StepType' /\ CopyType' /\ Single' /\ Tuned'
  BY <1>1, Beginning
     DEF Reconnect, To, Holding, Thread, Steps, Inv, TypeInv, StepType
<1>3. OtherType'
  BY More DEF Reconnect, Inv, TypeInv, OtherType
<1>4. QED
  BY <1>2, <1>3 DEF Inv, TypeInv

-----------------------------------------------------------------------------
(* Restarts.                                                               *)

LEMMA HurtFiles == ASSUME TypeInv, NEW ts \in SUBSET Thread PROVE Hurt(ts) \subseteq Files
<1> SUFFICES ASSUME NEW t \in ts, Holding(t) PROVE job[t].file \in Files
  BY DEF Hurt
<1>1. job[t] \in JobsOf(t) \ {Nothing}
  BY DEF TypeInv, StepType, Holding, Busy
<1>2. QED
  BY <1>1, JobFacts

\* What a kill and restart does to one of the threads killed, to one that goes
\* on, and to the others.
LEMMA Restarting ==
    ASSUME Inv, NEW ts \in SUBSET Thread, NEW start, NEW jobs, Become(ts, start, jobs),
           UNCHANGED <<file, want>>,
           \A t \in DOMAIN start : start[t] \in Steps,
           \A t \in DOMAIN jobs : jobs[t] \in JobsOf(t),
           \A t \in ts : t \in DOMAIN start =>
                /\ start[t] \in {"idle", "parse"}
                /\ start[t] = "parse" => t \in DOMAIN jobs /\ jobs[t] # Nothing,
           \A t \in Thread \ ts :
                \/ t \notin DOMAIN start \union DOMAIN jobs
                \/ t \in DOMAIN start \ DOMAIN jobs /\ step[t] = "kill" /\ start[t] = "write"
    PROVE  FilesType' /\ StepType' /\ CopyType' /\ Single' /\ hurt' \subseteq Files
<1> USE DEF Inv, TypeInv
<1>1. hurt' \subseteq Files /\ hurt \subseteq hurt'
  BY HurtFiles DEF Become, OtherType
<1>2. Vectors
  <2>1. step' \in [Thread -> Steps]
    BY DEF Become, StepType, Steps
  <2>2. val' \in [Thread -> Value]
    BY Kinds DEF Become, StepType
  <2>3. QED
    BY <2>1, <2>2 DEF Become, Vectors
<1>3. \A t \in Thread : Nothing \in JobsOf(t)
  BY DEF JobsOf
<1>4. ASSUME NEW t \in ts PROVE Left(t)
  <2>1. ~Holding(t)' /\ copy'[t] = Empty
    BY DEF Become, Holding
  <2>2. job'[t] \in JobsOf(t) /\ (step'[t] \in Busy => job'[t] # Nothing)
    BY <1>3 DEF Become, Busy
  <2>3. Holding(t) => job[t].file \in hurt'
    BY DEF Become, Hurt
  <2>4. QED
    BY <2>1, <2>2, <2>3 DEF Left
<1>5. ASSUME NEW t \in Thread \ ts PROVE Kept(t) \/ Left(t) \/ Resumes(t)
  <2>1. copy'[t] = copy[t]
    BY DEF Become
  <2>2. CASE t \notin DOMAIN start \union DOMAIN jobs
    BY <2>1, <2>2 DEF Become, Kept
  <2>3. CASE t \in DOMAIN start \ DOMAIN jobs /\ step[t] = "kill" /\ start[t] = "write"
    BY <2>1, <2>3 DEF Become, Resumes
  <2>4. QED
    BY <2>2, <2>3
<1>6. QED
  BY <1>1, <1>2, <1>4, <1>5, Quietly

LEMMA ExitInv ==
    ASSUME NEW t \in Thread, Inv, Exit(ProcessOf(t)) PROVE Inv'
<1> DEFINE p == ProcessOf(t)
<1>1. p \in {"conf", "server", "comm", "fwd"} /\ ThreadsOf(p) \in SUBSET Thread
  BY Processes DEF ThreadsOf, Thread
<1>2. FilesType' /\ StepType' /\ CopyType' /\ Single' /\ hurt' \subseteq Files
  <2>1. DOMAIN << >> = {}
    OBVIOUS
  <2>2. QED
    BY <1>1, <2>1, Restarting DEF Exit
<1>3. Tuned'
  <2>1. CASE p = "fwd"
    <3>1. step'["fwd"] = "down"
      BY <2>1 DEF Exit, Become, ThreadsOf, Thread
    <3>2. QED
      BY <3>1, TunedLater DEF Quiet
  <2>2. CASE p # "fwd"
    <3>1. step'["fwd"] = step["fwd"]
      BY <1>1, <2>2 DEF Exit, Become, ThreadsOf, Thread
    <3>2. \A u \in {"pc", "sx"} : OnItsWay(u) => OnItsWay(u)'
      BY <1>1, <2>2 DEF Exit, Become, ThreadsOf, Thread, OnItsWay
    <3>3. QED
      BY <3>1, <3>2, StaysTuned DEF Exit, Become, Inv
  <2>3. QED
    BY <2>1, <2>2
<1>4. OtherType'
  BY <1>2, Kinds DEF Exit, Inv, TypeInv, OtherType
<1>5. QED
  BY <1>2, <1>3, <1>4 DEF Inv, TypeInv

LEMMA RestartServerInv == Inv /\ RestartServer => Inv'
<1> SUFFICES ASSUME Inv, RestartServer PROVE Inv'
  OBVIOUS
<1> DEFINE start == [handler |-> "idle", conn |-> "parse", pc |-> "write"]
<1>1. DOMAIN start = {"handler", "conn", "pc"} /\ DOMAIN Connecting = {"handler", "conn"}
  BY DEF Connecting
<1>2. Nothing \in JobsOf("handler") /\ Tcp_Reconnection \in JobsOf("conn") \ {Nothing}
  BY JobRecords DEF JobsOf, Job
<1>3. FilesType' /\ StepType' /\ CopyType' /\ Single' /\ hurt' \subseteq Files
  <2>1. /\ start["handler"] = "idle" /\ start["conn"] = "parse" /\ start["pc"] = "write"
        /\ Connecting["handler"] = Nothing /\ Connecting["conn"] = Tcp_Reconnection
    BY DEF Connecting
  <2>2. /\ Become({"handler", "conn"}, start, Connecting) /\ {"handler", "conn"} \in SUBSET Thread
        /\ step["pc"] = "kill" /\ UNCHANGED <<file, want>>
    BY DEF RestartServer, Thread
  <2> HIDE DEF start
  <2>3. QED
    BY <1>1, <1>2, <2>1, <2>2, Restarting DEF Steps
<1>4. Tuned'
  <2>1. step'["fwd"] = step["fwd"]
    BY <1>1 DEF RestartServer, Become, Thread
  <2>2. \A u \in {"pc", "sx"} : OnItsWay(u) => OnItsWay(u)'
    BY <1>1 DEF RestartServer, Become, Thread, OnItsWay
  <2>3. QED
    BY <2>1, <2>2, StaysTuned DEF RestartServer, Become, Inv
<1>5. OtherType'
  BY <1>3 DEF RestartServer, Inv, TypeInv, OtherType
<1>6. QED
  BY <1>3, <1>4, <1>5 DEF Inv, TypeInv

LEMMA RestartCommunicateInv == Inv /\ RestartCommunicate => Inv'
<1> SUFFICES ASSUME Inv, RestartCommunicate PROVE Inv'
  OBVIOUS
<1>1. /\ step["handler"] = "kill" /\ step' = [step EXCEPT !["handler"] = "write"]
      /\ scripts' = scripts \union {"comm"} /\ "handler" \in Thread
      /\ UNCHANGED <<file, job, copy, val, uses, asked, known, started, want, hurt, cmds>>
  BY DEF RestartCommunicate, To, ForkScript, Thread
<1>2. FilesType' /\ StepType' /\ CopyType' /\ Single'
  <2>1. Vectors
    BY <1>1 DEF Vectors, Inv, TypeInv, StepType, CopyType, Steps
  <2>2. Resumes("handler") /\ \A t \in Thread \ {"handler"} : Kept(t)
    BY <1>1 DEF Resumes, Kept, Inv, TypeInv, StepType
  <2>3. QED
    BY <1>1, <2>1, <2>2, Quietly DEF Inv, TypeInv, OtherType
<1>3. Tuned'
  <2>1. \A u \in {"pc", "sx", "fwd"} : step'[u] = step[u]
    BY <1>1 DEF Inv, TypeInv, StepType, Thread
  <2>2. QED
    BY <1>1, <2>1, StaysTuned DEF OnItsWay, Inv
<1>4. OtherType'
  BY <1>1 DEF Inv, TypeInv, OtherType
<1>5. QED
  BY <1>2, <1>3, <1>4 DEF Inv, TypeInv

LEMMA StartCommunicateInv == Inv /\ StartCommunicate => Inv'
<1> SUFFICES ASSUME Inv, StartCommunicate PROVE Inv'
  OBVIOUS
<1>1. Nothing \in JobsOf("conn")
  BY DEF JobsOf
<1>2. FilesType' /\ StepType' /\ CopyType' /\ Single' /\ Tuned'
  BY <1>1, Beginning, Kinds
     DEF StartCommunicate, ForkScript, Done, To, Holding, Thread, Steps, Busy, Inv, TypeInv, StepType
<1>3. OtherType'
  BY DEF StartCommunicate, ForkScript, Inv, TypeInv, OtherType
<1>4. QED
  BY <1>2, <1>3 DEF Inv, TypeInv

LEMMA RestartFwdInv == ASSUME NEW t \in Thread, Inv, RestartFwd(t) PROVE Inv'
<1>1. Nothing \in JobsOf(t)
  BY DEF JobsOf
<1>2. FilesType' /\ StepType' /\ CopyType' /\ Single' /\ Tuned'
  BY <1>1, Beginning, Kinds
     DEF RestartFwd, ForkScript, Done, To, Holding, Thread, Steps, Busy, Inv, TypeInv, StepType
<1>3. OtherType'
  BY DEF RestartFwd, ForkScript, Inv, TypeInv, OtherType
<1>4. QED
  BY <1>2, <1>3 DEF Inv, TypeInv

LEMMA CommunicateScriptInv == Inv /\ restart_lora_pkt_communicate => Inv'
<1> SUFFICES ASSUME Inv, restart_lora_pkt_communicate PROVE Inv'
  OBVIOUS
<1> DEFINE start == [comm |-> "parse"]
<1> DEFINE jobs == [comm |-> Thread_Tcp_Connect]
<1>1. DOMAIN start = {"comm"} /\ DOMAIN jobs = {"comm"}
  OBVIOUS
<1>2. Thread_Tcp_Connect \in JobsOf("comm") \ {Nothing}
  BY JobRecords DEF JobsOf, Job
<1>3. FilesType' /\ StepType' /\ CopyType' /\ Single' /\ hurt' \subseteq Files
  <2>1. /\ start["comm"] = "parse" /\ jobs["comm"] = Thread_Tcp_Connect
        /\ Become({"comm"}, start, jobs) /\ {"comm"} \in SUBSET Thread
    BY DEF restart_lora_pkt_communicate, Thread
  <2> HIDE DEF start, jobs
  <2>2. QED
    BY <1>1, <1>2, <2>1, Restarting DEF restart_lora_pkt_communicate, Steps
<1>4. Tuned'
  <2>1. \A u \in {"pc", "sx", "fwd"} : step'[u] = step[u] /\ job'[u] = job[u]
    BY <1>1 DEF restart_lora_pkt_communicate, Become, Thread
  <2>2. hurt \subseteq hurt' /\ UNCHANGED <<uses, want>>
        /\ ("fwd" \in scripts' <=> "fwd" \in scripts)
    BY DEF restart_lora_pkt_communicate, Become
  <2>3. QED
    BY <2>1, <2>2 DEF Tuned, OnItsWay, Inv
<1>5. OtherType'
  BY <1>3 DEF restart_lora_pkt_communicate, Inv, TypeInv, OtherType
<1>6. QED
  BY <1>3, <1>4, <1>5 DEF Inv, TypeInv

\* The script kills lora_pkt_fwd, which will read the file when it starts.
LEMMA FwdScriptInv == Inv /\ restart_lora_pkt_fwd => Inv'
<1> SUFFICES ASSUME Inv, restart_lora_pkt_fwd PROVE Inv'
  OBVIOUS
<1>1. Become({"fwd"}, << >>, << >>) /\ {"fwd"} \in SUBSET Thread /\ DOMAIN << >> = {}
  BY DEF restart_lora_pkt_fwd, Killed, Thread
<1>2. FilesType' /\ StepType' /\ CopyType' /\ Single' /\ hurt' \subseteq Files
  BY <1>1, Restarting DEF restart_lora_pkt_fwd
<1>3. step'["fwd"] = "down"
  BY <1>1 DEF Become, Thread
<1>4. Tuned'
  BY <1>3, TunedLater DEF Quiet
<1>5. OtherType'
  BY <1>2 DEF restart_lora_pkt_fwd, Inv, TypeInv, OtherType
<1>6. QED
  BY <1>2, <1>4, <1>5 DEF Inv, TypeInv

LEMMA New ==
    /\ DOMAIN NewConf = {"pc", "sx", "handler", "conn"} /\ DOMAIN NewJobs = DOMAIN NewConf
    /\ DOMAIN NewServer = {"handler", "conn"} /\ DOMAIN Connecting = DOMAIN NewServer
    /\ \A t \in DOMAIN NewConf : NewConf[t] = IF t = "conn" THEN "parse" ELSE "idle"
    /\ \A t \in DOMAIN NewServer : NewServer[t] = NewConf[t] /\ Connecting[t] = NewJobs[t]
    /\ \A t \in DOMAIN NewConf : NewJobs[t] \in JobsOf(t)
    /\ NewJobs.conn # Nothing
BY JobRecords DEF NewConf, NewJobs, NewServer, Connecting, JobsOf, Job

\* lora_pkt_fwd is killed with all the others, by a reboot or the watchdog.
LEMMA AllNew ==
    ASSUME Inv, NEW ts \in SUBSET Thread, Become(ts, NewConf, NewJobs), Thread \ ts \subseteq {"comm"},
           UNCHANGED <<file, want>>
    PROVE  FilesType' /\ StepType' /\ CopyType' /\ Single' /\ hurt' \subseteq Files /\ Tuned'
<1>1. DOMAIN NewConf \subseteq ts
  BY New DEF Thread
<1>2. FilesType' /\ StepType' /\ CopyType' /\ Single' /\ hurt' \subseteq Files
  BY <1>1, New, Restarting DEF Steps
<1>3. step'["fwd"] = "down"
  BY New DEF Become, Thread
<1>4. QED
  BY <1>2, <1>3, TunedLater DEF Quiet

LEMMA RebootInv == Inv /\ Reboot => Inv'
<1> SUFFICES ASSUME Inv, Reboot PROVE Inv'
  OBVIOUS
<1>1. FilesType' /\ StepType' /\ CopyType' /\ Single' /\ hurt' \subseteq Files /\ Tuned'
  BY AllNew DEF Reboot, Booted
<1>2. OtherType'
  BY <1>1, Kinds DEF Reboot, Booted, Inv, TypeInv, OtherType
<1>3. QED
  BY <1>1, <1>2 DEF Inv, TypeInv

LEMMA WatchdogInv == Inv /\ Watchdog => Inv'
<1> SUFFICES ASSUME Inv, Watchdog PROVE Inv'
  OBVIOUS
<1>1. CASE /\ Become(Thread \ {"comm"}, NewConf, NewJobs) /\ asked' = 0 /\ known' = TRUE
           /\ UNCHANGED scripts
  <2>1. FilesType' /\ StepType' /\ CopyType' /\ Single' /\ hurt' \subseteq Files /\ Tuned'
    BY <1>1, AllNew DEF Watchdog
  <2>2. OtherType'
    BY <1>1, <2>1, Kinds DEF Watchdog, Inv, TypeInv, OtherType
  <2>3. QED
    BY <2>1, <2>2 DEF Inv, TypeInv
<1>2. CASE /\ Become({"handler", "conn"}, NewServer, Connecting) /\ known' = FALSE
           /\ UNCHANGED <<asked, scripts>>
  <2>1. FilesType' /\ StepType' /\ CopyType' /\ Single' /\ hurt' \subseteq Files
    <3>1. {"handler", "conn"} \in SUBSET Thread
      BY DEF Thread
    <3>2. QED
      BY <1>2, <3>1, New, Restarting DEF Watchdog, Steps
  <2>2. Tuned'
    <3>1. step'["fwd"] = step["fwd"]
      BY <1>2, New DEF Become, Thread
    <3>2. \A u \in {"pc", "sx"} : OnItsWay(u) => OnItsWay(u)'
      BY <1>2, New DEF Become, Thread, OnItsWay
    <3>3. QED
      BY <1>2, <3>1, <3>2, StaysTuned DEF Watchdog, Become, Inv
  <2>3. OtherType'
    BY <1>2, <2>1 DEF Watchdog, Inv, TypeInv, OtherType
  <2>4. QED
    BY <2>1, <2>2, <2>3 DEF Inv, TypeInv
<1>3. QED
  BY <1>1, <1>2 DEF Watchdog

-----------------------------------------------------------------------------
(* The steps of a job.                                                     *)

\* What is known of a thread that is at a file.
LEMMA AtFile ==
    ASSUME TypeInv, NEW t \in Thread, step[t] \in Busy
    PROVE  /\ job[t] \in JobsOf(t) /\ job[t] # Nothing /\ job[t] \in Jobs
           /\ job[t].file \in Files /\ val[t] \in Value
           /\ Holding(t) => copy[t] \in Content(job[t].file)
BY JobFacts DEF TypeInv, StepType, CopyType

LEMMA ParseInv == ASSUME NEW t \in Thread, Inv, Parse(t) PROVE Inv'
<1> DEFINE f == job[t].file
<1>1. /\ f \in Files /\ file[f] \in Content(f) /\ ~Holding(t)
      /\ job[t] # Nothing
  BY AtFile DEF Parse, Busy, Holding, Inv, TypeInv, FilesType
<1>2. step' = [step EXCEPT ![t] = "open"] /\ UNCHANGED <<file, job, want>>
      /\ copy' = [copy EXCEPT ![t] = file[f]] /\ hurt' \subseteq Files /\ hurt \subseteq hurt'
  BY <1>1 DEF Parse, To, Inv, TypeInv, OtherType
<1>3. FilesType' /\ OtherType'
  BY <1>2 DEF Parse, Inv, TypeInv, FilesType, OtherType
<1>4. StepType'
  BY <1>1, <1>2 DEF Parse, Inv, TypeInv, StepType, Steps, Busy
<1>5. /\ Holding(t)' /\ copy'[t] = file[f]
      /\ \A u \in Thread \ {t} : (Holding(u)' <=> Holding(u)) /\ copy'[u] = copy[u]
  BY <1>2 DEF Holding, Inv, TypeInv, StepType, CopyType
<1>6. CopyType'
  <2>1. copy' \in [Thread -> Contents]
    BY <1>1, <1>2, Kinds DEF Inv, TypeInv, CopyType
  <2>2. \A u \in Thread : copy'[u] \in IF Holding(u)' THEN Content(job'[u].file) ELSE {Empty}
    BY <1>1, <1>2, <1>5 DEF Inv, TypeInv, CopyType
  <2>3. QED
    BY <2>1, <2>2 DEF CopyType
<1>7. Single'
  <2> SUFFICES ASSUME NEW g \in Files \ hurt'
               PROVE  /\ \A u, v \in Thread : HasFile(u, g)' /\ HasFile(v, g)' => u = v
                      /\ \A u \in Thread : HasFile(u, g)' => copy'[u] = want'[g]
                      /\ Closed(g)' => file'[g] = want'[g]
    BY DEF Single
  <2>1. \A u \in Thread \ {t} : HasFile(u, g)' <=> HasFile(u, g)
    BY <1>2, <1>5 DEF HasFile
  <2>2. HasFile(t, g)' <=> g = f
    BY <1>2, <1>5 DEF HasFile
  <2>3. CASE g = f
    <3>1. Closed(f)
      BY <2>3, <1>1 DEF Parse
    <3>2. \A u \in Thread : ~HasFile(u, f)
      BY <3>1 DEF Closed, HasFile
    <3>3. file[f] = want[f]
      BY <3>1, <1>2, <2>3 DEF Inv, Single
    <3>4. ~Closed(f)'
      BY <1>2, <1>5 DEF Closed
    <3>5. QED
      BY <2>1, <2>3, <3>2, <3>3, <3>4, <1>2, <1>5
  <2>4. CASE g # f
    <3>1. Closed(g)' => Closed(g)
      BY <1>1, <1>2, <1>5 DEF Closed
    <3>2. QED
      BY <2>1, <2>2, <2>4, <3>1, <1>2, <1>5 DEF Inv, Single, HasFile
  <2>5. QED
    BY <2>3, <2>4
<1>8. Tuned'
  <2>1. \A u \in {"pc", "sx"} : OnItsWay(u) => OnItsWay(u)'
    BY <1>2 DEF Parse, OnItsWay, Thread, Inv, TypeInv, StepType
  <2>2. step'["fwd"] \in Quiet => step["fwd"] \in Quiet
    BY <1>2 DEF Quiet, Thread, Inv, TypeInv, StepType
  <2>3. QED
    BY <2>1, <2>2, <1>2, StaysTuned DEF Parse, Inv
<1>9. QED
  BY <1>3, <1>4, <1>6, <1>7, <1>8 DEF Inv, TypeInv

LEMMA ParseFailsInv == ASSUME NEW t \in Thread, Inv, ParseFails(t) PROVE Inv'
<1>1. CASE job[t] # ack_write_sx1301
  BY <1>1, ExitInv DEF ParseFails
<1>2. CASE job[t] = ack_write_sx1301
  <2>1. t \in {"pc", "sx"} /\ Nothing \in JobsOf(t) /\ ~Holding(t)
    <3>1. job[t] \in JobsOf(t)
      BY DEF Inv, TypeInv, StepType
    <3>2. job[t].file = "global_conf" /\ job[t].sets = "radio"
      BY <1>2, JobRecords DEF Job
    <3>3. t \in {"pc", "sx"}
      BY <3>1, <3>2, JobFacts
    <3>4. QED
      BY <3>3 DEF JobsOf, ParseFails, Holding
  <2>2. /\ job' = [job EXCEPT ![t] = Nothing] /\ val' = [val EXCEPT ![t] = 0]
        /\ step' = [u \in Thread |-> IF u = t /\ t = "sx" THEN "restart"
                                     ELSE IF u \in Told(t) THEN "idle" ELSE step[u]]
        /\ UNCHANGED <<file, copy, uses, asked, known, started, scripts, want, hurt, cmds>>
    BY <1>2 DEF ParseFails
  <2>3. \A u \in Thread \ {t} : \/ step'[u] = step[u]
                                \/ u = "handler" /\ step[u] = "wait" /\ step'[u] = "idle"
    BY <2>1, <2>2 DEF Told, Answered
  <2>4. step'[t] \in {"restart", "idle"}
    BY <2>2 DEF Told, Answered
  <2>5. Vectors
    BY <2>2, Kinds DEF Vectors, Inv, TypeInv, StepType, CopyType, Steps
  <2>6. \A u \in Thread : Kept(u) \/ Left(u)
    <3>1. Left(t)
      BY <2>1, <2>2, <2>4 DEF Left, Holding, Busy, Inv, TypeInv, StepType, CopyType
    <3>2. ASSUME NEW u \in Thread \ {t}, step'[u] = step[u] PROVE Kept(u)
      BY <2>2, <3>2 DEF Kept, Inv, TypeInv, StepType
    <3>3. ASSUME NEW u \in Thread \ {t}, step[u] = "wait", step'[u] = "idle" PROVE Left(u)
      BY <2>2, <3>3 DEF Left, Holding, Busy, Inv, TypeInv, StepType, CopyType
    <3>4. QED
      BY <2>3, <3>1, <3>2, <3>3
  <2>7. FilesType' /\ StepType' /\ CopyType' /\ Single'
    BY <2>2, <2>5, <2>6, Quietly DEF Inv, TypeInv, OtherType
  <2>8. Tuned'
    <3>1. \A u \in {"pc", "sx"} : OnItsWay(u) => OnItsWay(u)'
      BY <2>1, <2>2, <2>3 DEF ParseFails, OnItsWay, Thread, Inv, TypeInv, StepType
    <3>2. step'["fwd"] = step["fwd"]
      BY <2>1, <2>3 DEF Thread
    <3>3. QED
      BY <2>2, <3>1, <3>2, StaysTuned DEF Inv
  <2>9. OtherType'
    BY <2>2 DEF Inv, TypeInv, OtherType
  <2>10. QED
    BY <2>7, <2>8, <2>9 DEF Inv, TypeInv
<1>3. QED
  BY <1>1, <1>2

\* The next steps are made by one user of a file, which goes on having it.
LEMMA KeepsFile ==
    ASSUME TypeInv, NEW t \in Thread, step[t] \in {"open", "write"},
           step' = [step EXCEPT ![t] = step'[t]], step'[t] \in {"kill", "write", "trunc"},
           UNCHANGED <<job, val>>, copy' = [copy EXCEPT ![t] = copy'[t]],
           copy'[t] \in Content(job[t].file)
    PROVE  StepType' /\ CopyType' /\ \A u \in Thread : Holding(u)' <=> Holding(u)
<1>1. job[t] # Nothing /\ job[t].file \in Files /\ Holding(t) /\ Holding(t)'
  BY AtFile DEF Busy, Holding
<1>2. StepType'
  BY <1>1 DEF TypeInv, StepType, Steps, Busy
<1>3. \A u \in Thread \ {t} : (Holding(u)' <=> Holding(u)) /\ copy'[u] = copy[u]
  BY DEF Holding, TypeInv, StepType, CopyType
<1>4. CopyType'
  <2>1. copy' \in [Thread -> Contents]
    BY <1>1, Kinds DEF TypeInv, CopyType
  <2>2. \A u \in Thread : copy'[u] \in IF Holding(u)' THEN Content(job'[u].file) ELSE {Empty}
    BY <1>1, <1>3 DEF TypeInv, CopyType
  <2>3. QED
    BY <2>1, <2>2 DEF CopyType
<1>5. QED
  BY <1>1, <1>2, <1>3, <1>4

LEMMA UseInv == ASSUME NEW t \in Thread, Inv, Use(t) PROVE Inv'
<1> DEFINE f == job[t].file
<1> DEFINE j == job[t]
<1>1. /\ j \in JobsOf(t) /\ j # Nothing /\ f \in Files /\ val[t] \in Value
      /\ Holding(t) /\ copy[t] \in Content(f)
  BY AtFile DEF Use, Busy, Holding, Inv
<1>2. /\ step' = [step EXCEPT ![t] = step'[t]] /\ step'[t] \in {"kill", "write"}
      /\ UNCHANGED <<file, job, val, asked, known, started, scripts, hurt, cmds>>
      /\ copy' = [copy EXCEPT ![t] = Changed(t)] /\ step[t] = "open"
      /\ copy'[t] = Changed(t)
  BY DEF Use, To, Inv, TypeInv, StepType, CopyType
<1>3. Changed(t) \in Content(f)
  BY <1>1, FieldSet DEF Changed
<1>4. StepType' /\ CopyType' /\ \A u \in Thread : Holding(u)' <=> Holding(u)
  BY <1>2, <1>3, KeepsFile DEF Inv
<1>5. /\ want' \in [Files -> Contents] /\ \A g \in Files : want'[g] \in Content(g)
      /\ \A g \in Files \ {f} : want'[g] = want[g]
  <2>1. CASE j.sets = "none"
    BY <2>1 DEF Use, Inv, TypeInv, FilesType
  <2>2. CASE j.sets # "none"
    <3>1. [want[f] EXCEPT ![j.sets] = val[t]] \in Content(f)
      BY <1>1, FieldSet DEF Inv, TypeInv, FilesType
    <3>2. want' = [want EXCEPT ![f] = [want[f] EXCEPT ![j.sets] = val[t]]]
      BY <2>2 DEF Use
    <3>3. QED
      BY <1>1, <3>1, <3>2, Kinds DEF Inv, TypeInv, FilesType
  <2>3. QED
    BY <2>1, <2>2
<1>6. FilesType'
  BY <1>2, <1>5 DEF Inv, TypeInv, FilesType
<1>7. uses' \in [{"server", "comm", "fwd"} -> Value]
  <2>1. CASE j.takes = "none"
    BY <2>1 DEF Use, Inv, TypeInv, OtherType
  <2>2. CASE j.takes # "none"
    <3>1. copy[t][FieldFor(j.takes)] \in Value
      BY <1>1, <2>2, JobFacts DEF Content
    <3>2. QED
      BY <2>2, <3>1 DEF Use, Inv, TypeInv, OtherType
  <2>3. QED
    BY <2>1, <2>2
<1>8. OtherType'
  BY <1>2, <1>7 DEF Inv, TypeInv, OtherType
<1>9. Single'
  <2> SUFFICES ASSUME NEW g \in Files \ hurt
               PROVE  /\ \A u, v \in Thread : HasFile(u, g)' /\ HasFile(v, g)' => u = v
                      /\ \A u \in Thread : HasFile(u, g)' => copy'[u] = want'[g]
                      /\ Closed(g)' => file'[g] = want'[g]
    BY <1>2 DEF Single
  <2>1. \A u \in Thread : HasFile(u, g)' <=> HasFile(u, g)
    BY <1>2, <1>4 DEF HasFile
  <2>2. Closed(g)' <=> Closed(g)
    BY <1>2, <1>4 DEF Closed
  <2>3. \A u \in Thread \ {t} : copy'[u] = copy[u]
    BY <1>2 DEF Inv, TypeInv, CopyType
  <2>4. CASE g = f
    <3>1. HasFile(t, f)
      BY <1>1 DEF HasFile
    <3>2. ~Closed(f) /\ \A u \in Thread : HasFile(u, f) => u = t
      BY <1>1, <2>4, <3>1 DEF Closed, Inv, Single
    <3>3. copy[t] = want[f]
      BY <2>4, <3>1 DEF Inv, Single
    <3>4. Changed(t) = want'[f]
      BY <1>1, <3>3 DEF Changed, Use, Inv, TypeInv, FilesType
    <3>5. QED
      BY <1>2, <2>1, <2>2, <2>4, <3>2, <3>4
  <2>5. CASE g # f
    <3>1. ~HasFile(t, g) /\ want'[g] = want[g]
      BY <1>5, <2>5 DEF HasFile
    <3>2. QED
      BY <1>2, <2>1, <2>2, <2>3, <3>1 DEF Inv, Single
  <2>6. QED
    BY <2>4, <2>5
<1>10. Tuned'
  <2>1. \A u \in {"pc", "sx"} : OnItsWay(u) => OnItsWay(u)'
    BY <1>2 DEF OnItsWay, Thread, Inv, TypeInv, StepType
  <2>2. CASE t = "fwd"
    <3>1. f = "global_conf" /\ j.takes = "fwd" /\ j.sets = "none"
      BY <1>1, <2>2, JobFacts
    <3>2. SUFFICES ASSUME "global_conf" \notin hurt PROVE uses'["fwd"] = want'["global_conf"].radio
      BY <1>2 DEF Tuned
    <3>3. copy[t] = want["global_conf"]
      BY <1>1, <3>1, <3>2 DEF Inv, Single, HasFile
    <3>4. uses'["fwd"] = copy[t].radio /\ want' = want
      BY <3>1 DEF Use, FieldFor, Inv, TypeInv, OtherType
    <3>5. QED
      BY <3>3, <3>4
  <2>3. CASE t # "fwd" /\ f = "global_conf" /\ j.sets # "none"
    <3>1. t \in {"pc", "sx"} /\ j.then = "fwd" /\ j.first = "none"
      BY <1>1, <2>3, JobFacts
    <3>2. step'[t] = "write"
      BY <3>1 DEF Use, To, Inv, TypeInv, StepType
    <3>3. OnItsWay(t)'
      BY <1>2, <3>1, <3>2 DEF OnItsWay
    <3>4. QED
      BY <3>1, <3>3 DEF Tuned
  <2>4. CASE t # "fwd" /\ ~(f = "global_conf" /\ j.sets # "none")
    <3>1. want'["global_conf"] = want["global_conf"]
      BY <1>5, <2>4 DEF Use, Files
    <3>2. uses'["fwd"] = uses["fwd"]
      BY <1>1, <2>4, JobFacts DEF Use, Inv, TypeInv, OtherType
    <3>3. step'["fwd"] = step["fwd"]
      BY <1>2, <2>4 DEF Inv, TypeInv, StepType, Thread
    <3>4. QED
      BY <1>2, <2>1, <3>1, <3>2, <3>3, StaysTuned DEF Inv
  <2>5. QED
    BY <2>2, <2>3, <2>4
<1>11. QED
  BY <1>4, <1>6, <1>8, <1>9, <1>10 DEF Inv, TypeInv

LEMMA TruncateInv == ASSUME NEW t \in Thread, Inv, Truncate(t) PROVE Inv'
<1> DEFINE f == job[t].file
<1>1. f \in Files /\ Holding(t) /\ copy[t] \in Content(f)
  BY AtFile DEF Truncate, Busy, Holding, Inv
<1>2. /\ step' = [step EXCEPT ![t] = step'[t]] /\ step'[t] = "trunc" /\ step[t] = "write"
      /\ UNCHANGED <<job, copy, val, uses, asked, known, started, scripts, want, hurt, cmds>>
      /\ file' = [file EXCEPT ![f] = Empty]
  BY DEF Truncate, To, Inv, TypeInv, StepType
<1>3. StepType' /\ CopyType' /\ \A u \in Thread : Holding(u)' <=> Holding(u)
  <2>1. copy' = [copy EXCEPT ![t] = copy'[t]] /\ copy'[t] \in Content(f)
    BY <1>1, <1>2 DEF Inv, TypeInv, CopyType
  <2>2. QED
    BY <1>2, <2>1, KeepsFile DEF Inv
<1>4. FilesType' /\ OtherType'
  BY <1>2, Kinds DEF Inv, TypeInv, FilesType, OtherType
<1>5. Single'
  <2>1. \A u \in Thread, g \in Files : HasFile(u, g)' <=> HasFile(u, g)
    BY <1>2, <1>3 DEF HasFile
  <2>2. ~Closed(f)'
    BY <1>1, <1>2, <1>3 DEF Closed
  <2>3. \A g \in Files \ {f} : file'[g] = file[g] /\ (Closed(g)' <=> Closed(g))
    BY <1>2, <1>3 DEF Closed, Inv, TypeInv, FilesType
  <2>4. QED
    BY <1>2, <2>1, <2>2, <2>3 DEF Inv, Single
<1>6. Tuned'
  <2>1. \A u \in {"pc", "sx"} : OnItsWay(u) => OnItsWay(u)'
    BY <1>2 DEF OnItsWay, Thread, Inv, TypeInv, StepType
  <2>2. step'["fwd"] \in Quiet => step["fwd"] \in Quiet
    BY <1>2 DEF Quiet, Thread, Inv, TypeInv, StepType
  <2>3. QED
    BY <1>2, <2>1, <2>2, StaysTuned DEF Inv
<1>7. QED
  BY <1>3, <1>4, <1>5, <1>6 DEF Inv, TypeInv

\* Where a thread goes when it has written its copy.
LEMMA AfterWritten ==
    ASSUME NEW t \in Thread, Inv, Written(t)
    PROVE  /\ step' \in [Thread -> Steps] /\ val' \in [Thread -> Value]
           /\ job' \in [Thread -> Jobs] /\ \A u \in Thread \ {t} : job'[u] = job[u]
           /\ step'[t] \in {"idle", "restart", "reboot", "parse"}
           /\ job'[t] \in JobsOf(t) /\ (step'[t] \in Busy => job'[t] # Nothing)
           /\ \A u \in Thread \ {t} : \/ step'[u] = step[u]
                                      \/ u = "handler" /\ step[u] = "wait" /\ step'[u] = "idle"
           /\ job[t].then = "fwd" => step'[t] = "restart"
<1>1. /\ job[t] \in JobsOf(t) /\ job[t] # Nothing /\ job[t] \in Jobs
      /\ Nothing \in JobsOf(t) /\ Nothing \in Jobs
      /\ job \in [Thread -> Jobs] /\ step \in [Thread -> Steps] /\ val \in [Thread -> Value]
  BY AtFile DEF Written, Busy, Inv, TypeInv, StepType, JobsOf, Jobs
<1>2. CASE job[t].then = "fwd"
  <2>1. /\ step' = [u \in Thread |-> IF u = t THEN "restart"
                                     ELSE IF u \in Answered(t) THEN "idle" ELSE step[u]]
        /\ UNCHANGED <<job, val>>
    BY <1>2 DEF Written
  <2>2. QED
    BY <1>1, <2>1 DEF Answered, Steps, Busy
<1>3. CASE job[t].then = "reboot"
  BY <1>1, <1>3 DEF Written, To, Steps, Busy
<1>4. CASE job[t].then = "auth"
  <2>1. HUB_Authentication \in JobsOf(t) \ {Nothing} /\ HUB_Authentication \in Jobs
    <3>1. t = "conn"
      BY <1>1, <1>4, JobRecords DEF JobsOf, Job, Thread
    <3>2. QED
      BY <3>1, JobRecords DEF JobsOf, Job, Jobs
  <2>2. step' = [step EXCEPT ![t] = "parse"] /\ job' = [job EXCEPT ![t] = HUB_Authentication]
        /\ UNCHANGED val
    BY <1>4 DEF Written, To
  <2>3. QED
    BY <1>1, <1>4, <2>1, <2>2 DEF Steps
<1>5. CASE job[t].then = "comm" /\ ~started
  BY <1>1, <1>5 DEF Written, To, Steps, Busy
<1>6. CASE ~(job[t].then \in {"fwd", "reboot", "auth"} \/ (job[t].then = "comm" /\ ~started))
  <2>1. Done(t)
    BY <1>6 DEF Written
  <2>2. QED
    BY <1>1, <1>6, <2>1, Kinds DEF Done, To, Steps, Busy
<1>7. QED
  BY <1>2, <1>3, <1>4, <1>5, <1>6

LEMMA WrittenInv == ASSUME NEW t \in Thread, Inv, Written(t) PROVE Inv'
<1> DEFINE f == job[t].file
<1>1. f \in Files /\ Holding(t) /\ copy[t] \in Content(f) /\ step[t] = "trunc"
  BY AtFile DEF Written, Busy, Holding, Inv
<1>2. /\ file' = [file EXCEPT ![f] = copy[t]] /\ copy' = [copy EXCEPT ![t] = Empty]
      /\ UNCHANGED <<uses, asked, known, started, scripts, want, hurt, cmds>>
  BY DEF Written, Freed
<1>3. FilesType' /\ OtherType'
  BY <1>1, <1>2, Kinds DEF Inv, TypeInv, FilesType, OtherType
<1>4. StepType'
  BY AfterWritten DEF Inv, TypeInv, StepType, Busy
<1>5. ~Holding(t)' /\ \A u \in Thread \ {t} : Holding(u)' <=> Holding(u)
  BY AfterWritten DEF Holding
<1>6. CopyType'
  <2>1. copy' \in [Thread -> Contents]
    BY <1>2, Kinds DEF Inv, TypeInv, CopyType
  <2>2. \A u \in Thread : copy'[u] \in IF Holding(u)' THEN Content(job'[u].file) ELSE {Empty}
    BY <1>2, <1>5, AfterWritten DEF Inv, TypeInv, CopyType
  <2>3. QED
    BY <2>1, <2>2 DEF CopyType
<1>7. Single'
  <2>1. \A g \in Files, u \in Thread : HasFile(u, g)' <=> HasFile(u, g) /\ u # t
    BY <1>5, AfterWritten DEF HasFile
  <2>2. \A u \in Thread \ {t} : copy'[u] = copy[u]
    BY <1>2 DEF Inv, TypeInv, CopyType
  <2>3. ASSUME f \notin hurt PROVE file'[f] = want'[f]
    BY <1>1, <1>2, <2>3 DEF Inv, Single, HasFile, TypeInv, FilesType
  <2>4. \A g \in Files \ {f} : file'[g] = file[g] /\ (Closed(g)' => Closed(g))
    BY <1>2, <1>5, AfterWritten DEF Closed, Inv, TypeInv, FilesType
  <2>5. QED
    BY <1>2, <2>1, <2>2, <2>3, <2>4 DEF Inv, Single
<1>8. Tuned'
  <2>1. ASSUME NEW u \in {"pc", "sx"}, OnItsWay(u) PROVE OnItsWay(u)'
    <3>1. CASE u = t
      BY <1>1, <2>1, <3>1, AfterWritten DEF OnItsWay
    <3>2. CASE u # t
      BY <2>1, <3>2, AfterWritten DEF OnItsWay, Thread
    <3>3. QED
      BY <3>1, <3>2
  <2>2. step'["fwd"] \in Quiet => step["fwd"] \in Quiet
    BY <1>1, AfterWritten DEF Quiet, Thread
  <2>3. QED
    BY <1>2, <2>1, <2>2, StaysTuned DEF Inv
<1>9. QED
  BY <1>3, <1>4, <1>6, <1>7, <1>8 DEF Inv, TypeInv

LEMMA NextInv == Inv /\ [Next]_vars => Inv'
<1> SUFFICES ASSUME Inv, [Next]_vars PROVE Inv'
  OBVIOUS
<1>1. ASSUME NEW t \in Thread, Step(t) PROVE Inv'
  BY <1>1, ParseInv, ParseFailsInv, UseInv, TruncateInv, WrittenInv, RestartFwdInv DEF Step
<1>2. CASE UNCHANGED vars
  BY <1>2 DEF vars, Inv, TypeInv, FilesType, StepType, CopyType, OtherType, Single, HasFile,
              Tuned, OnItsWay, Holding, Closed
<1>3. QED
  BY <1>1, <1>2, PCInv, HandlerInv, FirmwareInv, AskInv, AskedInv, ReconnectInv, StartFwdInv,
     RestartServerInv, RestartCommunicateInv, StartCommunicateInv, CommunicateScriptInv,
     FwdScriptInv, RebootInv, WatchdogInv DEF Next

LEMMA Invariance == Spec => []Inv
<1>1. QED
  BY InitInv, NextInv, PTL DEF Spec

-----------------------------------------------------------------------------
\* The type invariant of the files, the copies and the threads.
THEOREM ConfigTypeCorrect == Spec => []TypeOK
<1>1. Inv => TypeOK
  BY Types DEF Inv
<1>2. QED
  BY <1>1, Invariance, PTL

\* However many commands are carried out and processes restarted, a file whose
\* users did not overlap has what they put there, and lora_pkt_fwd receives on
\* the frequencies it says.
THEOREM CommandsTakeEffect == Spec => []FilesTakeEffect
<1>1. Inv => NothingLost
  BY DEF Inv, Single, NothingLost
<1>2. Inv => RadioApplied
  <2> SUFFICES ASSUME Inv, "global_conf" \notin hurt, step["fwd"] = "idle", Closed("global_conf"),
                      "fwd" \notin scripts,
                      \A t \in {"pc", "sx"} : step[t] \notin {"restart", "down"}
               PROVE  uses["fwd"] = file["global_conf"].radio
    BY DEF RadioApplied
  <2>1. file["global_conf"] = want["global_conf"]
    BY DEF Inv, Single, Files
  <2>2. ASSUME NEW t \in {"pc", "sx"}, step[t] \in {"write", "trunc"} PROVE job[t].then # "fwd"
    <3>1. t \in Thread /\ job[t] \in JobsOf(t)
      BY DEF Thread, Inv, TypeInv, StepType
    <3>2. job[t].file # "global_conf"
      BY <2>2, <3>1 DEF Closed, Holding
    <3>3. QED
      BY <3>1, <3>2, JobFacts
  <2>3. QED
    BY <2>1, <2>2 DEF Inv, Tuned, OnItsWay
<1>3. QED
  BY <1>1, <1>2, Invariance, PTL DEF FilesTakeEffect
=============================================================================
