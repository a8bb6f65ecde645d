-------------------------------- MODULE Config -------------------------------
(***************************************************************************)
(* The configuration files server_conf.json and global_conf.json, and the  *)
(* processes that share them: lora_pkt_conf (the PC's commands in          *)
(* PC_Configuration, and ThreadHandleSx1301Task, which lora_pkt_server     *)
(* asks by UDP), lora_pkt_server (the commands of the server, and its      *)
(* connection), lora_pkt_communicate and lora_pkt_fwd.                     *)
(*                                                                         *)
(* Everyone parses a whole file, uses or changes the copy and serializes   *)
(* it over the file, readers too, without a lock.  Serializing truncates   *)
(* the file before it writes.  A write is followed, or preceded, by a kill *)
(* and restart of the process it is for.                                   *)
(***************************************************************************)
EXTENDS Naturals

CONSTANTS
    MaxCmds     \* bound on commands, of the PC and of the server, and on
                \* connections that have to be made again

ASSUME ConfigAssumption == MaxCmds \in Nat

Files == {"server_conf", "global_conf"}
Fields(f) == IF f = "global_conf" THEN {"radio"} ELSE {"server", "comm", "firmware"}
Value == 0..MaxCmds

Thread == {"pc", "sx", "handler", "conn", "comm", "fwd"}
ThreadsOf(p) == CASE p = "conf"   -> {"pc", "sx"}
                  [] p = "server" -> {"handler", "conn"}
                  [] p = "comm"   -> {"comm"}
                  [] p = "fwd"    -> {"fwd"}
ProcessOf(t) == CHOOSE p \in {"conf", "server", "comm", "fwd"} : t \in ThreadsOf(p)

VARIABLES
    file,       \* file[f]: its content, or Empty
    step,       \* step[t]: where a thread is
    job,        \* job[t]: what it is doing
    copy,       \* copy[t]: the copy it parsed
    val,        \* val[t]: the value its job writes
    uses,       \* uses[p]: the address or frequency the process runs with
    asked,      \* the UDP request to ThreadHandleSx1301Task: a value, or 0
    known,      \* pid_server of lora_pkt_conf is that of lora_pkt_server
    started,    \* lora_pkt_server has started lora_pkt_communicate
    scripts,    \* processes that a script, forked already, has yet to kill and start
    want,       \* ghost: the content if every command took effect alone
    hurt,       \* ghost: files whose users overlapped or were killed
    cmds        \* counter for the bound

vars == <<file, step, job, copy, val, uses, asked, known, started, scripts, want, hurt,
          cmds>>

Empty == << >>
Content(f) == [Fields(f) -> Value]

Steps == {"idle", "fetch", "parse", "open", "kill", "write", "trunc", "restart", "wait", "reboot", "down"}

(***************************************************************************)
(* What a function does with a file: the field it sets in its copy, the    *)
(* process that takes its address or frequency from the copy, what it      *)
(* restarts first, before the copy is written, and what follows then.      *)
(***************************************************************************)
Reader(f) == [file |-> f, sets |-> "none", takes |-> "none", first |-> "none", then |-> "none"]
Nothing == Reader("none")

ack_read_server == Reader("server_conf")
AckReadCommunicateServer == Reader("server_conf")
ack_read_sx1301 == Reader("global_conf")
ReadCommunicationServerInfo == Reader("server_conf")
ServerGetSX1301ConfInfo == Reader("global_conf")

ack_write_server == [Reader("server_conf") EXCEPT !.sets = "server", !.first = "server"]
AckWriteCommunicateServer == [ack_write_server EXCEPT !.sets = "comm"]
WriteCommunicationServerInfo == [AckWriteCommunicateServer EXCEPT !.first = "comm"]
ack_write_sx1301 == [Reader("global_conf") EXCEPT !.sets = "radio", !.then = "fwd"]
ServerOTADeviceUpgrade == [Reader("server_conf") EXCEPT !.sets = "firmware", !.then = "reboot"]

Tcp_Reconnection == [Reader("server_conf") EXCEPT !.takes = "server", !.then = "auth"]
HUB_Authentication == [Reader("server_conf") EXCEPT !.then = "comm"]
Thread_Tcp_Connect == [Reader("server_conf") EXCEPT !.takes = "comm"]
parse_SX1301_configuration == [Reader("global_conf") EXCEPT !.takes = "fwd"]

Jobs == {Nothing, ack_read_server, ack_read_sx1301, ack_write_server, AckWriteCommunicateServer,
         WriteCommunicationServerInfo, ack_write_sx1301, ServerOTADeviceUpgrade,
         Tcp_Reconnection, HUB_Authentication, Thread_Tcp_Connect, parse_SX1301_configuration}

FieldFor(p) == IF p = "fwd" THEN "radio" ELSE p

\* A copy is in memory from the parse to the end of the serialization.
Holding(t) == step[t] \in {"open", "kill", "write", "trunc"}

TypeOK ==
    /\ \A f \in Files : file[f] \in Content(f) \union {Empty} /\ want[f] \in Content(f)
    /\ step \in [Thread -> Steps] /\ job \in [Thread -> Jobs] /\ val \in [Thread -> Value]
    /\ \A t \in Thread : copy[t] \in IF Holding(t) THEN Content(job[t].file) ELSE {Empty}
    /\ uses \in [{"server", "comm", "fwd"} -> Value]
    /\ asked \in Value /\ known \in BOOLEAN /\ started \in BOOLEAN
    /\ scripts \subseteq {"fwd", "comm"} /\ hurt \subseteq Files
    /\ cmds \in 0..MaxCmds

\* lora_pkt_conf has started lora_pkt_server, and a script that finds nothing to
\* kill and starts lora_pkt_fwd.
Init ==
    /\ file = [f \in Files |-> [x \in Fields(f) |-> 0]]
    /\ step = [t \in Thread |-> CASE t = "conn" -> "parse"
                                  [] t \in {"comm", "fwd"} -> "down"
                                  [] OTHER -> "idle"]
    /\ job = [t \in Thread |-> IF t = "conn" THEN Tcp_Reconnection ELSE Nothing]
    /\ copy = [t \in Thread |-> Empty] /\ val = [t \in Thread |-> 0]
    /\ uses = [p \in {"server", "comm", "fwd"} |-> 0]
    /\ asked = 0 /\ known = TRUE /\ started = FALSE /\ scripts = {}
    /\ want = file /\ hurt = {}
    /\ cmds = 0

-----------------------------------------------------------------------------
(* Processes.                                                              *)

Closed(f) == \A t \in Thread : Holding(t) => job[t].file # f

\* The files a set of threads leaves as they are when it ends here: one that it
\* was just serializing stays empty.
Hurt(ts) == {job[t].file : t \in {u \in ts : Holding(u)}}

\* The threads ts are gone; those of start begin with the jobs.
Become(ts, start, jobs) ==
    /\ step' = [t \in Thread |-> IF t \in DOMAIN start THEN start[t]
                                 ELSE IF t \in ts THEN "down" ELSE step[t]]
    /\ job' = [t \in Thread |-> IF t \in DOMAIN jobs THEN jobs[t]
                                ELSE IF t \in ts THEN Nothing ELSE job[t]]
    /\ copy' = [t \in Thread |-> IF t \in ts THEN Empty ELSE copy[t]]
    /\ val' = [t \in Thread |-> IF t \in ts THEN 0 ELSE val[t]]
    /\ hurt' = hurt \union Hurt(ts)

\* exit(EXIT_FAILURE) ends all threads of the process, not its scripts; what it
\* was asked is lost.
Exit(p) ==
    /\ Become(ThreadsOf(p), <<>>, <<>>)
    /\ asked' = IF p = "conf" THEN 0 ELSE asked
    /\ UNCHANGED <<file, uses, known, started, scripts, want, cmds>>

NewServer == [handler |-> "idle", conn |-> "parse"]
Connecting == [handler |-> Nothing, conn |-> Tcp_Reconnection]

\* lora_pkt_conf and the server it starts.
NewConf == [pc |-> "idle", sx |-> "idle", handler |-> "idle", conn |-> "parse"]
NewJobs == [pc |-> Nothing, sx |-> Nothing, handler |-> Nothing, conn |-> Tcp_Reconnection]

To(t, s) == step' = [step EXCEPT ![t] = s]

\* Mutant: the copy is not freed.
FreedNever(t) == copy

Freed(t) == [copy EXCEPT ![t] = Empty]

\* The job is done.
Done(t) ==
    /\ To(t, "idle")
    /\ job' = [job EXCEPT ![t] = Nothing]
    /\ val' = [val EXCEPT ![t] = 0]

-----------------------------------------------------------------------------
(* Commands.                                                               *)

Begin(t, s, j, v) ==
    /\ To(t, s)
    /\ job' = [job EXCEPT ![t] = j]
    /\ val' = [val EXCEPT ![t] = v]
    /\ UNCHANGED <<file, copy, uses, known, started, scripts, want, hurt>>

PC_Configuration ==
    /\ step["pc"] = "idle"
    /\ cmds < MaxCmds /\ cmds' = cmds + 1
    /\ \/ \E j \in {ack_read_server, AckReadCommunicateServer, ack_read_sx1301} :
              Begin("pc", "parse", j, 0)
       \/ \E j \in {ack_write_server, AckWriteCommunicateServer, ack_write_sx1301} :
              Begin("pc", "parse", j, cmds')
    /\ UNCHANGED asked

\* The commands of the server come over the connection.
Commanded ==
    /\ step["handler"] = "idle" /\ step["conn"] = "idle" /\ started
    /\ cmds < MaxCmds /\ cmds' = cmds + 1

\* The file OTAUpgrade is written and a script downloads what it names.
FetchFirmware == Begin("handler", "fetch", ServerOTADeviceUpgrade, cmds')

Handle_Message_Type ==
    /\ Commanded
    /\ \/ \E j \in {ReadCommunicationServerInfo, ServerGetSX1301ConfInfo} :
              Begin("handler", "parse", j, 0)
       \/ Begin("handler", "parse", WriteCommunicationServerInfo, cmds')
       \/ FetchFirmware
    /\ UNCHANGED asked

\* "OTA upgrade is fail!" is answered and nothing changed.
UpgradeFails == Done("handler")

\* 10 s later the size and the MD5 of what is there decide.
Compute_file_md5 ==
    /\ step["handler"] = "fetch"
    /\ \/ To("handler", "parse") /\ UNCHANGED <<job, val>>
       \/ UpgradeFails
    /\ UNCHANGED <<file, copy, uses, asked, known, started, scripts, want, hurt, cmds>>

\* Asks ThreadHandleSx1301Task by UDP and waits for the answer.
ServerConfSX1301 ==
    /\ Commanded
    /\ To("handler", "wait")
    /\ asked' = IF step["sx"] = "down" THEN 0 ELSE cmds'
    /\ UNCHANGED <<file, job, copy, val, uses, known, started, scripts, want, hurt>>

ThreadHandleSx1301Task ==
    /\ step["sx"] = "idle" /\ asked # 0
    /\ Begin("sx", "parse", ack_write_sx1301, asked)
    /\ asked' = 0
    /\ UNCHANGED cmds

-----------------------------------------------------------------------------
(* The steps of a job.                                                     *)

Parse(t) ==
    /\ step[t] = "parse" /\ file[job[t].file] # Empty
    /\ copy' = [copy EXCEPT ![t] = file[job[t].file]]
    /\ hurt' = IF Closed(job[t].file) THEN hurt ELSE hurt \union {job[t].file}
    /\ To(t, "open")
    /\ UNCHANGED <<file, job, val, uses, asked, known, started, scripts, want, cmds>>

\* Who waits for the answer of ThreadHandleSx1301Task goes on.
Answered(t) == IF t = "sx" /\ step["handler"] = "wait" THEN {t, "handler"} ELSE {t}

\* Mutant: no answer when the file could not be read.
OnlyTheTask(t) == {t}

Told(t) == Answered(t)

\* An empty file does not parse: exit, but those that write the frequencies
\* answer that they failed; ThreadHandleSx1301Task restarts lora_pkt_fwd even so.
ParseFails(t) ==
    /\ step[t] = "parse" /\ file[job[t].file] = Empty
    /\ IF job[t] = ack_write_sx1301
       THEN /\ step' = [u \in Thread |-> IF u = t /\ t = "sx" THEN "restart"
                                         ELSE IF u \in Told(t) THEN "idle" ELSE step[u]]
            /\ job' = [job EXCEPT ![t] = Nothing] /\ val' = [val EXCEPT ![t] = 0]
            /\ UNCHANGED <<file, copy, uses, asked, known, started, scripts, want, hurt, cmds>>
       ELSE Exit(ProcessOf(t))

Changed(t) == IF job[t].sets = "none" THEN copy[t] ELSE [copy[t] EXCEPT ![job[t].sets] = val[t]]

\* A read is answered; a write is made in the copy and, if the restart comes
\* first, answered; connecting may take for ever.
Use(t) ==
    /\ step[t] = "open"
    /\ copy' = [copy EXCEPT ![t] = Changed(t)]
    /\ want' = IF job[t].sets = "none" THEN want
               ELSE [want EXCEPT ![job[t].file][job[t].sets] = val[t]]
    /\ uses' = IF job[t].takes = "none" THEN uses
               ELSE [uses EXCEPT ![job[t].takes] = copy[t][FieldFor(job[t].takes)]]
    /\ To(t, IF job[t].first # "none" THEN "kill" ELSE "write")
    /\ UNCHANGED <<file, job, val, asked, known, started, scripts, hurt, cmds>>

\* json_serialize_to_file: fopen, then fputs and fclose.
Truncate(t) ==
    /\ step[t] = "write"
    /\ file' = [file EXCEPT ![job[t].file] = Empty]
    /\ To(t, "trunc")
    /\ UNCHANGED <<job, copy, val, uses, asked, known, started, scripts, want, hurt, cmds>>

\* What follows: the restart of lora_pkt_fwd, the reboot, the authentication on
\* a new connection, the first start of lora_pkt_communicate, or nothing.
Written(t) ==
    /\ step[t] = "trunc"
    /\ file' = [file EXCEPT ![job[t].file] = copy[t]]
    /\ copy' = Freed(t)
    /\ CASE job[t].then = "fwd" ->
              /\ step' = [u \in Thread |-> IF u = t THEN "restart"
                                           ELSE IF u \in Answered(t) THEN "idle" ELSE step[u]]
              /\ UNCHANGED <<job, val>>
         [] job[t].then = "reboot" -> To(t, "reboot") /\ UNCHANGED <<job, val>>
         [] job[t].then = "auth" ->
              To(t, "parse") /\ job' = [job EXCEPT ![t] = HUB_Authentication] /\ UNCHANGED val
         [] job[t].then = "comm" /\ ~started -> To(t, "restart") /\ UNCHANGED <<job, val>>
         [] OTHER -> Done(t)
    /\ UNCHANGED <<uses, asked, known, started, scripts, want, hurt, cmds>>

-----------------------------------------------------------------------------
(* Restarts.                                                               *)

\* kill(pid_server) and fork, before the file is written.  A server that
\* watchdog_script started is not killed; the second one that then runs beside
\* it is left out, and the behaviour ends here.
RestartServer ==
    /\ step["pc"] = "kill" /\ known
    /\ Become({"handler", "conn"},
              [handler |-> "idle", conn |-> "parse", pc |-> "write"], Connecting)
    /\ started' = FALSE
    /\ UNCHANGED <<file, uses, asked, known, scripts, want, cmds>>

\* lora_pkt_fwd and lora_pkt_communicate are restarted by a script, which is forked
\* and runs beside its parent; an earlier script for the process is killed.
ForkScript(p) == scripts' = scripts \union {p}

\* Also before: WriteCommunicationServerInfo restarts lora_pkt_communicate.
RestartCommunicate ==
    /\ step["handler"] = "kill"
    /\ To("handler", "write") /\ ForkScript("comm")
    /\ UNCHANGED <<file, job, copy, val, uses, asked, known, started, want, hurt, cmds>>

\* The server has accepted the hub: main starts lora_pkt_communicate.
StartCommunicate ==
    /\ step["conn"] = "restart"
    /\ Done("conn") /\ ForkScript("comm")
    /\ started' = TRUE
    /\ UNCHANGED <<file, copy, uses, asked, known, want, hurt, cmds>>

restart_lora_pkt_communicate ==
    /\ "comm" \in scripts /\ scripts' = scripts \ {"comm"}
    /\ Become({"comm"}, [comm |-> "parse"], [comm |-> Thread_Tcp_Connect])
    /\ UNCHANGED <<file, uses, asked, known, started, want, cmds>>

\* Mutant: lora_pkt_fwd is not killed, as it is the script that pid_parse names.
Spared == {}

\* restart_lora_pkt_fwd.sh kills lora_pkt_fwd by its name.
Killed == {"fwd"}

\* After the file was written: ack_write_sx1301, ThreadHandleSx1301Task.
RestartFwd(t) ==
    /\ step[t] = "restart" /\ t \in {"pc", "sx"}
    /\ Done(t) /\ ForkScript("fwd")
    /\ UNCHANGED <<file, copy, uses, asked, known, started, want, hurt, cmds>>

restart_lora_pkt_fwd ==
    /\ "fwd" \in scripts /\ scripts' = scripts \ {"fwd"}
    /\ Become(Killed, <<>>, <<>>)
    /\ UNCHANGED <<file, uses, asked, known, started, want, cmds>>

\* The script, or watchdog_script, starts lora_pkt_fwd.  That both may is left out.
StartFwd ==
    /\ step["fwd"] = "down"
    /\ To("fwd", "parse")
    /\ job' = [job EXCEPT !["fwd"] = parse_SX1301_configuration]
    /\ UNCHANGED <<file, copy, val, uses, asked, known, started, scripts, want, hurt, cmds>>

\* ReconnectWith_Server, in lora_pkt_server and in lora_pkt_communicate.
Reconnect(t) ==
    /\ t \in {"conn", "comm"} /\ step[t] = "idle"
    /\ cmds < MaxCmds /\ cmds' = cmds + 1
    /\ To(t, "parse")
    /\ job' = [job EXCEPT ![t] = IF t = "conn" THEN Tcp_Reconnection ELSE Thread_Tcp_Connect]
    /\ UNCHANGED <<file, copy, val, uses, asked, known, started, scripts, want, hurt>>

\* Everything is as Init has it but the files.
Booted ==
    /\ Become(Thread, NewConf, NewJobs)
    /\ asked' = 0 /\ known' = TRUE /\ started' = FALSE /\ scripts' = {}

\* system("reboot").
Reboot ==
    /\ step["handler"] = "reboot"
    /\ Booted
    /\ UNCHANGED <<file, uses, want, cmds>>

\* watchdog_script: rall when lora_pkt_conf is gone, which kills and starts all
\* but lora_pkt_communicate; lora_pkt_server alone when that is gone.
Watchdog ==
    /\ \/ /\ step["pc"] = "down"
          /\ Become(Thread \ {"comm"}, NewConf, NewJobs)
          /\ asked' = 0 /\ known' = TRUE /\ UNCHANGED scripts
       \/ /\ step["pc"] # "down" /\ step["conn"] = "down"
          /\ Become({"handler", "conn"}, NewServer, Connecting)
          /\ known' = FALSE /\ UNCHANGED <<asked, scripts>>
    /\ started' = FALSE
    /\ UNCHANGED <<file, uses, want, cmds>>

Step(t) ==
    \/ Parse(t) \/ ParseFails(t) \/ Use(t) \/ Truncate(t) \/ Written(t)
    \/ RestartFwd(t)

Next ==
    \/ PC_Configuration \/ Handle_Message_Type \/ Compute_file_md5 \/ ServerConfSX1301 \/ ThreadHandleSx1301Task
    \/ \E t \in Thread : Step(t) \/ Reconnect(t)
    \/ StartFwd \/ RestartServer \/ RestartCommunicate \/ StartCommunicate
    \/ restart_lora_pkt_fwd \/ restart_lora_pkt_communicate
    \/ Reboot \/ Watchdog

Spec == Init /\ [][Next]_vars

\* lora_pkt_conf is scheduled, and watchdog_script looks again every 10 minutes.
FairSpec ==
    /\ Spec
    /\ WF_vars(ThreadHandleSx1301Task) /\ WF_vars(Step("sx")) /\ WF_vars(Watchdog)

-----------------------------------------------------------------------------
(* Properties.                                                             *)

\* Whatever was read, written, restarted and reconnected, a file has what the
\* commands that were carried out have put there, unless two of its users
\* overlapped or one was killed in between; nobody ever leaves it empty.
NothingLost == \A f \in Files \ hurt : Closed(f) => file[f] = want[f]

\* lora_pkt_fwd receives on the frequencies that are in global_conf.json when
\* everyone is done with it and the script that was to restart it has killed the
\* old one, unless the file's users overlapped; if lora_pkt_conf ends between the
\* write and the restart, when watchdog_script has started it again.
RadioApplied ==
    ("global_conf" \notin hurt /\ step["fwd"] = "idle" /\ Closed("global_conf")
        /\ "fwd" \notin scripts
        /\ \A t \in {"pc", "sx"} : step[t] \notin {"restart", "down"})
      => uses["fwd"] = file["global_conf"].radio

FilesTakeEffect == NothingLost /\ RadioApplied

\* lora_pkt_server does not wait for ever for the answer to a change of the
\* frequencies, also when lora_pkt_conf could not read its file or is gone.
SxAnswered == step["handler"] = "wait" ~> step["handler"] # "wait"
=============================================================================
