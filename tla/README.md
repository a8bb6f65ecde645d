# TLA+ models of the LoRaWAN hub

Specifications of the gateway software in this repository: what its threads and
processes do with the queues, counters, tables, files and connections they share,
checked with TLC on small instances and, for the safety properties of every
model, proved with TLAPS for every value of the constants.

## 1. The system

A hub is four processes on one machine, which talk over UDP on the loopback
interface and share an sqlite data base, `hub.db` (tables `GWINFO`, the nodes, and
`Region`), and a few files.

| process | source | does |
|---|---|---|
| `lora_pkt_fwd` | `lora_pkt_fwd/src/lora_pkt_fwd.c` and the queues beside it | receives and sends on the sx1301, LoRaWAN MAC: joins, MIC, counters, answers |
| `lora_pkt_communicate` | `lora_pkt_communicate/src/communicate.c` | the TCP link that carries node data to the server and commands back |
| `lora_pkt_server` | `lora_pkt_server/src/lora_pkt_server.c`, `message_management.c` | registration, authentication, node management, upgrade; starts `lora_pkt_communicate` after authentication |
| `lora_pkt_conf` | `lora_conf/src/lora_pkt_conf.c` | UDP commands of the PC tool; starts the others |

Loopback ports: 5555 joins and 5556 node data (fwd to communicate), 5557 server
answers and 5558 class C data (communicate to fwd), 5560 class A debugging,
7789 decrypted data (fwd to conf).

### Components, their state and what makes them correct

| component | state | operations | hard behaviour | correct if |
|---|---|---|---|---|
| Delay queues: `delay_queue.c` (joins), `task_queue.c` (answers) | list, `front`, `rear`, `items` | EnQueue, Insertion_Sort, DeQueue, GetFront_Queue | `rear` is not maintained by the sort; wall clock set back, and its microseconds in 32 bits; no mutex | bounded, ordered by quit time, ties in order of arrival, nothing lost |
| Join path | join queue, `Join_SemFlag`, `devaddrinfo`, global session keys, row of the node, transmit buffer | request, queue, post, allocate, derive keys, update row, send, poll, abort | the front is read 4.8 s before it is removed; three threads dequeue; globals; table edits by other processes | no request sleeps without a token or is answered twice; addresses distinct; row and device agree |
| Uplink | batch, `isMicOk`, `FcntUp`, two single buffers with their semaphores | receive, look up, check, update, copy, post, join the queueing thread | 16 to 32 bit counters, variables carried over in a batch, a flag and keys that other threads write, buffers cleared by their readers, session changes in between | a frame in the window is accepted with its counter, no other; main always returns |
| Downlink answers, class C | task queue, data queues, two semaphores, `ClassA_Deveui`, `FcntDown` | store, match, fetch counter, store counter, send, abort | a token travels over two semaphores while two threads dequeue; `FcntDown` is read, used and written by three threads | every task has a token and one answer at most; one counter per downlink |
| `hub.db` | rows of `GWINFO` and `Region`, sqlite's locks | add, delete, change, read, list | three processes, several transactions where one is needed, refused statements and commits that nobody looks at | one row per node; success means stored; lists complete |
| Data link (`communicate.c`) | socket, lock, `closeSocket_Bymyself`, `heart_beat_id`, send buffers | send, receive, reconnect, heartbeat | four threads may notice and repair one break; late heartbeat answers; `SIGPIPE` | nobody uses a socket that is being replaced; own and foreign closes told apart; comes to rest connected |
| Server messages (`communicate.c`) | receive buffer, `ServerAckData`, `sum_len`, last uplink's rate | find frames, reassemble, cut, pass on | messages split over `recv`, parts lost or of another length | an answer longer than a frame, or sent whole, passed on once and whole, in packets that fit |
| Hub link (`lora_pkt_server.c`) | socket, lock, flag, `Auth_Successful_Flag`, heartbeat | authenticate, heartbeat, commands, reconnect | the lock is held while a function that takes it is called; two readers of one socket | starts nothing unaccepted; listens again after every break |
| Configuration | `server_conf.json`, `global_conf.json`, the processes that run with them | read, change, write, kill, restart | whole files are rewritten from copies of any age; killed while writing | what was configured is in the file and in use |
| Receive window | `Region_Info`, `Rx1DRoffset`, tables of `region.c` | configure, read, apply | two encodings of data rates, two transactions | regional rate, and one that the sx1301 has |
| `jitqueue.c`, `thread_down`, `timersync.c`, GPS | | | compiled, never started by `main` | |
| Crypto, JSON, demos | | | none | third party or pure functions |

`watchdog_script` restarts `lora_pkt_conf`, `lora_pkt_fwd` and
`lora_pkt_server`; it does not look at `lora_pkt_communicate`.

## 2. The modules

    TimedQueue      what a delay queue promises: bounded, by quit time, ties by arrival
    DelayQueue      the linked list of delay_queue.c; implements TimedQueue unless the clock falls
    JoinFlow        from the join request to the accept on the air
    Uplink          data frames: counters, MIC, the thread that queues, the two senders
    Downlink        answers to data frames, class A debug data, class C, FcntDown
    Rx1             the data rate of an answer: region.c and what it is fed from
    DataLink        the TCP connection of lora_pkt_communicate and its threads
    ServerData      what lora_pkt_communicate makes of the messages of the server
    HubLink         authentication and reconnection of lora_pkt_server
    Sqlite          the locks of sqlite, as one process's statements meet another's (external)
    NodeTable       the commands on hub.db of three processes; EXTENDS Sqlite
    Config          the configuration files and the processes that share them
    MC*             instances for TLC
    *Proofs         theorems and proofs of the module of that name; CommunicateProofs is about
                    DataLink and ServerData, DownlinkProofs about Downlink and Rx1

A model's specification is `Spec`, that of Rx1 `RateSpec` and that of ServerData `DataSpec`, since each
shares a proof module with a model whose variables are others.

How they compose: the join queue of JoinFlow and the task queue of Downlink are
sequences, which is what DelayQueue is shown to implement (TimedQueue) unless the clock falls while
items wait. Uplink and JoinFlow have the other's effect on the rows as
actions (`Request`, `Accept` in Uplink; `RecvData` in JoinFlow), Downlink has both as
`Uplink`, `ClearFcntDown`, `Accept`. NodeTable composes three processes over Sqlite.
Config composes the four processes over two files.

**DelayQueue.** A heap cell is named by the serial number of its EnQueue, so
`rear` can name a cell in the list, one that was cut off, or a freed one.
Operations run one at a time and the sort is one step per iteration of its loop.
`Delay` is `node.delay`, `clock` is `gettimeofday`. Times are `unsigned long` microseconds, 32 bits on the
gateway's processor: a cell is `due` at a true time, what the list stores and compares is its remainder (`Key`) modulo `W`,
which starts again at 0 every 71.6 minutes. `Tick` passes any number of such ranges, `StepBack` sets the clock back, and
`disturbed` remembers, until the queue is next empty, that the clock fell or started again while items waited. `FollowNullFront` and an empty list in `SortSplit` lead to
`crashed`. The interleaving of the operations themselves (no mutex protects the list) is
not in this module.

**JoinFlow.** A request is numbered when main accepts it; the two session keys are a record
of the requests they are for (`nwk`, `app`) and of who wrote them last (`by`), since main and the join thread use the same
globals. `mpc` follows main and the thread it creates and
joins (`RecvJoin`, `Queue`, `Post`); `spc` follows `Thread_Send_Queue_Task`, one
action per stretch between two accesses to shared state; `AnswerSend` and
`AnswerPoll` are `Thread_Handle_Data_Task` as far as the join path can see it: it
uses the same transmit buffer, and its abort path dequeues from the join queue.
`RecvData` is the data branch of main, which overwrites the global keys with those of a row that has the frame's address.
`EditNode`, `AbpLookUp` and `AbpInsert` are the other processes: an ABP address is looked up in one transaction and stored in
another. The radio holds one
packet, which a later `lgw_send` overwrites. `AllocateFails` covers a missing
`devaddrinfo`, an address in use and missing radio settings. A statement of sqlite is refused while another process has the
data base: a refused lookup of an address counts as "free" (`LookupRefused`), of the four UPDATEs of
`Update_GwInfo_Table` the first k may be refused (`Refusals`, `Stored`), and a refused COMMIT leaves the transaction open, which this
process does not notice (`unsaved`). Refusals and edits share a bound. What went wrong is recorded in
`overlooked` (addresses) and `refused` (requests). `Unlucky` is the set of
nodes for whose requests `GetFront_Queue`, which has no `return` for a queue that
is not empty, may return 1: compiled with gcc -O2 the caller gets the last
thing copied, half of the AppEui. `lost` counts the tokens this costs; one of the two nodes of the run is unlucky.

**Uplink.** A frame carries its device's session, which stands for address and keys,
and its counter; `Foreign` frames have a wrong MIC. `Reconstruct` is the 16 to 32
bit arithmetic with `W` for 2^16. Each accepted frame gets a serial number, its
content. `Copy` and `Finish` fill a buffer and set its length; the sender thread
sends (`SendTo`) and then clears the buffer (`Clear`).
A data frame takes four steps: `FetchFcnt` reads the counter, `ParseTable` the keys and sets `flag`
(`Fetch_Address_Successful`) under a mutex, `DataFrame` tests flag and MIC without it, `Update` stores the counter. Between any two, the
downlink threads may clear the flag (`ClearFlag`), the join thread replace the key (`Derive`) and store the session (`Accept`), another
process remove the row. Each statement may be refused while another process has the data base: `Refused` shares a bound with the removals. `hit` records what
came in the way of the frame in hand. An `Accept` of which some UPDATE was refused leaves a row of one session's address and another's
keys (`Mixed`).

**Downlink.** Uplinks become due in the order in which they came, so time is `due`,
how many of them are. `TaskQueue` is the thread that main joins; `fpc` follows
`Thread_Fetch_Report_Data` (read the front, drop it if it is overdue, post
`Producer_SemFlag`), `hpc` `Thread_Handle_Data_Task` with `SendClassADebugData`
inside (`mode`), `cpc` `Thread_Handle_Class_C_Task`. A thread's address, session and counter
are its `hreg` or `creg`; reading `FcntDown`, storing it, reading the keys and sending
are steps of their own, each of which may fail because the data base is busy. `udp` and
`dataLine` are port 5557 and the queue of `data_queue.c`, `classALine` the
one of `classA_queue.c`. `Tiny` nodes have answers of one byte, for
which `GetFront_Queue` (again without a `return`) may say that the queue is empty.
The ghosts `used` and `reused` say which counters were sent, and sent again, under which keys,
`exposed` in which sessions one of the four events named at CounterReuseExplained happened.

**Rx1.** `RegionApplyDrOffset` with its tables, whose entries outside of their bounds are
`Garbage`; the two columns, changed by `Ack_Region_Freq_Info` and
`Ack_Rx1DRoffset_Info` at any time; the two reads; the value passed to `lgw_send`.

**DataLink.** `Sender` is the three threads that send. A message is only counted
(`carry`: what is in `join_data`, which keeps its length after a failed send). A
send is one step, since the lock is held across it; `CloseAndReopen` is the shutdown,
close and socket of a reconnection, after which the lock stays taken until `Tcp_Reconnection`
returns: with a connection or, when the address in `server_conf.json` is none, without (`sock = "bare"`). A file that is not
JSON ends the process (`ConfUnreadable`), and a first connect to such an address keeps the lock for good (`"never"`). `rcv` says whether the connection the receiver waits on is still the
current one, `cause` who ended it. The flag is read under one hold of the lock and
acted on under another (`ReadFlag`, then `ClearFlag` or `TakeOver`), and cleared
without it at the end of a takeover (`Unflag`), as in the code.

**ServerData.** A message is two cells of the stream, the second with its 0x7e. `Receive` takes any
prefix that ends with an end (`piece` is what is left of it) and the receiver handles
it message by message from the head, `HeadMoves` on. A prefix that does not end so is dropped
(`RecvDataError`), and so is the second half of a message whose first half was (`MicError`). Bytes are numbered (`<<answer, i>>`), so that a property can say
that each arrives once and in order. `Whole`, `Part` and `LastPart` are the branches of
`Server_Ack_Report_Data`; what is written behind `ServerAckData` is lost, and `sum_len` is counted modulo
`LenMod`, 2^16 in the code. Of parts that by `sum_len` are within a frame only the last is sent. `UplinkPasses` keeps frequency
and data rate of a confirmed uplink, and nothing of another. `MaxPayloads` is `CalculateDownlinkMaxpayload`, with `Garbage`, any
integer, where it leaves its result uninitialised: by 0 the code divides, and it copies a negative number of bytes
(`Crashes`), after which `running` is false for good. The ghosts `shapes` and `clean` say what the server
answered and whether a part was dropped since the last answer, `fit` in `out` what is promised of a record:
the answer, its end, or nothing.

**HubLink.** `relock` says once for all what the C library does when a thread locks
what it has locked: `"blocks"` (musl) or `"refused"` (glibc, uClibc); the runs have both.
`stack` is the calls of `ReconnectWith_Server` a thread is in, since it
authenticates, and authentication reconnects. The server turns an authentication down at most
`MaxNo` times. A send on a socket whose connection is gone kills the process, and a `server_conf.json` that is not JSON ends it
(`ConfUnreadable`); `Watchdog` starts it again. `join_data` is the heartbeats in the buffer: a failed send leaves them there for the
next frame, of which the server may answer any; `last` in an answer is a ghost, the last heartbeat of that frame.

**Sqlite, NodeTable.** Sqlite has one connection per process, no busy timeout, and an
action for each way in which the code uses it: `Select`, `Execute`, `ExecuteAlone`, `Commit`, `Finalize` (with or
without a commit before it), and `Rollback` when the process is killed. NodeTable
follows each command through its transactions with `pc`: look up (`Find`), end (`FindEnd`),
write, end, reply; the UPDATEs of a command with several (`Statements`) follow one by one, each refused or not. `db` is a set of rows, so that equal rows are one. `fwd` is `lora_pkt_fwd`,
which writes counters and joins between the steps of the others.

**Config.** A thread is at a `step` of a `job`: parse, use or change the `copy`, truncate, write,
restart. `want` is the content if every command had taken effect by itself, `hurt` the files whose users
overlapped or were killed. `Become` is a kill and restart: it ends what the threads were doing, half
written files included. `lora_pkt_fwd` and `lora_pkt_communicate` are killed and started by scripts, which run beside the
process that forked them: `scripts` names those that have not killed yet. The script of `lora_pkt_communicate` is not in the
repository; it is taken to do what the one of `lora_pkt_fwd` does.

## 3. The runs

| run | module | shows | instance |
|---|---|---|---|
| queue | DelayQueue | InOrder: order and ties on any clock; LinkedUnlessDisturbed: `rear` and the counter right unless the clock fell while items waited, and the counter never below the list; ImplementsTimedQueue | 3 places, 6 items, clock to 5 with W = 3, forward and back: the queue fills, empties, and the sort moves first, middle and last cells |
| join | JoinFlow | NoLostWakeup, AddressesDistinct, AnsweredOnce, RowMatchesAccept, RequestsLeave | 2 nodes, one of them unlucky, 2 requests, queue of 1 (full at once), the file at the last address but one so that it wraps to an address in use, abort at the first poll, one answer or data frame, one edit, ABP row or refusal |
| join_abort (violation) | JoinFlow | AbortDropsItsOwn fails: an abort drops requests of others | queue of 2 |
| uplink | Uplink | InWindowAccepted, PassedOnOnce, AheadExplained, MainReturns | batches of 2, W = 4, counters to 5 (they wrap), 2 frames, a foreign one, a join, a removal or a refused statement |
| downlink | Downlink | EveryTaskHasToken, AnsweredOnce, CounterReuseExplained, TasksLeave | 2 uplinks, queues of 1, a join, three inputs out of data, class A and C, removal, busy data base |
| rates | Rx1 | ApplyIsRegional, SentAsHeardOrFaster | every region and offset, 3 commands |
| rates_code (violation) | Rx1 | RateIsComputed fails: an index and a code of the sx1301 are taken for one another | |
| link | DataLink | CarryBounded, SendsOnConnection, OwnCloseRecognised, Recovers | 2 connections that break or are not made, 1 late answer, identifiers modulo 2 |
| messages | ServerData | DataTypeOK, Delivered | 2 answers of 4, 12, 16 or 24 bytes, whole or in parts of 8 or 12, one other message, a buffer of 16 bytes, `sum_len` modulo 20: 24 bytes neither fit the buffer nor the count |
| hub | HubLink | OnlyLateReconnects, StartsAccepted, Listens | 2 connections that break or are not made or exits, 1 late answer, 1 refusal, 1 command, identifiers modulo 2, both C libraries |
| nodes | NodeTable | OneRowPerNode, LocksInPlace, SuccessIsStored, EveryNodeListed | 2 nodes, 3 channels, a table of at most 1 row at the start, 2 commands of server or PC, 2 writes of the forwarder, packages of 1 |
| config | Config | FilesTakeEffect, SxAnswered | 2 commands or reconnections |

A module's TypeOK (DataTypeOK of ServerData) is checked in its run; Downlink's is proved only, and Rx1 has none.

The bounds count things that repeat in the same way (requests, breaks, frames, commands);
each is as large as it takes for two of a kind to meet: two requests for one place in a queue,
two breaks of which the second falls into the repair of the first, two accepted
frames for one buffer, two commands of two processes on one node or file. `MAXQUEUE`, `AbortLimit`, `MaxAddr`,
`W`, `IdMod`, `CHANNELS`, `PKG` and `Size` are
small, and so is `LenMod`, so that the limit or the wrap is reached. In downlink a node is enough: the only thing nodes share is
the order of the tasks, and two uplinks of one node already can be confused. `CHECK_DEADLOCK` is off where
the bounds end every behaviour, and where a crashed list, a stuck main, a
lock taken twice or an emptied file really stops a process.

**What the properties leave out, by name.** Several of them hold only up to events that the code does not
handle; the events are part of the models and named in the property, so that TLC shows there are no others.

- LinkedUnlessDisturbed, ImplementsTimedQueue: unless the clock was set back, or its 32 bits started again, while items
  waited; it is right again once the queue has run empty.
- NoLostWakeup, RequestsLeave: but for tokens lost to `GetFront_Queue` returning 1 with a request there (`lost`).
- AddressesDistinct: unless the lookup of the address was refused, or an UPDATE or an ABP row stored it between the lookup and
  the storing of another (`overlooked`).
- RowMatchesAccept: unless a statement of the update was refused (`refused`); the keys may be another session's if a data frame was parsed between their derivation and
  the update of the row (`key.by`); a row removed meanwhile has no address.
- InWindowAccepted: a genuine frame in the window is dropped, or its counter not stored, when a statement for it was refused, or when
  another thread cleared `Fetch_Address_Successful` or replaced the global key between `Parse_GwInfo_Table` and the MIC (`hit`).
- AheadExplained: a stored counter gets ahead by a frame that rides on the MIC of an earlier one, or in a join.
- MainReturns: main is stuck when the row of the frame in hand went away or changed its address
  before `Thread_Task_Queue` looked for it, or when that lookup was refused.
- CounterReuseExplained: a counter is used twice after two threads read it before one stored it, after a failed UPDATE, after
  class A data sent with an uninitialised counter, or after a join cleared it.
- OwnCloseRecognised: not for a connection that never was (`cause = "start"`): when the first connect
  takes longer than the start of the receiver, its `recv` fails and it tears down
  the connection just made.
- Recovers: not after `SIGPIPE` or an unreadable `server_conf.json` has ended the process, which only `lora_pkt_server`
  starts, at its own start and with a new address; nor after a first connect that keeps the lock for ever (`communicate.c` 268, 275-308).
- Delivered: bytes and order for answers that are sent whole and are within a frame, or in parts of one length all of
  which arrived, fit `ServerAckData` and are longer than a frame; of an answer whose parts are within a frame, its end only (§5).
  The size of packets unless `sum_len` has just overflowed in its 16 bits (`Overflows`): then the last part of an answer that
  needs cutting goes out as one packet, whatever its length; and unless the limit was never assigned and happens not to be positive.
- LocksReleased (in LocksInPlace): `lora_pkt_server` keeps a shared lock after reading `Region`, a refused COMMIT keeps
  its own, and `lora_pkt_conf` keeps that of an Rx2 frequency it set in the transaction which a refused reading of the
  channels had left open.
- OneRowPerNode, FrequenciesSet: unless the data base refused something or another process wrote in between.
- OnlyLateReconnects: also over the answer to an earlier heartbeat of a frame that a failed send made carry several.
- HubLink's Listens: as long as no thread calls `ReconnectWith_Server`, where it may hang for ever, and the first connect does not
  keep the lock (`lora_pkt_server.c` 463-502).
- FilesTakeEffect: unless two users of the file overlapped or one was killed.
- SentAsHeardOrFaster: in the regions without a table, for what the sx1301 can send at all.

**Fairness.** Weak fairness of each thread that the property is about: every thread of the program is an
endless loop scheduled by the kernel, none is ever cancelled, and the waits are
`usleep`, semaphores and locks, which are guards here. Beyond that:

- JoinFlow and Downlink: the radio emits what it was given (the sx1301 does at the time stamp or not at
  all, and the abort path covers that), and in Downlink time passes.
- DataLink and HubLink: the server accepts a new connection in the end (connect is retried for ever), the address and the
  file are unusable `MaxFaults` times at most, and `sleep(60)` ends. HubLink and Config: `watchdog_script`, an endless loop, looks again.
- Config: `ThreadHandleSx1301Task` is scheduled.

Nothing is assumed of devices, breaks, commands or other processes.

## 4. What is proved

All theorems are about the model's specification for every value of the constants
that the assumptions admit. `DelayQueueAssumption`, `JoinFlowAssumption`, `DownlinkAssumption`,
`DataLinkAssumption`, `UplinkAssumption`, `ConfigAssumption` and `HubLinkAssumption` have naturals, positive where they are
sizes or moduli (and an even `W`), ABP addresses that are addresses, unlucky and tiny nodes that are nodes, and, in
Downlink, a node; `ServerDataAssumption` adds that answers are not empty, that `ServerAckData` is smaller than what `sum_len` counts to
(5000 and 65536) and that an uninitialised `maxpayload` is an integer; `Rx1Assumption` that what lies beside the tables is
bytes; `NodeTableAssumption` adds that there are at least 3 channels, that addresses are positive and that the connections are those of the three processes.

*DelayQueueProofs* (TypeCorrect, LeavesInOrder, RearIsRightUnlessDisturbed, Implements).
The inductive invariant adds to the type invariant that the
relinked part of the list is sorted during the sort, that the rest is in order of
arrival, and that serial numbers are bounded by calls. Insertion after everything not later keeps ties in order. Outside a
disturbance (`Steady`) no item is due, by its true time or by its stored one, after a packet that arrives now; `InsertAt` then
finds the last place, the sort moves nothing, which gives `Linked` and the step refinement of `Implements`. On any clock
the counter only ever exceeds the list, since a stale `rear` can lose cells but not add any.

*JoinFlowProofs* (JoinTypeCorrect, JoinNeverSleepsOnWork, NoJoinAnsweredTwice,
JoinedAddressesDistinct, TableAgreesWithAccepts). TypeOK alone is not inductive: the number of tokens needs its
bound by the number of requests and the request in hand must be one (`TypeInv`).
NoLostWakeup is inductive given the types. AnsweredOnce rests on `Order`:
the queue is increasing, the request in hand is not behind its front, and nothing
answered is ahead of it. AddressesDistinct rests on
`Fresh`: the address in hand, and the one another process looked up, is used by no row until it is stored, or is among the
overlooked. RowMatchesAccept rests on what the
accept in the radio and the request in hand say of the row.

*DownlinkProofs* (DownTypeCorrect, TasksCovered, NoUplinkAnsweredTwice, ReuseIsExplained). `TypeInv` is the
type invariant with the facts that keep its bounds: each sent frame is one of the log, the thread in the
middle of an answer holds an uplink. EveryTaskHasToken is inductive with it. AnsweredOnce rests on `OrderInv`: tasks
are increasing and unanswered, and the uplink in hand is older than all that are queued, so whatever is removed at the front later
was not answered. ReuseIsExplained rests on `CounterInv`: in a session that was not exposed the row's counter is not
below any that was sent (`RowsAhead`), the one a sender holds is above those (`Fresh`), and the two senders
hold different ones (`Apart`).

*DownlinkProofs, of Rx1* (RatesAreRegional, AnswersAreHeard). ApplyIsRegional is a fact about the tables and formulas
of `region.c` for each data rate and offset of a region, whatever `Garbage` is; SentAsHeardOrFaster rests on
`Applied`: what is sent was computed by `RegionApplyDrOffset` from the region and the offset the thread read, which
were both configured, but perhaps not together.

*CommunicateProofs* (LinkTypeCorrect, BufferIsBounded, NoSendDuringReconnection,
ReceiverKnowsItsOwn). CarryBounded rests on counting failures: a sender that failed has
used up a break or a connection that was not made. SendsOnConnection and OwnCloseRecognised rest on the
lock: who replaces the socket holds it, and the flag is up whenever the receiver was
woken by its own side and has not yet read it.

*CommunicateProofs, of ServerData* (DataTypeCorrect, AnswersDelivered). Delivered rests on `InOrder` and `Awaited`. `InOrder`: the stream
is what the server sent from where the receiver is, two cells for each message, each part
with the bytes of its place and followed by the next. `Awaited`: unless a part was dropped, the first `sum_len` bytes of
`ServerAckData` are the beginning of the answer whose next part is the next message. Then a last part whose
length times the number of parts is the length of the answer has the length of all parts
(`CompleteIsAnswer`), and any last part ends where the answer does (`LastIsEnd`), so that the place the receiver computes from it alone is right, and `PiecesCut` has the packets of any byte
sequence be that sequence, in pieces of the size asked for and a last one that is not longer.
That the parts put together are the answer needs no induction over them, since each is described by its place.
The attempt showed two things the first instance had hidden: `sum_len` had no bound but the sizes
chosen, and that packets fit was true only as long as it does not overflow. The instance now overflows it.

*UplinkProofs* (UplinkTypeCorrect, WindowIsAccepted, NothingPassedOnTwice, OvertakingIsExplained). TypeOK is not
inductive: a reconstructed counter is within its type only because each accepted frame adds less than `W` to the stored
one (`Grown`), tokens because a buffer is posted once for each (`Posted`). InWindowAccepted is the arithmetic
of the 16 bit wrap, for any even `W`, and `InWay`: while nothing came in the way of a genuine frame, main has its flag and key at the MIC
test and its counter afterwards. That the row of such a frame cannot come back into its session rests on `Heard`: no device is in the session
that an accept is about to bring, and no frame under way is newer than its device. PassedOnOnce rests on
`Unsent`: what is in a buffer was not sent, unless its sender is about to clear it. AheadExplained rests on
`Heard` and `NotAhead`: what is about to be stored for a genuine frame is not beyond that frame's counter.

*ConfigProofs* (ConfigTypeCorrect, CommandsTakeEffect). Each thread only has jobs of its own (`JobsOf` in `TypeInv`).
FilesTakeEffect rests on `Single`: a file that is not in `hurt` has at most one user, whose copy is what was wanted
of it, and is itself that while nobody has it; and on `Tuned`: `lora_pkt_fwd` runs with the wanted
frequency, or the change is `OnItsWay`, or a script has yet to kill it. What the overlap of two users or a kill does to a file is
exempt: the theorem says that nothing else changes or empties one.

*HubLinkProofs* (HubLinkTypeCorrect, OnlyLateAnswersReconnect, StartsOnAcceptance). The stack of calls
of `ReconnectWith_Server` is described for any depth (`Stacked`): all but the outermost return into an
authentication, and no loop of authentications is beyond its third round, which bounds `tries`. OnlyLateReconnects rests on
`Timely`: while no answer was late, all answers under way are to the last frame, and the buffer is empty. StartsAccepted
rests on `Starting`: main is alone until it starts the others, so an `auth` it reads is one that the server gave.

*NodeTableProofs* (NodeTableTypeCorrect, NodeTableLocksInPlace, NodeTableOneRow, NodeTableSuccess, NodeTableLists).
`TypeInv` includes which place of which command each process can be at. `Locks` is what sqlite promises: one writer,
whose transaction keeps its lock, a lock for each statement left at a row, and `image` is `db` when nobody writes. On it rest
- LocksInPlace, by `InPlace`: the row a SELECT stopped at is kept by that statement as long as the code uses it,
  and at the places between transactions a process has none open, but for the exceptions named above;
- OneRowPerNode, by `Alone`: a process about to insert a node, and never in another's way, is right that it has no row;
- SuccessIsStored, by `Stored`: a promised node is in `image` (so in `db`, or in what a COMMIT that was refused
  will write), and the channels a command is past are set.

EveryNodeListed is a fact about `Package` for tables and packages of any size: the places
of a list are mapped one to one on the rows (`Numbered`), also for the server's lists of up to two packages. The code's
buffers for a list have 8000 bytes; a table that does not fit them is outside the model.

Only model-checked are the liveness properties (RequestsLeave, TasksLeave, Recovers, Listens, MainReturns,
SxAnswered), which are out of reach of the prover, and the two violations.

## 5. What the comments say and the code does not do

Two runs are marked (violation): join_abort and rates_code; PROJECT.json quotes the lines. The others met
while modelling are in the models, as events or as the exceptions listed above, and have no run of their own.

`lora_pkt_fwd`
- `lora_pkt_fwd.c` 4089-4090 stores the global session keys; main writes them at 1817 for any data frame in between.
- `isMicOk` is reset at 1557 only, not per frame; 1862 logs "mic校验成功" for a frame that rides on an earlier one.
- 4468: main waits for a thread that, without the row or with its lookup refused, goes back to a semaphore main posts (2211).
- 1816-1818 takes a mutex for the lookup of the keys; the flag it sets is tested outside (1820), and the threads that clear it (3288) or
  write the keys (4067) do not take it. A refused UPDATE of the counter is not noticed (1886).
- About 5181 a comment has a confirmed uplink without data answered by an empty packet; with an empty queue the code
  goes on to the next (about 4880). The class A data sent is that of the last uplink's device (1883).
- `delay_queue.h:124` has EnQueue add at the end of the queue; after a sort that moved the last cell (a clock set back, or
  past the range of its 32 bits) it links behind a stale `rear`. The threads that wait compare the same 32-bit times (`lora_pkt_fwd.c` 3833,
  4612): an item stored with a sum that has started again is overdue at once and dropped, one stored before it is waited for up to
  71 minutes.
- 2681 does not let an unknown node in, but its caller sends the accept all the same (4097), as it does after a refused
  UPDATE or COMMIT (2656-2678). 3595 takes a refused lookup for a free address.
- 1675 clears the counters before a join, but with the request, not with the new session.
- 2162 copies a frame "to be thread safe" into a single global that the sender clears.
- 4907-4914: `region` and `rx1droffset` are read in two transactions, and the code of a rate is used as an
  index, out of the bounds of the tables too.

`lora_pkt_communicate`
- `communicate.c` 554 sends without `MSG_NOSIGNAL`: a closed connection kills the process, which the watchdog does not
  look at; the comment at 1003 has it reconnect.
- 1023 has one thread close the socket; two threads that notice one
  break each do, the second closing a connection that works.
- 398 gives the frame one head and one body; after a failed send the
  next message is appended to the previous one.
- A message split over two `recv` is dropped. An answer longer than a frame that comes whole is cut from byte 30 of the message,
  where its data begin at 26. An answer the server sent in parts that together are within a frame loses all but the last of them
  (1838-1842 sends `data`, the last part, where the longer one is read from `ServerAckData`). `send_len`, `region` and `maxpayload`
  may be used uninitialised; before the first confirmed uplink (788 keeps nothing of an unconfirmed one) that is the limit
  of every answer, and the process dies of some values. `sum_len` has 16 bits, as have the lengths it adds: parts
  of more than 65535 bytes in all pass for a short answer.

`lora_pkt_server`
- `lora_pkt_server.c` 3205 holds the lock that `HUB_Authentication` (2267) takes; the comment at 3247 has it
  released after authentication. `Auth_Successful_Flag` keeps its value through the receiver's takeover (1238-1262), and
  `HUB_Authentication_Ack` goes on with a socket it closed (2484-2486).
- A failed heartbeat stays in `join_data` (2687-2706): the next frame carries it too, and if the server answers that one the
  connection is given up although nothing was late. Some 60 failures in a row would run over its 1000 bytes, which is not modelled.
- `message_management.c` 3970 and 3973 name the keys of an ABP node, 3978-3979 insert them swapped; 3986: its address is looked up and
  inserted in two transactions. `maxid` is uninitialised when the table is empty (3939). Results of COMMIT are ignored, 2437 and 2747 never end their transaction.
- A list of more than 16 nodes repeats the first 8. Setting 8 frequencies answers for the last one only.
- 1980 waits for `lora_pkt_conf` without a timeout; it answers 0x00 also when it failed (2050, 2096).

`lora_pkt_conf` and files
- Reading the channels leaves its BEGIN open when the SELECT is refused; an Rx2 frequency set afterwards is executed in that
  transaction, answered as done, and not committed.
- The comment before `lora_pkt_conf.c` 1568, and `message_management.c` 4822, have the process restart with what was written; the restart
  comes before the file is serialized in `ack_write_server`, `AckWriteCommunicateServer` and `WriteCommunicationServerInfo`.
- `json_serialize_to_file` truncates and then writes (`parson.c` 1239); whoever reads in between exits. Connecting
  threads write back a copy they parsed before the first try to connect, over what was written since.

## 6. Not modelled, and what remains

- The data race of the list operations: EnQueue and Insertion_Sort of the producer and DeQueue of the consumer run without
  a mutex, so any interleaving of loads and stores, of values a compiler may keep in registers, can occur; what
  follows from it is not confined to the list.
- `jitqueue.c`, `thread_down`, `timersync.c`, GPS: `main` starts none of their threads.
- `Thread_Send_Join` and the copy of the request for the server; the filter that drops joins within 20 ms of the
  last one of any node (`lora_pkt_fwd.c` 1629).
- A statement that cannot even be prepared: the code closes the connection and goes on with it (`lora_pkt_fwd.c` 3586-3591,
  `message_management.c` 532-537, `lora_pkt_conf.c` 892-896 and wherever a statement is prepared), which is undefined; at best the
  process dies, and `Init` covers its restart. A lock does not make it happen: preparing reads the schema, which each
  connection has in memory once a statement of its own succeeded, and `SQLITE_BUSY` comes at the step, where the modules have it.
- Contents of messages, escaping and check sums, formatting, cryptography (a MIC is good or
  not, keys are a value), time on air (floating point), channel tables.
- Registration, which the communication version compiles out; the broadcast of `lora_pkt_conf`;
  `parse_gateway_configuration`, which has no caller; the data and file system of the upgrade.
- A server started by the watchdog has a pid `lora_pkt_conf` does not know (`known` in Config): that a second
  one may be started beside it is left out, and so are two `lora_pkt_fwd` that a script and the watchdog start at once.
- Restarts of `lora_pkt_fwd` lose its queues and keep `devaddrinfo` and the table:
  `Init` of JoinFlow starts from any such file and table.
