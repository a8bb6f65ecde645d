------------------------------ MODULE NodeTable -----------------------------
(***************************************************************************)
(* The commands on the tables GWINFO (the nodes) and Region of hub.db:     *)
(* those of the server, handled by lora_pkt_server, and those of the PC    *)
(* tool, handled by lora_pkt_conf, while lora_pkt_fwd stores counters and  *)
(* joins.  Each command is a series of transactions, and each process does *)
(* one command at a time.                                                  *)
(*                                                                         *)
(* A session key is 1 for what the operator calls NwkSKey, 2 for AppSKey   *)
(* and 0 for NULL; the AppKey 0 is the one of ABP nodes (all ff).  A table *)
(* is a set of rows: of equal rows the code would treat each alike.        *)
(***************************************************************************)
EXTENDS Naturals, FiniteSets, Sqlite

CONSTANTS
    Eui,
    Addr,       \* device addresses, positive
    KEYS,       \* AppKeys are 1..KEYS
    CHANNELS,   \* channels of Region, 8; no fewer than the columns of an ABP node
    PKG,        \* nodes in a package of a list, 8
    MaxRows,    \* bound on the rows at the start
    Garbage,    \* what the uninitialised maxid may be
    MaxCmds,    \* bound on commands
    MaxStores   \* bound on writes of lora_pkt_fwd

ASSUME NodeTableAssumption ==
    /\ Addr \subseteq Nat \ {0} /\ Garbage \subseteq Nat
    /\ Conn = {"server", "conf", "fwd"}
    /\ Eui # {} /\ KEYS \in Nat \ {0} /\ MaxRows \in Nat /\ MaxCmds \in Nat /\ MaxStores \in Nat
    /\ CHANNELS \in Nat \ (0..2) /\ PKG \in Nat \ {0}

VARIABLES
    pc, cmd,    \* per process: where it is in which command
    found,      \* the row its SELECT stopped at
    maxid,      \* the ID it inserts
    ch,         \* the channel, or the column of an ABP node, it is at
    count,      \* udp_callback_count, sqlite_callback_count
    ok,         \* whether it answers success
    raced,      \* whether another process wrote, or it was refused a read or a
                \* write, since its command began
    promised,   \* nodes whose addition was answered with success
    doubled,    \* nodes inserted by such a command
    fwd,        \* whether lora_pkt_fwd is between a statement and its COMMIT
    cmds, stores

vars == <<db, conn, image, pc, cmd, found, maxid, ch, count, ok, raced, promised,
          doubled, fwd, cmds, stores>>

Proc == {"server", "conf"}
Row == [id : Nat, eui : Eui, key : 0..KEYS, addr : {0} \union Addr,
        nwk : 0..2, app : 0..2, rx2 : 0..1]
NoRow == [id |-> 0]
\* Region: its band and Rx1DRoffset, and the frequencies of the channels.
Db == [rows : SUBSET Row, region : [{"band", "rx1"} -> 0..1],
       freq : [{"up", "down"} -> [1..CHANNELS -> 0..1]]]

\* The commands of each process.  The PC's name for "add or change" is write;
\* restart stands for those that kill lora_pkt_server and start it again.
RegionCmds == {"getRegion", "getRx1", "getUp", "getDown",
               "confRegion", "confRx1", "confUp", "confDown"}
ServerCmds == {"add", "abp", "change", "delete", "deleteAll", "read", "readAbp", "list",
               "getRx2", "confRx2"} \union RegionCmds
PC_Configuration ==
    {"write", "abp", "delete", "deleteAll", "read", "readAbp", "list", "getRx2",
     "confRx2", "restart"} \union RegionCmds

Cmds(p) == IF p = "server" THEN ServerCmds ELSE PC_Configuration

TypeOK ==
    /\ db \in Db /\ image \in Db
    /\ conn \in [Conn -> ConnState]
    /\ pc \in [Proc -> {"idle", "addr", "addrEnd", "find", "findEnd", "max", "maxEnd",
                        "write", "writeEnd", "list", "listEnd", "restart", "reply"}]
    /\ cmd \in [Proc -> [op : ServerCmds \union PC_Configuration, eui : Eui,
                         key : 0..KEYS, addr : {0} \union Addr]]
    /\ found \in [Proc -> Row \union {NoRow}]
    /\ maxid \in [Proc -> Nat] /\ ch \in [Proc -> 1..CHANNELS] /\ count \in [Proc -> Nat]
    /\ ok \in [Proc -> BOOLEAN] /\ raced \in [Proc -> BOOLEAN]
    /\ promised \subseteq Eui /\ doubled \subseteq Eui /\ fwd \in BOOLEAN
    /\ cmds \in 0..MaxCmds /\ stores \in 0..MaxStores

\* The table as earlier runs left it: one row per node, joined or not.
SqliteGwInfoTable ==
    {t \in SUBSET [id : 1..MaxRows, eui : Eui, key : {1}, addr : {0}, nwk : {0}, app : {0},
                   rx2 : {0}] :
        \A r, q \in t : (r.id = q.id \/ r.eui = q.eui) => r = q}

Channel_FrequencyTable_Init ==
    [region |-> [s \in {"band", "rx1"} |-> 0],
     freq |-> [l \in {"up", "down"} |-> [c \in 1..CHANNELS |-> 0]]]

NoCmd == [op |-> "read", eui |-> CHOOSE e \in Eui : TRUE, key |-> 0, addr |-> 0]

Init ==
    /\ \E t \in SqliteGwInfoTable :
        db = [rows |-> t, region |-> Channel_FrequencyTable_Init.region,
              freq |-> Channel_FrequencyTable_Init.freq]
    /\ image = db /\ conn = [c \in Conn |-> Unused]
    /\ pc = [p \in Proc |-> "idle"] /\ cmd = [p \in Proc |-> NoCmd]
    /\ found = [p \in Proc |-> NoRow] /\ maxid = [p \in Proc |-> 0]
    /\ ch = [p \in Proc |-> 1] /\ count = [p \in Proc |-> 0]
    /\ ok = [p \in Proc |-> FALSE] /\ raced = [p \in Proc |-> FALSE]
    /\ promised = {} /\ doubled = {} /\ fwd = FALSE /\ cmds = 0 /\ stores = 0

-----------------------------------------------------------------------------
(* What the commands do to a table, and where they go from a SELECT.       *)

Op(p) == cmd[p].op
Missing(p) == found[p] = NoRow
IfMissing(p, then, else) == IF Missing(p) THEN then ELSE else


\* Mutant: the node is added without regard to the rows.
AddSingleNodeAlways(p) == "max"

ServerAddSingleNode(p) == IfMissing(p, "max", "reply")
ServerAddAbpNode(p) == IfMissing(p, "max", "reply")
ServerChangeSingleNodeAppkey(p) == IfMissing(p, "reply", "write")
ServerDeleteSingleNode(p) == IfMissing(p, "reply", "write")
ack_write_node(p) == IfMissing(p, "max", "write")
ABP_Configure_Node_Info(p) == IfMissing(p, "max", "write")

AfterFind(p) ==
    CASE Op(p) \in {"read", "readAbp", "getRx2"} -> "reply"
      [] Op(p) = "add"    -> ServerAddSingleNode(p)
      [] Op(p) = "change" -> ServerChangeSingleNodeAppkey(p)
      [] Op(p) = "delete" -> ServerDeleteSingleNode(p)
      [] Op(p) = "write"  -> ack_write_node(p)
      [] Op(p) = "abp"    -> IF p = "server" THEN ServerAddAbpNode(p)
                             ELSE ABP_Configure_Node_Info(p)

NewRow(p, nwk, app) ==
    [id |-> maxid[p], eui |-> cmd[p].eui, key |-> cmd[p].key, addr |-> cmd[p].addr,
     nwk |-> nwk, app |-> app, rx2 |-> 0]

\* nwkskey_p is made of appskey, and appskey_p of nwkskey.
ServerAbpRow(p) == NewRow(p, 2, 1)
AbpRow(p) == NewRow(p, 1, 2)
AddedRow(p) == NewRow(p, 0, 0)
WrittenRow(p) == NewRow(p, 0, 0)

RowOf(p) ==
    CASE Op(p) = "add"   -> AddedRow(p)
      [] Op(p) = "write" -> WrittenRow(p)
      [] Op(p) = "abp"   -> IF p = "server" THEN ServerAbpRow(p) ELSE AbpRow(p)

Clash(p) == \E r \in View(p).rows : r.id = maxid[p]

Updated(v, e, f(_)) == [v EXCEPT !.rows = {IF r.eui = e THEN f(r) ELSE r : r \in v.rows}]

KeyChanged(p, v) == LET f(r) == [r EXCEPT !.key = cmd[p].key] IN Updated(v, cmd[p].eui, f)

\* The columns Devaddr, Nwkskey and APPskey are updated one by one.
Columns == 3
AbpConfigured(p, v) ==
    LET f(r) == CASE ch[p] = 1 -> [r EXCEPT !.addr = cmd[p].addr]
                  [] ch[p] = 2 -> [r EXCEPT !.nwk = 1]
                  [] OTHER     -> [r EXCEPT !.app = 2]
    IN  Updated(v, cmd[p].eui, f)

Deleted(p, v) == [v EXCEPT !.rows = {r \in @ : r.eui # cmd[p].eui}]
ServerDeleteAllNode(v) == [v EXCEPT !.rows = {}]
ServerConfClassCFreq(v) == [v EXCEPT !.rows = {[r EXCEPT !.rx2 = 1] : r \in @}]
ServerConfRegionFreq(v) == [v EXCEPT !.region["band"] = 1]
ServerConfRx1DRoffset(v) == [v EXCEPT !.region["rx1"] = 1]
ServerConfUplinkFreq(p, v) == [v EXCEPT !.freq["up"][ch[p]] = 1]
ServerConfDownFreq(p, v) == [v EXCEPT !.freq["down"][ch[p]] = 1]

Effect(p, v) ==
    CASE Op(p) = "deleteAll"  -> ServerDeleteAllNode(v)
      [] Op(p) = "delete"     -> Deleted(p, v)
      [] Op(p) = "confRx2"    -> ServerConfClassCFreq(v)
      [] Op(p) = "confRegion" -> ServerConfRegionFreq(v)
      [] Op(p) = "confRx1"    -> ServerConfRx1DRoffset(v)
      [] Op(p) = "confUp"     -> ServerConfUplinkFreq(p, v)
      [] Op(p) = "confDown"   -> ServerConfDownFreq(p, v)
      [] Op(p) = "change"     -> KeyChanged(p, v)
      [] OTHER ->
            IF ~Missing(p) /\ Op(p) = "write" THEN KeyChanged(p, v)
            ELSE IF ~Missing(p) /\ Op(p) = "abp" THEN AbpConfigured(p, v)
            ELSE IF Clash(p) THEN v ELSE [v EXCEPT !.rows = @ \union {RowOf(p)}]

\* Whether a command that reads is answered.  The PC always gets an answer: zeros
\* for the AppKey of an unknown node, and what the uninitialised frequency holds
\* when there is no row.
SeekSingleNodeAppKey(p) == ~Missing(p)
ServerReadAbpNode(p) == ~Missing(p)
ServerGetClassCFreq(p) == ~Missing(p)
ABP_Fetch_Node_Info(p) == ~Missing(p)
ack_read_node(p) == TRUE
read_all_rx2_freq(p) == TRUE

Answer(p) ==
    CASE Op(p) = "read"    -> IF p = "server" THEN SeekSingleNodeAppKey(p) ELSE ack_read_node(p)
      [] Op(p) = "readAbp" -> IF p = "server" THEN ServerReadAbpNode(p) ELSE ABP_Fetch_Node_Info(p)
      [] Op(p) = "getRx2"  -> IF p = "server" THEN ServerGetClassCFreq(p) ELSE read_all_rx2_freq(p)
      [] OTHER             -> FALSE

-----------------------------------------------------------------------------
(* The steps of a command.                                                 *)

Goto(p, l) == pc' = [pc EXCEPT ![p] = l]
Set(v, p, x) == [v EXCEPT ![p] = x]

\* p was refused something, or what it does changes what is committed.
Race(p, refused) ==
    raced' = [q \in Proc |-> \/ raced[q]
                             \/ q = p /\ refused
                             \/ q # p /\ pc[q] # "idle" /\ db' # db]

ReadsRegion == {"getRegion", "getRx1"}
GetFreqs == {"getUp", "getDown"}
ConfFreqs == {"confUp", "confDown"}

First(p, o) ==
    CASE o = "abp" -> "addr"
      [] o \in {"list", "restart"} -> o
      [] o \in {"deleteAll", "confRx2", "confRegion", "confRx1"} \union ConfFreqs -> "write"
      [] o = "delete" -> IF p = "server" THEN "find" ELSE "write"
      [] OTHER -> "find"

ByEui == {"add", "abp", "write", "change", "delete", "read", "readAbp"}

Receive(p) ==
    /\ pc[p] = "idle" /\ cmds < MaxCmds
    /\ \E o \in Cmds(p) :
        /\ \E e \in IF o \in ByEui THEN Eui ELSE {NoCmd.eui},
              k \in IF o \in {"add", "write", "change"} THEN 1..KEYS ELSE {0},
              a \in IF o = "abp" THEN Addr ELSE {0} :
                cmd' = Set(cmd, p, [op |-> o, eui |-> e, key |-> k, addr |-> a])
        /\ Goto(p, First(p, o))
    /\ cmds' = cmds + 1
    /\ UNCHANGED <<db, conn, image, found, maxid, ch, count, ok, raced, promised, doubled, fwd, stores>>

Matches(p) ==
    {r \in View(p).rows : CASE pc[p] = "addr"     -> r.addr = cmd[p].addr
                            [] Op(p) = "getRx2" -> TRUE
                            [] OTHER            -> r.eui = cmd[p].eui}

\* Preparing does not touch the file: a refused SELECT shows when it is stepped,
\* which then gives no row, as if there were none.
Find(p) ==
    /\ pc[p] \in {"addr", "find"} /\ Op(p) \notin ReadsRegion \union GetFreqs
    /\ Select(p, Op(p) # "write", Matches(p) # {})
    /\ IF CanRead(p) /\ Matches(p) # {}
       THEN \E r \in Matches(p) : found' = Set(found, p, r)
       ELSE found' = Set(found, p, NoRow)
    /\ Goto(p, IF pc[p] = "addr" THEN "addrEnd" ELSE "findEnd")
    /\ Race(p, ~CanRead(p))
    /\ UNCHANGED <<cmd, maxid, ch, count, ok, promised, doubled, fwd, cmds, stores>>

\* stmt_devaddr is finalized at once, the others' SELECT at the end only.
AddrEnd(p) ==
    /\ pc[p] = "addrEnd"
    /\ CommitFinalize(p)
    /\ Goto(p, IfMissing(p, "find", "reply"))
    /\ Race(p, FALSE)
    /\ UNCHANGED <<cmd, found, maxid, ch, count, ok, promised, doubled, fwd, cmds, stores>>

\* Mutant: the SELECT is reset with the transaction.
FindEndResets(p) ==
    /\ pc[p] = "findEnd" /\ Op(p) \notin ReadsRegion \union GetFreqs
    /\ IF Op(p) = "write" THEN Finalize(p) ELSE CommitFinalize(p)
    /\ Goto(p, AfterFind(p))
    /\ ok' = Set(ok, p, Answer(p))
    /\ Race(p, FALSE)
    /\ UNCHANGED <<cmd, found, maxid, ch, count, promised, doubled, fwd, cmds, stores>>

\* ack_write_node has no transaction around its SELECT.
FindEnd(p) ==
    /\ pc[p] = "findEnd" /\ Op(p) \notin ReadsRegion \union GetFreqs
    /\ IF Op(p) = "write" THEN UNCHANGED <<db, conn, image>> ELSE Commit(p)
    /\ Goto(p, AfterFind(p))
    /\ ok' = Set(ok, p, Answer(p))
    /\ Race(p, FALSE)
    /\ UNCHANGED <<cmd, found, maxid, ch, count, promised, doubled, fwd, cmds, stores>>

\* What the ID is counted from when there is no row: IdValue and id_buff are 0.
NoMax(p) == IF Op(p) = "abp" THEN Garbage ELSE {0}

FindMax(p) ==
    /\ pc[p] = "max"
    /\ Select(p, TRUE, FALSE)
    /\ IF CanRead(p) /\ View(p).rows # {}
       THEN \E r \in View(p).rows : /\ \A q \in View(p).rows : q.id <= r.id
                                    /\ maxid' = Set(maxid, p, r.id + 1)
       ELSE \E m \in NoMax(p) : maxid' = Set(maxid, p, m + 1)
    /\ Goto(p, "maxEnd")
    /\ Race(p, ~CanRead(p))
    /\ UNCHANGED <<cmd, found, ch, count, ok, promised, doubled, fwd, cmds, stores>>

MaxEnd(p) ==
    /\ pc[p] = "maxEnd"
    /\ Commit(p)
    /\ Goto(p, "write")
    /\ Race(p, FALSE)
    /\ UNCHANGED <<cmd, found, maxid, ch, count, ok, promised, doubled, fwd, cmds, stores>>

\* Mutant: an INSERT is answered as ack_write_node answers.
AlwaysSuccess(p) == TRUE

\* Whether the statement is answered with success: ack_write_node and the
\* update of ABP_Configure_Node_Info do not look at the result.
Success(p) ==
    \/ CanWrite(p) /\ (Op(p) \in {"add", "abp"} /\ Missing(p) => ~Clash(p))
    \/ Op(p) = "write"
    \/ p = "conf" /\ Op(p) = "abp" /\ ~Missing(p)

Unpromised(p) ==
    CASE CanWrite(p) /\ Op(p) = "deleteAll" -> Eui
      [] CanWrite(p) /\ Op(p) = "delete"    -> {cmd[p].eui}
      [] OTHER                              -> {}

\* The statements of a transaction.  The PC's channels are set in one, the
\* server's in one each.
Statements(p) ==
    CASE p = "conf" /\ Op(p) \in ConfFreqs             -> CHANNELS
      [] p = "conf" /\ Op(p) = "abp" /\ ~Missing(p)    -> Columns
      [] OTHER                                         -> 1

\* The results of the UPDATEs of an ABP node's columns are only logged.
Write(p) ==
    /\ pc[p] = "write" /\ (Op(p) = "confRx2" => p = "server")
    /\ Execute(p, Effect(p, View(p)))
    /\ ok' = Set(ok, p, Success(p))
    /\ promised' = promised \ Unpromised(p)
    /\ doubled' = doubled \union
            IF raced[p] /\ Op(p) \in {"add", "abp", "write"} THEN {cmd[p].eui} ELSE {}
    /\ IF ch[p] < Statements(p)
       THEN ch' = Set(ch, p, ch[p] + 1) /\ UNCHANGED pc
       ELSE UNCHANGED ch /\ Goto(p, "writeEnd")
    /\ Race(p, ~CanWrite(p))
    /\ UNCHANGED <<cmd, found, maxid, count, fwd, cmds, stores>>

Promised(p) ==
    IF ok[p] /\ Op(p) \in {"add", "abp"} /\ Missing(p) THEN {cmd[p].eui} ELSE {}

\* Mutant: the loop over the channels runs once too often.
WriteEndFar(p) ==
    /\ pc[p] = "writeEnd"
    /\ Commit(p)
    /\ promised' = promised \union Promised(p)
    /\ IF p = "server" /\ Op(p) \in ConfFreqs /\ ch[p] <= CHANNELS
       THEN ch' = Set(ch, p, ch[p] + 1) /\ Goto(p, "write")
       ELSE UNCHANGED ch /\ Goto(p, "reply")
    /\ Race(p, FALSE)
    /\ UNCHANGED <<cmd, found, maxid, count, ok, doubled, fwd, cmds, stores>>

\* The result of COMMIT is not looked at.
WriteEnd(p) ==
    /\ pc[p] = "writeEnd"
    /\ Commit(p)
    /\ promised' = promised \union Promised(p)
    /\ IF p = "server" /\ Op(p) \in ConfFreqs /\ ch[p] < CHANNELS
       THEN ch' = Set(ch, p, ch[p] + 1) /\ Goto(p, "write")
       ELSE UNCHANGED ch /\ Goto(p, "reply")
    /\ Race(p, FALSE)
    /\ UNCHANGED <<cmd, found, maxid, count, ok, doubled, fwd, cmds, stores>>

\* The PC's has no transaction of its own: what is refused at its end is answered
\* as an error, too.
conf_all_rx2_freq ==
    /\ pc["conf"] = "write" /\ Op("conf") = "confRx2"
    /\ ExecuteAlone("conf", ServerConfClassCFreq(View("conf")))
    /\ ok' = Set(ok, "conf", CanWriteAlone("conf"))
    /\ Goto("conf", "reply")
    /\ Race("conf", ~CanWriteAlone("conf"))
    /\ UNCHANGED <<cmd, found, maxid, ch, count, promised, doubled, fwd, cmds, stores>>

SelectRegion(p) ==
    /\ pc[p] = "find"
    /\ Select(p, TRUE, TRUE)
    /\ ok' = Set(ok, p, CanRead(p))
    /\ Goto(p, "findEnd")
    /\ UNCHANGED <<cmd, found, maxid, ch, count, raced, promised, doubled, fwd, cmds, stores>>

ServerGetRegionFreq(p) == Op(p) = "getRegion" /\ SelectRegion(p)
ServerGetRx1DRoffset(p) == Op(p) = "getRx1" /\ SelectRegion(p)

\* Only the PC's commands end their transaction.
RegionEnd(p) ==
    /\ pc[p] = "findEnd" /\ Op(p) \in ReadsRegion
    /\ IF p = "server" THEN Finalize(p) ELSE CommitFinalize(p)
    /\ Goto(p, "reply")
    /\ Race(p, FALSE)
    /\ UNCHANGED <<cmd, found, maxid, ch, count, ok, promised, doubled, fwd, cmds, stores>>

SelectChannel(p) ==
    /\ pc[p] = "find"
    /\ Select(p, TRUE, TRUE)
    /\ ok' = Set(ok, p, ok[p] \/ CanRead(p))
    /\ Goto(p, "findEnd")
    /\ UNCHANGED <<cmd, found, maxid, ch, count, raced, promised, doubled, fwd, cmds, stores>>

ServerGetUplinkFreq(p) == Op(p) = "getUp" /\ SelectChannel(p)
ServerGetDownFreq(p) == Op(p) = "getDown" /\ SelectChannel(p)

\* The COMMIT is in the loop over the rows: a refused SELECT leaves BEGIN open.
FreqEnd(p) ==
    /\ pc[p] = "findEnd" /\ Op(p) \in GetFreqs
    /\ IF conn[p].stmt THEN CommitFinalize(p) ELSE UNCHANGED <<db, conn, image>>
    /\ IF ch[p] < CHANNELS
       THEN ch' = Set(ch, p, ch[p] + 1) /\ Goto(p, "find")
       ELSE UNCHANGED ch /\ Goto(p, "reply")
    /\ Race(p, FALSE)
    /\ UNCHANGED <<cmd, found, maxid, count, ok, promised, doubled, fwd, cmds, stores>>

\* The callback counts the rows.
List(p) ==
    /\ pc[p] = "list"
    /\ Select(p, TRUE, FALSE)
    /\ count' = Set(count, p, IF CanRead(p) THEN Cardinality(View(p).rows) ELSE 0)
    /\ Goto(p, "listEnd")
    /\ UNCHANGED <<cmd, found, maxid, ch, ok, raced, promised, doubled, fwd, cmds, stores>>

ListEnd(p) ==
    /\ pc[p] = "listEnd"
    /\ Commit(p)
    /\ Goto(p, "reply")
    /\ Race(p, FALSE)
    /\ UNCHANGED <<cmd, found, maxid, ch, count, ok, promised, doubled, fwd, cmds, stores>>

Forget(p) ==
    /\ found' = Set(found, p, NoRow) /\ maxid' = Set(maxid, p, 0)
    /\ ch' = Set(ch, p, 1) /\ count' = Set(count, p, 0)
    /\ ok' = Set(ok, p, FALSE) /\ raced' = Set(raced, p, FALSE)
    /\ cmd' = Set(cmd, p, NoCmd)

Reply(p) ==
    /\ pc[p] = "reply"
    /\ Finalize(p)
    /\ Goto(p, "idle")
    /\ Forget(p)
    /\ UNCHANGED <<promised, doubled, fwd, cmds, stores>>

HasRow(e, v) == \E r \in v.rows : r.eui = e

\* lora_pkt_server is killed in whatever it does and started again.
ack_write_server ==
    /\ pc["conf"] = "restart"
    /\ Rollback("server")
    /\ pc' = [pc EXCEPT !["server"] = "idle", !["conf"] = "reply"]
    /\ Forget("server")
    /\ promised' = {e \in promised : HasRow(e, db)}
    /\ UNCHANGED <<doubled, fwd, cmds, stores>>

\* A join: the address and the session keys of a node with an AppKey.
FwdStore(e, a) ==
    /\ ~fwd /\ stores < MaxStores
    /\ LET f(r) == [r EXCEPT !.addr = a, !.nwk = 1, !.app = 2]
       IN  Execute("fwd", Updated(View("fwd"), e, f))
    /\ fwd' = TRUE /\ stores' = stores + 1
    /\ UNCHANGED <<pc, cmd, found, maxid, ch, count, ok, raced, promised, doubled, cmds>>

FwdEnd ==
    /\ fwd /\ fwd' = FALSE
    /\ Commit("fwd")
    /\ raced' = [q \in Proc |-> raced[q] \/ (pc[q] # "idle" /\ db' # db)]
    /\ UNCHANGED <<pc, cmd, found, maxid, ch, count, ok, promised, doubled, cmds, stores>>

Step(p) ==
    \/ Receive(p) \/ Find(p) \/ AddrEnd(p) \/ FindEnd(p) \/ FindMax(p) \/ MaxEnd(p)
    \/ Write(p) \/ WriteEnd(p)
    \/ ServerGetRegionFreq(p) \/ ServerGetRx1DRoffset(p) \/ RegionEnd(p)
    \/ ServerGetUplinkFreq(p) \/ ServerGetDownFreq(p) \/ FreqEnd(p) \/ List(p) \/ ListEnd(p) \/ Reply(p)

Next ==
    \/ \E p \in Proc : Step(p)
    \/ conf_all_rx2_freq \/ ack_write_server
    \/ \E e \in Eui, a \in Addr : FwdStore(e, a)
    \/ FwdEnd

Spec == Init /\ [][Next]_vars

-----------------------------------------------------------------------------
(* The packages of a list.                                                 *)

\* The nodes of package k when n are listed, by their place among all: all
\* packages of the server but the last start at the first node.
Packages(n) == IF n <= PKG THEN 1 ELSE (n + PKG - 1) \div PKG
InPackage(n, k) == IF k < Packages(n) THEN PKG ELSE n - (Packages(n) - 1) * PKG

\* Mutant: the last package starts one node late.
LastPackageLate(n, k) ==
    [i \in 1..InPackage(n, k) |-> IF k < Packages(n) THEN i ELSE (k - 1) * PKG + i + 1]

ServerGetAllNodeDevEui(n, k) ==
    [i \in 1..InPackage(n, k) |-> IF k < Packages(n) THEN i ELSE (k - 1) * PKG + i]
ack_read_all_node(n, k) == [i \in 1..InPackage(n, k) |-> (k - 1) * PKG + i]
Package(p, n, k) ==
    IF p = "server" THEN ServerGetAllNodeDevEui(n, k) ELSE ack_read_all_node(n, k)

-----------------------------------------------------------------------------
(* Properties.                                                             *)

\* A node has one row, unless a process that looked for it in vain was refused
\* something by the data base, or another process wrote, before its INSERT.
OneRowPerNode ==
    \A e \in Eui \ doubled : \A r, q \in db.rows : r.eui = e /\ q.eui = e => r = q

\* The locks of the data base are where they are needed and nowhere else.
\* What a SELECT found is still in the table when the first UPDATE or the DELETE it
\* allows is executed, and when it is sent: the statement left at its row keeps the
\* others from committing, although the transaction is over.
FoundStays ==
    \A p \in Proc :
        /\ ~Missing(p)
        /\ \/ pc[p] = "findEnd"
           \/ pc[p] = "write" /\ ch[p] = 1
           \/ pc[p] = "reply" /\ Op(p) \in {"read", "readAbp", "getRx2"}
        => found[p] \in View(p).rows

\* Between commands no process holds a lock that it wrote under, unless its COMMIT
\* was refused, and lora_pkt_conf none at all; but lora_pkt_server keeps others from
\* writing, as its reading of Region never ends its transaction, and so does
\* lora_pkt_conf with an Rx2 frequency that it set in the transaction a refused
\* reading of the channels had left open: all that is not committed is that.
LocksReleased ==
    \A p \in Proc : pc[p] = "idle" =>
        /\ ~conn[p].stmt
        /\ \/ conn[p].lock \in {"none", "pending"}
           \/ p = "server" /\ conn[p].lock = "shared"
           \/ p = "conf" /\ conn[p].lock = "reserved" /\ image = ServerConfClassCFreq(db)

LocksInPlace == FoundStays /\ LocksReleased

\* What was answered as done is done.  A node whose addition was answered with
\* success is in the table or in what a refused COMMIT will write: it is lost
\* only if lora_pkt_server is killed then.
AddedIsStored ==
    \A e \in promised : HasRow(e, db) \/ HasRow(e, image)

\* Frequencies that were answered as set are set, all of them, unless the data
\* base refused something: only the last channel's result is looked at.
FrequenciesSet ==
    \A p \in Proc :
        pc[p] = "reply" /\ Op(p) \in ConfFreqs /\ ok[p] /\ ~raced[p]
            => \A c \in 1..CHANNELS :
                   View(p).freq[IF Op(p) = "confUp" THEN "up" ELSE "down"][c] = 1

SuccessIsStored == AddedIsStored /\ FrequenciesSet

\* A list names every node once; the server's only up to two packages.
EveryNodeListed ==
    \A p \in Proc :
        LET n == count[p]
            at == {x \in (1..Packages(n)) \X (1..PKG) : x[2] <= InPackage(n, x[1])}
        IN  pc[p] = "reply" /\ Op(p) = "list" /\ (p = "server" => n <= 2 * PKG)
            => /\ Cardinality(at) = n
               /\ {Package(p, n, x[1])[x[2]] : x \in at} = 1..n
=============================================================================
