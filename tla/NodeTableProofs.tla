--------------------------- MODULE NodeTableProofs ---------------------------
(***************************************************************************)
(* Theorems about NodeTable, for any number of nodes, addresses, channels, *)
(* rows, commands and writes of lora_pkt_fwd.                              *)
(***************************************************************************)
EXTENDS NodeTable, FiniteSetTheorems, FunctionTheorems, TLAPS

\* At most one connection has written, under a lock that its transaction keeps; a
\* SELECT at its row has a lock, and there is none without one or the other.
OneWriter ==
    \A c, d \in Conn : conn[c].lock \in Writing /\ conn[d].lock \in Writing => c = d
Locks ==
    /\ \A c \in Conn : /\ conn[c].stmt => conn[c].lock # "none"
                       /\ conn[c].lock # "none" => conn[c].tx \/ conn[c].stmt
                       /\ conn[c].lock \in Writing => conn[c].tx
    /\ OneWriter
    /\ (\A c \in Conn : conn[c].lock \notin Writing) => image = db
ConnType == conn \in [Conn -> ConnState]

\* Which steps belong to which commands.
Inserting == {"add", "abp", "write"}
Setting == {"deleteAll", "confRx2", "confRegion", "confRx1"} \union ConfFreqs
Looking == {"read", "readAbp", "getRx2"}
Seeking == Inserting \union {"change", "delete"} \union Looking \union ReadsRegion \union GetFreqs
Changing == Inserting \union {"change", "delete"} \union Setting

Placed(p) ==
    /\ Op(p) \in Cmds(p)
    /\ pc[p] \in {"addr", "addrEnd"} => Op(p) = "abp"
    /\ pc[p] \in {"find", "findEnd"} => Op(p) \in Seeking
    /\ pc[p] \in {"max", "maxEnd"} => Op(p) \in Inserting /\ Missing(p)
    /\ pc[p] \in {"write", "writeEnd"} => Op(p) \in Changing
    /\ pc[p] = "write" /\ (Op(p) = "add" \/ (p = "server" /\ Op(p) = "abp")) => Missing(p)
    /\ pc[p] = "writeEnd" /\ p = "conf" /\ Op(p) \in ConfFreqs => ch[p] = CHANNELS
    /\ pc[p] \in {"list", "listEnd"} => Op(p) = "list"
    /\ pc[p] = "restart" => p = "conf" /\ Op(p) = "restart"
    /\ pc[p] = "idle" => Missing(p) /\ ch[p] = 1
    /\ Op(p) \in Setting \union ReadsRegion \union GetFreqs => Missing(p)

\* The variables of the processes.
Place == {"idle", "addr", "addrEnd", "find", "findEnd", "max", "maxEnd", "write",
          "writeEnd", "list", "listEnd", "restart", "reply"}
Command == [op : ServerCmds \union PC_Configuration, eui : Eui, key : 0..KEYS,
            addr : {0} \union Addr]
ProcType ==
    /\ pc \in [Proc -> Place] /\ cmd \in [Proc -> Command]
    /\ found \in [Proc -> Row \union {NoRow}]
    /\ maxid \in [Proc -> Nat] /\ ch \in [Proc -> 1..CHANNELS] /\ count \in [Proc -> Nat]
    /\ ok \in [Proc -> BOOLEAN] /\ raced \in [Proc -> BOOLEAN]
OtherType ==
    /\ promised \subseteq Eui /\ doubled \subseteq Eui /\ fwd \in BOOLEAN
    /\ cmds \in 0..MaxCmds /\ stores \in 0..MaxStores

\* Tables are finite, so that they can be counted.
Table(v) == v \in Db /\ IsFiniteSet(v.rows)

TypeInv ==
    /\ Table(db) /\ Table(image) /\ ConnType /\ ProcType /\ OtherType
    /\ \A p \in Proc : Placed(p)

-----------------------------------------------------------------------------
(* What the actions of Sqlite do.                                          *)

\* A connection's own step changes no other's lock and no other's view, but by a
\* commit that finds none of the others with a lock.
Frame(c) ==
    /\ ConnType' /\ Locks'
    /\ \A d \in Conn \ {c} :
          /\ conn'[d] = conn[d]
          /\ conn[d].lock # "none" => db' = db
          /\ db' = db => View(d)' = View(d)

\* A step that writes nothing new, whatever it ends.
Old(c) ==
    /\ Frame(c)
    /\ View(c)' = View(c)
    /\ db' \in {db, image} /\ image' = image

\* A step that may write.
New(c, new) ==
    /\ Frame(c)
    /\ View(c)' = IF CanWrite(c) THEN new ELSE View(c)
    /\ CanWrite(c) => conn'[c].lock \in Writing
    /\ db' = db /\ image' = IF CanWrite(c) THEN new ELSE image

LEMMA Fields ==
    ASSUME ConnType, NEW c \in Conn
    PROVE  /\ conn[c].tx \in BOOLEAN /\ conn[c].stmt \in BOOLEAN
           /\ conn[c].lock \in {"none", "shared", "reserved", "pending"}
           /\ conn[c] = [tx |-> conn[c].tx, lock |-> conn[c].lock, stmt |-> conn[c].stmt]
BY DEF ConnType, ConnState, Writing

\* The state of c after a step, by its fields.
Becomes(c, t, l, s) ==
    /\ ConnType'
    /\ conn'[c].tx = t /\ conn'[c].lock = l /\ conn'[c].stmt = s
    /\ \A d \in Conn \ {c} : conn'[d] = conn[d]

LEMMA Becoming ==
    ASSUME ConnType, NEW c \in Conn, NEW s \in ConnState,
           conn' = [conn EXCEPT ![c] = s]
    PROVE  Becomes(c, s.tx, s.lock, s.stmt)
BY DEF ConnType, Becomes

LEMMA Lock == ConnState = [tx : BOOLEAN, lock : {"none", "shared", "reserved", "pending"},
                           stmt : BOOLEAN]
BY DEF ConnState, Writing

LEMMA SetTx ==
    ASSUME NEW r \in ConnState, NEW t \in BOOLEAN
    PROVE  LET q == [r EXCEPT !.tx = t]
           IN  q \in ConnState /\ q.tx = t /\ q.lock = r.lock /\ q.stmt = r.stmt
BY Lock

LEMMA SetLock ==
    ASSUME NEW r \in ConnState, NEW l \in {"none", "shared", "reserved", "pending"}
    PROVE  LET q == [r EXCEPT !.lock = l]
           IN  q \in ConnState /\ q.tx = r.tx /\ q.lock = l /\ q.stmt = r.stmt
BY Lock

LEMMA SetStmt ==
    ASSUME NEW r \in ConnState, NEW t \in BOOLEAN
    PROVE  LET q == [r EXCEPT !.stmt = t]
           IN  q \in ConnState /\ q.tx = r.tx /\ q.lock = r.lock /\ q.stmt = t
BY Lock

LEMMA SelectState ==
    ASSUME ConnType, NEW c \in Conn, NEW b \in BOOLEAN, NEW k \in BOOLEAN, Select(c, b, k)
    PROVE  /\ Becomes(c, conn[c].tx \/ b,
                      IF CanRead(c) /\ conn[c].lock = "none" /\ (conn[c].tx \/ b \/ k)
                      THEN "shared" ELSE conn[c].lock,
                      conn[c].stmt \/ (CanRead(c) /\ k))
           /\ db' = db /\ image' = image
<1> DEFINE in == [conn[c] EXCEPT !.tx = conn[c].tx \/ b]
           locked == [in EXCEPT !.lock = IF in.lock = "none" /\ (in.tx \/ k) THEN "shared" ELSE in.lock]
           read == [locked EXCEPT !.stmt = locked.stmt \/ k]
<1>1. /\ in \in ConnState /\ in.tx = (conn[c].tx \/ b)
      /\ in.lock = conn[c].lock /\ in.stmt = conn[c].stmt
  <2>1. conn[c] \in ConnState /\ (conn[c].tx \/ b) \in BOOLEAN
    BY Fields DEF ConnType
  <2> QED BY <2>1, SetTx
<1>2. /\ locked \in ConnState /\ locked.tx = in.tx /\ locked.stmt = in.stmt
      /\ locked.lock = IF in.lock = "none" /\ (in.tx \/ k) THEN "shared" ELSE in.lock
  <2>1. (IF in.lock = "none" /\ (in.tx \/ k) THEN "shared" ELSE in.lock)
           \in {"none", "shared", "reserved", "pending"}
    BY <1>1, Lock
  <2> HIDE DEF in
  <2> QED BY <1>1, <2>1, SetLock
<1>3. read \in ConnState /\ read.tx = in.tx /\ read.lock = locked.lock
      /\ read.stmt = (in.stmt \/ k)
  <2> HIDE DEF locked
  <2>1. locked.stmt = in.stmt /\ in.stmt \in BOOLEAN
    BY <1>1, <1>2, Fields
  <2> HIDE DEF in
  <2>2. (locked.stmt \/ k) \in BOOLEAN /\ (locked.stmt \/ k) = (in.stmt \/ k)
    BY <2>1
  <2>3. [locked EXCEPT !.stmt = locked.stmt \/ k].stmt = (locked.stmt \/ k)
    BY <1>2, <2>2, SetStmt
  <2> QED BY <1>2, <2>2, <2>3, SetStmt
<1>4. conn' = [conn EXCEPT ![c] = IF CanRead(c) THEN read ELSE in]
  <2> HIDE DEF read
  <2>1. conn' = [conn EXCEPT ![c] =
            IF ~CanRead(c) THEN in
            ELSE [in EXCEPT !.lock = IF @ = "none" /\ (in.tx \/ k) THEN "shared" ELSE @,
                            !.stmt = @ \/ k]]
    BY DEF Select
  <2>2. [in EXCEPT !.lock = IF @ = "none" /\ (in.tx \/ k) THEN "shared" ELSE @,
                   !.stmt = @ \/ k] = read
    BY DEF read
  <2> HIDE DEF in
  <2> QED BY <2>1, <2>2
<1>5. db' = db /\ image' = image
  BY DEF Select
<1> HIDE DEF in, read, locked
<1> DEFINE s == IF CanRead(c) THEN read ELSE in
<1>6. /\ s \in ConnState /\ s.tx = (conn[c].tx \/ b)
      /\ s.lock = IF CanRead(c) /\ conn[c].lock = "none" /\ (conn[c].tx \/ b \/ k)
                  THEN "shared" ELSE conn[c].lock
  BY <1>1, <1>2, <1>3
<1>7. s.stmt = (conn[c].stmt \/ (CanRead(c) /\ k))
  <2>1. conn[c].stmt \in BOOLEAN
    BY Fields
  <2>2. CASE CanRead(c)
    BY <1>1, <1>3, <2>1, <2>2
  <2>3. CASE ~CanRead(c)
    BY <1>1, <2>1, <2>3
  <2> QED BY <2>2, <2>3
<1>8. conn' = [conn EXCEPT ![c] = s]
  BY <1>4
<1> HIDE DEF s
<1>9. Becomes(c, s.tx, s.lock, s.stmt)
  BY <1>6, <1>8, Becoming
<1> QED BY <1>5, <1>6, <1>7, <1>9 DEF Becomes

LEMMA ExecuteState ==
    ASSUME ConnType, NEW c \in Conn, NEW new, Execute(c, new)
    PROVE  /\ Becomes(c, TRUE, IF CanWrite(c) /\ conn[c].lock # "pending" THEN "reserved"
                               ELSE conn[c].lock, conn[c].stmt)
           /\ db' = db /\ image' = IF CanWrite(c) THEN new ELSE image
<1> DEFINE l == IF CanWrite(c) /\ conn[c].lock # "pending" THEN "reserved" ELSE conn[c].lock
           begun == [conn[c] EXCEPT !.tx = TRUE]
           s == [begun EXCEPT !.lock = l]
<1>1. conn[c] \in ConnState /\ l \in {"none", "shared", "reserved", "pending"}
  BY Fields DEF ConnType
<1> HIDE DEF l
<1>2. /\ begun \in ConnState /\ begun.tx = TRUE
      /\ begun.lock = conn[c].lock /\ begun.stmt = conn[c].stmt
  BY <1>1, SetTx
<1> HIDE DEF begun
<1>3. s \in ConnState /\ s.tx = TRUE /\ s.lock = l /\ s.stmt = conn[c].stmt
  BY <1>1, <1>2, SetLock
<1> HIDE DEF s
<1>4. conn' = [conn EXCEPT ![c] = s]
  <2>1. conn' = [[conn EXCEPT ![c] = begun] EXCEPT ![c].lock =
                    IF CanWrite(c) /\ @ # "pending" THEN "reserved" ELSE @]
    BY DEF Execute, begun
  <2> QED BY <1>1, <1>2, <2>1 DEF ConnType, s, l
<1> QED BY <1>3, <1>4, Becoming DEF Execute, l

LEMMA EndedState ==
    ASSUME ConnType, NEW c \in Conn
    PROVE  LET q == Ended(conn[c])
           IN  q \in ConnState /\ q.tx = FALSE /\ q.stmt = conn[c].stmt
               /\ q.lock = IF conn[c].stmt THEN "shared" ELSE "none"
<1> DEFINE begun == [conn[c] EXCEPT !.tx = FALSE]
           l == IF conn[c].stmt THEN "shared" ELSE "none"
           s == [begun EXCEPT !.lock = l]
<1>1. conn[c] \in ConnState /\ l \in {"none", "shared", "reserved", "pending"}
  BY Fields DEF ConnType
<1>2. Ended(conn[c]) = s
  BY DEF Ended
<1> HIDE DEF l
<1>3. begun \in ConnState /\ begun.tx = FALSE /\ begun.stmt = conn[c].stmt
  BY <1>1, SetTx
<1> HIDE DEF begun
<1>4. s \in ConnState /\ s.tx = FALSE /\ s.lock = l /\ s.stmt = conn[c].stmt
  BY <1>1, <1>3, SetLock
<1> HIDE DEF s
<1> QED BY <1>2, <1>4 DEF l

LEMMA FinalizedState ==
    ASSUME ConnType, NEW c \in Conn
    PROVE  LET q == Finalized(conn[c])
           IN  q \in ConnState /\ q.tx = conn[c].tx /\ q.stmt = FALSE
               /\ q.lock = IF conn[c].tx THEN conn[c].lock ELSE "none"
<1> DEFINE left == [conn[c] EXCEPT !.stmt = FALSE]
           l == IF conn[c].tx THEN conn[c].lock ELSE "none"
           s == [left EXCEPT !.lock = l]
<1>1. conn[c] \in ConnState /\ l \in {"none", "shared", "reserved", "pending"}
  BY Fields DEF ConnType
<1>2. left \in ConnState /\ left.stmt = FALSE /\ left.tx = conn[c].tx /\ left.lock = conn[c].lock
  BY <1>1, SetStmt
<1>3. Finalized(conn[c]) = s
  BY <1>1, <1>2 DEF Finalized
<1> HIDE DEF left, l
<1>4. s \in ConnState /\ s.tx = conn[c].tx /\ s.lock = l /\ s.stmt = FALSE
  BY <1>1, <1>2, SetLock
<1> HIDE DEF s
<1> QED BY <1>3, <1>4 DEF l

LEMMA CommitState ==
    ASSUME ConnType, NEW c \in Conn, Commit(c)
    PROVE  /\ Refused(c) => /\ Becomes(c, conn[c].tx, "pending", conn[c].stmt)
                            /\ db' = db /\ image' = image
           /\ ~Refused(c) => /\ Becomes(c, FALSE, IF conn[c].stmt THEN "shared" ELSE "none",
                                        conn[c].stmt)
                             /\ db' = View(c)
                             /\ image' = IF conn[c].lock \in Writing THEN View(c) ELSE image
<1>1. CASE Refused(c)
  <2> DEFINE s == [conn[c] EXCEPT !.lock = "pending"]
  <2>1. s \in ConnState /\ s.tx = conn[c].tx /\ s.lock = "pending" /\ s.stmt = conn[c].stmt
    BY SetLock DEF ConnType
  <2>2. conn' = [conn EXCEPT ![c] = s] /\ db' = db /\ image' = image
    BY <1>1 DEF Commit, ConnType
  <2> HIDE DEF s
  <2> QED BY <1>1, <2>1, <2>2, Becoming
<1>2. CASE ~Refused(c)
  <2> DEFINE s == Ended(conn[c])
  <2>1. conn' = [conn EXCEPT ![c] = s] /\ db' = View(c)
        /\ image' = IF conn[c].lock \in Writing THEN View(c) ELSE image
    BY <1>2 DEF Commit, ConnType
  <2>2. s \in ConnState /\ s.tx = FALSE /\ s.stmt = conn[c].stmt
        /\ s.lock = IF conn[c].stmt THEN "shared" ELSE "none"
    BY EndedState
  <2> HIDE DEF s
  <2> QED BY <1>2, <2>1, <2>2, Becoming
<1> QED BY <1>1, <1>2

LEMMA FinalizeState ==
    ASSUME ConnType, NEW c \in Conn, Finalize(c)
    PROVE  /\ Becomes(c, conn[c].tx, IF conn[c].tx THEN conn[c].lock ELSE "none", FALSE)
           /\ db' = db /\ image' = image
<1> DEFINE s == Finalized(conn[c])
<1>1. conn' = [conn EXCEPT ![c] = s] /\ db' = db /\ image' = image
  BY DEF Finalize, ConnType
<1>2. s \in ConnState /\ s.tx = conn[c].tx /\ s.stmt = FALSE
      /\ s.lock = IF conn[c].tx THEN conn[c].lock ELSE "none"
  BY FinalizedState
<1> HIDE DEF s
<1> QED BY <1>1, <1>2, Becoming

LEMMA CommitFinalizeState ==
    ASSUME ConnType, NEW c \in Conn, CommitFinalize(c)
    PROVE  /\ Refused(c) => /\ Becomes(c, conn[c].tx, "pending", FALSE)
                            /\ db' = db /\ image' = image
           /\ ~Refused(c) => /\ Becomes(c, FALSE, "none", FALSE)
                             /\ db' = View(c)
                             /\ image' = IF conn[c].lock \in Writing THEN View(c) ELSE image
<1>1. CASE Refused(c)
  <2> DEFINE q == Finalized(conn[c])
             s == [q EXCEPT !.lock = "pending"]
  <2>1. q \in ConnState /\ q.tx = conn[c].tx /\ q.stmt = FALSE
    BY FinalizedState
  <2>2. conn' = [conn EXCEPT ![c] = s] /\ db' = db /\ image' = image
    BY <1>1 DEF CommitFinalize, ConnType
  <2> HIDE DEF q
  <2>3. s \in ConnState /\ s.tx = conn[c].tx /\ s.lock = "pending" /\ s.stmt = FALSE
    BY <2>1, SetLock
  <2> HIDE DEF s
  <2> QED BY <1>1, <2>2, <2>3, Becoming
<1>2. CASE ~Refused(c)
  <2>1. conn' = [conn EXCEPT ![c] = Unused] /\ db' = View(c)
        /\ image' = IF conn[c].lock \in Writing THEN View(c) ELSE image
    BY <1>2 DEF CommitFinalize
  <2>2. Unused \in ConnState /\ Unused.tx = FALSE /\ Unused.lock = "none" /\ Unused.stmt = FALSE
    BY Lock DEF Unused
  <2> QED BY <1>2, <2>1, <2>2, Becoming
<1> QED BY <1>1, <1>2

LEMMA RollbackState ==
    ASSUME ConnType, NEW c \in Conn, Rollback(c)
    PROVE  /\ Becomes(c, FALSE, "none", FALSE)
           /\ db' = db /\ image' = IF conn[c].lock \in Writing THEN db ELSE image
<1>1. conn' = [conn EXCEPT ![c] = Unused] /\ db' = db
      /\ image' = IF conn[c].lock \in Writing THEN db ELSE image
  BY DEF Rollback
<1>2. Unused \in ConnState /\ Unused.tx = FALSE /\ Unused.lock = "none" /\ Unused.stmt = FALSE
  BY Lock DEF Unused
<1> QED BY <1>1, <1>2, Becoming

\* What keeps the locks in order when c changes.
LEMMA LocksKept ==
    ASSUME ConnType, Locks, NEW c \in Conn, NEW t, NEW l, NEW s, Becomes(c, t, l, s),
           s => l # "none", l # "none" => t \/ s, l \in Writing => t,
           l \in Writing => \A d \in Conn \ {c} : conn[d].lock \notin Writing,
           l \notin Writing /\ (\A d \in Conn \ {c} : conn[d].lock \notin Writing) => image' = db'
    PROVE  ConnType' /\ Locks' /\ \A d \in Conn \ {c} : conn'[d] = conn[d]
BY DEF Locks, OneWriter, Becomes

LEMMA SelectOld ==
    ASSUME ConnType, Locks, NEW c \in Conn, NEW b \in BOOLEAN, NEW k \in BOOLEAN,
           Select(c, b, k)
    PROVE  Old(c) /\ db' = db /\ image' = image
<1> DEFINE l == IF CanRead(c) /\ conn[c].lock = "none" /\ (conn[c].tx \/ b \/ k)
                THEN "shared" ELSE conn[c].lock
           t == conn[c].tx \/ b
           s == conn[c].stmt \/ (CanRead(c) /\ k)
<1>1. Becomes(c, t, l, s) /\ db' = db /\ image' = image
  BY SelectState
<1>2. (l \in Writing <=> conn[c].lock \in Writing) /\ (conn[c].lock # "none" => l = conn[c].lock)
  BY DEF Writing
<1>3. ConnType' /\ Locks' /\ \A d \in Conn \ {c} : conn'[d] = conn[d]
  <2>1. s => l # "none"
    BY Fields DEF Locks, CanRead
  <2>2. l # "none" => t \/ s
    BY DEF Locks
  <2>3. l \in Writing => t /\ \A d \in Conn \ {c} : conn[d].lock \notin Writing
    BY <1>2 DEF Locks, OneWriter
  <2>4. l \notin Writing /\ (\A d \in Conn \ {c} : conn[d].lock \notin Writing) => image' = db'
    BY <1>1, <1>2 DEF Locks
  <2> HIDE DEF l, t, s
  <2> QED BY <1>1, <2>1, <2>2, <2>3, <2>4, LocksKept
<1>4. \A d \in Conn : View(d)' = View(d)
  <2> HIDE DEF l, t, s
  <2> QED BY <1>1, <1>2, <1>3 DEF View, Becomes
<1> HIDE DEF l, t, s
<1> QED BY <1>1, <1>3, <1>4 DEF Old, Frame

LEMMA ExecuteNew ==
    ASSUME ConnType, Locks, NEW c \in Conn, NEW new, Execute(c, new)
    PROVE  New(c, new)
<1> DEFINE l == IF CanWrite(c) /\ conn[c].lock # "pending" THEN "reserved" ELSE conn[c].lock
<1>1. /\ Becomes(c, TRUE, l, conn[c].stmt)
      /\ db' = db /\ image' = IF CanWrite(c) THEN new ELSE image
  BY ExecuteState
<1>2. /\ l \in Writing <=> conn[c].lock \in Writing \/ CanWrite(c)
      /\ conn[c].lock # "none" => l # "none"
  BY Fields DEF Writing
<1>3. ConnType' /\ Locks' /\ \A d \in Conn \ {c} : conn'[d] = conn[d]
  <2>1. conn[c].stmt => l # "none"
    BY <1>2 DEF Locks
  <2>2. l \in Writing => \A d \in Conn \ {c} : conn[d].lock \notin Writing
    BY <1>2 DEF Locks, OneWriter, CanWrite
  <2>3. l \notin Writing /\ (\A d \in Conn \ {c} : conn[d].lock \notin Writing) => image' = db'
    BY <1>1, <1>2 DEF Locks
  <2> HIDE DEF l
  <2> QED BY <1>1, <2>1, <2>2, <2>3, LocksKept
<1>4. \A d \in Conn \ {c} : View(d)' = View(d)
  <2>1. CanWrite(c) => \A d \in Conn \ {c} : conn[d].lock \notin Writing
    BY DEF CanWrite
  <2> HIDE DEF l
  <2> QED BY <1>1, <1>3, <2>1 DEF View
<1>5. View(c)' = (IF CanWrite(c) THEN new ELSE View(c)) /\ conn'[c].lock = l
  <2> HIDE DEF l
  <2> QED BY <1>1, <1>2 DEF View, Becomes
<1>6. CanWrite(c) => conn'[c].lock \in Writing
  BY <1>2, <1>5
<1> HIDE DEF l
<1> QED BY <1>1, <1>3, <1>4, <1>5, <1>6 DEF New, Frame

\* A commit that is not refused.
LEMMA Committed ==
    ASSUME ConnType, Locks, NEW c \in Conn, ~Refused(c), NEW l \in {"none", "shared"}, NEW s,
           Becomes(c, FALSE, l, s), s <=> l = "shared",
           db' = View(c), image' = IF conn[c].lock \in Writing THEN View(c) ELSE image
    PROVE  Old(c)
<1>1. l \notin Writing
  BY DEF Writing
<1>2. conn[c].lock \in Writing => \A d \in Conn \ {c} : conn[d].lock = "none"
  BY DEF Refused
<1>3. ConnType' /\ Locks' /\ \A d \in Conn \ {c} : conn'[d] = conn[d]
  <2>1. (\A d \in Conn \ {c} : conn[d].lock \notin Writing) => image' = db'
    BY DEF Locks, View
  <2> QED BY <1>1, <2>1, LocksKept
<1>4. \A d \in Conn \ {c} : /\ conn[d].lock # "none" => db' = db
                            /\ db' = db => View(d)' = View(d)
  BY <1>2, <1>3 DEF View, Writing
<1>5. View(c)' = View(c)
  BY <1>1 DEF View, Becomes
<1>6. db' \in {db, image} /\ image' = image
  BY DEF View
<1> QED BY <1>3, <1>4, <1>5, <1>6 DEF Old, Frame

LEMMA RefusedOld ==
    ASSUME ConnType, Locks, NEW c \in Conn, Refused(c), NEW s \in BOOLEAN,
           Becomes(c, conn[c].tx, "pending", s), db' = db, image' = image
    PROVE  Old(c)
<1>1. conn[c].lock \in Writing /\ "pending" \in Writing /\ conn[c].tx
  BY DEF Refused, Locks, Writing
<1>2. ConnType' /\ Locks' /\ \A d \in Conn \ {c} : conn'[d] = conn[d]
  <2>1. \A d \in Conn \ {c} : conn[d].lock \notin Writing
    BY <1>1 DEF Locks, OneWriter
  <2> DEFINE t == conn[c].tx
  <2>2. t /\ (s => "pending" # "none") /\ ("pending" # "none" => t \/ s)
    BY <1>1
  <2>3. Becomes(c, t, "pending", s)
    OBVIOUS
  <2> HIDE DEF t
  <2> QED BY <1>1, <2>1, <2>2, <2>3, LocksKept
<1>3. \A d \in Conn : View(d)' = View(d)
  BY <1>1, <1>2 DEF View, Becomes
<1> QED BY <1>2, <1>3 DEF Old, Frame

LEMMA CommitOld ==
    ASSUME ConnType, Locks, NEW c \in Conn, Commit(c)
    PROVE  Old(c)
<1>1. CASE Refused(c)
  BY <1>1, CommitState, RefusedOld, Fields
<1>2. CASE ~Refused(c)
  <2> DEFINE l == IF conn[c].stmt THEN "shared" ELSE "none"
  <2>1. Becomes(c, FALSE, l, conn[c].stmt) /\ db' = View(c)
        /\ image' = IF conn[c].lock \in Writing THEN View(c) ELSE image
    BY <1>2, CommitState
  <2>2. l \in {"none", "shared"} /\ (conn[c].stmt <=> l = "shared")
    OBVIOUS
  <2> HIDE DEF l
  <2> QED BY <1>2, <2>1, <2>2, Committed
<1> QED BY <1>1, <1>2

LEMMA CommitFinalizeOld ==
    ASSUME ConnType, Locks, NEW c \in Conn, CommitFinalize(c)
    PROVE  Old(c)
<1>1. CASE Refused(c)
  BY <1>1, CommitFinalizeState, RefusedOld
<1>2. CASE ~Refused(c)
  <2>1. Becomes(c, FALSE, "none", FALSE) /\ db' = View(c)
        /\ image' = IF conn[c].lock \in Writing THEN View(c) ELSE image
    BY <1>2, CommitFinalizeState
  <2>2. FALSE <=> "none" = "shared"
    OBVIOUS
  <2> QED BY <1>2, <2>1, <2>2, Committed
<1> QED BY <1>1, <1>2

LEMMA FinalizeOld ==
    ASSUME ConnType, Locks, NEW c \in Conn, Finalize(c)
    PROVE  Old(c) /\ db' = db /\ image' = image
<1> DEFINE l == IF conn[c].tx THEN conn[c].lock ELSE "none"
<1>1. Becomes(c, conn[c].tx, l, FALSE) /\ db' = db /\ image' = image
  BY FinalizeState
<1>2. l \in Writing <=> conn[c].lock \in Writing
  BY DEF Locks, Writing
<1>3. ConnType' /\ Locks' /\ \A d \in Conn \ {c} : conn'[d] = conn[d]
  <2>1. (l # "none" => conn[c].tx) /\ (l \in Writing => conn[c].tx)
    BY DEF Writing
  <2>2. l \in Writing => \A d \in Conn \ {c} : conn[d].lock \notin Writing
    BY <1>2 DEF Locks, OneWriter
  <2>3. l \notin Writing /\ (\A d \in Conn \ {c} : conn[d].lock \notin Writing) => image' = db'
    BY <1>1, <1>2 DEF Locks
  <2> HIDE DEF l
  <2> QED BY <1>1, <2>1, <2>2, <2>3, LocksKept
<1>4. \A d \in Conn : View(d)' = View(d)
  <2> HIDE DEF l
  <2> QED BY <1>1, <1>2, <1>3 DEF View, Becomes
<1> HIDE DEF l
<1> QED BY <1>1, <1>3, <1>4 DEF Old, Frame

\* Who can write sees what was written.
LEMMA WriterView ==
    ASSUME Locks, NEW c \in Conn, CanWrite(c)
    PROVE  View(c) = image
BY DEF Locks, CanWrite, View

LEMMA AloneNew ==
    ASSUME ConnType, Locks, NEW c \in Conn, NEW new, ExecuteAlone(c, new)
    PROVE  /\ Frame(c)
           /\ conn[c].tx => New(c, new)
           /\ ~conn[c].tx => /\ conn' = conn
                             /\ \/ db' = new /\ image' = new /\ image = db
                                \/ db' = db /\ image' = image
<1>1. CASE conn[c].tx
  <2>1. Execute(c, new)
    BY <1>1 DEF ExecuteAlone
  <2> QED BY <1>1, <2>1, ExecuteNew DEF New
<1>2. CASE ~conn[c].tx
  <2>1. /\ conn' = conn
        /\ \/ /\ \A d \in Conn \ {c} : conn[d].lock = "none"
              /\ db' = new /\ image' = new
           \/ db' = db /\ image' = image
    BY <1>2 DEF ExecuteAlone, CanWriteAlone
  <2>2. conn[c].lock \notin Writing
    BY <1>2 DEF Locks
  <2>3. (\A d \in Conn \ {c} : conn[d].lock = "none") => image = db
    BY <2>2 DEF Locks, Writing
  <2>4. ConnType' /\ OneWriter' /\ Locks'
    BY <2>1 DEF ConnType, Locks, OneWriter
  <2>5. \A d \in Conn \ {c} : /\ conn[d].lock # "none" => db' = db
                              /\ db' = db => View(d)' = View(d)
    BY <2>1 DEF View, Writing
  <2> QED BY <1>2, <2>1, <2>3, <2>4, <2>5 DEF Frame
<1> QED BY <1>1, <1>2

LEMMA RolledBack ==
    ASSUME ConnType, Locks, NEW c \in Conn, Rollback(c)
    PROVE  /\ Frame(c) /\ conn'[c].tx = FALSE /\ conn'[c].stmt = FALSE
           /\ db' = db /\ image' \in {db, image}
<1>1. /\ Becomes(c, FALSE, "none", FALSE)
      /\ db' = db /\ image' = IF conn[c].lock \in Writing THEN db ELSE image
  BY RollbackState
<1>2. "none" \notin Writing
  BY DEF Writing
<1>3. ConnType' /\ Locks' /\ \A d \in Conn \ {c} : conn'[d] = conn[d]
  <2>1. (\A d \in Conn \ {c} : conn[d].lock \notin Writing) => image' = db'
    BY <1>1 DEF Locks
  <2> QED BY <1>1, <1>2, <2>1, LocksKept
<1>4. \A d \in Conn \ {c} : View(d)' = View(d)
  BY <1>1, <1>3 DEF View, Locks, OneWriter
<1> QED BY <1>1, <1>3, <1>4 DEF Frame, Becomes

-----------------------------------------------------------------------------
(* What a command does to a table.                                         *)

LEMMA Assumed ==
    /\ Eui # {} /\ Addr \subseteq Nat \ {0} /\ Garbage \subseteq Nat
    /\ Conn = {"server", "conf", "fwd"} /\ Proc \subseteq Conn
    /\ KEYS \in Nat /\ 1 \in 0..KEYS /\ 0 \in 0..KEYS
    /\ CHANNELS \in Nat /\ 1 \in 1..CHANNELS /\ CHANNELS \in 1..CHANNELS /\ Columns < CHANNELS + 1
    /\ PKG \in Nat /\ PKG > 0 /\ MaxRows \in Nat /\ MaxCmds \in Nat /\ MaxStores \in Nat
BY NodeTableAssumption DEF NodeTableAssumption, Proc, Columns

LEMMA ViewTable ==
    ASSUME Table(db), Table(image), NEW c
    PROVE  Table(View(c))
BY DEF View

\* Rows are changed one by one, and stay their node's.
Mapped(s, t) ==
    \E f \in [s -> Row] : (\A r \in s : f[r].eui = r.eui) /\ t = {f[r] : r \in s}

LEMMA MapRows ==
    ASSUME NEW v, Table(v), NEW g \in [Row -> Row], \A r \in Row : g[r].eui = r.eui
    PROVE  LET w == [v EXCEPT !.rows = {g[r] : r \in v.rows}]
           IN  w \in Db /\ Mapped(v.rows, w.rows) /\ w.freq = v.freq
<1> DEFINE f == [r \in v.rows |-> g[r]]
           t == {g[r] : r \in v.rows}
           w == [v EXCEPT !.rows = t]
<1>1. v \in Db /\ v.rows \subseteq Row
  BY DEF Table, Db
<1>2. f \in [v.rows -> Row] /\ (\A r \in v.rows : f[r].eui = r.eui)
      /\ t = {f[r] : r \in v.rows} /\ t \subseteq Row
  BY <1>1
<1> HIDE DEF t, f
<1>3. w \in Db /\ w.rows = t /\ w.freq = v.freq
  BY <1>1, <1>2 DEF Db
<1>4. Mapped(v.rows, t)
  BY <1>2 DEF Mapped
<1> QED BY <1>3, <1>4 DEF t

LEMMA MappedFinite ==
    ASSUME NEW s, NEW t, IsFiniteSet(s), Mapped(s, t)
    PROVE  IsFiniteSet(t)
<1>1. PICK f \in [s -> Row] : t = {f[r] : r \in s}
  BY DEF Mapped
<1>2. f \in Surjection(s, t)
  BY <1>1 DEF Surjection
<1> QED BY <1>2, FS_Surjection

LEMMA MappedHas ==
    ASSUME NEW v, NEW w, Mapped(v.rows, w.rows), NEW e
    PROVE  HasRow(e, w) <=> HasRow(e, v)
BY DEF Mapped, HasRow

LEMMA KeyChangedTable ==
    ASSUME ProcType, NEW p \in Proc, NEW v, Table(v)
    PROVE  LET w == KeyChanged(p, v)
           IN  w \in Db /\ Mapped(v.rows, w.rows) /\ w.freq = v.freq
<1> DEFINE g == [r \in Row |-> IF r.eui = cmd[p].eui THEN [r EXCEPT !.key = cmd[p].key] ELSE r]
<1>1. cmd[p].key \in 0..KEYS
  BY DEF ProcType, Command
<1>2. g \in [Row -> Row] /\ \A r \in Row : g[r].eui = r.eui
  BY <1>1 DEF Row
<1>3. KeyChanged(p, v) = [v EXCEPT !.rows = {g[r] : r \in v.rows}]
  <2>1. v.rows \subseteq Row
    BY DEF Table, Db
  <2>2. {g[r] : r \in v.rows} =
        {IF r.eui = cmd[p].eui THEN [r EXCEPT !.key = cmd[p].key] ELSE r : r \in v.rows}
    BY <2>1
  <2> HIDE DEF g
  <2> QED BY <2>2 DEF KeyChanged, Updated
<1> HIDE DEF g
<1> QED BY <1>2, <1>3, MapRows

LEMMA SetNwk ==
    \A r \in Row : [r EXCEPT !.nwk = 1] \in Row /\ [r EXCEPT !.nwk = 1].eui = r.eui
BY DEF Row

LEMMA SetApp ==
    \A r \in Row : [r EXCEPT !.app = 2] \in Row /\ [r EXCEPT !.app = 2].eui = r.eui
BY DEF Row

LEMMA SetAddr ==
    ASSUME NEW a \in {0} \union Addr
    PROVE  \A r \in Row : [r EXCEPT !.addr = a] \in Row /\ [r EXCEPT !.addr = a].eui = r.eui
<1> DEFINE A == {0} \union Addr
<1>1. a \in A
  OBVIOUS
<1> HIDE DEF A
<1>2. Row = [id : Nat, eui : Eui, key : 0..KEYS, addr : A, nwk : 0..2, app : 0..2, rx2 : 0..1]
  BY DEF Row, A
<1> QED BY <1>1, <1>2

\* The session of an ABP node, or of one that joined.
LEMMA SessionTable ==
    ASSUME NEW a \in {0} \union Addr, NEW e, NEW v, Table(v)
    PROVE  LET f(r) == [r EXCEPT !.addr = a, !.nwk = 1, !.app = 2]
               w == Updated(v, e, f)
           IN  w \in Db /\ Mapped(v.rows, w.rows) /\ w.freq = v.freq
<1> DEFINE f(r) == [r EXCEPT !.addr = a, !.nwk = 1, !.app = 2]
           g == [r \in Row |-> IF r.eui = e THEN f(r) ELSE r]
<1>1. \A r \in Row : f(r) \in Row /\ f(r).eui = r.eui
  <2> SUFFICES ASSUME NEW r \in Row PROVE f(r) \in Row /\ f(r).eui = r.eui
    OBVIOUS
  <2> DEFINE x == [r EXCEPT !.addr = a]
             y == [x EXCEPT !.nwk = 1]
             z == [y EXCEPT !.app = 2]
  <2>1. f(r) = z
    OBVIOUS
  <2>2. x \in Row /\ x.eui = r.eui
    BY SetAddr
  <2> HIDE DEF x
  <2>3. y \in Row /\ y.eui = r.eui
    BY <2>2, SetNwk
  <2> HIDE DEF y
  <2>4. z \in Row /\ z.eui = r.eui
    BY <2>3, SetApp
  <2> HIDE DEF z, f
  <2> QED BY <2>1, <2>4
<1> HIDE DEF f
<1>2. g \in [Row -> Row] /\ \A r \in Row : g[r].eui = r.eui
  BY <1>1
<1>3. Updated(v, e, f) = [v EXCEPT !.rows = {g[r] : r \in v.rows}]
  <2>1. v.rows \subseteq Row
    BY DEF Table, Db
  <2>2. {g[r] : r \in v.rows} = {IF r.eui = e THEN f(r) ELSE r : r \in v.rows}
    BY <2>1
  <2> HIDE DEF g
  <2> QED BY <2>2 DEF Updated
<1> HIDE DEF g
<1>4. /\ Updated(v, e, f) \in Db /\ Mapped(v.rows, Updated(v, e, f).rows)
      /\ Updated(v, e, f).freq = v.freq
  BY <1>2, <1>3, MapRows
<1> QED BY <1>4 DEF f

LEMMA AbpTable ==
    ASSUME ProcType, NEW p \in Proc, NEW v, Table(v)
    PROVE  LET w == AbpConfigured(p, v)
           IN  w \in Db /\ Mapped(v.rows, w.rows) /\ w.freq = v.freq
<1> DEFINE a == cmd[p].addr
<1>1. a \in {0} \union Addr
  BY DEF ProcType, Command
<1> HIDE DEF a
<1> DEFINE e == cmd[p].eui
           f(r) == CASE ch[p] = 1 -> [r EXCEPT !.addr = a]
                     [] ch[p] = 2 -> [r EXCEPT !.nwk = 1]
                     [] OTHER     -> [r EXCEPT !.app = 2]
           g == [r \in Row |-> IF r.eui = e THEN f(r) ELSE r]
<1>2. \A r \in Row : f(r) \in Row /\ f(r).eui = r.eui
  <2> SUFFICES ASSUME NEW r \in Row PROVE f(r) \in Row /\ f(r).eui = r.eui
    OBVIOUS
  <2>1. CASE ch[p] = 1
    <3>1. f(r) = [r EXCEPT !.addr = a]
      BY <2>1
    <3> HIDE DEF f
    <3> QED BY <1>1, <3>1, SetAddr
  <2>2. CASE ch[p] = 2
    <3>1. f(r) = [r EXCEPT !.nwk = 1]
      BY <2>2
    <3> HIDE DEF f
    <3> QED BY <3>1, SetNwk
  <2>3. CASE ch[p] # 1 /\ ch[p] # 2
    <3>1. f(r) = [r EXCEPT !.app = 2]
      BY <2>3
    <3> HIDE DEF f
    <3> QED BY <3>1, SetApp
  <2> QED BY <2>1, <2>2, <2>3
<1> DEFINE t == {IF r.eui = e THEN f(r) ELSE r : r \in v.rows}
<1>3. AbpConfigured(p, v) = [v EXCEPT !.rows = t]
  BY DEF AbpConfigured, Updated, a
<1> HIDE DEF e, f
<1>4. g \in [Row -> Row] /\ \A r \in Row : g[r].eui = r.eui
  BY <1>2
<1>5. {g[r] : r \in v.rows} = t
  <2>1. v.rows \subseteq Row
    BY DEF Table, Db
  <2> QED BY <2>1
<1>6. AbpConfigured(p, v) = [v EXCEPT !.rows = {g[r] : r \in v.rows}]
  BY <1>3, <1>5
<1> HIDE DEF g
<1> QED BY <1>4, <1>6, MapRows

LEMMA Rx2Table ==
    ASSUME NEW v, Table(v)
    PROVE  LET w == ServerConfClassCFreq(v)
           IN  w \in Db /\ Mapped(v.rows, w.rows) /\ w.freq = v.freq
<1> DEFINE g == [r \in Row |-> [r EXCEPT !.rx2 = 1]]
<1>1. g \in [Row -> Row] /\ \A r \in Row : g[r].eui = r.eui
  BY DEF Row
<1>2. ServerConfClassCFreq(v) = [v EXCEPT !.rows = {g[r] : r \in v.rows}]
  <2>1. v.rows \subseteq Row
    BY DEF Table, Db
  <2>2. {g[r] : r \in v.rows} = {[r EXCEPT !.rx2 = 1] : r \in v.rows}
    BY <2>1
  <2> HIDE DEF g
  <2> QED BY <2>2 DEF ServerConfClassCFreq
<1> HIDE DEF g
<1> QED BY <1>1, <1>2, MapRows

LEMMA Rx2Twice ==
    ASSUME NEW v, Table(v)
    PROVE  ServerConfClassCFreq(ServerConfClassCFreq(v)) = ServerConfClassCFreq(v)
<1> DEFINE t == {[r EXCEPT !.rx2 = 1] : r \in v.rows}
           w == [v EXCEPT !.rows = t]
<1>1. v \in Db /\ v.rows \subseteq Row
  BY DEF Table, Db
<1>2. {[r EXCEPT !.rx2 = 1] : r \in t} = t
  <2> DEFINE g(r) == [r EXCEPT !.rx2 = 1]
  <2>1. \A r \in Row : g(g(r)) = g(r)
    BY DEF Row
  <2> HIDE DEF g
  <2>2. {g(r) : r \in {g(q) : q \in v.rows}} = {g(q) : q \in v.rows}
    BY <1>1, <2>1
  <2> QED BY <2>2 DEF g
<1> HIDE DEF t
<1>3. w.rows = t /\ [w EXCEPT !.rows = t] = w
  BY <1>1 DEF Db
<1> QED BY <1>2, <1>3 DEF ServerConfClassCFreq, t

\* What becomes of the rows: they are deleted, changed one by one, or one is added.
Less(p, v, w) ==
    /\ w.rows \subseteq v.rows
    /\ Op(p) # "deleteAll" =>
         \A r \in v.rows : r \in w.rows \/ (Op(p) = "delete" /\ r.eui = cmd[p].eui)
More(p, v, w) ==
    /\ Op(p) \in Inserting /\ Missing(p)
    /\ \E r \in Row : r.eui = cmd[p].eui /\ w.rows = v.rows \union {r}
Changed(p, v, w) ==
    /\ w \in Db
    /\ Less(p, v, w) \/ Mapped(v.rows, w.rows) \/ (More(p, v, w) /\ ~Clash(p))

\* The frequencies that a command sets.
Line(p) == IF Op(p) = "confUp" THEN "up" ELSE "down"

LEMMA LessTable ==
    ASSUME NEW p \in Proc, NEW v, Table(v)
    PROVE  /\ Op(p) = "deleteAll" => Changed(p, v, ServerDeleteAllNode(v))
           /\ Op(p) = "delete" => Changed(p, v, Deleted(p, v))
<1>1. v \in Db /\ v.rows \subseteq Row
  BY DEF Table, Db
<1>2. \A t \in SUBSET Row : [v EXCEPT !.rows = t] \in Db /\ [v EXCEPT !.rows = t].rows = t
  BY <1>1 DEF Db
<1>3. ASSUME Op(p) = "deleteAll" PROVE Changed(p, v, ServerDeleteAllNode(v))
  BY <1>2, <1>3 DEF Changed, Less, ServerDeleteAllNode
<1>4. ASSUME Op(p) = "delete" PROVE Changed(p, v, Deleted(p, v))
  <2> DEFINE t == {r \in v.rows : r.eui # cmd[p].eui}
  <2>1. Deleted(p, v) = [v EXCEPT !.rows = t]
    BY DEF Deleted
  <2>2. t \in SUBSET Row /\ t \subseteq v.rows
        /\ \A r \in v.rows : r \in t \/ r.eui = cmd[p].eui
    BY <1>1
  <2> HIDE DEF t
  <2> QED BY <1>2, <1>4, <2>1, <2>2 DEF Changed, Less
<1> QED BY <1>3, <1>4

LEMMA RegionTable ==
    ASSUME NEW p \in Proc, NEW v, Table(v)
    PROVE  /\ Op(p) = "confRegion" => Changed(p, v, ServerConfRegionFreq(v))
           /\ Op(p) = "confRx1" => Changed(p, v, ServerConfRx1DRoffset(v))
<1>1. v \in Db /\ v.region \in [{"band", "rx1"} -> 0..1]
  BY DEF Table, Db
<1>2. ASSUME NEW s \in {"band", "rx1"}
      PROVE  LET w == [v EXCEPT !.region[s] = 1] IN w \in Db /\ w.rows = v.rows
  <2> DEFINE g == [v.region EXCEPT ![s] = 1]
             w == [v EXCEPT !.region = g]
  <2>1. g \in [{"band", "rx1"} -> 0..1]
    BY <1>1
  <2>2. [v EXCEPT !.region[s] = 1] = w
    OBVIOUS
  <2> HIDE DEF g
  <2>3. w \in Db /\ w.rows = v.rows
    BY <1>1, <2>1 DEF Db
  <2> QED BY <2>2, <2>3
<1>3. ASSUME Op(p) = "confRegion" PROVE Changed(p, v, ServerConfRegionFreq(v))
  BY <1>2 DEF Changed, Less, ServerConfRegionFreq
<1>4. ASSUME Op(p) = "confRx1" PROVE Changed(p, v, ServerConfRx1DRoffset(v))
  BY <1>2 DEF Changed, Less, ServerConfRx1DRoffset
<1> QED BY <1>3, <1>4

LEMMA FreqTable ==
    ASSUME ProcType, NEW p \in Proc, NEW v, Table(v), Op(p) \in ConfFreqs
    PROVE  LET w == IF Op(p) = "confUp" THEN ServerConfUplinkFreq(p, v)
                    ELSE ServerConfDownFreq(p, v)
           IN  /\ Changed(p, v, w)
               /\ \A c \in 1..CHANNELS : w.freq[Line(p)][c] =
                      IF c = ch[p] THEN 1 ELSE v.freq[Line(p)][c]
<1> DEFINE l == Line(p)
           g == [v.freq[l] EXCEPT ![ch[p]] = 1]
           h == [v.freq EXCEPT ![l] = g]
           w == [v EXCEPT !.freq = h]
<1>1. v \in Db /\ v.freq \in [{"up", "down"} -> [1..CHANNELS -> 0..1]]
      /\ l \in {"up", "down"} /\ ch[p] \in 1..CHANNELS
  BY DEF Table, Db, Line, ProcType
<1>2. g \in [1..CHANNELS -> 0..1]
      /\ \A c \in 1..CHANNELS : g[c] = IF c = ch[p] THEN 1 ELSE v.freq[l][c]
  <2> DEFINE k == v.freq[l]
  <2>1. k \in [1..CHANNELS -> 0..1] /\ ch[p] \in 1..CHANNELS /\ 1 \in 0..1
    BY <1>1
  <2> HIDE DEF k, l
  <2>2. g = [k EXCEPT ![ch[p]] = 1]
    BY DEF k
  <2> HIDE DEF g
  <2> QED BY <2>1, <2>2 DEF k
<1>3. (IF Op(p) = "confUp" THEN ServerConfUplinkFreq(p, v) ELSE ServerConfDownFreq(p, v)) = w
  BY DEF ServerConfUplinkFreq, ServerConfDownFreq, Line
<1> HIDE DEF g
<1>4. h \in [{"up", "down"} -> [1..CHANNELS -> 0..1]] /\ h[l] = g
  BY <1>1, <1>2
<1> HIDE DEF h, l
<1>5. w \in Db /\ w.rows = v.rows /\ w.freq = h
  BY <1>1, <1>4 DEF Db
<1>6. Changed(p, v, w)
  BY <1>5 DEF Changed, Less
<1> HIDE DEF w
<1> QED BY <1>2, <1>3, <1>4, <1>5, <1>6 DEF l

\* The row that a command adds.
LEMMA NewRowIsRow ==
    ASSUME ProcType, NEW p \in Proc, NEW nwk \in 0..2, NEW app \in 0..2
    PROVE  NewRow(p, nwk, app) \in Row /\ NewRow(p, nwk, app).eui = cmd[p].eui
<1>1. maxid[p] \in Nat /\ cmd[p].eui \in Eui /\ cmd[p].key \in 0..KEYS
      /\ cmd[p].addr \in {0} \union Addr /\ 0 \in 0..1
  BY DEF ProcType, Command
<1> QED BY <1>1 DEF NewRow, Row

LEMMA RowIsRow ==
    ASSUME ProcType, NEW p \in Proc, Op(p) \in Inserting
    PROVE  RowOf(p) \in Row /\ RowOf(p).eui = cmd[p].eui
<1>1. 0 \in 0..2 /\ 1 \in 0..2 /\ 2 \in 0..2
  OBVIOUS
<1>2. CASE Op(p) = "add"
  BY <1>1, <1>2, NewRowIsRow DEF RowOf, AddedRow
<1>3. CASE Op(p) = "write"
  BY <1>1, <1>3, NewRowIsRow DEF RowOf, WrittenRow
<1>4. CASE Op(p) = "abp" /\ p = "server"
  <2>1. RowOf(p) = ServerAbpRow(p)
    BY <1>4 DEF RowOf
  <2> QED BY <1>1, <2>1, NewRowIsRow DEF ServerAbpRow
<1>5. CASE Op(p) = "abp" /\ p # "server"
  <2>1. RowOf(p) = AbpRow(p)
    BY <1>5 DEF RowOf
  <2> QED BY <1>1, <2>1, NewRowIsRow DEF AbpRow
<1> QED BY <1>2, <1>3, <1>4, <1>5 DEF Inserting

LEMMA Inserts ==
    ASSUME ProcType, NEW p \in Proc, Placed(p), pc[p] = "write", NEW v, Table(v),
           Op(p) \in Inserting
    PROVE  /\ Changed(p, v, Effect(p, v))
           /\ Missing(p) /\ ~Clash(p) => HasRow(cmd[p].eui, Effect(p, v))
<1>1. Effect(p, v) = IF ~Missing(p) /\ Op(p) = "write" THEN KeyChanged(p, v)
                     ELSE IF ~Missing(p) /\ Op(p) = "abp" THEN AbpConfigured(p, v)
                     ELSE IF Clash(p) THEN v ELSE [v EXCEPT !.rows = @ \union {RowOf(p)}]
  BY DEF Effect, Inserting
<1>2. CASE ~Missing(p)
  <2>1. Op(p) # "add"
    BY <1>2 DEF Placed
  <2>2. Changed(p, v, KeyChanged(p, v)) /\ Changed(p, v, AbpConfigured(p, v))
    BY KeyChangedTable, AbpTable DEF Changed
  <2> QED BY <1>1, <1>2, <2>1, <2>2 DEF Inserting
<1>3. CASE Missing(p) /\ Clash(p)
  <2>1. Effect(p, v) = v
    BY <1>1, <1>3
  <2>2. v \in Db /\ v.rows \subseteq v.rows
    BY DEF Table
  <2> QED BY <1>3, <2>1, <2>2 DEF Changed, Less
<1>4. CASE Missing(p) /\ ~Clash(p)
  <2> DEFINE t == v.rows \union {RowOf(p)}
  <2>1. v \in Db /\ t \in SUBSET Row /\ RowOf(p) \in Row /\ RowOf(p).eui = cmd[p].eui
    BY RowIsRow DEF Table, Db
  <2>2. Effect(p, v) = [v EXCEPT !.rows = t]
    BY <1>1, <1>4
  <2>3. RowOf(p) \in t /\ t = v.rows \union {RowOf(p)}
    OBVIOUS
  <2> HIDE DEF t
  <2>4. Effect(p, v) \in Db /\ Effect(p, v).rows = t
    BY <2>1, <2>2 DEF Db
  <2>5. More(p, v, Effect(p, v))
    BY <1>4, <2>1, <2>3, <2>4 DEF More
  <2>6. HasRow(cmd[p].eui, Effect(p, v))
    BY <2>1, <2>3, <2>4 DEF HasRow
  <2> QED BY <1>4, <2>4, <2>5, <2>6 DEF Changed
<1> QED BY <1>2, <1>3, <1>4

LEMMA Effects ==
    ASSUME ProcType, NEW p \in Proc, Placed(p), pc[p] = "write", NEW v, Table(v)
    PROVE  LET w == Effect(p, v)
           IN  /\ Changed(p, v, w)
               /\ Op(p) \in {"add", "abp"} /\ Missing(p) /\ ~Clash(p) => HasRow(cmd[p].eui, w)
               /\ Op(p) \in ConfFreqs =>
                    \A c \in 1..CHANNELS : w.freq[Line(p)][c] =
                        IF c = ch[p] THEN 1 ELSE v.freq[Line(p)][c]
<1> DEFINE w == Effect(p, v)
<1>1. CASE Op(p) \in Inserting
  BY <1>1, Inserts DEF Inserting, ConfFreqs
<1>2. CASE Op(p) \in ConfFreqs
  <2>1. w = IF Op(p) = "confUp" THEN ServerConfUplinkFreq(p, v) ELSE ServerConfDownFreq(p, v)
    BY <1>2 DEF Effect, ConfFreqs
  <2> HIDE DEF w
  <2>2. Changed(p, v, w)
        /\ \A c \in 1..CHANNELS : w.freq[Line(p)][c] =
               IF c = ch[p] THEN 1 ELSE v.freq[Line(p)][c]
    BY <1>2, <2>1, FreqTable
  <2> QED BY <1>2, <2>2 DEF ConfFreqs, w
<1>3. CASE Op(p) \in {"deleteAll", "delete"}
  BY <1>3, LessTable DEF Effect, ConfFreqs
<1>4. CASE Op(p) \in {"confRegion", "confRx1"}
  BY <1>4, RegionTable DEF Effect, ConfFreqs
<1>5. CASE Op(p) = "confRx2"
  BY <1>5, Rx2Table DEF Effect, ConfFreqs, Changed
<1>6. CASE Op(p) = "change"
  BY <1>6, KeyChangedTable DEF Effect, ConfFreqs, Changed
<1> QED BY <1>1, <1>2, <1>3, <1>4, <1>5, <1>6 DEF Placed, Changing, Setting

-----------------------------------------------------------------------------
(* What the steps of a process do to its variables and to the other's.     *)

Elsewhere(p) ==
    \A q \in Proc \ {p} :
        /\ pc'[q] = pc[q] /\ cmd'[q] = cmd[q] /\ found'[q] = found[q]
        /\ ch'[q] = ch[q] /\ ok'[q] = ok[q]
        /\ raced[q] => raced'[q]
        /\ pc[q] # "idle" /\ db' # db => raced'[q]

LEMMA GotoOne ==
    ASSUME ProcType, NEW p \in Proc, NEW l \in Place, Goto(p, l)
    PROVE  pc' \in [Proc -> Place] /\ pc'[p] = l /\ \A q \in Proc \ {p} : pc'[q] = pc[q]
BY DEF Goto, ProcType

LEMMA RaceOne ==
    ASSUME ProcType, NEW p \in Proc, NEW r \in BOOLEAN, Race(p, r)
    PROVE  /\ raced' \in [Proc -> BOOLEAN]
           /\ raced'[p] = (raced[p] \/ r)
           /\ \A q \in Proc \ {p} : /\ raced[q] => raced'[q]
                                    /\ pc[q] # "idle" /\ db' # db => raced'[q]
BY DEF Race, ProcType

\* v changes for p only.
Only(p, v, w, S) == w \in [Proc -> S] /\ \A q \in Proc \ {p} : w[q] = v[q]

\* Steps that change only where the process is, ch and ok, and what is committed.
LEMMA Walks ==
    ASSUME ProcType, NEW p \in Proc, NEW l \in Place, NEW r \in BOOLEAN,
           Goto(p, l), Race(p, r), UNCHANGED <<cmd, found, maxid, count>>,
           Only(p, ch, ch', 1..CHANNELS), Only(p, ok, ok', BOOLEAN)
    PROVE  /\ ProcType' /\ Elsewhere(p) /\ pc'[p] = l
           /\ cmd'[p] = cmd[p] /\ found'[p] = found[p]
           /\ raced'[p] = (raced[p] \/ r)
BY GotoOne, RaceOne DEF ProcType, Elsewhere, Only

\* What all steps of p have in common.
Stays(p) == ProcType' /\ OtherType' /\ Elsewhere(p) /\ cmd'[p] = cmd[p]
SameGhosts == UNCHANGED <<promised, doubled, fwd, cmds, stores>>

LEMMA ProcIsConn == \A p \in Proc : p \in Conn
BY Assumed

LEMMA FindStep ==
    ASSUME TypeInv, Locks, NEW p \in Proc, Find(p)
    PROVE  /\ Old(p) /\ db' = db /\ image' = image /\ Stays(p) /\ SameGhosts
           /\ pc[p] \in {"addr", "find"} /\ Op(p) \notin ReadsRegion \union GetFreqs
           /\ pc'[p] = IF pc[p] = "addr" THEN "addrEnd" ELSE "findEnd"
           /\ ch'[p] = ch[p] /\ ok'[p] = ok[p]
           /\ \/ found'[p] \in Matches(p) /\ found'[p] \in Row /\ conn'[p].stmt
              \/ found'[p] = NoRow /\ (Matches(p) = {} \/ raced'[p])
<1> DEFINE l == IF pc[p] = "addr" THEN "addrEnd" ELSE "findEnd"
           b == Op(p) # "write"
           k == Matches(p) # {}
<1>1. /\ pc[p] \in {"addr", "find"} /\ Op(p) \notin ReadsRegion \union GetFreqs
      /\ Select(p, b, k)
      /\ Goto(p, l) /\ Race(p, ~CanRead(p))
      /\ UNCHANGED <<cmd, maxid, ch, count, ok>> /\ SameGhosts
  BY DEF Find, SameGhosts
<1>2. ConnType /\ ProcType /\ OtherType /\ Table(View(p)) /\ p \in Conn
  BY ViewTable, ProcIsConn DEF TypeInv
<1>3. Old(p) /\ db' = db /\ image' = image
  <2> HIDE DEF b, k
  <2>1. b \in BOOLEAN /\ k \in BOOLEAN
    BY DEF b, k
  <2> QED BY <1>1, <1>2, <2>1, SelectOld
<1>4. conn'[p].stmt = (conn[p].stmt \/ (CanRead(p) /\ k))
  <2> HIDE DEF b, k
  <2>1. b \in BOOLEAN /\ k \in BOOLEAN
    BY DEF b, k
  <2> QED BY <1>1, <1>2, <2>1, SelectState DEF Becomes
<1>5. Matches(p) \subseteq Row
  BY <1>2 DEF Matches, Table, Db
<1>6. \/ CanRead(p) /\ k /\ \E r \in Matches(p) : found' = Set(found, p, r)
      \/ ~(CanRead(p) /\ k) /\ found' = Set(found, p, NoRow)
  BY DEF Find
<1>7. /\ found' \in [Proc -> Row \union {NoRow}]
      /\ \A q \in Proc \ {p} : found'[q] = found[q]
      /\ \/ CanRead(p) /\ k /\ found'[p] \in Matches(p)
         \/ ~(CanRead(p) /\ k) /\ found'[p] = NoRow
  <2> DEFINE S == Row \union {NoRow}
  <2>1. found \in [Proc -> S] /\ NoRow \in S /\ Matches(p) \subseteq S
    BY <1>2, <1>5 DEF ProcType
  <2>2. CASE CanRead(p) /\ k
    <3>1. PICK r \in Matches(p) : found' = Set(found, p, r)
      BY <1>6, <2>2
    <3>2. r \in S
      BY <2>1
    <3> HIDE DEF S, k
    <3>3. found' \in [Proc -> S] /\ found'[p] = r /\ \A q \in Proc \ {p} : found'[q] = found[q]
      BY <2>1, <3>1, <3>2 DEF Set
    <3> QED BY <2>2, <3>3 DEF S
  <2>3. CASE ~(CanRead(p) /\ k)
    <3>1. found' = Set(found, p, NoRow)
      BY <1>6, <2>3
    <3> HIDE DEF S, k
    <3>2. found' \in [Proc -> S] /\ found'[p] = NoRow
          /\ \A q \in Proc \ {p} : found'[q] = found[q]
      BY <2>1, <3>1 DEF Set
    <3> QED BY <2>3, <3>2 DEF S
  <2> QED BY <2>2, <2>3
<1>8. pc' \in [Proc -> Place] /\ pc'[p] = l /\ \A q \in Proc \ {p} : pc'[q] = pc[q]
  <2>1. l \in Place
    BY DEF Place
  <2> HIDE DEF l
  <2> QED BY <1>1, <1>2, <2>1, GotoOne
<1>9. /\ raced' \in [Proc -> BOOLEAN]
      /\ raced'[p] = (raced[p] \/ ~CanRead(p))
      /\ \A q \in Proc \ {p} : /\ raced[q] => raced'[q]
                               /\ pc[q] # "idle" /\ db' # db => raced'[q]
  <2>1. (~CanRead(p)) \in BOOLEAN
    BY DEF CanRead
  <2> QED BY <1>1, <1>2, <2>1, RaceOne
<1>10. Stays(p)
  BY <1>1, <1>2, <1>7, <1>8, <1>9 DEF Stays, ProcType, OtherType, Elsewhere, SameGhosts
<1>11. raced[p] \in BOOLEAN /\ conn[p].stmt \in BOOLEAN
  BY <1>2, Fields DEF ProcType
<1>12. \/ found'[p] \in Matches(p) /\ found'[p] \in Row /\ conn'[p].stmt
       \/ found'[p] = NoRow /\ (Matches(p) = {} \/ raced'[p])
  <2>1. CASE CanRead(p) /\ k
    BY <1>4, <1>5, <1>7, <1>11, <2>1
  <2>2. CASE ~(CanRead(p) /\ k)
    BY <1>7, <1>9, <1>11, <2>2
  <2> QED BY <2>1, <2>2
<1> QED BY <1>1, <1>3, <1>8, <1>10, <1>12

LEMMA Unchanged ==
    ASSUME ProcType, NEW p
    PROVE  /\ ch' = ch => Only(p, ch, ch', 1..CHANNELS)
           /\ ok' = ok => Only(p, ok, ok', BOOLEAN)
BY DEF ProcType, Only

LEMMA AddrEndStep ==
    ASSUME TypeInv, Locks, NEW p \in Proc, AddrEnd(p)
    PROVE  /\ Old(p) /\ Stays(p) /\ SameGhosts
           /\ pc[p] = "addrEnd" /\ pc'[p] = IF Missing(p) THEN "find" ELSE "reply"
           /\ found'[p] = found[p] /\ ch'[p] = ch[p] /\ ok'[p] = ok[p]
           /\ raced'[p] = raced[p]
           /\ conn'[p].tx => conn'[p].lock = "pending"
<1> DEFINE l == IF Missing(p) THEN "find" ELSE "reply"
<1>1. /\ pc[p] = "addrEnd" /\ CommitFinalize(p) /\ Goto(p, l) /\ Race(p, FALSE)
      /\ UNCHANGED <<cmd, found, maxid, ch, count, ok>> /\ SameGhosts
  BY DEF AddrEnd, SameGhosts, IfMissing
<1>2. ConnType /\ ProcType /\ OtherType /\ p \in Conn /\ l \in Place
  BY ProcIsConn DEF TypeInv, Place
<1> HIDE DEF l
<1>3. Old(p)
  BY <1>1, <1>2, CommitFinalizeOld
<1>4. conn'[p].tx => conn'[p].lock = "pending"
  BY <1>1, <1>2, CommitFinalizeState DEF Becomes
<1>5. ProcType' /\ Elsewhere(p) /\ pc'[p] = l /\ raced'[p] = raced[p]
      /\ cmd'[p] = cmd[p] /\ found'[p] = found[p] /\ ch'[p] = ch[p] /\ ok'[p] = ok[p]
  <2>1. raced[p] \in BOOLEAN /\ FALSE \in BOOLEAN
    BY <1>2 DEF ProcType
  <2> QED BY <1>1, <1>2, <2>1, Walks, Unchanged
<1>6. OtherType'
  BY <1>1, <1>2 DEF OtherType, SameGhosts
<1> QED BY <1>1, <1>3, <1>4, <1>5, <1>6 DEF Stays, l

LEMMA AnswerIsBoolean ==
    ASSUME NEW p
    PROVE  Answer(p) \in BOOLEAN
BY DEF Answer, SeekSingleNodeAppKey, ack_read_node, ServerReadAbpNode, ABP_Fetch_Node_Info,
       ServerGetClassCFreq, read_all_rx2_freq, Missing

\* Where a process goes from a SELECT: to an INSERT only when there is no row.
LEMMA AfterFindPlace ==
    ASSUME TypeInv, NEW p \in Proc, pc[p] = "findEnd", Op(p) \notin ReadsRegion \union GetFreqs
    PROVE  /\ AfterFind(p) \in {"reply", "write", "max"}
           /\ AfterFind(p) = "reply" => Op(p) # "write"
           /\ AfterFind(p) = "max" => Op(p) \in Inserting /\ Missing(p)
           /\ AfterFind(p) = "write" => /\ Op(p) \in {"change", "delete", "write", "abp"}
                                        /\ ~(p = "server" /\ Op(p) = "abp") /\ ~Missing(p)
<1>1. Op(p) \in {"read", "readAbp", "getRx2", "add", "change", "delete", "write", "abp"}
  BY DEF TypeInv, Placed, Seeking, Inserting, Looking
<1>2. CASE Op(p) \in {"read", "readAbp", "getRx2"}
  BY <1>2 DEF AfterFind
<1>3. CASE Op(p) = "add"
  BY <1>3 DEF AfterFind, ServerAddSingleNode, IfMissing, Inserting
<1>4. CASE Op(p) = "change"
  BY <1>4 DEF AfterFind, ServerChangeSingleNodeAppkey, IfMissing
<1>5. CASE Op(p) = "delete"
  BY <1>5 DEF AfterFind, ServerDeleteSingleNode, IfMissing
<1>6. CASE Op(p) = "write"
  BY <1>6 DEF AfterFind, ack_write_node, IfMissing, Inserting
<1>7. CASE Op(p) = "abp"
  BY <1>7 DEF AfterFind, ServerAddAbpNode, ABP_Configure_Node_Info, IfMissing, Inserting
<1> QED BY <1>1, <1>2, <1>3, <1>4, <1>5, <1>6, <1>7

LEMMA IdleConnOld ==
    ASSUME ConnType, Locks, NEW c \in Conn, UNCHANGED <<db, conn, image>>
    PROVE  Old(c)
<1>1. ConnType' /\ Locks' /\ \A d \in Conn : conn'[d] = conn[d] /\ View(d)' = View(d)
  BY DEF ConnType, Locks, OneWriter, View
<1> QED BY <1>1 DEF Old, Frame

LEMMA FindEndStep ==
    ASSUME TypeInv, Locks, NEW p \in Proc, FindEnd(p)
    PROVE  /\ Old(p) /\ Stays(p) /\ SameGhosts
           /\ pc[p] = "findEnd" /\ Op(p) \notin ReadsRegion \union GetFreqs
           /\ pc'[p] = AfterFind(p)
           /\ found'[p] = found[p] /\ ch'[p] = ch[p] /\ raced'[p] = raced[p]
           /\ conn'[p].stmt = conn[p].stmt
           /\ Op(p) # "write" => (conn'[p].tx => conn'[p].lock = "pending")
<1> DEFINE l == AfterFind(p)
<1>1. /\ pc[p] = "findEnd" /\ Op(p) \notin ReadsRegion \union GetFreqs
      /\ IF Op(p) = "write" THEN UNCHANGED <<db, conn, image>> ELSE Commit(p)
      /\ Goto(p, l) /\ Race(p, FALSE) /\ ok' = Set(ok, p, Answer(p))
      /\ UNCHANGED <<cmd, found, maxid, ch, count>> /\ SameGhosts
  BY DEF FindEnd, SameGhosts
<1>2. ConnType /\ ProcType /\ OtherType /\ p \in Conn /\ l \in Place
  BY <1>1, ProcIsConn, AfterFindPlace DEF TypeInv, Place
<1>3. Old(p)
  BY <1>1, <1>2, CommitOld, IdleConnOld
<1>4. conn'[p].stmt = conn[p].stmt /\ (Op(p) # "write" => (conn'[p].tx => conn'[p].lock = "pending"))
  BY <1>1, <1>2, CommitState DEF Becomes
<1>5. Only(p, ok, ok', BOOLEAN)
  BY <1>1, <1>2, AnswerIsBoolean DEF Only, Set, ProcType
<1>6. ProcType' /\ Elsewhere(p) /\ pc'[p] = l /\ raced'[p] = raced[p]
      /\ cmd'[p] = cmd[p] /\ found'[p] = found[p] /\ ch'[p] = ch[p]
  <2>1. raced[p] \in BOOLEAN /\ FALSE \in BOOLEAN
    BY <1>2 DEF ProcType
  <2> HIDE DEF l
  <2> QED BY <1>1, <1>2, <1>5, <2>1, Walks, Unchanged
<1>7. OtherType'
  BY <1>1, <1>2 DEF OtherType, SameGhosts
<1> HIDE DEF l
<1> QED BY <1>1, <1>3, <1>4, <1>6, <1>7 DEF Stays, l

\* The ends of the other transactions that only read.
LEMMA EndStep ==
    ASSUME TypeInv, Locks, NEW p \in Proc, NEW l \in Place,
           Commit(p) \/ CommitFinalize(p) \/ Finalize(p), Goto(p, l), Race(p, FALSE),
           UNCHANGED <<cmd, found, maxid, ch, count, ok>>, SameGhosts
    PROVE  /\ Old(p) /\ Stays(p) /\ pc'[p] = l
           /\ found'[p] = found[p] /\ ch'[p] = ch[p] /\ ok'[p] = ok[p] /\ raced'[p] = raced[p]
           /\ Commit(p) \/ CommitFinalize(p) => (conn'[p].tx => conn'[p].lock = "pending")
<1>1. ConnType /\ ProcType /\ OtherType /\ p \in Conn
  BY ProcIsConn DEF TypeInv
<1>2. Old(p)
  BY <1>1, CommitOld, CommitFinalizeOld, FinalizeOld
<1>3. Commit(p) \/ CommitFinalize(p) => (conn'[p].tx => conn'[p].lock = "pending")
  BY <1>1, CommitState, CommitFinalizeState DEF Becomes
<1>4. ProcType' /\ Elsewhere(p) /\ pc'[p] = l /\ raced'[p] = raced[p]
      /\ cmd'[p] = cmd[p] /\ found'[p] = found[p] /\ ch'[p] = ch[p] /\ ok'[p] = ok[p]
  <2>1. raced[p] \in BOOLEAN /\ FALSE \in BOOLEAN
    BY <1>1 DEF ProcType
  <2> QED BY <1>1, <2>1, Walks, Unchanged
<1>5. OtherType'
  BY <1>1 DEF OtherType, SameGhosts
<1> QED BY <1>2, <1>3, <1>4, <1>5 DEF Stays

LEMMA MaxEndStep ==
    ASSUME TypeInv, Locks, NEW p \in Proc, MaxEnd(p)
    PROVE  /\ Old(p) /\ Stays(p) /\ SameGhosts /\ pc[p] = "maxEnd" /\ pc'[p] = "write"
           /\ found'[p] = found[p] /\ ch'[p] = ch[p] /\ ok'[p] = ok[p] /\ raced'[p] = raced[p]
           /\ conn'[p].tx => conn'[p].lock = "pending"
BY EndStep DEF MaxEnd, SameGhosts, Place

LEMMA RegionEndStep ==
    ASSUME TypeInv, Locks, NEW p \in Proc, RegionEnd(p)
    PROVE  /\ Old(p) /\ Stays(p) /\ SameGhosts
           /\ pc[p] = "findEnd" /\ Op(p) \in ReadsRegion /\ pc'[p] = "reply"
           /\ found'[p] = found[p] /\ ch'[p] = ch[p] /\ ok'[p] = ok[p] /\ raced'[p] = raced[p]
           /\ p # "server" => (conn'[p].tx => conn'[p].lock = "pending")
           /\ p = "server" => Finalize(p)
BY EndStep DEF RegionEnd, SameGhosts, Place

LEMMA ListEndStep ==
    ASSUME TypeInv, Locks, NEW p \in Proc, ListEnd(p)
    PROVE  /\ Old(p) /\ Stays(p) /\ SameGhosts /\ pc[p] = "listEnd" /\ pc'[p] = "reply"
           /\ found'[p] = found[p] /\ ch'[p] = ch[p] /\ ok'[p] = ok[p] /\ raced'[p] = raced[p]
           /\ conn'[p].tx => conn'[p].lock = "pending"
BY EndStep DEF ListEnd, SameGhosts, Place

\* ch goes on to the next channel, or not.
LEMMA NextChannel ==
    ASSUME ProcType, NEW p \in Proc
    PROVE  /\ ch[p] \in 1..CHANNELS
           /\ ch[p] < CHANNELS /\ ch' = Set(ch, p, ch[p] + 1) =>
                Only(p, ch, ch', 1..CHANNELS) /\ ch'[p] = ch[p] + 1
<1>1. ch \in [Proc -> 1..CHANNELS] /\ CHANNELS \in Nat
  BY Assumed DEF ProcType
<1>2. ch[p] < CHANNELS => ch[p] + 1 \in 1..CHANNELS
  BY <1>1
<1> QED BY <1>1, <1>2 DEF Only, Set

LEMMA FreqEndStep ==
    ASSUME TypeInv, Locks, NEW p \in Proc, FreqEnd(p)
    PROVE  /\ Old(p) /\ Stays(p) /\ SameGhosts
           /\ pc[p] = "findEnd" /\ Op(p) \in GetFreqs /\ pc'[p] \in {"find", "reply"}
           /\ found'[p] = found[p] /\ ok'[p] = ok[p] /\ raced'[p] = raced[p]
           /\ conn[p].stmt => (conn'[p].tx => conn'[p].lock = "pending")
           /\ ~conn[p].stmt => UNCHANGED <<db, conn, image>>
<1>1. /\ pc[p] = "findEnd" /\ Op(p) \in GetFreqs
      /\ IF conn[p].stmt THEN CommitFinalize(p) ELSE UNCHANGED <<db, conn, image>>
      /\ \/ ch[p] < CHANNELS /\ ch' = Set(ch, p, ch[p] + 1) /\ Goto(p, "find")
         \/ ch' = ch /\ Goto(p, "reply")
      /\ Race(p, FALSE) /\ UNCHANGED <<cmd, found, maxid, count, ok>> /\ SameGhosts
  BY DEF FreqEnd, SameGhosts
<1>2. ConnType /\ ProcType /\ OtherType /\ p \in Conn /\ "find" \in Place /\ "reply" \in Place
  BY ProcIsConn DEF TypeInv, Place
<1>3. Old(p)
  BY <1>1, <1>2, CommitFinalizeOld, IdleConnOld
<1>4. conn[p].stmt => (conn'[p].tx => conn'[p].lock = "pending")
  BY <1>1, <1>2, CommitFinalizeState DEF Becomes
<1>5. Only(p, ch, ch', 1..CHANNELS)
  BY <1>1, <1>2, NextChannel, Unchanged
<1>6. raced[p] \in BOOLEAN /\ FALSE \in BOOLEAN
  BY <1>2 DEF ProcType
<1>7. /\ ProcType' /\ Elsewhere(p) /\ pc'[p] \in {"find", "reply"} /\ raced'[p] = raced[p]
      /\ cmd'[p] = cmd[p] /\ found'[p] = found[p] /\ ok'[p] = ok[p]
  <2>1. CASE Goto(p, "find")
    BY <1>1, <1>2, <1>5, <1>6, <2>1, Walks, Unchanged
  <2>2. CASE Goto(p, "reply")
    BY <1>1, <1>2, <1>5, <1>6, <2>2, Walks, Unchanged
  <2> QED BY <1>1, <2>1, <2>2
<1>8. OtherType'
  BY <1>1, <1>2 DEF OtherType, SameGhosts
<1> QED BY <1>1, <1>3, <1>4, <1>7, <1>8 DEF Stays

LEMMA WriteEndStep ==
    ASSUME TypeInv, Locks, NEW p \in Proc, WriteEnd(p)
    PROVE  /\ Old(p) /\ Stays(p)
           /\ promised' = promised \union Promised(p) /\ UNCHANGED <<doubled, fwd, cmds, stores>>
           /\ pc[p] = "writeEnd"
           /\ \/ /\ p = "server" /\ Op(p) \in ConfFreqs
                 /\ pc'[p] = "write" /\ ch'[p] = ch[p] + 1
              \/ /\ pc'[p] = "reply" /\ ch'[p] = ch[p]
                 /\ p = "server" /\ Op(p) \in ConfFreqs => ch[p] = CHANNELS
           /\ found'[p] = found[p] /\ ok'[p] = ok[p] /\ raced'[p] = raced[p]
           /\ conn'[p].tx => conn'[p].lock = "pending"
<1>1. /\ pc[p] = "writeEnd" /\ Commit(p)
      /\ promised' = promised \union Promised(p)
      /\ \/ /\ p = "server" /\ Op(p) \in ConfFreqs
            /\ ch[p] < CHANNELS /\ ch' = Set(ch, p, ch[p] + 1) /\ Goto(p, "write")
         \/ /\ ~(p = "server" /\ Op(p) \in ConfFreqs /\ ch[p] < CHANNELS)
            /\ ch' = ch /\ Goto(p, "reply")
      /\ Race(p, FALSE) /\ UNCHANGED <<cmd, found, maxid, count, ok>>
      /\ UNCHANGED <<doubled, fwd, cmds, stores>>
  BY DEF WriteEnd
<1>2. ConnType /\ ProcType /\ OtherType /\ p \in Conn /\ "write" \in Place /\ "reply" \in Place
  BY ProcIsConn DEF TypeInv, Place
<1>3. Old(p)
  BY <1>1, <1>2, CommitOld
<1>4. conn'[p].tx => conn'[p].lock = "pending"
  BY <1>1, <1>2, CommitState DEF Becomes
<1>5. Only(p, ch, ch', 1..CHANNELS)
  BY <1>1, <1>2, NextChannel, Unchanged
<1>6. raced[p] \in BOOLEAN /\ FALSE \in BOOLEAN
  BY <1>2 DEF ProcType
<1>7. /\ ProcType' /\ Elsewhere(p) /\ raced'[p] = raced[p]
      /\ cmd'[p] = cmd[p] /\ found'[p] = found[p] /\ ok'[p] = ok[p]
      /\ Goto(p, "write") => pc'[p] = "write"
      /\ Goto(p, "reply") => pc'[p] = "reply"
  <2>1. CASE Goto(p, "write")
    BY <1>1, <1>2, <1>5, <1>6, <2>1, Walks, Unchanged DEF Goto
  <2>2. CASE Goto(p, "reply")
    BY <1>1, <1>2, <1>5, <1>6, <2>2, Walks, Unchanged DEF Goto
  <2> QED BY <1>1, <2>1, <2>2
<1>8. \/ /\ p = "server" /\ Op(p) \in ConfFreqs
         /\ pc'[p] = "write" /\ ch'[p] = ch[p] + 1
      \/ /\ pc'[p] = "reply" /\ ch'[p] = ch[p]
         /\ p = "server" /\ Op(p) \in ConfFreqs => ch[p] = CHANNELS
  <2>1. ch[p] \in 1..CHANNELS /\ CHANNELS \in Nat
    BY <1>2, NextChannel, Assumed
  <2> QED BY <1>1, <1>2, <1>7, <2>1, NextChannel
<1>9. OtherType'
  <2>1. Promised(p) \subseteq Eui
    BY <1>2 DEF Promised, ProcType, Command
  <2> QED BY <1>1, <1>2, <2>1 DEF OtherType
<1> QED BY <1>1, <1>3, <1>4, <1>7, <1>8, <1>9 DEF Stays

\* The commands that read Region.
Reading(p) == \/ ServerGetRegionFreq(p) \/ ServerGetRx1DRoffset(p)
              \/ ServerGetUplinkFreq(p) \/ ServerGetDownFreq(p)

LEMMA ReadingStarts ==
    ASSUME NEW p, Reading(p)
    PROVE  /\ pc[p] = "find" /\ (SelectRegion(p) \/ SelectChannel(p))
           /\ Op(p) \in ReadsRegion \union GetFreqs
BY DEF Reading, ServerGetRegionFreq, ServerGetRx1DRoffset, ServerGetUplinkFreq,
       ServerGetDownFreq, SelectRegion, SelectChannel, ReadsRegion, GetFreqs

LEMMA ReadStep ==
    ASSUME TypeInv, Locks, NEW p \in Proc, pc[p] = "find",
           SelectRegion(p) \/ SelectChannel(p)
    PROVE  /\ Old(p) /\ db' = db /\ image' = image /\ Stays(p) /\ SameGhosts
           /\ pc'[p] = "findEnd" /\ found'[p] = found[p] /\ ch'[p] = ch[p] /\ raced'[p] = raced[p]
           /\ conn'[p].stmt \/ conn'[p].lock = "none"
           /\ conn[p].lock # "reserved" => conn'[p].lock # "reserved"
<1>1. /\ Select(p, TRUE, TRUE) /\ Goto(p, "findEnd")
      /\ \/ ok' = Set(ok, p, CanRead(p))
         \/ ok' = Set(ok, p, ok[p] \/ CanRead(p))
      /\ UNCHANGED <<cmd, found, maxid, ch, count, raced>> /\ SameGhosts
  BY DEF SelectRegion, SelectChannel, SameGhosts
<1>2. ConnType /\ ProcType /\ OtherType /\ p \in Conn /\ "findEnd" \in Place /\ TRUE \in BOOLEAN
  BY ProcIsConn DEF TypeInv, Place
<1>3. Old(p) /\ db' = db /\ image' = image
  BY <1>1, <1>2, SelectOld
<1>4. /\ conn'[p].lock = IF CanRead(p) /\ conn[p].lock = "none" /\ (conn[p].tx \/ TRUE \/ TRUE)
                         THEN "shared" ELSE conn[p].lock
      /\ conn'[p].stmt = (conn[p].stmt \/ (CanRead(p) /\ TRUE))
  BY <1>1, <1>2, SelectState DEF Becomes
<1>5. /\ conn'[p].stmt \/ conn'[p].lock = "none"
      /\ conn[p].lock # "reserved" => conn'[p].lock # "reserved"
  BY <1>2, <1>4, Fields DEF CanRead
<1>6. Only(p, ok, ok', BOOLEAN)
  <2>1. CanRead(p) \in BOOLEAN /\ (ok[p] \/ CanRead(p)) \in BOOLEAN
    BY DEF CanRead
  <2> QED BY <1>1, <1>2, <2>1 DEF Only, Set, ProcType
<1>7. pc' \in [Proc -> Place] /\ pc'[p] = "findEnd" /\ \A q \in Proc \ {p} : pc'[q] = pc[q]
  BY <1>1, <1>2, GotoOne
<1>8. ProcType' /\ Elsewhere(p)
  BY <1>1, <1>2, <1>3, <1>6, <1>7 DEF ProcType, Elsewhere, Only
<1>9. OtherType'
  BY <1>1, <1>2 DEF OtherType, SameGhosts
<1> QED BY <1>1, <1>3, <1>5, <1>7, <1>8, <1>9 DEF Stays

LEMMA ListStep ==
    ASSUME TypeInv, Locks, NEW p \in Proc, List(p)
    PROVE  /\ Old(p) /\ db' = db /\ image' = image /\ Stays(p) /\ SameGhosts
           /\ pc[p] = "list" /\ pc'[p] = "listEnd" /\ found'[p] = found[p] /\ ch'[p] = ch[p]
           /\ raced'[p] = raced[p]
<1>1. /\ pc[p] = "list" /\ Select(p, TRUE, FALSE) /\ Goto(p, "listEnd")
      /\ count' = Set(count, p, IF CanRead(p) THEN Cardinality(View(p).rows) ELSE 0)
      /\ UNCHANGED <<cmd, found, maxid, ch, ok, raced>> /\ SameGhosts
  BY DEF List, SameGhosts
<1>2. ConnType /\ ProcType /\ OtherType /\ p \in Conn /\ "listEnd" \in Place
      /\ TRUE \in BOOLEAN /\ FALSE \in BOOLEAN /\ Table(View(p))
  BY ProcIsConn, ViewTable DEF TypeInv, Place
<1>3. Old(p) /\ db' = db /\ image' = image
  BY <1>1, <1>2, SelectOld
<1>4. count' \in [Proc -> Nat]
  <2>1. Cardinality(View(p).rows) \in Nat
    BY <1>2, FS_CardinalityType DEF Table
  <2> QED BY <1>1, <1>2, <2>1 DEF Set, ProcType
<1>5. pc' \in [Proc -> Place] /\ pc'[p] = "listEnd" /\ \A q \in Proc \ {p} : pc'[q] = pc[q]
  BY <1>1, <1>2, GotoOne
<1>6. ProcType' /\ Elsewhere(p)
  BY <1>1, <1>2, <1>3, <1>4, <1>5 DEF ProcType, Elsewhere
<1>7. OtherType'
  BY <1>1, <1>2 DEF OtherType, SameGhosts
<1> QED BY <1>1, <1>3, <1>5, <1>6, <1>7 DEF Stays

LEMMA FindMaxStep ==
    ASSUME TypeInv, Locks, NEW p \in Proc, FindMax(p)
    PROVE  /\ Old(p) /\ db' = db /\ image' = image /\ Stays(p) /\ SameGhosts
           /\ pc[p] = "max" /\ pc'[p] = "maxEnd" /\ found'[p] = found[p]
           /\ raced[p] => raced'[p]
<1>1. /\ pc[p] = "max" /\ Select(p, TRUE, FALSE) /\ Goto(p, "maxEnd") /\ Race(p, ~CanRead(p))
      /\ \/ \E r \in View(p).rows : maxid' = Set(maxid, p, r.id + 1)
         \/ \E m \in NoMax(p) : maxid' = Set(maxid, p, m + 1)
      /\ UNCHANGED <<cmd, found, ch, count, ok>> /\ SameGhosts
  BY DEF FindMax, SameGhosts
<1>2. ConnType /\ ProcType /\ OtherType /\ p \in Conn /\ "maxEnd" \in Place
      /\ TRUE \in BOOLEAN /\ FALSE \in BOOLEAN /\ Table(View(p))
  BY ProcIsConn, ViewTable DEF TypeInv, Place
<1>3. Old(p) /\ db' = db /\ image' = image
  BY <1>1, <1>2, SelectOld
<1>4. maxid' \in [Proc -> Nat]
  <2>1. \A r \in View(p).rows : r.id + 1 \in Nat
    BY <1>2 DEF Table, Db, Row
  <2>2. \A m \in NoMax(p) : m + 1 \in Nat
    BY Assumed DEF NoMax
  <2>3. PICK n \in Nat : maxid' = Set(maxid, p, n)
    BY <1>1, <2>1, <2>2
  <2> QED BY <1>2, <2>3 DEF Set, ProcType
<1>5. pc' \in [Proc -> Place] /\ pc'[p] = "maxEnd" /\ \A q \in Proc \ {p} : pc'[q] = pc[q]
  BY <1>1, <1>2, GotoOne
<1>6. /\ raced' \in [Proc -> BOOLEAN]
      /\ raced'[p] = (raced[p] \/ ~CanRead(p))
      /\ \A q \in Proc \ {p} : /\ raced[q] => raced'[q]
                               /\ pc[q] # "idle" /\ db' # db => raced'[q]
  <2>1. (~CanRead(p)) \in BOOLEAN
    BY DEF CanRead
  <2> QED BY <1>1, <1>2, <2>1, RaceOne
<1>7. ProcType' /\ Elsewhere(p)
  BY <1>1, <1>2, <1>3, <1>4, <1>5, <1>6 DEF ProcType, Elsewhere
<1>8. OtherType'
  BY <1>1, <1>2 DEF OtherType, SameGhosts
<1> QED BY <1>1, <1>3, <1>5, <1>6, <1>7, <1>8 DEF Stays

LEMMA EffectTable ==
    ASSUME TypeInv, NEW p \in Proc, pc[p] = "write"
    PROVE  LET w == Effect(p, View(p)) IN Changed(p, View(p), w) /\ Table(w)
<1> DEFINE v == View(p)
           w == Effect(p, v)
<1>1. Table(v)
  BY ViewTable DEF TypeInv
<1> HIDE DEF v
<1>2. Changed(p, v, w)
  BY <1>1, Effects DEF TypeInv
<1> HIDE DEF w
<1>3. IsFiniteSet(w.rows)
  <2>1. CASE Less(p, v, w)
    BY <1>1, <2>1, FS_Subset DEF Less, Table
  <2>2. CASE Mapped(v.rows, w.rows)
    BY <1>1, <2>2, MappedFinite DEF Table
  <2>3. CASE More(p, v, w)
    BY <1>1, <2>3, FS_AddElement DEF More, Table
  <2> QED BY <1>2, <2>1, <2>2, <2>3 DEF Changed
<1> QED BY <1>2, <1>3 DEF Changed, Table, v, w

\* The commands with several statements in a transaction.
Repeating(p) == p = "conf" /\ (Op(p) \in ConfFreqs \/ (Op(p) = "abp" /\ ~Missing(p)))

LEMMA StatementsOf ==
    ASSUME NEW p \in Proc
    PROVE  /\ Statements(p) \in Nat /\ Statements(p) < CHANNELS + 1
           /\ ~Repeating(p) => Statements(p) = 1
           /\ p = "conf" /\ Op(p) \in ConfFreqs => Statements(p) = CHANNELS
<1>1. CHANNELS \in Nat /\ CHANNELS > 0 /\ Columns \in Nat /\ Columns < CHANNELS + 1
  BY Assumed DEF Columns
<1>2. CASE p = "conf" /\ Op(p) \in ConfFreqs
  BY <1>1, <1>2 DEF Statements, Repeating, ConfFreqs
<1>3. CASE ~(p = "conf" /\ Op(p) \in ConfFreqs) /\ p = "conf" /\ Op(p) = "abp" /\ ~Missing(p)
  BY <1>1, <1>3 DEF Statements, Repeating
<1>4. CASE ~Repeating(p)
  BY <1>1, <1>4 DEF Statements, Repeating
<1> QED BY <1>2, <1>3, <1>4 DEF Repeating

LEMMA WriteStep ==
    ASSUME TypeInv, Locks, NEW p \in Proc, Write(p)
    PROVE  /\ New(p, Effect(p, View(p))) /\ Stays(p)
           /\ promised' = promised \ Unpromised(p) /\ UNCHANGED <<fwd, cmds, stores>>
           /\ doubled \subseteq doubled'
           /\ raced[p] /\ Op(p) \in Inserting => cmd[p].eui \in doubled'
           /\ pc[p] = "write" /\ (Op(p) = "confRx2" => p = "server")
           /\ \/ /\ Repeating(p)
                 /\ pc'[p] = "write" /\ ch'[p] = ch[p] + 1
              \/ /\ pc'[p] = "writeEnd" /\ ch'[p] = ch[p]
                 /\ p = "conf" /\ Op(p) \in ConfFreqs => ch[p] = CHANNELS
           /\ found'[p] = found[p] /\ ok'[p] = Success(p)
           /\ raced'[p] = (raced[p] \/ ~CanWrite(p))
           /\ conn'[p].stmt = conn[p].stmt
<1>1. /\ pc[p] = "write" /\ (Op(p) = "confRx2" => p = "server")
      /\ Execute(p, Effect(p, View(p)))
      /\ ok' = Set(ok, p, Success(p))
      /\ promised' = promised \ Unpromised(p)
      /\ doubled' = doubled \union
            IF raced[p] /\ Op(p) \in {"add", "abp", "write"} THEN {cmd[p].eui} ELSE {}
      /\ \/ ch[p] < Statements(p) /\ ch' = Set(ch, p, ch[p] + 1) /\ pc' = pc
         \/ ~(ch[p] < Statements(p)) /\ ch' = ch /\ Goto(p, "writeEnd")
      /\ Race(p, ~CanWrite(p)) /\ UNCHANGED <<cmd, found, maxid, count>>
      /\ UNCHANGED <<fwd, cmds, stores>>
  BY DEF Write
<1>2. ConnType /\ ProcType /\ OtherType /\ p \in Conn /\ "write" \in Place /\ "writeEnd" \in Place
  BY ProcIsConn DEF TypeInv, Place
<1>3. New(p, Effect(p, View(p))) /\ conn'[p].stmt = conn[p].stmt
  BY <1>1, <1>2, ExecuteNew, ExecuteState DEF Becomes
<1>s. /\ ch[p] \in 1..CHANNELS /\ CHANNELS \in Nat
      /\ Statements(p) \in Nat /\ Statements(p) < CHANNELS + 1
      /\ ~Repeating(p) => Statements(p) = 1
      /\ p = "conf" /\ Op(p) \in ConfFreqs => Statements(p) = CHANNELS
  BY <1>2, NextChannel, Assumed, StatementsOf
<1>4. Only(p, ch, ch', 1..CHANNELS)
  <2>1. ch[p] < Statements(p) => ch[p] < CHANNELS
    BY <1>s
  <2> QED BY <1>1, <1>2, <2>1, NextChannel, Unchanged
<1>5. Only(p, ok, ok', BOOLEAN) /\ ok'[p] = Success(p)
  <2>1. Success(p) \in BOOLEAN
    BY DEF Success
  <2> QED BY <1>1, <1>2, <2>1 DEF Only, Set, ProcType
<1>6. Goto(p, "write") \/ Goto(p, "writeEnd")
  BY <1>1, <1>2 DEF Goto, ProcType
<1>7. /\ ProcType' /\ Elsewhere(p) /\ raced'[p] = (raced[p] \/ ~CanWrite(p))
      /\ cmd'[p] = cmd[p] /\ found'[p] = found[p]
  <2>1. (~CanWrite(p)) \in BOOLEAN
    BY DEF CanWrite
  <2> QED BY <1>1, <1>2, <1>4, <1>5, <1>6, <2>1, Walks
<1>8. \/ /\ Repeating(p)
         /\ pc'[p] = "write" /\ ch'[p] = ch[p] + 1
      \/ /\ pc'[p] = "writeEnd" /\ ch'[p] = ch[p]
         /\ p = "conf" /\ Op(p) \in ConfFreqs => ch[p] = CHANNELS
  <2>2. Goto(p, "writeEnd") => pc'[p] = "writeEnd"
    BY <1>2, GotoOne
  <2>3. CASE ch[p] < Statements(p) /\ ch' = Set(ch, p, ch[p] + 1) /\ pc' = pc
    <3>1. ch[p] < CHANNELS /\ Repeating(p)
      BY <1>s, <2>3
    <3> QED BY <1>1, <1>2, <2>3, <3>1, NextChannel
  <2>4. CASE ~(ch[p] < Statements(p)) /\ ch' = ch /\ Goto(p, "writeEnd")
    BY <1>s, <2>2, <2>4
  <2> QED BY <1>1, <2>3, <2>4
<1>9. OtherType'
  <2>1. cmd[p].eui \in Eui
    BY <1>2 DEF ProcType, Command
  <2> QED BY <1>1, <1>2, <2>1 DEF OtherType
<1> QED BY <1>1, <1>3, <1>5, <1>7, <1>8, <1>9 DEF Stays, Inserting

LEMMA AloneStep ==
    ASSUME TypeInv, Locks, conf_all_rx2_freq
    PROVE  LET new == ServerConfClassCFreq(View("conf"))
           IN  /\ ExecuteAlone("conf", new) /\ Table(new)
               /\ Mapped(View("conf").rows, new.rows)
               /\ Stays("conf") /\ SameGhosts
               /\ pc["conf"] = "write" /\ Op("conf") = "confRx2"
               /\ pc'["conf"] = "reply" /\ found'["conf"] = found["conf"]
<1> DEFINE new == ServerConfClassCFreq(View("conf"))
<1>1. /\ pc["conf"] = "write" /\ Op("conf") = "confRx2" /\ ExecuteAlone("conf", new)
      /\ ok' = Set(ok, "conf", CanWriteAlone("conf")) /\ Goto("conf", "reply")
      /\ Race("conf", ~CanWriteAlone("conf"))
      /\ UNCHANGED <<cmd, found, maxid, ch, count>> /\ SameGhosts
  BY DEF conf_all_rx2_freq, SameGhosts
<1>2. ConnType /\ ProcType /\ OtherType /\ "conf" \in Proc /\ "reply" \in Place
      /\ Table(View("conf"))
  BY ViewTable DEF TypeInv, Place, Proc
<1>3. Table(new) /\ Mapped(View("conf").rows, new.rows)
  BY <1>2, Rx2Table, MappedFinite DEF Table
<1> HIDE DEF new
<1>4. Only("conf", ok, ok', BOOLEAN)
  <2>1. CanWriteAlone("conf") \in BOOLEAN
    BY DEF CanWriteAlone
  <2> QED BY <1>1, <1>2, <2>1 DEF Only, Set, ProcType
<1>5. ProcType' /\ Elsewhere("conf") /\ pc'["conf"] = "reply"
      /\ cmd'["conf"] = cmd["conf"] /\ found'["conf"] = found["conf"]
  <2>1. (~CanWriteAlone("conf")) \in BOOLEAN
    BY DEF CanWriteAlone
  <2> QED BY <1>1, <1>2, <1>4, <2>1, Walks, Unchanged
<1>6. OtherType'
  BY <1>1, <1>2 DEF OtherType, SameGhosts
<1> QED BY <1>1, <1>3, <1>5, <1>6 DEF Stays, new

LEMMA FirstPlace ==
    ASSUME NEW p \in Proc, NEW o \in Cmds(p)
    PROVE  /\ First(p, o) \in {"addr", "find", "write", "list", "restart"}
           /\ First(p, o) = "addr" => o = "abp"
           /\ First(p, o) = "find" => o \in Seeking
           /\ First(p, o) = "write" => o \in Setting \union {"delete"}
           /\ First(p, o) = "list" => o = "list"
           /\ First(p, o) = "restart" => p = "conf" /\ o = "restart"
<1>1. CASE o = "abp"
  <2>1. First(p, o) = "addr"
    BY <1>1 DEF First, ConfFreqs
  <2> QED BY <1>1, <2>1
<1>2. CASE o \in {"list", "restart"}
  <2>1. First(p, o) = o
    BY <1>2 DEF First, ConfFreqs
  <2>2. o = "restart" => p = "conf"
    BY DEF Cmds, ServerCmds, RegionCmds, Proc
  <2> QED BY <1>2, <2>1, <2>2
<1>3. CASE o \in Setting
  <2>1. First(p, o) = "write"
    BY <1>3 DEF First, Setting, ConfFreqs
  <2> QED BY <1>3, <2>1
<1>4. CASE o = "delete"
  <2>1. First(p, o) \in {"find", "write"}
    BY <1>4 DEF First, ConfFreqs
  <2> QED BY <1>4, <2>1 DEF Seeking
<1>5. CASE o \notin {"abp", "list", "restart", "delete"} \union Setting
  <2>1. o \in Seeking
    BY <1>5 DEF Cmds, ServerCmds, PC_Configuration, RegionCmds, Seeking, Inserting, Looking,
                Setting, ReadsRegion, GetFreqs, ConfFreqs
  <2>2. First(p, o) = "find"
    BY <1>5 DEF First, Setting
  <2> QED BY <2>1, <2>2
<1> QED BY <1>1, <1>2, <1>3, <1>4, <1>5

LEMMA ReceiveStep ==
    ASSUME TypeInv, Locks, NEW p \in Proc, Receive(p)
    PROVE  /\ Old(p) /\ UNCHANGED <<db, conn, image>>
           /\ UNCHANGED <<promised, doubled, fwd, stores>>
           /\ ProcType' /\ OtherType' /\ Elsewhere(p) /\ Placed(p)'
           /\ pc[p] = "idle" /\ pc'[p] \in {"addr", "find", "write", "list", "restart"}
           /\ pc'[p] = "write" => Op(p)' \in Setting \union {"delete"}
           /\ Missing(p)' /\ ch'[p] = 1
<1>1. PICK o \in Cmds(p), e \in Eui, k \in 0..KEYS, a \in {0} \union Addr :
          /\ cmd' = Set(cmd, p, [op |-> o, eui |-> e, key |-> k, addr |-> a])
          /\ Goto(p, First(p, o))
  <2>1. NoCmd.eui \in Eui /\ 0 \in 0..KEYS /\ 1..KEYS \subseteq 0..KEYS
    BY Assumed DEF NoCmd
  <2>2. PICK o \in Cmds(p) :
          /\ \E e \in IF o \in ByEui THEN Eui ELSE {NoCmd.eui},
                k \in IF o \in {"add", "write", "change"} THEN 1..KEYS ELSE {0},
                a \in IF o = "abp" THEN Addr ELSE {0} :
                  cmd' = Set(cmd, p, [op |-> o, eui |-> e, key |-> k, addr |-> a])
          /\ Goto(p, First(p, o))
    BY DEF Receive
  <2> QED BY <2>1, <2>2
<1>2. /\ pc[p] = "idle" /\ cmds < MaxCmds /\ cmds' = cmds + 1
      /\ UNCHANGED <<found, maxid, ch, count, ok, raced>>
      /\ UNCHANGED <<promised, doubled, fwd, stores>> /\ UNCHANGED <<db, conn, image>>
  BY DEF Receive
<1>3. ConnType /\ ProcType /\ OtherType /\ p \in Conn /\ Missing(p) /\ ch[p] = 1
  BY <1>2, ProcIsConn DEF TypeInv, Placed
<1>4. Old(p)
  BY <1>2, <1>3, IdleConnOld
<1>5. cmd' \in [Proc -> Command] /\ cmd'[p].op = o /\ \A q \in Proc \ {p} : cmd'[q] = cmd[q]
  <2> DEFINE m == [op |-> o, eui |-> e, key |-> k, addr |-> a]
  <2>1. m \in Command /\ m.op = o
    BY DEF Command, Cmds
  <2>2. cmd' = Set(cmd, p, m)
    BY <1>1
  <2> HIDE DEF m
  <2> QED BY <1>3, <2>1, <2>2 DEF Set, ProcType
<1>6. pc' \in [Proc -> Place] /\ pc'[p] = First(p, o) /\ \A q \in Proc \ {p} : pc'[q] = pc[q]
  <2>1. First(p, o) \in Place
    BY FirstPlace DEF Place
  <2> QED BY <1>1, <1>3, <2>1, GotoOne
<1>7. ProcType' /\ Elsewhere(p)
  BY <1>2, <1>3, <1>5, <1>6 DEF ProcType, Elsewhere
<1>8. OtherType'
  BY <1>2, <1>3, Assumed DEF OtherType
<1>9. Missing(p)' /\ ch'[p] = 1 /\ Op(p)' = o
  BY <1>2, <1>3, <1>5 DEF Missing, Op
<1>10. Placed(p)'
  BY <1>6, <1>9, FirstPlace DEF Placed, Changing, Setting
<1> QED BY <1>2, <1>4, <1>6, <1>7, <1>8, <1>9, <1>10, FirstPlace

LEMMA ForgetStep ==
    ASSUME ProcType, NEW p \in Proc, Forget(p), pc' \in [Proc -> Place], pc'[p] = "idle"
    PROVE  /\ ProcType' /\ Placed(p)'
           /\ \A q \in Proc \ {p} : /\ cmd'[q] = cmd[q] /\ found'[q] = found[q]
                                    /\ ch'[q] = ch[q] /\ ok'[q] = ok[q] /\ raced'[q] = raced[q]
<1>1. NoCmd \in Command /\ NoCmd.op \in Cmds(p) /\ 1 \in 1..CHANNELS /\ 0 \in Nat
  BY Assumed DEF NoCmd, Command, Cmds, ServerCmds, PC_Configuration
<1>2. ProcType'
  BY <1>1 DEF ProcType, Forget, Set
<1>3. found'[p] = NoRow /\ ch'[p] = 1 /\ cmd'[p] = NoCmd
  BY DEF ProcType, Forget, Set
<1>4. Placed(p)'
  BY <1>1, <1>3 DEF Placed, Missing, Op
<1>5. \A q \in Proc \ {p} : /\ cmd'[q] = cmd[q] /\ found'[q] = found[q]
                            /\ ch'[q] = ch[q] /\ ok'[q] = ok[q] /\ raced'[q] = raced[q]
  BY DEF ProcType, Forget, Set
<1> QED BY <1>2, <1>4, <1>5

LEMMA ReplyStep ==
    ASSUME TypeInv, Locks, NEW p \in Proc, Reply(p)
    PROVE  /\ Old(p) /\ db' = db /\ image' = image /\ SameGhosts
           /\ ProcType' /\ OtherType' /\ Elsewhere(p) /\ Placed(p)'
           /\ pc[p] = "reply" /\ pc'[p] = "idle" /\ Missing(p)'
           /\ Finalize(p)
<1>1. pc[p] = "reply" /\ Finalize(p) /\ Goto(p, "idle") /\ Forget(p) /\ SameGhosts
  BY DEF Reply, SameGhosts
<1>2. ConnType /\ ProcType /\ OtherType /\ p \in Conn /\ "idle" \in Place
  BY ProcIsConn DEF TypeInv, Place
<1>3. Old(p) /\ db' = db /\ image' = image
  BY <1>1, <1>2, FinalizeOld
<1>4. pc' \in [Proc -> Place] /\ pc'[p] = "idle" /\ \A q \in Proc \ {p} : pc'[q] = pc[q]
  BY <1>1, <1>2, GotoOne
<1>5. ProcType' /\ Elsewhere(p) /\ Placed(p)' /\ Missing(p)'
  BY <1>1, <1>2, <1>3, <1>4, ForgetStep DEF Elsewhere, Placed
<1>6. OtherType'
  BY <1>1, <1>2 DEF OtherType, SameGhosts
<1> QED BY <1>1, <1>3, <1>4, <1>5, <1>6

LEMMA RestartStep ==
    ASSUME TypeInv, Locks, ack_write_server
    PROVE  /\ Frame("server") /\ conn'["server"].tx = FALSE /\ conn'["server"].stmt = FALSE
           /\ db' = db /\ image' \in {db, image}
           /\ promised' = {e \in promised : HasRow(e, db)} /\ doubled' = doubled
           /\ ProcType' /\ OtherType' /\ Placed("server")'
           /\ pc["conf"] = "restart" /\ pc'["conf"] = "reply" /\ pc'["server"] = "idle"
           /\ Missing("server")'
           /\ cmd'["conf"] = cmd["conf"] /\ found'["conf"] = found["conf"]
           /\ ch'["conf"] = ch["conf"] /\ ok'["conf"] = ok["conf"] /\ raced'["conf"] = raced["conf"]
<1>1. /\ pc["conf"] = "restart" /\ Rollback("server") /\ Forget("server")
      /\ pc' = [pc EXCEPT !["server"] = "idle", !["conf"] = "reply"]
      /\ promised' = {e \in promised : HasRow(e, db)}
      /\ UNCHANGED <<doubled, fwd, cmds, stores>>
  BY DEF ack_write_server
<1>2. /\ ConnType /\ ProcType /\ OtherType /\ "server" \in Conn /\ "server" \in Proc
      /\ "conf" \in Proc \ {"server"}
  BY ProcIsConn DEF TypeInv, Proc
<1>3. pc' \in [Proc -> Place] /\ pc'["server"] = "idle" /\ pc'["conf"] = "reply"
  BY <1>1, <1>2 DEF ProcType, Place
<1>4. /\ ProcType' /\ Placed("server")'
      /\ \A q \in Proc \ {"server"} : /\ cmd'[q] = cmd[q] /\ found'[q] = found[q]
                              /\ ch'[q] = ch[q] /\ ok'[q] = ok[q] /\ raced'[q] = raced[q]
  BY <1>1, <1>2, <1>3, ForgetStep
<1>5. Missing("server")'
  BY <1>3, <1>4 DEF Placed
<1>6. OtherType'
  BY <1>1, <1>2 DEF OtherType
<1> QED BY <1>1, <1>2, <1>3, <1>4, <1>5, <1>6, RolledBack

\* lora_pkt_fwd is none of the processes.
Aside ==
    /\ pc' = pc /\ cmd' = cmd /\ found' = found /\ ch' = ch /\ ok' = ok
    /\ ProcType' /\ OtherType'
    /\ \A q \in Proc : /\ raced[q] => raced'[q]
                       /\ pc[q] # "idle" /\ db' # db => raced'[q]
    /\ promised' = promised /\ doubled' = doubled

LEMMA FwdStoreStep ==
    ASSUME TypeInv, Locks, NEW e \in Eui, NEW a \in Addr, FwdStore(e, a)
    PROVE  /\ Aside
           /\ \E new : New("fwd", new) /\ Table(new) /\ Mapped(View("fwd").rows, new.rows)
<1> DEFINE f(r) == [r EXCEPT !.addr = a, !.nwk = 1, !.app = 2]
           new == Updated(View("fwd"), e, f)
<1>1. /\ stores < MaxStores /\ Execute("fwd", new) /\ fwd' = TRUE /\ stores' = stores + 1
      /\ UNCHANGED <<pc, cmd, found, maxid, ch, count, ok, raced, promised, doubled, cmds>>
  BY DEF FwdStore
<1>2. ConnType /\ ProcType /\ OtherType /\ "fwd" \in Conn /\ Table(View("fwd"))
  BY Assumed, ViewTable DEF TypeInv
<1>3. Table(new) /\ Mapped(View("fwd").rows, new.rows)
  <2> DEFINE v == View("fwd")
  <2>1. Table(v) /\ a \in {0} \union Addr
    BY <1>2
  <2> HIDE DEF v
  <2>2. LET g(r) == [r EXCEPT !.addr = a, !.nwk = 1, !.app = 2]
            w == Updated(v, e, g)
        IN  w \in Db /\ Mapped(v.rows, w.rows) /\ w.freq = v.freq
    BY <2>1, SessionTable
  <2>3. Updated(v, e, f) \in Db /\ Mapped(v.rows, Updated(v, e, f).rows)
    BY <2>2
  <2> HIDE DEF f
  <2>4. Table(Updated(v, e, f))
    BY <2>1, <2>3, MappedFinite DEF Table
  <2> QED BY <2>3, <2>4 DEF v
<1> HIDE DEF new
<1>4. New("fwd", new)
  BY <1>1, <1>2, ExecuteNew
<1>5. db' = db
  BY <1>4 DEF New
<1>6. ProcType' /\ OtherType'
  BY <1>1, <1>2, Assumed DEF ProcType, OtherType
<1> QED BY <1>1, <1>3, <1>4, <1>5, <1>6 DEF Aside

LEMMA FwdEndStep ==
    ASSUME TypeInv, Locks, FwdEnd
    PROVE  Aside /\ Old("fwd")
<1>1. /\ fwd' = FALSE /\ Commit("fwd")
      /\ raced' = [q \in Proc |-> raced[q] \/ (pc[q] # "idle" /\ db' # db)]
      /\ UNCHANGED <<pc, cmd, found, maxid, ch, count, ok, promised, doubled, cmds, stores>>
  BY DEF FwdEnd
<1>2. ConnType /\ ProcType /\ OtherType /\ "fwd" \in Conn
  BY Assumed DEF TypeInv
<1>3. Old("fwd")
  BY <1>1, <1>2, CommitOld
<1>4. ProcType' /\ OtherType' /\ \A q \in Proc : /\ raced[q] => raced'[q]
                                                 /\ pc[q] # "idle" /\ db' # db => raced'[q]
  BY <1>1, <1>2 DEF ProcType, OtherType
<1> QED BY <1>1, <1>3, <1>4 DEF Aside
-----------------------------------------------------------------------------
(* The types, and the order of the locks.                                  *)

LEMMA PlacedElsewhere ==
    ASSUME NEW p \in Proc, Elsewhere(p), NEW q \in Proc \ {p}, Placed(q)
    PROVE  Placed(q)'
BY DEF Elsewhere, Placed, Op, Missing

LEMMA TypeKept ==
    ASSUME TypeInv, NEW p \in Proc, ConnType', Locks', Table(db)', Table(image)',
           ProcType', OtherType', Elsewhere(p), Placed(p)'
    PROVE  TypeInv' /\ Locks'
BY PlacedElsewhere DEF TypeInv

LEMMA OldTables ==
    ASSUME TypeInv, NEW c, Old(c)
    PROVE  ConnType' /\ Locks' /\ Table(db)' /\ Table(image)'
BY DEF TypeInv, Old, Frame, Table

LEMMA NewTables ==
    ASSUME TypeInv, NEW c, NEW new, New(c, new), Table(new)
    PROVE  ConnType' /\ Locks' /\ Table(db)' /\ Table(image)'
BY DEF TypeInv, New, Frame, Table

LEMMA StepType ==
    ASSUME TypeInv, Locks, NEW p \in Proc, Step(p)
    PROVE  TypeInv' /\ Locks'
<1>1. Placed(p)
  BY DEF TypeInv
<1>2. CASE Receive(p)
  BY <1>2, ReceiveStep, OldTables, TypeKept
<1>3. CASE Find(p)
  <2>1. Placed(p)'
    BY <1>1, <1>3, FindStep DEF Placed, Stays, Op, Missing, Seeking, Inserting, Looking,
             Setting, ConfFreqs, ReadsRegion, GetFreqs
  <2> QED BY <1>3, <2>1, FindStep, OldTables, TypeKept DEF Stays
<1>4. CASE AddrEnd(p)
  <2>1. Placed(p)'
    BY <1>1, <1>4, AddrEndStep DEF Placed, Stays, Op, Seeking, Inserting, Missing
  <2> QED BY <1>4, <2>1, AddrEndStep, OldTables, TypeKept DEF Stays
<1>5. CASE FindEnd(p)
  <2>1. Placed(p)'
    <3>1. /\ pc'[p] \in {"reply", "write", "max"}
          /\ pc'[p] = "max" => Op(p) \in Inserting /\ Missing(p)
          /\ pc'[p] = "write" => /\ Op(p) \in {"change", "delete", "write", "abp"}
                                 /\ ~(p = "server" /\ Op(p) = "abp") /\ ~Missing(p)
      BY <1>5, FindEndStep, AfterFindPlace
    <3>2. cmd'[p] = cmd[p] /\ found'[p] = found[p]
      BY <1>5, FindEndStep DEF Stays
    <3> QED BY <1>1, <3>1, <3>2 DEF Placed, Op, Missing, Changing, Inserting
  <2> QED BY <1>5, <2>1, FindEndStep, OldTables, TypeKept DEF Stays
<1>6. CASE FindMax(p)
  <2>1. Placed(p)'
    BY <1>1, <1>6, FindMaxStep DEF Placed, Stays, Op, Missing
  <2> QED BY <1>6, <2>1, FindMaxStep, OldTables, TypeKept DEF Stays
<1>7. CASE MaxEnd(p)
  <2>1. Placed(p)'
    BY <1>1, <1>7, MaxEndStep DEF Placed, Stays, Op, Missing, Changing
  <2> QED BY <1>7, <2>1, MaxEndStep, OldTables, TypeKept DEF Stays
<1>8. CASE Write(p)
  <2>1. /\ cmd'[p] = cmd[p] /\ found'[p] = found[p]
        /\ \/ Repeating(p) /\ pc'[p] = "write"
           \/ /\ pc'[p] = "writeEnd" /\ ch'[p] = ch[p]
              /\ p = "conf" /\ Op(p) \in ConfFreqs => ch[p] = CHANNELS
        /\ Op(p) \in Changing
    BY <1>1, <1>8, WriteStep DEF Stays, Placed
  <2>2. Placed(p)'
    BY <1>1, <2>1 DEF Placed, Op, Missing, ConfFreqs, Repeating
  <2>3. Table(Effect(p, View(p)))
    BY <1>8, WriteStep, EffectTable
  <2> QED BY <1>8, <2>2, <2>3, WriteStep, NewTables, TypeKept DEF Stays
<1>9. CASE WriteEnd(p)
  <2>1. /\ cmd'[p] = cmd[p] /\ found'[p] = found[p]
        /\ (Op(p) \in ConfFreqs /\ pc'[p] = "write") \/ pc'[p] = "reply"
    BY <1>9, WriteEndStep DEF Stays
  <2>2. Placed(p)'
    BY <1>1, <2>1 DEF Placed, Op, Missing, ConfFreqs, Changing, Setting
  <2> QED BY <1>9, <2>2, WriteEndStep, OldTables, TypeKept DEF Stays
<1>10. ASSUME pc[p] = "find", SelectRegion(p) \/ SelectChannel(p)
       PROVE  TypeInv' /\ Locks'
  <2>1. Placed(p)'
    BY <1>1, <1>10, ReadStep DEF Placed, Stays, Op, Missing
  <2> QED BY <1>10, <2>1, ReadStep, OldTables, TypeKept DEF Stays
<1>11. CASE Reading(p)
  <2>1. pc[p] = "find" /\ (SelectRegion(p) \/ SelectChannel(p))
    BY <1>11, ReadingStarts
  <2> QED BY <1>10, <2>1
<1>12. CASE RegionEnd(p)
  <2>1. Placed(p)'
    BY <1>1, <1>12, RegionEndStep DEF Placed, Stays, Op, Missing
  <2> QED BY <1>12, <2>1, RegionEndStep, OldTables, TypeKept DEF Stays
<1>13. CASE FreqEnd(p)
  <2>1. Placed(p)'
    BY <1>1, <1>13, FreqEndStep DEF Placed, Stays, Op, Missing
  <2> QED BY <1>13, <2>1, FreqEndStep, OldTables, TypeKept DEF Stays
<1>14. CASE List(p)
  <2>1. Placed(p)'
    BY <1>1, <1>14, ListStep DEF Placed, Stays, Op, Missing
  <2> QED BY <1>14, <2>1, ListStep, OldTables, TypeKept DEF Stays
<1>15. CASE ListEnd(p)
  <2>1. Placed(p)'
    BY <1>1, <1>15, ListEndStep DEF Placed, Stays, Op, Missing
  <2> QED BY <1>15, <2>1, ListEndStep, OldTables, TypeKept DEF Stays
<1>16. CASE Reply(p)
  BY <1>16, ReplyStep, OldTables, TypeKept
<1> QED BY <1>2, <1>3, <1>4, <1>5, <1>6, <1>7, <1>8, <1>9, <1>11, <1>12, <1>13, <1>14, <1>15,
           <1>16 DEF Step, Reading

LEMMA OthersType ==
    ASSUME TypeInv, Locks
    PROVE  /\ conf_all_rx2_freq => TypeInv' /\ Locks'
           /\ ack_write_server => TypeInv' /\ Locks'
           /\ \A e \in Eui, a \in Addr : FwdStore(e, a) => TypeInv' /\ Locks'
           /\ FwdEnd => TypeInv' /\ Locks'
           /\ UNCHANGED vars => TypeInv' /\ Locks'
<1>1. ASSUME conf_all_rx2_freq PROVE TypeInv' /\ Locks'
  <2> DEFINE new == ServerConfClassCFreq(View("conf"))
  <2>1. ExecuteAlone("conf", new) /\ Table(new) /\ Stays("conf") /\ pc'["conf"] = "reply"
        /\ found'["conf"] = found["conf"]
    BY <1>1, AloneStep
  <2> HIDE DEF new
  <2>2. ConnType /\ "conf" \in Conn /\ "conf" \in Proc /\ Table(db) /\ Table(image)
    BY ProcIsConn DEF TypeInv, Proc
  <2>3. ConnType' /\ Locks' /\ db' \in {db, new} /\ image' \in {image, new}
    BY <2>1, <2>2, AloneNew DEF New, Frame
  <2>4. Placed("conf")'
    BY <2>1, <2>2 DEF Placed, TypeInv, Stays, Op, Missing
  <2> QED BY <2>1, <2>2, <2>3, <2>4, TypeKept DEF Stays, Table
<1>2. ASSUME ack_write_server PROVE TypeInv' /\ Locks'
  <2>1. "conf" \in Proc /\ Placed("conf") /\ Table(db) /\ Table(image)
    BY DEF TypeInv, Proc
  <2>2. Placed("conf")'
    BY <1>2, <2>1, RestartStep DEF Placed, Op, Missing
  <2> QED BY <1>2, <2>1, <2>2, RestartStep DEF TypeInv, Frame, Table, Proc
<1>3. ASSUME Aside, NEW q \in Proc PROVE Placed(q)'
  BY <1>3 DEF Aside, Placed, Op, Missing, TypeInv
<1>4. ASSUME NEW e \in Eui, NEW a \in Addr, FwdStore(e, a) PROVE TypeInv' /\ Locks'
  <2>1. PICK new : Aside /\ New("fwd", new) /\ Table(new)
    BY <1>4, FwdStoreStep
  <2> QED BY <1>3, <2>1, NewTables DEF TypeInv, Aside
<1>5. ASSUME FwdEnd PROVE TypeInv' /\ Locks'
  <2>1. Aside /\ Old("fwd")
    BY <1>5, FwdEndStep
  <2> QED BY <1>3, <2>1, OldTables DEF TypeInv, Aside
<1>6. ASSUME UNCHANGED vars PROVE TypeInv' /\ Locks'
  <2>1. \A q \in Proc : Placed(q)'
    BY <1>6 DEF vars, TypeInv, Placed, Op, Missing
  <2> QED BY <1>6, <2>1 DEF vars, TypeInv, ConnType, ProcType, OtherType, Locks, OneWriter, Table
<1> QED BY <1>1, <1>2, <1>4, <1>5, <1>6

LEMMA NextType ==
    ASSUME TypeInv, Locks, [Next]_vars
    PROVE  TypeInv' /\ Locks'
BY StepType, OthersType DEF Next

\* The tables at the start have at most MaxRows rows, as their ids differ.
LEMMA InitTable ==
    ASSUME Init
    PROVE  Table(db) /\ db.rows \in SqliteGwInfoTable
<1>1. PICK t \in SqliteGwInfoTable :
        db = [rows |-> t, region |-> Channel_FrequencyTable_Init.region,
              freq |-> Channel_FrequencyTable_Init.freq]
  BY DEF Init
<1>2. t \in SUBSET Row
  <2>1. 1..MaxRows \subseteq Nat /\ {1} \subseteq 0..KEYS
    BY Assumed
  <2> QED BY <2>1 DEF SqliteGwInfoTable, Row
<1>3. IsFiniteSet(t)
  <2> DEFINE f == [r \in t |-> r.id]
  <2>1. \A r \in t : r.id \in 1..MaxRows
    BY DEF SqliteGwInfoTable
  <2>2. \A r, q \in t : r.id = q.id => r = q
    BY DEF SqliteGwInfoTable
  <2>3. f \in Injection(t, 1..MaxRows)
    BY <2>1, <2>2 DEF Injection, IsInjective
  <2>4. IsFiniteSet(1..MaxRows)
    BY Assumed, FS_Interval
  <2> QED BY <2>3, <2>4, FS_Injection
<1>4. db \in Db
  <2>1. Channel_FrequencyTable_Init.region \in [{"band", "rx1"} -> 0..1]
        /\ Channel_FrequencyTable_Init.freq \in [{"up", "down"} -> [1..CHANNELS -> 0..1]]
    BY DEF Channel_FrequencyTable_Init
  <2> QED BY <1>1, <1>2, <2>1 DEF Db
<1> QED BY <1>1, <1>3, <1>4 DEF Table

LEMMA InitType == Init => TypeInv /\ Locks
<1> SUFFICES ASSUME Init PROVE TypeInv /\ Locks
  OBVIOUS
<1>1. Table(db) /\ Table(image)
  BY InitTable DEF Init
<1>2. Unused \in ConnState /\ Unused.tx = FALSE /\ Unused.lock = "none" /\ Unused.stmt = FALSE
  BY Lock DEF Unused
<1>3. ConnType /\ \A c \in Conn : conn[c] = Unused
  BY <1>2 DEF Init, ConnType
<1>4. Locks
  BY <1>2, <1>3 DEF Init, Locks, OneWriter, Writing
<1>5. NoCmd \in Command
  BY Assumed DEF NoCmd, Command, ServerCmds
<1>6. ProcType
  BY <1>5, Assumed DEF Init, ProcType, Place
<1>7. OtherType
  <2>1. promised = {} /\ doubled = {} /\ fwd = FALSE /\ cmds = 0 /\ stores = 0
    BY DEF Init
  <2>2. 0 \in 0..MaxCmds /\ 0 \in 0..MaxStores
    BY Assumed
  <2> QED BY <2>1, <2>2 DEF OtherType
<1>8. ASSUME NEW p \in Proc PROVE Placed(p)
  <2>1. pc[p] = "idle" /\ cmd[p] = NoCmd /\ found[p] = NoRow /\ ch[p] = 1
    BY DEF Init
  <2> QED BY <2>1 DEF Placed, Op, Missing, NoCmd, Cmds, ServerCmds, PC_Configuration
<1> QED BY <1>1, <1>3, <1>4, <1>6, <1>7, <1>8 DEF TypeInv

LEMMA TypeSafe == Spec => [](TypeInv /\ Locks)
<1>1. TypeInv /\ Locks /\ [Next]_vars => (TypeInv /\ Locks)'
  BY NextType
<1> QED BY <1>1, InitType, PTL DEF Spec

\* The variables stay in their types: the locks are such as SQLite gives, whatever the
\* order of the statements of the three processes, and the channel a command is at
\* is one of Region's.
THEOREM NodeTableTypeCorrect == Spec => []TypeOK
<1>1. TypeInv => TypeOK
  BY DEF TypeInv, TypeOK, Table, ConnType, ProcType, OtherType, Place, Command
<1> QED BY <1>1, TypeSafe, PTL
-----------------------------------------------------------------------------
(* The locks are where they are needed and nowhere else.                   *)

\* Where a process still uses the row its SELECT stopped at.
Using(p) ==
    \/ pc[p] = "findEnd"
    \/ pc[p] = "write" /\ ch[p] = 1
    \/ pc[p] = "reply" /\ Op(p) \in Looking
Held(p) == ~Missing(p) /\ Using(p) => conn[p].stmt /\ found[p] \in View(p).rows

\* A process without a transaction to go on with.
Resting(p) ==
    \/ ~conn[p].tx
    \/ conn[p].lock \in {"none", "pending"}
    \/ p = "server" /\ conn[p].lock = "shared"
    \/ p = "conf" /\ conn[p].lock = "reserved" /\ image = ServerConfClassCFreq(db)
Rest(p) ==
    /\ pc[p] \in {"idle", "addr", "find", "list", "restart", "reply"} => Resting(p)
    /\ pc[p] = "write" /\ Op(p) = "confRx2" => Resting(p)
    /\ pc[p] = "findEnd" /\ Op(p) \in ReadsRegion /\ p = "server" => Resting(p)
    /\ pc[p] = "findEnd" /\ Op(p) \in GetFreqs => conn[p].stmt \/ conn[p].lock = "none"
    /\ pc[p] = "idle" => ~conn[p].stmt

InPlace == \A p \in Proc : Held(p) /\ Rest(p)

\* Another connection's step takes nothing away: it cannot commit while p's SELECT
\* is at its row, nor write while p has written.
LEMMA InPlaceElsewhere ==
    ASSUME NEW c \in Conn, Frame(c), Locks, NEW q \in Proc \ {c},
           pc'[q] = pc[q], cmd'[q] = cmd[q], found'[q] = found[q], ch'[q] = ch[q],
           Held(q), Rest(q)
    PROVE  Held(q)' /\ Rest(q)'
<1>1. /\ conn'[q] = conn[q] /\ (conn[q].lock # "none" => db' = db)
      /\ (db' = db => View(q)' = View(q)) /\ (conn[q].stmt => conn[q].lock # "none")
  BY ProcIsConn DEF Frame, Locks
<1>2. Held(q)'
  BY <1>1 DEF Held, Using, Missing, Op
<1>3. Resting(q) => Resting(q)'
  BY <1>1 DEF Resting, View, Writing
<1>4. Rest(q)'
  BY <1>1, <1>3 DEF Rest, Op
<1> QED BY <1>2, <1>4

LEMMA OthersInPlace ==
    ASSUME NEW p \in Proc, Frame(p), Locks, Elsewhere(p), InPlace, Held(p)', Rest(p)'
    PROVE  InPlace'
BY InPlaceElsewhere, ProcIsConn DEF InPlace, Elsewhere

\* What a step that keeps its SELECT where it is does to the row.
LEMMA StillHeld ==
    ASSUME NEW p \in Proc, Held(p), found'[p] = found[p], View(p)' = View(p),
           conn[p].stmt => conn'[p].stmt, Using(p)' => Using(p)
    PROVE  Held(p)'
BY DEF Held, Missing

LEMMA EndedRests ==
    ASSUME NEW p, conn'[p].tx => conn'[p].lock = "pending", pc'[p] # "findEnd", pc'[p] # "idle"
    PROVE  Rest(p)'
BY DEF Rest, Resting

LEMMA StepInPlace ==
    ASSUME TypeInv, Locks, InPlace, NEW p \in Proc, Step(p)
    PROVE  InPlace'
<1>1. /\ Placed(p) /\ Held(p) /\ Rest(p) /\ p \in Conn /\ ConnType
      /\ \A q : Old(q) => Frame(q) /\ View(q)' = View(q)
  BY ProcIsConn DEF TypeInv, InPlace, Old
<1>2. CASE Receive(p)
  <2>1. Held(p)'
    BY <1>2, ReceiveStep DEF Held
  <2>2. Rest(p)'
    BY <1>1, <1>2, ReceiveStep DEF Rest, Resting
  <2> QED BY <1>1, <1>2, <2>1, <2>2, ReceiveStep, OthersInPlace
<1>3. CASE Find(p)
  <2>1. Held(p)'
    <3>1. Matches(p) \subseteq View(p).rows
      BY DEF Matches
    <3> QED BY <1>1, <1>3, <3>1, FindStep DEF Held, Missing
  <2>2. Rest(p)'
    BY <1>3, FindStep DEF Rest, Op, Stays
  <2> QED BY <1>1, <1>3, <2>1, <2>2, FindStep, OthersInPlace DEF Stays
<1>4. CASE AddrEnd(p)
  <2>1. ~Using(p)'
    BY <1>1, <1>4, AddrEndStep DEF Using, Stays, Op, Placed, Looking
  <2>2. Held(p)'
    BY <2>1 DEF Held
  <2>3. Rest(p)'
    BY <1>4, AddrEndStep, EndedRests
  <2> QED BY <1>1, <1>4, <2>2, <2>3, AddrEndStep, OthersInPlace DEF Stays
<1>5. CASE FindEnd(p)
  <2>1. Held(p)'
    BY <1>1, <1>5, FindEndStep, StillHeld DEF Using
  <2>2. Rest(p)'
    <3>1. /\ pc'[p] \in {"reply", "write", "max"}
          /\ pc'[p] = "reply" => Op(p) # "write"
          /\ pc'[p] = "write" => Op(p) \in {"change", "delete", "write", "abp"}
      BY <1>5, FindEndStep, AfterFindPlace
    <3>2. cmd'[p] = cmd[p] /\ (Op(p) # "write" => (conn'[p].tx => conn'[p].lock = "pending"))
      BY <1>5, FindEndStep DEF Stays
    <3> QED BY <3>1, <3>2 DEF Rest, Resting, Op
  <2> QED BY <1>1, <1>5, <2>1, <2>2, FindEndStep, OthersInPlace DEF Stays
<1>6. CASE FindMax(p)
  <2>1. Held(p)' /\ Rest(p)'
    BY <1>6, FindMaxStep DEF Held, Using, Rest
  <2> QED BY <1>1, <1>6, <2>1, FindMaxStep, OthersInPlace DEF Stays
<1>7. CASE MaxEnd(p)
  <2>1. Held(p)'
    BY <1>1, <1>7, MaxEndStep DEF Held, Missing, Placed
  <2>2. Rest(p)'
    BY <1>7, MaxEndStep, EndedRests
  <2> QED BY <1>1, <1>7, <2>1, <2>2, MaxEndStep, OthersInPlace DEF Stays
<1>8. CASE Write(p)
  <2>1. /\ Frame(p) /\ Elsewhere(p) /\ cmd'[p] = cmd[p] /\ found'[p] = found[p]
        /\ (pc'[p] = "write" /\ ch'[p] = ch[p] + 1 /\ Repeating(p)) \/ pc'[p] = "writeEnd"
    BY <1>8, WriteStep DEF Stays, New
  <2>2. Held(p)'
    <3>1. ch[p] \in 1..CHANNELS
      BY NextChannel DEF TypeInv
    <3>2. ch[p] + 1 # 1
      BY <3>1
    <3> QED BY <2>1, <3>2 DEF Held, Using
  <2>3. Rest(p)'
    BY <2>1 DEF Rest, Op, ConfFreqs, Repeating
  <2> QED BY <2>1, <2>2, <2>3, OthersInPlace
<1>9. CASE WriteEnd(p)
  <2>1. /\ (pc'[p] = "write" /\ Op(p) \in ConfFreqs) \/ (pc'[p] = "reply" /\ Op(p) \in Changing)
        /\ cmd'[p] = cmd[p] /\ found'[p] = found[p]
    BY <1>1, <1>9, WriteEndStep DEF Stays, Placed
  <2>2. Held(p)'
    BY <1>1, <2>1 DEF Held, Using, Missing, Placed, Setting, Op, Changing, Looking, Inserting,
                      ConfFreqs
  <2>3. Rest(p)'
    BY <1>9, <2>1, WriteEndStep, EndedRests
  <2> QED BY <1>1, <1>9, <2>2, <2>3, WriteEndStep, OthersInPlace DEF Stays
<1>10. ASSUME pc[p] = "find", SelectRegion(p) \/ SelectChannel(p),
              Op(p) \in ReadsRegion \union GetFreqs
       PROVE  InPlace'
  <2>1. Held(p)'
    BY <1>1, <1>10, ReadStep DEF Held, Missing, Placed
  <2>2. Op(p) \in ReadsRegion /\ p = "server" => conn'[p].lock # "reserved"
    BY <1>1, <1>10, ReadStep DEF Rest, Resting, Locks, Writing
  <2>3. Rest(p)'
    <3>1. pc'[p] = "findEnd" /\ cmd'[p] = cmd[p] /\ (conn'[p].stmt \/ conn'[p].lock = "none")
          /\ ConnType'
      BY <1>10, ReadStep DEF Stays, Old, Frame
    <3>2. conn'[p].lock \in {"none", "shared", "reserved", "pending"}
      BY <1>1, <3>1, Lock DEF ConnType
    <3> QED BY <2>2, <3>1, <3>2 DEF Rest, Resting, Op
  <2> QED BY <1>1, <1>10, <2>1, <2>3, ReadStep, OthersInPlace DEF Stays
<1>11. CASE Reading(p)
  <2>1. pc[p] = "find" /\ (SelectRegion(p) \/ SelectChannel(p))
        /\ Op(p) \in ReadsRegion \union GetFreqs
    BY <1>11, ReadingStarts
  <2> QED BY <1>10, <2>1
<1>12. CASE RegionEnd(p)
  <2>1. ~Using(p)'
    BY <1>12, RegionEndStep DEF Using, Stays, Op, Looking, ReadsRegion
  <2>2. Held(p)'
    BY <2>1 DEF Held
  <2>3. Resting(p)'
    <3>1. CASE p = "server"
      <4>1. conn[p].lock # "reserved"
        BY <1>1, <1>12, <3>1, RegionEndStep DEF Rest, Resting, Locks, Writing
      <4>2. conn'[p].lock # "reserved" /\ conn'[p].lock \in {"none", "shared", "reserved", "pending"}
        BY <1>1, <1>12, <3>1, <4>1, RegionEndStep, FinalizeState, Fields DEF Becomes
      <4> QED BY <3>1, <4>2 DEF Resting
    <3>2. CASE p # "server"
      BY <1>12, <3>2, RegionEndStep DEF Resting
    <3> QED BY <3>1, <3>2
  <2>4. Rest(p)'
    BY <1>12, <2>3, RegionEndStep DEF Rest
  <2> QED BY <1>1, <1>12, <2>2, <2>4, RegionEndStep, OthersInPlace DEF Stays
<1>13. CASE FreqEnd(p)
  <2>1. ~Using(p)'
    BY <1>13, FreqEndStep DEF Using, Stays, Op, Looking, GetFreqs
  <2>2. Held(p)'
    BY <2>1 DEF Held
  <2>3. Rest(p)'
    <3>1. Resting(p)'
      BY <1>1, <1>13, FreqEndStep DEF Rest, Resting
    <3> QED BY <1>13, <3>1, FreqEndStep DEF Rest
  <2> QED BY <1>1, <1>13, <2>2, <2>3, FreqEndStep, OthersInPlace DEF Stays
<1>14. CASE List(p)
  <2>1. Held(p)' /\ Rest(p)'
    BY <1>14, ListStep DEF Held, Using, Rest
  <2> QED BY <1>1, <1>14, <2>1, ListStep, OthersInPlace DEF Stays
<1>15. CASE ListEnd(p)
  <2>1. ~Using(p)'
    BY <1>1, <1>15, ListEndStep DEF Using, Stays, Op, Placed, Looking
  <2>2. Held(p)'
    BY <2>1 DEF Held
  <2>3. Rest(p)'
    BY <1>15, ListEndStep, EndedRests
  <2> QED BY <1>1, <1>15, <2>2, <2>3, ListEndStep, OthersInPlace DEF Stays
<1>16. CASE Reply(p)
  <2>1. Held(p)'
    BY <1>16, ReplyStep DEF Held
  <2>2. /\ conn'[p].tx = conn[p].tx /\ conn'[p].stmt = FALSE /\ db' = db /\ image' = image
        /\ conn'[p].lock = IF conn[p].tx THEN conn[p].lock ELSE "none"
    BY <1>1, <1>16, ReplyStep, FinalizeState DEF Becomes
  <2>3. Rest(p)'
    <3>1. Resting(p)'
      BY <1>1, <1>16, <2>2, ReplyStep DEF Rest, Resting
    <3> QED BY <1>16, <2>2, <3>1, ReplyStep DEF Rest
  <2> QED BY <1>1, <1>16, <2>1, <2>3, ReplyStep, OthersInPlace
<1> QED BY <1>2, <1>3, <1>4, <1>5, <1>6, <1>7, <1>8, <1>9, <1>11, <1>12, <1>13, <1>14, <1>15,
           <1>16 DEF Step, Reading

\* The Rx2 frequency is set in the transaction that was left open, or alone.
LEMMA AloneInPlace ==
    ASSUME TypeInv, Locks, InPlace, conf_all_rx2_freq
    PROVE  InPlace'
<1> DEFINE c == "conf"
           new == ServerConfClassCFreq(View(c))
<1>1. /\ c \in Proc /\ c \in Conn /\ ConnType /\ Table(db) /\ Rest(c)
      /\ pc[c] = "write" /\ Op(c) = "confRx2" /\ ExecuteAlone(c, new)
      /\ Stays(c) /\ pc'[c] = "reply" /\ Frame(c)
  BY AloneStep, AloneNew, ProcIsConn DEF TypeInv, Proc, InPlace
<1>2. Held(c)'
  BY <1>1 DEF Held, Using, Stays, Op, Looking
<1>3. Resting(c)
  BY <1>1 DEF Rest
<1>4. Resting(c)'
  <2>1. CASE ~conn[c].tx
    BY <2>1, <1>1, AloneNew DEF Resting
  <2>2. CASE conn[c].tx
    <3>1. /\ conn'[c].lock = IF CanWrite(c) /\ conn[c].lock # "pending" THEN "reserved"
                             ELSE conn[c].lock
          /\ db' = db /\ image' = IF CanWrite(c) THEN new ELSE image
      BY <1>1, <2>2, ExecuteState DEF ExecuteAlone, Becomes
    <3>2. \/ conn[c].lock \in {"none", "pending"}
          \/ conn[c].lock = "reserved" /\ image = ServerConfClassCFreq(db)
      BY <1>3, <2>2 DEF Resting
    <3>3. CASE conn[c].lock = "none"
      <4>1. new = ServerConfClassCFreq(db)
        BY <3>3 DEF View, Writing
      <4> HIDE DEF new
      <4> QED BY <3>1, <3>3, <4>1 DEF Resting
    <3>4. CASE conn[c].lock = "pending"
      BY <3>1, <3>4 DEF Resting
    <3>5. CASE conn[c].lock = "reserved" /\ image = ServerConfClassCFreq(db)
      <4>1. new = image
        BY <1>1, <3>5, Rx2Twice DEF View, Writing
      <4> HIDE DEF new
      <4> QED BY <3>1, <3>5, <4>1 DEF Resting
    <3> QED BY <3>2, <3>3, <3>4, <3>5
  <2> QED BY <2>1, <2>2
<1>5. Rest(c)'
  BY <1>1, <1>4 DEF Rest
<1> QED BY <1>1, <1>2, <1>5, OthersInPlace DEF Stays

LEMMA OthersStepInPlace ==
    ASSUME TypeInv, Locks, InPlace
    PROVE  /\ ack_write_server => InPlace'
           /\ \A e \in Eui, a \in Addr : FwdStore(e, a) => InPlace'
           /\ FwdEnd => InPlace'
           /\ UNCHANGED vars => InPlace'
<1>1. ASSUME ack_write_server PROVE InPlace'
  <2> DEFINE c == "conf"
             s == "server"
  <2>1. /\ Proc = {c, s} /\ s \in Conn /\ c \in Conn /\ Held(c) /\ Rest(c) /\ Placed(c)
    BY ProcIsConn DEF Proc, InPlace, TypeInv
  <2>2. Held(s)' /\ Rest(s)'
    BY <1>1, RestartStep DEF Held, Rest, Resting
  <2>3. /\ conn'[c] = conn[c] /\ db' = db /\ View(c)' = View(c)
    BY <1>1, <2>1, RestartStep DEF Frame
  <2>4. Held(c)'
    BY <1>1, <2>1, RestartStep DEF Held, Using, Placed, Looking, Op
  <2>5. Resting(c)'
    BY <1>1, <2>1, <2>3, RestartStep DEF Rest, Resting, View, Writing
  <2>6. Rest(c)'
    BY <1>1, <2>5, RestartStep DEF Rest
  <2> QED BY <2>1, <2>2, <2>4, <2>6 DEF InPlace
<1>2. ASSUME Aside, Frame("fwd") PROVE InPlace'
  <2>1. "fwd" \in Conn /\ Proc = Proc \ {"fwd"}
    BY Assumed DEF Proc
  <2> QED BY <1>2, <2>1, InPlaceElsewhere DEF InPlace, Aside
<1>3. ASSUME NEW e \in Eui, NEW a \in Addr, FwdStore(e, a) PROVE InPlace'
  BY <1>2, <1>3, FwdStoreStep DEF New
<1>4. ASSUME FwdEnd PROVE InPlace'
  BY <1>2, <1>4, FwdEndStep DEF Old
<1>5. ASSUME UNCHANGED vars PROVE InPlace'
  BY <1>5 DEF vars, InPlace, Held, Rest, Resting, Using, Missing, Op, View
<1> QED BY <1>1, <1>3, <1>4, <1>5

LEMMA InitInPlace == Init => InPlace
<1> SUFFICES ASSUME Init, NEW p \in Proc PROVE Held(p) /\ Rest(p)
  BY DEF InPlace
<1>1. pc[p] = "idle" /\ found[p] = NoRow /\ conn[p] = Unused
  BY ProcIsConn DEF Init
<1>2. conn[p].tx = FALSE /\ conn[p].stmt = FALSE
  BY <1>1 DEF Unused
<1> QED BY <1>1, <1>2 DEF Held, Missing, Rest, Resting

LEMMA InPlaceSafe == Spec => [](TypeInv /\ Locks /\ InPlace)
<1>1. TypeInv /\ Locks /\ InPlace /\ [Next]_vars => InPlace'
  BY StepInPlace, AloneInPlace, OthersStepInPlace DEF Next
<1> QED BY <1>1, TypeSafe, InitInPlace, PTL DEF Spec

\* The locks of the data base are where they are needed and nowhere else: what a
\* SELECT found is there when the code uses it, and between commands the other
\* processes may write, but for the exceptions LocksReleased names.
THEOREM NodeTableLocksInPlace == Spec => []LocksInPlace
<1>1. TypeInv /\ Locks /\ InPlace => LocksInPlace
  <2> SUFFICES ASSUME TypeInv, Locks, InPlace, NEW p \in Proc
               PROVE  /\ /\ ~Missing(p)
                         /\ \/ pc[p] = "findEnd"
                            \/ pc[p] = "write" /\ ch[p] = 1
                            \/ pc[p] = "reply" /\ Op(p) \in {"read", "readAbp", "getRx2"}
                         => found[p] \in View(p).rows
                      /\ pc[p] = "idle" =>
                         /\ ~conn[p].stmt
                         /\ \/ conn[p].lock \in {"none", "pending"}
                            \/ p = "server" /\ conn[p].lock = "shared"
                            \/ p = "conf" /\ conn[p].lock = "reserved"
                                          /\ image = ServerConfClassCFreq(db)
    BY DEF LocksInPlace, FoundStays, LocksReleased
  <2>1. Held(p) /\ Rest(p) /\ p \in Conn
    BY ProcIsConn DEF InPlace
  <2>2. conn[p].lock # "none" => conn[p].tx \/ conn[p].stmt
    BY <2>1 DEF Locks
  <2> QED BY <2>1, <2>2 DEF Held, Using, Looking, Rest, Resting
<1> QED BY <1>1, InPlaceSafe, PTL
-----------------------------------------------------------------------------
(* A node has one row.                                                     *)

One(v) == \A e \in Eui \ doubled : \A r, q \in v.rows : r.eui = e /\ q.eui = e => r = q

\* A process that is to insert a node, and was never in another's way, is right that
\* the node is not in the table.
Absent(p) ==
    /\ Op(p) \in Inserting /\ Missing(p) /\ ~raced[p]
    /\ pc[p] \in {"findEnd", "max", "maxEnd", "write"}
    => ~HasRow(cmd[p].eui, View(p))

Alone == One(db) /\ One(image) /\ \A p \in Proc : Absent(p)

LEMMA NoRowIsNoRow == NoRow \notin Row
<1>1. "eui" \notin DOMAIN NoRow
  BY DEF NoRow
<1>2. \A r \in Row : "eui" \in DOMAIN r
  BY DEF Row
<1> QED BY <1>1, <1>2

\* What was committed while p was at work has been noted.
LEMMA AbsentElsewhere ==
    ASSUME NEW c \in Conn, Frame(c), NEW q \in Proc \ {c}, Absent(q),
           pc'[q] = pc[q], cmd'[q] = cmd[q], found'[q] = found[q],
           raced[q] => raced'[q], pc[q] # "idle" /\ db' # db => raced'[q]
    PROVE  Absent(q)'
<1>1. db' = db => View(q)' = View(q)
  BY ProcIsConn DEF Frame
<1> QED BY <1>1 DEF Absent, Op, Missing, HasRow

LEMMA AloneElsewhere ==
    ASSUME NEW p \in Proc, Frame(p), Elsewhere(p), Alone, One(db)', One(image)', Absent(p)'
    PROVE  Alone'
BY AbsentElsewhere, ProcIsConn DEF Alone, Elsewhere

LEMMA SameTables ==
    ASSUME One(db), One(image), db' \in {db, image}, image' \in {db, image},
           doubled \subseteq doubled'
    PROVE  One(db)' /\ One(image)'
BY DEF One

\* A step that writes nothing, and by which p does not come to believe that a node
\* is not there.
LEMMA OldAlone ==
    ASSUME Alone, NEW p \in Proc, Old(p), Elsewhere(p), doubled' = doubled, Absent(p)'
    PROVE  Alone'
BY SameTables, AloneElsewhere DEF Old, Alone

LEMMA StillAbsent ==
    ASSUME NEW p \in Proc, Absent(p), cmd'[p] = cmd[p], found'[p] = found[p],
           View(p)' = View(p), raced[p] => raced'[p],
           pc'[p] \in {"findEnd", "max", "maxEnd", "write"} =>
               pc[p] \in {"findEnd", "max", "maxEnd", "write"} \/ Op(p) \notin Inserting
    PROVE  Absent(p)'
BY DEF Absent, Op, Missing, HasRow

LEMMA OneMapped ==
    ASSUME NEW v, NEW w, One(v), Mapped(v.rows, w.rows), doubled \subseteq doubled'
    PROVE  \A e \in Eui \ doubled' : \A r, q \in w.rows : r.eui = e /\ q.eui = e => r = q
BY DEF One, Mapped

LEMMA OneChanged ==
    ASSUME NEW p \in Proc, Absent(p), pc[p] = "write", NEW w, One(View(p)),
           Changed(p, View(p), w), doubled \subseteq doubled',
           raced[p] /\ Op(p) \in Inserting => cmd[p].eui \in doubled'
    PROVE  \A e \in Eui \ doubled' : \A r, q \in w.rows : r.eui = e /\ q.eui = e => r = q
<1>1. CASE Less(p, View(p), w)
  BY <1>1 DEF One, Less
<1>2. CASE Mapped(View(p).rows, w.rows)
  <2> DEFINE v == View(p)
  <2>1. One(v) /\ Mapped(v.rows, w.rows)
    BY <1>2
  <2> HIDE DEF v
  <2> QED BY <2>1, OneMapped
<1>3. CASE More(p, View(p), w)
  <2>1. PICK r \in Row : r.eui = cmd[p].eui /\ w.rows = View(p).rows \union {r}
    BY <1>3 DEF More
  <2>2. cmd[p].eui \in doubled' \/ ~HasRow(cmd[p].eui, View(p))
    BY <1>3 DEF More, Absent
  <2> QED BY <2>1, <2>2 DEF One, HasRow
<1> QED BY <1>1, <1>2, <1>3 DEF Changed

LEMMA StepAlone ==
    ASSUME TypeInv, Locks, Alone, NEW p \in Proc, Step(p)
    PROVE  Alone'
<1>1. /\ Placed(p) /\ Absent(p) /\ One(db) /\ One(image)
      /\ Old(p) => View(p)' = View(p) /\ Frame(p)
  BY DEF TypeInv, Alone, Old
<1>2. CASE Receive(p)
  <2>1. pc'[p] \in {"findEnd", "max", "maxEnd", "write"} => Op(p)' \notin Inserting
    BY <1>2, ReceiveStep DEF Setting, Inserting, ConfFreqs
  <2>2. Absent(p)'
    BY <2>1 DEF Absent
  <2> QED BY <1>2, <2>2, ReceiveStep, OldAlone
<1>3. CASE Find(p)
  <2>1. /\ Stays(p) /\ Old(p) /\ (pc'[p] = "findEnd" => pc[p] = "find")
        /\ pc'[p] \in {"addrEnd", "findEnd"}
        /\ Missing(p)' => Matches(p) = {} \/ raced'[p]
    BY <1>3, FindStep, NoRowIsNoRow DEF Missing
  <2>2. Absent(p)'
    <3>1. pc[p] = "find" /\ Op(p) \in Inserting /\ Matches(p) = {} => ~HasRow(cmd[p].eui, View(p))
      BY DEF Matches, HasRow, Inserting
    <3>2. Op(p)' = Op(p) /\ cmd'[p] = cmd[p] /\ View(p)' = View(p)
      BY <1>1, <2>1 DEF Op, Stays
    <3> QED BY <2>1, <3>1, <3>2 DEF Absent, HasRow
  <2> QED BY <1>3, <2>1, <2>2, FindStep, OldAlone DEF Stays, SameGhosts
<1>4. CASE AddrEnd(p)
  <2>1. Absent(p)'
    BY <1>4, AddrEndStep DEF Absent
  <2> QED BY <1>4, <2>1, AddrEndStep, OldAlone DEF Stays, SameGhosts
<1>5. CASE FindEnd(p)
  <2>1. Absent(p)'
    BY <1>1, <1>5, FindEndStep, StillAbsent DEF Stays
  <2> QED BY <1>5, <2>1, FindEndStep, OldAlone DEF Stays, SameGhosts
<1>6. CASE FindMax(p)
  <2>1. Absent(p)'
    BY <1>1, <1>6, FindMaxStep, StillAbsent DEF Stays
  <2> QED BY <1>6, <2>1, FindMaxStep, OldAlone DEF Stays, SameGhosts
<1>7. CASE MaxEnd(p)
  <2>1. Absent(p)'
    BY <1>1, <1>7, MaxEndStep, StillAbsent DEF Stays
  <2> QED BY <1>7, <2>1, MaxEndStep, OldAlone DEF Stays, SameGhosts
<1>8. CASE Write(p)
  <2> DEFINE new == Effect(p, View(p))
  <2>1. /\ New(p, new) /\ Changed(p, View(p), new) /\ Stays(p) /\ pc[p] = "write"
        /\ doubled \subseteq doubled' /\ (raced[p] /\ Op(p) \in Inserting => cmd[p].eui \in doubled')
        /\ (pc'[p] = "write" /\ Repeating(p)) \/ pc'[p] = "writeEnd"
        /\ found'[p] = found[p]
    BY <1>8, WriteStep, EffectTable
  <2> HIDE DEF new
  <2>2. One(View(p))
    BY <1>1 DEF View, One
  <2>3. \A e \in Eui \ doubled' : \A r, q \in new.rows : r.eui = e /\ q.eui = e => r = q
    BY <1>1, <2>1, <2>2, OneChanged
  <2>4. One(db)' /\ One(image)'
    BY <1>1, <2>1, <2>3 DEF New, One
  <2>5. Absent(p)'
    BY <2>1 DEF Absent, Stays, Op, Missing, Inserting, ConfFreqs, Repeating
  <2> QED BY <2>1, <2>4, <2>5, AloneElsewhere DEF New, Stays
<1>9. CASE WriteEnd(p)
  <2>1. Absent(p)'
    BY <1>9, WriteEndStep DEF Absent, Stays, Op, Inserting, ConfFreqs
  <2> QED BY <1>9, <2>1, WriteEndStep, OldAlone DEF Stays
<1>10. ASSUME pc[p] = "find", SelectRegion(p) \/ SelectChannel(p),
              Op(p) \in ReadsRegion \union GetFreqs
       PROVE  Alone'
  <2>1. Absent(p)'
    BY <1>10, ReadStep DEF Absent, Stays, Op, Inserting, ReadsRegion, GetFreqs
  <2> QED BY <1>10, <2>1, ReadStep, OldAlone DEF Stays, SameGhosts
<1>11. CASE Reading(p)
  <2>1. pc[p] = "find" /\ (SelectRegion(p) \/ SelectChannel(p))
        /\ Op(p) \in ReadsRegion \union GetFreqs
    BY <1>11, ReadingStarts
  <2> QED BY <1>10, <2>1
<1>12. CASE RegionEnd(p)
  <2>1. Absent(p)'
    BY <1>12, RegionEndStep DEF Absent
  <2> QED BY <1>12, <2>1, RegionEndStep, OldAlone DEF Stays, SameGhosts
<1>13. CASE FreqEnd(p)
  <2>1. Absent(p)'
    BY <1>13, FreqEndStep DEF Absent
  <2> QED BY <1>13, <2>1, FreqEndStep, OldAlone DEF Stays, SameGhosts
<1>14. CASE List(p)
  <2>1. Absent(p)'
    BY <1>14, ListStep DEF Absent
  <2> QED BY <1>14, <2>1, ListStep, OldAlone DEF Stays, SameGhosts
<1>15. CASE ListEnd(p)
  <2>1. Absent(p)'
    BY <1>15, ListEndStep DEF Absent
  <2> QED BY <1>15, <2>1, ListEndStep, OldAlone DEF Stays, SameGhosts
<1>16. CASE Reply(p)
  <2>1. Absent(p)'
    BY <1>16, ReplyStep DEF Absent
  <2> QED BY <1>16, <2>1, ReplyStep, OldAlone DEF SameGhosts
<1> QED BY <1>2, <1>3, <1>4, <1>5, <1>6, <1>7, <1>8, <1>9, <1>11, <1>12, <1>13, <1>14, <1>15,
           <1>16 DEF Step, Reading

LEMMA OthersStepAlone ==
    ASSUME TypeInv, Locks, Alone
    PROVE  /\ conf_all_rx2_freq => Alone'
           /\ ack_write_server => Alone'
           /\ \A e \in Eui, a \in Addr : FwdStore(e, a) => Alone'
           /\ FwdEnd => Alone'
           /\ UNCHANGED vars => Alone'
<1>1. ASSUME conf_all_rx2_freq PROVE Alone'
  <2> DEFINE v == View("conf")
             new == ServerConfClassCFreq(v)
  <2>1. /\ ExecuteAlone("conf", new) /\ Mapped(v.rows, new.rows) /\ Stays("conf")
        /\ SameGhosts /\ pc'["conf"] = "reply" /\ "conf" \in Proc /\ "conf" \in Conn /\ One(v)
    BY <1>1, AloneStep, ProcIsConn DEF Proc, Alone, View, One
  <2> HIDE DEF new, v
  <2>2. Frame("conf") /\ db' \in {db, new} /\ image' \in {image, new}
    BY <2>1, AloneNew DEF New, TypeInv
  <2>3. doubled' = doubled
    BY <2>1 DEF SameGhosts
  <2>4. \A e \in Eui \ doubled' : \A r, q \in new.rows : r.eui = e /\ q.eui = e => r = q
    BY <2>1, <2>3, OneMapped
  <2>5. One(db)' /\ One(image)' /\ Absent("conf")'
    BY <2>1, <2>2, <2>3, <2>4 DEF One, Alone, Absent
  <2> QED BY <2>1, <2>2, <2>5, AloneElsewhere DEF Stays
<1>2. ASSUME ack_write_server PROVE Alone'
  <2>1. Absent("server")' /\ Absent("conf")'
    BY <1>2, RestartStep DEF Absent
  <2>2. One(db)' /\ One(image)'
    BY <1>2, RestartStep, SameTables DEF Alone
  <2> QED BY <2>1, <2>2 DEF Alone, Proc
<1>3. ASSUME Aside, Frame("fwd"), NEW q \in Proc PROVE Absent(q)'
  <2>1. "fwd" \in Conn /\ Proc = Proc \ {"fwd"}
    BY Assumed DEF Proc
  <2> QED BY <1>3, <2>1, AbsentElsewhere DEF Alone, Aside
<1>4. ASSUME NEW e \in Eui, NEW a \in Addr, FwdStore(e, a) PROVE Alone'
  <2> DEFINE v == View("fwd")
  <2>1. PICK new : Aside /\ New("fwd", new) /\ Mapped(v.rows, new.rows)
    BY <1>4, FwdStoreStep
  <2>2. One(v) /\ doubled' = doubled
    BY <2>1 DEF Alone, View, One, Aside
  <2> HIDE DEF v
  <2>3. \A x \in Eui \ doubled' : \A r, q \in new.rows : r.eui = x /\ q.eui = x => r = q
    BY <2>1, <2>2, OneMapped
  <2>4. One(db)' /\ One(image)'
    BY <2>1, <2>2, <2>3 DEF New, One, Alone
  <2> QED BY <1>3, <2>1, <2>4 DEF New, Alone
<1>5. ASSUME FwdEnd PROVE Alone'
  <2>1. One(db)' /\ One(image)'
    BY <1>5, FwdEndStep, SameTables DEF Aside, Old, Alone
  <2> QED BY <1>3, <1>5, <2>1, FwdEndStep DEF Alone, Old
<1>6. ASSUME UNCHANGED vars PROVE Alone'
  BY <1>6 DEF vars, Alone, One, Absent, Op, Missing, HasRow, View
<1> QED BY <1>1, <1>2, <1>4, <1>5, <1>6

LEMMA InitAlone == Init => Alone
<1> SUFFICES ASSUME Init PROVE Alone
  OBVIOUS
<1>1. One(db) /\ One(image)
  BY InitTable DEF One, SqliteGwInfoTable, Init
<1>2. \A p \in Proc : Absent(p)
  BY DEF Init, Absent
<1> QED BY <1>1, <1>2 DEF Alone

\* A node has one row, unless a process that inserted it was refused something by
\* the data base, or another process committed, since its command began: looking for
\* the node and inserting it are transactions of their own, and no lock is between.
THEOREM NodeTableOneRow == Spec => []OneRowPerNode
<1>1. TypeInv /\ Locks /\ Alone /\ [Next]_vars => Alone'
  BY StepAlone, OthersStepAlone DEF Next
<1>2. Alone => OneRowPerNode
  BY DEF Alone, One, OneRowPerNode
<1> QED BY <1>1, <1>2, TypeSafe, InitAlone, PTL DEF Spec
-----------------------------------------------------------------------------
(* What was answered as done is done.                                      *)

Kept == \A e \in promised : HasRow(e, image)

\* An INSERT that will be answered with success was executed, under a lock that is
\* still there.
Inserted(p) ==
    pc[p] = "writeEnd" /\ Op(p) \in {"add", "abp"} /\ ok[p] /\ Missing(p)
      => conn[p].lock \in Writing /\ HasRow(cmd[p].eui, image)

\* The channels that a command has been at are set.
SetBelow(p) ==
    Op(p) \in ConfFreqs /\ ~raced[p] =>
       /\ pc[p] = "write" => \A c \in 1..CHANNELS : c < ch[p] => View(p).freq[Line(p)][c] = 1
       /\ pc[p] = "writeEnd" => \A c \in 1..CHANNELS : c <= ch[p] => View(p).freq[Line(p)][c] = 1
       /\ pc[p] = "reply" => \A c \in 1..CHANNELS : View(p).freq[Line(p)][c] = 1

Stored == Kept /\ \A p \in Proc : Inserted(p) /\ SetBelow(p)

LEMMA StoredElsewhere ==
    ASSUME NEW c \in Conn, Frame(c), NEW q \in Proc \ {c}, Inserted(q), SetBelow(q),
           pc'[q] = pc[q], cmd'[q] = cmd[q], found'[q] = found[q], ch'[q] = ch[q],
           ok'[q] = ok[q], raced[q] => raced'[q], pc[q] # "idle" /\ db' # db => raced'[q]
    PROVE  Inserted(q)' /\ SetBelow(q)'
<1>1. /\ conn'[q] = conn[q] /\ (conn[q].lock # "none" => db' = db)
      /\ (db' = db => View(q)' = View(q))
  BY ProcIsConn DEF Frame
<1>2. conn[q].lock \in Writing => image' = image
  BY <1>1 DEF View, Writing
<1>3. Inserted(q)'
  BY <1>1, <1>2 DEF Inserted, Op, Missing, HasRow
<1>4. SetBelow(q)'
  <2>1. CASE raced'[q]
    BY <2>1 DEF SetBelow
  <2>2. CASE pc[q] = "idle"
    BY <2>2 DEF SetBelow
  <2>3. CASE db' = db /\ ~raced[q]
    BY <1>1, <2>3 DEF SetBelow, Op, Line
  <2> QED BY <2>1, <2>2, <2>3
<1> QED BY <1>3, <1>4

LEMMA StoredRest ==
    ASSUME Stored, NEW p \in Proc, Frame(p), Elsewhere(p), Kept', Inserted(p)', SetBelow(p)'
    PROVE  Stored'
BY StoredElsewhere, ProcIsConn DEF Stored, Elsewhere

\* A step of a command that is not about to be answered for an INSERT or for channels.
LEMMA OldStored ==
    ASSUME Stored, NEW p \in Proc, Old(p), Elsewhere(p), promised' = promised,
           pc'[p] # "writeEnd", Op(p)' \in ConfFreqs => pc'[p] \notin {"write", "reply"}
    PROVE  Stored'
<1>1. Kept'
  BY DEF Stored, Kept, Old, HasRow
<1>2. Inserted(p)' /\ SetBelow(p)'
  BY DEF Inserted, SetBelow
<1> QED BY <1>1, <1>2, StoredRest DEF Old

LEMMA WriteStored ==
    ASSUME TypeInv, Locks, Stored, NEW p \in Proc, Write(p)
    PROVE  Stored'
<1> DEFINE v == View(p)
           new == Effect(p, v)
<1>1. /\ New(p, new) /\ Stays(p) /\ pc[p] = "write" /\ promised' = promised \ Unpromised(p)
      /\ \/ pc'[p] = "write" /\ ch'[p] = ch[p] + 1
         \/ pc'[p] = "writeEnd" /\ ch'[p] = ch[p]
      /\ found'[p] = found[p] /\ ok'[p] = Success(p) /\ raced'[p] = (raced[p] \/ ~CanWrite(p))
      /\ cmd'[p] = cmd[p] /\ promised \subseteq Eui
  BY WriteStep DEF Stays, TypeInv, OtherType
<1>2. /\ Changed(p, v, new)
      /\ Op(p) \in {"add", "abp"} /\ Missing(p) /\ ~Clash(p) => HasRow(cmd[p].eui, new)
      /\ Op(p) \in ConfFreqs =>
           \A c \in 1..CHANNELS : new.freq[Line(p)][c] =
               IF c = ch[p] THEN 1 ELSE v.freq[Line(p)][c]
  <2>1. Table(v) /\ ProcType /\ Placed(p)
    BY ViewTable DEF TypeInv
  <2> HIDE DEF v
  <2> QED BY <1>1, <2>1, Effects
<1>3. CanWrite(p) => v = image
  BY WriterView, ProcIsConn
<1>4. CanWrite(p) => image' = new /\ View(p)' = new /\ conn'[p].lock \in Writing
  BY <1>1 DEF New
<1>5. ~CanWrite(p) => image' = image /\ promised' = promised
  BY <1>1 DEF New, Unpromised
<1> HIDE DEF v, new
<1>6. Kept'
  <2> SUFFICES ASSUME NEW e \in promised' PROVE HasRow(e, image)'
    BY DEF Kept
  <2>1. e \in promised /\ e \notin Unpromised(p) /\ e \in Eui /\ HasRow(e, image)
    BY <1>1 DEF Stored, Kept
  <2>2. CASE ~CanWrite(p)
    BY <1>5, <2>1, <2>2 DEF HasRow
  <2>3. CASE CanWrite(p)
    <3>1. HasRow(e, v) /\ image' = new
      BY <1>3, <1>4, <2>1, <2>3
    <3>2. Op(p) # "deleteAll" /\ (Op(p) = "delete" => e # cmd[p].eui)
      BY <2>1, <2>3 DEF Unpromised
    <3>3. HasRow(e, new)
      <4>1. CASE Less(p, v, new)
        BY <3>1, <3>2, <4>1 DEF Less, HasRow
      <4>2. CASE Mapped(v.rows, new.rows)
        BY <3>1, <4>2, MappedHas
      <4>3. CASE More(p, v, new)
        BY <3>1, <4>3 DEF More, HasRow
      <4> QED BY <1>2, <4>1, <4>2, <4>3 DEF Changed
    <3> QED BY <3>1, <3>3 DEF HasRow
  <2> QED BY <2>2, <2>3
<1>7. Inserted(p)'
  <2>1. Success(p) /\ Op(p) \in {"add", "abp"} /\ Missing(p) => CanWrite(p) /\ ~Clash(p)
    BY DEF Success
  <2>2. Op(p)' = Op(p) /\ Missing(p)' = Missing(p)
    BY <1>1 DEF Op, Missing
  <2> QED BY <1>1, <1>2, <1>4, <2>1, <2>2 DEF Inserted, HasRow
<1>8. SetBelow(p)'
  <2> SUFFICES ASSUME Op(p) \in ConfFreqs, ~raced[p], CanWrite(p),
                      NEW c \in 1..CHANNELS,
                      pc'[p] = "write" => c < ch'[p], pc'[p] = "writeEnd" => c <= ch'[p]
               PROVE  View(p)'.freq[Line(p)'][c] = 1
    BY <1>1 DEF SetBelow, Op, TypeInv, ProcType
  <2>1. Line(p)' = Line(p) /\ c <= ch[p] /\ ch[p] \in Nat
    BY <1>1 DEF Line, Op, TypeInv, ProcType
  <2>2. c < ch[p] => v.freq[Line(p)][c] = 1
    BY <1>1 DEF Stored, SetBelow, v
  <2>3. new.freq[Line(p)][c] = IF c = ch[p] THEN 1 ELSE v.freq[Line(p)][c]
    BY <1>2
  <2> QED BY <1>4, <2>1, <2>2, <2>3
<1> QED BY <1>1, <1>6, <1>7, <1>8, StoredRest DEF New, Stays

LEMMA WriteEndStored ==
    ASSUME TypeInv, Locks, Stored, NEW p \in Proc, WriteEnd(p)
    PROVE  Stored'
<1>1. /\ Old(p) /\ Stays(p) /\ pc[p] = "writeEnd" /\ promised' = promised \union Promised(p)
      /\ \/ p = "server" /\ pc'[p] = "write" /\ ch'[p] = ch[p] + 1
         \/ /\ pc'[p] = "reply" /\ ch'[p] = ch[p]
            /\ p = "server" /\ Op(p) \in ConfFreqs => ch[p] = CHANNELS
      /\ raced'[p] = raced[p] /\ cmd'[p] = cmd[p]
  BY WriteEndStep DEF Stays
<1>2. image' = image /\ View(p)' = View(p)
  BY <1>1 DEF Old
<1>3. Kept'
  <2>1. \A e \in Promised(p) : HasRow(e, image)
    BY <1>1 DEF Stored, Inserted, Promised
  <2> QED BY <1>1, <1>2, <2>1 DEF Stored, Kept, HasRow
<1>4. Inserted(p)'
  BY <1>1 DEF Inserted
<1>5. SetBelow(p)'
  <2> SUFFICES ASSUME Op(p) \in ConfFreqs, ~raced[p], NEW c \in 1..CHANNELS,
                      pc'[p] = "write" => c < ch'[p]
               PROVE  View(p)'.freq[Line(p)'][c] = 1
    BY <1>1 DEF SetBelow, Op
  <2>1. Line(p)' = Line(p) /\ ch[p] \in 1..CHANNELS /\ CHANNELS \in Nat
    BY <1>1, Assumed DEF Line, Op, TypeInv, ProcType
  <2>2. pc'[p] = "reply" => ch[p] = CHANNELS
    BY <1>1 DEF TypeInv, Placed, Proc
  <2>3. c <= ch[p]
    BY <1>1, <2>1, <2>2
  <2> QED BY <1>1, <1>2, <2>1, <2>3 DEF Stored, SetBelow
<1> QED BY <1>1, <1>3, <1>4, <1>5, StoredRest DEF Old, Stays

LEMMA StepStored ==
    ASSUME TypeInv, Locks, Stored, NEW p \in Proc, Step(p)
    PROVE  Stored'
<1>1. Placed(p)
  BY DEF TypeInv
<1>2. CASE Receive(p)
  <2>1. SetBelow(p)' /\ Inserted(p)'
    <3>1. pc'[p] # "writeEnd" /\ pc'[p] # "reply" /\ ch'[p] = 1
      BY <1>2, ReceiveStep
    <3>2. \A c \in 1..CHANNELS : ~(c < 1)
      OBVIOUS
    <3> QED BY <3>1, <3>2 DEF SetBelow, Inserted
  <2>2. Kept'
    BY <1>2, ReceiveStep DEF Stored, Kept, HasRow
  <2> QED BY <1>2, <2>1, <2>2, ReceiveStep, StoredRest DEF Old
<1>3. CASE Find(p)
  BY <1>3, FindStep, OldStored DEF Stays, SameGhosts
<1>4. CASE AddrEnd(p)
  <2>1. Op(p)' \notin ConfFreqs
    BY <1>1, <1>4, AddrEndStep DEF Placed, Stays, Op, ConfFreqs
  <2> QED BY <1>4, <2>1, AddrEndStep, OldStored DEF Stays, SameGhosts
<1>5. CASE FindEnd(p)
  <2>1. pc'[p] \in {"reply", "write", "max"} /\ cmd'[p] = cmd[p] /\ pc[p] = "findEnd"
    BY <1>5, FindEndStep, AfterFindPlace DEF Stays
  <2>2. Op(p)' \notin ConfFreqs
    BY <1>1, <2>1 DEF Placed, Op, Seeking, Inserting, Looking, ReadsRegion, GetFreqs, ConfFreqs
  <2> QED BY <1>5, <2>1, <2>2, FindEndStep, OldStored DEF Stays, SameGhosts
<1>6. CASE FindMax(p)
  BY <1>6, FindMaxStep, OldStored DEF Stays, SameGhosts
<1>7. CASE MaxEnd(p)
  <2>1. Op(p)' \notin ConfFreqs
    BY <1>1, <1>7, MaxEndStep DEF Placed, Stays, Op, Inserting, ConfFreqs
  <2> QED BY <1>7, <2>1, MaxEndStep, OldStored DEF Stays, SameGhosts
<1>8. CASE Write(p)
  BY <1>8, WriteStored
<1>9. CASE WriteEnd(p)
  BY <1>9, WriteEndStored
<1>10. CASE Reading(p)
  <2>1. pc[p] = "find" /\ (SelectRegion(p) \/ SelectChannel(p))
    BY <1>10, ReadingStarts
  <2> QED BY <2>1, ReadStep, OldStored DEF Stays, SameGhosts
<1>11. CASE RegionEnd(p)
  <2>1. Op(p)' \notin ConfFreqs
    BY <1>11, RegionEndStep DEF Stays, Op, ReadsRegion, ConfFreqs
  <2> QED BY <1>11, <2>1, RegionEndStep, OldStored DEF Stays, SameGhosts
<1>12. CASE FreqEnd(p)
  <2>1. Op(p)' \notin ConfFreqs
    BY <1>12, FreqEndStep DEF Stays, Op, GetFreqs, ConfFreqs
  <2> QED BY <1>12, <2>1, FreqEndStep, OldStored DEF Stays, SameGhosts
<1>13. CASE List(p)
  BY <1>13, ListStep, OldStored DEF Stays, SameGhosts
<1>14. CASE ListEnd(p)
  <2>1. Op(p)' \notin ConfFreqs
    BY <1>1, <1>14, ListEndStep DEF Placed, Stays, Op, ConfFreqs
  <2> QED BY <1>14, <2>1, ListEndStep, OldStored DEF Stays, SameGhosts
<1>15. CASE Reply(p)
  BY <1>15, ReplyStep, OldStored DEF SameGhosts
<1> QED BY <1>2, <1>3, <1>4, <1>5, <1>6, <1>7, <1>8, <1>9, <1>10, <1>11, <1>12, <1>13, <1>14,
           <1>15 DEF Step, Reading

LEMMA OthersStepStored ==
    ASSUME TypeInv, Locks, Stored
    PROVE  /\ conf_all_rx2_freq => Stored'
           /\ ack_write_server => Stored'
           /\ \A e \in Eui, a \in Addr : FwdStore(e, a) => Stored'
           /\ FwdEnd => Stored'
           /\ UNCHANGED vars => Stored'
<1>1. ASSUME conf_all_rx2_freq PROVE Stored'
  <2> DEFINE v == View("conf")
             new == ServerConfClassCFreq(v)
  <2>1. /\ ExecuteAlone("conf", new) /\ Mapped(v.rows, new.rows) /\ Stays("conf")
        /\ promised' = promised /\ pc'["conf"] = "reply" /\ Op("conf") = "confRx2"
        /\ "conf" \in Proc /\ "conf" \in Conn
    BY <1>1, AloneStep, ProcIsConn DEF Proc, SameGhosts
  <2>2. ~conn["conf"].tx => v = db
    BY <2>1 DEF View, Locks
  <2>3. CanWrite("conf") => v = image
    BY <2>1, WriterView
  <2> HIDE DEF new, v
  <2>4. Frame("conf") /\ (image' = image \/ (image' = new /\ v = image))
    BY <2>1, <2>2, <2>3, AloneNew DEF New, TypeInv
  <2>5. Kept'
    BY <2>1, <2>4, MappedHas DEF Stored, Kept, HasRow
  <2>6. Inserted("conf")' /\ SetBelow("conf")'
    BY <2>1 DEF Inserted, SetBelow, Stays, Op, ConfFreqs
  <2> QED BY <2>1, <2>4, <2>5, <2>6, StoredRest DEF Stays
<1>2. ASSUME ack_write_server PROVE Stored'
  <2>1. Inserted("server")' /\ SetBelow("server")'
    BY <1>2, RestartStep DEF Inserted, SetBelow
  <2>2. Placed("conf")
    BY DEF TypeInv, Proc
  <2>3. Inserted("conf")' /\ SetBelow("conf")'
    BY <1>2, <2>2, RestartStep DEF Inserted, SetBelow, Placed, Op, ConfFreqs
  <2>4. Kept'
    BY <1>2, RestartStep DEF Stored, Kept, HasRow
  <2> QED BY <2>1, <2>3, <2>4 DEF Stored, Proc
<1>3. ASSUME Aside, Frame("fwd"), NEW q \in Proc PROVE Inserted(q)' /\ SetBelow(q)'
  <2>1. "fwd" \in Conn /\ Proc = Proc \ {"fwd"}
    BY Assumed DEF Proc
  <2> QED BY <1>3, <2>1, StoredElsewhere DEF Stored, Aside
<1>4. ASSUME NEW e \in Eui, NEW a \in Addr, FwdStore(e, a) PROVE Stored'
  <2> DEFINE v == View("fwd")
  <2>1. PICK new : Aside /\ New("fwd", new) /\ Mapped(v.rows, new.rows)
    BY <1>4, FwdStoreStep
  <2>2. CanWrite("fwd") => v = image
    BY Assumed, WriterView
  <2> HIDE DEF v
  <2>3. Kept'
    BY <2>1, <2>2, MappedHas DEF New, Aside, Stored, Kept, HasRow
  <2> QED BY <1>3, <2>1, <2>3 DEF New, Stored
<1>5. ASSUME FwdEnd PROVE Stored'
  <2>1. Kept'
    BY <1>5, FwdEndStep DEF Aside, Old, Stored, Kept, HasRow
  <2> QED BY <1>3, <1>5, <2>1, FwdEndStep DEF Stored, Old
<1>6. ASSUME UNCHANGED vars PROVE Stored'
  BY <1>6 DEF vars, Stored, Kept, Inserted, SetBelow, Op, Missing, HasRow, View, Line
<1> QED BY <1>1, <1>2, <1>4, <1>5, <1>6

LEMMA InitStored == Init => Stored
BY DEF Init, Stored, Kept, Inserted, SetBelow

\* A node whose addition was answered with success is in the table or in what a
\* refused COMMIT will write, whatever lora_pkt_fwd and lora_pkt_conf do meanwhile,
\* and frequencies that were answered as set are set on all channels.
THEOREM NodeTableSuccess == Spec => []SuccessIsStored
<1>1. TypeInv /\ Locks /\ Stored /\ [Next]_vars => Stored'
  BY StepStored, OthersStepStored DEF Next
<1>2. Stored => SuccessIsStored
  BY DEF Stored, Kept, SetBelow, Line, SuccessIsStored, AddedIsStored, FrequenciesSet
<1> QED BY <1>1, <1>2, TypeSafe, InitStored, PTL DEF Spec
-----------------------------------------------------------------------------
(* The lists.                                                              *)

LEMMA Division ==
    ASSUME NEW n \in Nat
    PROVE  \E k \in Nat, i \in 0..(PKG - 1) : n = k * PKG + i /\ n \div PKG = k
<1>1. n \div PKG \in Nat /\ n % PKG \in 0..(PKG - 1) /\ n = (n \div PKG) * PKG + (n % PKG)
  BY Assumed
<1> QED BY <1>1

\* Multiples of PKG are ordered.
LEMMA Times ==
    ASSUME NEW a \in Nat, NEW b \in Nat, a <= b
    PROVE  a * PKG <= b * PKG /\ a * PKG \in Nat /\ (a + 1) * PKG = a * PKG + PKG
BY Assumed

\* The last package has the rest, and the server has no more than two.
LEMMA Filled ==
    ASSUME NEW n \in Nat
    PROVE  /\ Packages(n) \in Nat \ {0}
           /\ InPackage(n, Packages(n)) = n - (Packages(n) - 1) * PKG
           /\ InPackage(n, Packages(n)) \in 0..PKG
           /\ n <= 2 * PKG => Packages(n) <= 2
<1>1. CASE n <= PKG
  BY <1>1, Assumed DEF Packages, InPackage
<1>2. CASE n > PKG
  <2>1. PICK k \in Nat, i \in 0..(PKG - 1) : n + PKG - 1 = k * PKG + i /\ Packages(n) = k
    <3>1. n + PKG - 1 \in Nat
      BY Assumed
    <3> QED BY <1>2, <3>1, Division, Assumed DEF Packages
  <2>2. k # 0
    BY <1>2, <2>1, Assumed
  <2>3. (k - 1) * PKG = k * PKG - PKG /\ k * PKG \in Nat
    BY <2>2, Assumed
  <2>4. n <= 2 * PKG => k <= 2
    <3> SUFFICES ASSUME n <= 2 * PKG, k >= 3 PROVE FALSE
      OBVIOUS
    <3>1. 3 * PKG <= k * PKG
      BY Times
    <3> QED BY <2>1, <2>3, <3>1, Assumed
  <2>5. n - (k - 1) * PKG \in 0..PKG
    BY <2>1, <2>3, Assumed
  <2> QED BY <2>1, <2>2, <2>4, <2>5 DEF InPackage
<1> QED BY <1>1, <1>2, Assumed

\* The places in the packages of a list of n nodes, and the node at each.
Places(n) == {x \in (1..Packages(n)) \X (1..PKG) : x[2] <= InPackage(n, x[1])}
Number(x) == (x[1] - 1) * PKG + x[2]

LEMMA Numbered ==
    ASSUME NEW n \in Nat
    PROVE  [x \in Places(n) |-> Number(x)] \in Bijection(Places(n), 1..n)
<1> DEFINE P == Packages(n)
           f == [x \in Places(n) |-> Number(x)]
<1>1. P \in Nat \ {0} /\ InPackage(n, P) = n - (P - 1) * PKG /\ InPackage(n, P) \in 0..PKG
      /\ \A k \in 1..P : k < P => InPackage(n, k) = PKG
  BY Filled DEF InPackage
<1> HIDE DEF P
<1>2. \A x \in Places(n) : /\ x[1] \in 1..P /\ x[2] \in 1..PKG /\ x[2] <= InPackage(n, x[1])
                          /\ x = <<x[1], x[2]>>
  BY DEF Places, P
<1>3. ASSUME NEW x \in Places(n) PROVE (x[1] - 1) * PKG \in Nat
  <2>1. x[1] - 1 \in Nat
    BY <1>1, <1>2
  <2> QED BY <2>1, Times
<1>4. ASSUME NEW x \in Places(n) PROVE Number(x) \in 1..n
  <2>1. (x[1] - 1) * PKG \in Nat /\ (P - 1) * PKG \in Nat
    BY <1>1, <1>2, Times, SMTT(30)
  <2>2. CASE x[1] = P
    BY <1>1, <1>2, <2>1, <2>2 DEF Number
  <2>3. CASE x[1] < P
    <3>1. x[1] * PKG <= (P - 1) * PKG /\ x[1] * PKG = (x[1] - 1) * PKG + PKG
      BY <1>1, <1>2, <2>3, Times, Assumed
    <3>2. x[2] <= PKG /\ x[2] \in Nat /\ x[2] > 0 /\ (P - 1) * PKG <= n
      BY <1>1, <1>2, <2>1, Assumed
    <3> QED BY <2>1, <3>1, <3>2, Assumed DEF Number
  <2> QED BY <1>1, <1>2, <2>2, <2>3
<1>5. ASSUME NEW x \in Places(n), NEW y \in Places(n), x[1] < y[1] PROVE Number(x) < Number(y)
  <2>1. x[1] * PKG <= (y[1] - 1) * PKG /\ x[1] * PKG = (x[1] - 1) * PKG + PKG
    BY <1>1, <1>2, <1>5, Times, Assumed
  <2>2. (x[1] - 1) * PKG \in Nat /\ (y[1] - 1) * PKG \in Nat
    BY <1>3
  <2> QED BY <1>2, <2>1, <2>2, Assumed DEF Number
<1>6. ASSUME NEW x \in Places(n), NEW y \in Places(n), Number(x) = Number(y) PROVE x = y
  <2>1. x[1] = y[1]
    <3>1. Number(x) \in Nat /\ Number(y) \in Nat /\ x[1] \in Nat /\ y[1] \in Nat
      BY <1>1, <1>2, <1>4
    <3> QED BY <1>5, <1>6, <3>1
  <2>2. x[2] = y[2]
    <3>1. (x[1] - 1) * PKG \in Nat
      BY <1>3
    <3> QED BY <1>2, <1>6, <2>1, <3>1, Assumed DEF Number
  <2> QED BY <1>2, <2>1, <2>2
<1>7. ASSUME NEW m \in 1..n PROVE \E x \in Places(n) : Number(x) = m
  <2>1. PICK k \in Nat, i \in 0..(PKG - 1) : m - 1 = k * PKG + i
    BY Division
  <2> DEFINE x == <<k + 1, i + 1>>
  <2>2. k * PKG \in Nat /\ (P - 1) * PKG \in Nat /\ i + 1 \in 1..PKG
    BY <1>1, Times, Assumed
  <2>3. k + 1 <= P
    <3> SUFFICES ASSUME k >= P PROVE FALSE
      BY <1>1
    <3>1. P * PKG <= k * PKG /\ P * PKG = (P - 1) * PKG + PKG
      BY <1>1, Times, Assumed
    <3>2. n <= (P - 1) * PKG + PKG
      BY <1>1, <2>2, Assumed
    <3> QED BY <2>1, <2>2, <3>1, <3>2, <1>1, Assumed
  <2>4. i + 1 <= InPackage(n, k + 1)
    <3>1. CASE k + 1 = P
      BY <1>1, <2>1, <2>2, <3>1, Assumed
    <3>2. CASE k + 1 < P
      BY <1>1, <2>2, <3>2
    <3> QED BY <1>1, <2>3, <3>1, <3>2
  <2>5. x \in Places(n) /\ Number(x) = m
    BY <1>1, <2>1, <2>2, <2>3, <2>4 DEF Places, P, Number
  <2> QED BY <2>5
<1>8. f \in Injection(Places(n), 1..n)
  BY <1>4, <1>6 DEF Injection, IsInjective
<1>9. f \in Surjection(Places(n), 1..n)
  BY <1>4, <1>7 DEF Surjection
<1> QED BY <1>8, <1>9 DEF Bijection

LEMMA PackageNumber ==
    ASSUME NEW n \in Nat, NEW p \in Proc, p = "server" => n <= 2 * PKG, NEW x \in Places(n)
    PROVE  Package(p, n, x[1])[x[2]] = Number(x)
<1>1. /\ Packages(n) \in Nat \ {0} /\ InPackage(n, Packages(n)) \in 0..PKG
      /\ (n <= 2 * PKG => Packages(n) <= 2)
      /\ x[1] \in 1..Packages(n) /\ x[2] \in 1..PKG /\ x[2] <= InPackage(n, x[1])
  BY Filled DEF Places
<1>2. x[2] \in 1..InPackage(n, x[1])
  <2>1. InPackage(n, x[1]) \in Nat
    BY <1>1, Assumed DEF InPackage
  <2> QED BY <1>1, <2>1
<1>3. CASE p = "server"
  <2>1. Package(p, n, x[1])[x[2]] =
            IF x[1] < Packages(n) THEN x[2] ELSE (x[1] - 1) * PKG + x[2]
    BY <1>2, <1>3 DEF Package, ServerGetAllNodeDevEui
  <2>2. x[1] < Packages(n) => x[1] = 1
    BY <1>1, <1>3
  <2>3. x[1] = 1 => Number(x) = x[2]
    BY <1>1, Assumed DEF Number
  <2> QED BY <2>1, <2>2, <2>3 DEF Number
<1>4. CASE p # "server"
  BY <1>2, <1>4 DEF Package, ack_read_all_node, Number
<1> QED BY <1>3, <1>4

\* A list names every node once, however many there are and whatever a package holds;
\* the server's up to two packages, as all its packages but the last begin with the
\* first node.
THEOREM NodeTableLists == Spec => []EveryNodeListed
<1>1. TypeInv => EveryNodeListed
  <2> SUFFICES ASSUME TypeInv, NEW p \in Proc, p = "server" => count[p] <= 2 * PKG
               PROVE  /\ Cardinality(Places(count[p])) = count[p]
                      /\ {Package(p, count[p], x[1])[x[2]] : x \in Places(count[p])} = 1..count[p]
    BY DEF EveryNodeListed, Places
  <2> DEFINE n == count[p]
             f == [x \in Places(n) |-> Number(x)]
  <2>1. n \in Nat
    BY DEF TypeInv, ProcType
  <2>2. \A x \in Places(n) : Package(p, n, x[1])[x[2]] = f[x]
    BY <2>1, PackageNumber
  <2>3. f \in Bijection(Places(n), 1..n)
    BY <2>1, Numbered
  <2> HIDE DEF n, f
  <2>4. Cardinality(Places(n)) = n
    <3>1. ExistsBijection(1..n, Places(n))
      BY <2>3, Fun_ExistsBij, Fun_ExistsBijSymmetric
    <3> QED BY <2>1, <3>1, FS_CountingElements
  <2>5. {f[x] : x \in Places(n)} = 1..n
    BY <2>3 DEF Bijection, Surjection
  <2>6. {Package(p, n, x[1])[x[2]] : x \in Places(n)} = {f[x] : x \in Places(n)}
    BY <2>2
  <2> QED BY <2>4, <2>5, <2>6 DEF n
<1> QED BY <1>1, TypeSafe, PTL
=============================================================================
