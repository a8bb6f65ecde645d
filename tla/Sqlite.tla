------------------------------- MODULE Sqlite -------------------------------
(***************************************************************************)
(* The data base hub.db as the processes of the gateway use it: SQLite     *)
(* with a rollback journal, one connection per process, no busy timeout.   *)
(* A reader holds a shared lock; one writer at a time has a reserved lock  *)
(* and an image of its own; its COMMIT is refused while others hold locks, *)
(* and from then on, until a later COMMIT succeeds, nobody can start to    *)
(* read.  BEGIN in an open transaction and COMMIT outside of one fail      *)
(* without an effect.  The actions say what becomes of db, conn and image. *)
(***************************************************************************)
CONSTANT Conn
VARIABLES
    db,     \* what is committed
    conn,   \* per connection: in a transaction, its lock, and whether a
            \* SELECT has stopped at a row and was not finalized yet
    image   \* what the connection that has written sees; db if there is none

Writing == {"reserved", "pending"}
Unused == [tx |-> FALSE, lock |-> "none", stmt |-> FALSE]
ConnState == [tx : BOOLEAN, lock : {"none", "shared"} \union Writing, stmt : BOOLEAN]

View(c) == IF conn[c].lock \in Writing THEN image ELSE db

CanRead(c) == conn[c].lock # "none" \/ \A d \in Conn : conn[d].lock # "pending"
CanWrite(c) == CanRead(c) /\ \A d \in Conn \ {c} : conn[d].lock \notin Writing

\* BEGIN if begin, and a SELECT: keep says whether it stops at a row.
Select(c, begin, keep) ==
    LET in == [conn[c] EXCEPT !.tx = @ \/ begin]
    IN  /\ conn' = [conn EXCEPT ![c] =
                IF ~CanRead(c) THEN in
                ELSE [in EXCEPT !.lock = IF @ = "none" /\ (in.tx \/ keep) THEN "shared" ELSE @,
                                !.stmt = @ \/ keep]]
        /\ UNCHANGED <<db, image>>

\* BEGIN and a statement that makes new of what the connection sees.
Execute(c, new) ==
    /\ conn' = [conn EXCEPT ![c].tx = TRUE,
                            ![c].lock = IF CanWrite(c) /\ @ # "pending" THEN "reserved" ELSE @]
    /\ image' = IF CanWrite(c) THEN new ELSE image
    /\ UNCHANGED db

\* A statement without a BEGIN, which commits at once or not at all unless a
\* transaction is still open.
CanWriteAlone(c) ==
    CanWrite(c) /\ (conn[c].tx \/ \A d \in Conn \ {c} : conn[d].lock = "none")

ExecuteAlone(c, new) ==
    IF conn[c].tx THEN Execute(c, new)
    ELSE /\ UNCHANGED conn
         /\ IF CanWriteAlone(c) THEN db' = new /\ image' = new
            ELSE UNCHANGED <<db, image>>

Refused(c) == conn[c].lock \in Writing /\ \E d \in Conn \ {c} : conn[d].lock # "none"

Ended(s) == [s EXCEPT !.tx = FALSE, !.lock = IF s.stmt THEN "shared" ELSE "none"]

Commit(c) ==
    IF Refused(c)
    THEN /\ conn' = [conn EXCEPT ![c].lock = "pending"]
         /\ UNCHANGED <<db, image>>
    ELSE /\ conn' = [conn EXCEPT ![c] = Ended(@)]
         /\ db' = View(c)
         /\ image' = IF conn[c].lock \in Writing THEN db' ELSE image

Finalized(s) == [s EXCEPT !.stmt = FALSE, !.lock = IF s.tx THEN @ ELSE "none"]

Finalize(c) ==
    /\ conn' = [conn EXCEPT ![c] = Finalized(@)]
    /\ UNCHANGED <<db, image>>

\* A COMMIT and the end of the SELECT that was still at its row.
CommitFinalize(c) ==
    IF Refused(c)
    THEN /\ conn' = [conn EXCEPT ![c] = [Finalized(@) EXCEPT !.lock = "pending"]]
         /\ UNCHANGED <<db, image>>
    ELSE /\ conn' = [conn EXCEPT ![c] = Unused]
         /\ db' = View(c)
         /\ image' = IF conn[c].lock \in Writing THEN db' ELSE image

\* The process is killed: its transaction is rolled back.
Rollback(c) ==
    /\ conn' = [conn EXCEPT ![c] = Unused]
    /\ image' = IF conn[c].lock \in Writing THEN db ELSE image
    /\ UNCHANGED db
=============================================================================
