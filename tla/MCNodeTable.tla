---------------------------- MODULE MCNodeTable -----------------------------
EXTENDS NodeTable, TLC
CONSTANTS e1, e2
MCConn == {"server", "conf", "fwd"}
=============================================================================
