----------------------------- MODULE MCJoinFlow -----------------------------
(* Instances of JoinFlow for TLC; at most one node is unlucky.             *)
EXTENDS JoinFlow

\* The file devaddrinfo holds the last address but one, and the unlucky node
\* has the address to which they wrap.
WrapInit ==
    /\ Init
    /\ counter = MaxAddr - 1
    /\ \A n \in Node : tbl[n].addr = IF n \in Unlucky THEN 1 ELSE 0
WrapSpec == WrapInit /\ [][Next]_vars /\ Fairness
=============================================================================
