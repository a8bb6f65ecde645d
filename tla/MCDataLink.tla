----------------------------- MODULE MCDataLink -----------------------------
(* Instances of DataLink for TLC.                                          *)
EXTENDS DataLink
=============================================================================
