----------------------------- MODULE MCDownlink -----------------------------
(* Instances of Downlink for TLC.                                          *)
EXTENDS Downlink
=============================================================================
