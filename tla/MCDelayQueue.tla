---------------------------- MODULE MCDelayQueue ----------------------------
(***************************************************************************)
(* Instances of DelayQueue for TLC.                                        *)
(***************************************************************************)
EXTENDS DelayQueue
=============================================================================
