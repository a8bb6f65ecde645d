---------------------------- MODULE MCServerData ----------------------------
(* Instances of ServerData for TLC: answers of 4 to 24 bytes, parts of 8   *)
(* or 12 bytes (24 are more than ServerAckData has, and overflow sum_len), *)
(* a US uplink (11 bytes at data rate 0) and a European one (51); before a *)
(* confirmed one the maximum is any value, one of each kind here.          *)
EXTENDS ServerData

MCShape == {<<4, 0>>, <<16, 8>>, <<12, 8>>, <<24, 12>>}
MCGarbage == {11, 0, -12}
MCUplinked == {<<902300000, 0>>, <<868100000, 0>>}
=============================================================================
