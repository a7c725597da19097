----------------------------- MODULE MCMMClient -----------------------------
(***************************************************************************)
(* Every legal program over a heap of 44 bytes: a block of 8 bytes takes   *)
(* 16, one of 9 takes 24 and an empty one 8, so at most five blocks fit    *)
(* and the last bytes of the heap are never enough for one more.           *)
(***************************************************************************)
EXTENDS MMProofs

MCSizes  == {8, 9}
MCCounts == {0, 1}
MCValues == {1}
=============================================================================
