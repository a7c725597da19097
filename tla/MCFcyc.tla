------------------------------- MODULE MCFcyc -------------------------------
(* Instance of Fcyc: a counter with halves of one bit, on which every wrap  *)
(* and borrow happens, and measurements above, below and equal to 0.        *)
EXTENDS Fcyc

MCCycles == -64 .. 64
=============================================================================
