----------------------------- MODULE MCDriverMM -----------------------------
(* Every legal trace of up to four lines on two ids, in a heap two blocks *)
(* of 9 bytes fill and a third does not fit.                               *)
EXTENDS DriverMM

MCIds        == {0, 1}
MCModes      == {"none", "cheap", "expensive"}
MCIgnore     == BOOLEAN
MCRandBases  == {0, 7}
MCRandomData == [k \in 0 .. 63 |-> (k * k) % 11]

CONSTANT MaxLines

MCLines ==
  [type : {"a"}, index : MCIds, size : {1, 9}] \cup
  [type : {"r"}, index : MCIds, size : {0, 1, 9}] \cup
  [type : {"f"}, index : MCIds \cup {-1}, size : {0}]

(* The ids appear in a trace in order: renaming them gives the others. *)
InOrder(t) == \A k \in DOMAIN t : t[k].index = 1 => \E j \in 1 .. k - 1 : t[j].index = 0

MCTraces == {t \in BoundedSeq(MCLines, MaxLines) : LegalTrace(t) /\ InOrder(t)}

(* What the theorems about mm.c ask of the traces. *)
ASSUME LegalTraces /\ TracesFit
=============================================================================
