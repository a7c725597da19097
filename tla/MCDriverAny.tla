----------------------------- MODULE MCDriverAny ----------------------------
(* A heap of 16 bytes, where a block of 16 bytes encloses one of 1 byte at *)
(* 8, and a package that may return 0, 8 or the unaligned 4.               *)
EXTENDS DriverAny

MCIds        == {0, 1}
MCModes      == {"none", "cheap", "expensive"}
MCIgnore     == BOOLEAN
MCRandBases  == {0, 1}
MCRandomData == [k \in 0 .. 31 |-> k % 2]
MCPointers   == {0, 4, 8}
MCBreaks     == {16}

CONSTANT MaxLines

MCLines ==
  [type : {"a"}, index : MCIds, size : {1, 16}] \cup
  [type : {"r"}, index : MCIds, size : {0, 1, 16}] \cup
  [type : {"f"}, index : MCIds, size : {0}]

(* The ids appear in a trace in order: renaming them gives the others. *)
InOrder(t) == \A k \in DOMAIN t : t[k].index = 1 => \E j \in 1 .. k - 1 : t[j].index = 0

(* The longest traces free all they allocate. *)
FreesAll(t) == \A d \in MCIds : ~HeldBefore(t, Len(t) + 1, d)

MCTraces == {t \in BoundedSeq(MCLines, MaxLines) :
               LegalTrace(t) /\ InOrder(t) /\ (Len(t) = MaxLines => FreesAll(t))}

(* What CleanTraceMeansCorrect asks of the traces. *)
ASSUME LegalTraces
=============================================================================
