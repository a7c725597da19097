--------------------------- MODULE MCSegmentTrees ---------------------------
(* Instance of SegmentTrees: ranges of unequal halves, and vectors of the   *)
(* length the global N says and of another.                                 *)
EXTENDS SegmentTrees

MCArrays  == {[i \in 0 .. 4 |-> 0]}
MCDifs    == {-1, 2}
MCVectors == {[i \in 0 .. 4 |-> i], [i \in 0 .. 3 |-> i]}
=============================================================================
