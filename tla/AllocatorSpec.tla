--------------------------- MODULE AllocatorSpec ----------------------------
(***************************************************************************)
(* What a malloc package promises its caller, whatever its strategy: the   *)
(* driver's checks (mdriver.c) and the comments of mm.c ask no more.       *)
(*                                                                         *)
(*   size[p]     bytes the caller asked for when it got p                  *)
(*   data[p]     the bytes the caller reads at p, from 0                   *)
(***************************************************************************)
EXTENDS Integers

CONSTANTS Pointer,         \* the pointers a block can have
          Request,         \* the sizes a caller can ask for
          Alignment        \* every pointer is a multiple of it

VARIABLES size, data

avars == <<size, data>>

live == DOMAIN size

Payload(p, n) == p .. p + n - 1

(* p can be handed out for n bytes beside the blocks in others. *)
Fits(p, n, others) ==
  /\ p % Alignment = 0
  /\ p \notin others
  /\ \A q \in others : Payload(p, n) \cap Payload(q, size[q]) = {}

(* The blocks in kept are as they were, and p is the only other one. *)
KeepsAnd(kept, p, n) ==
  /\ size' = [q \in kept \cup {p} |-> IF q = p THEN n ELSE size[q]]
  /\ DOMAIN data' = kept \cup {p}
  /\ DOMAIN data'[p] = 0 .. n - 1
  /\ \A q \in kept : data'[q] = data[q]

AInit == size = << >> /\ data = << >>

AMalloc(n) == \E p \in Pointer : Fits(p, n, live) /\ KeepsAnd(live, p, n)

ACalloc(n) == \E p \in Pointer : /\ Fits(p, n, live)
                                 /\ KeepsAnd(live, p, n)
                                 /\ \A i \in 0 .. n - 1 : data'[p][i] = 0

AFree(p) == /\ p \in live
            /\ size' = [q \in live \ {p} |-> size[q]]
            /\ data' = [q \in live \ {p} |-> data[q]]

(* The block may move; the bytes both sizes have stay. *)
ARealloc(p, n) ==
  /\ p \in live
  /\ \E r \in Pointer :
       /\ Fits(r, n, live \ {p})
       /\ KeepsAnd(live \ {p}, r, n)
       /\ \A i \in 0 .. n - 1 : i < size[p] => data'[r][i] = data[p][i]

(* The caller writes into its own block. *)
AWrite(p) == /\ p \in live
             /\ size' = size
             /\ DOMAIN data' = live
             /\ DOMAIN data'[p] = 0 .. size[p] - 1
             /\ \A q \in live \ {p} : data'[q] = data[q]

AReset == size' = << >> /\ data' = << >>

(* A request that fails changes nothing: it is a stuttering step. *)
ANext == \/ \E n \in Request : AMalloc(n) \/ ACalloc(n)
         \/ \E p \in live : AFree(p) \/ AWrite(p)
         \/ \E p \in live, n \in Request : ARealloc(p, n)
         \/ AReset

ASpec == AInit /\ [][ANext]_avars
=============================================================================
