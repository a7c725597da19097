------------------------------ MODULE MMClient ------------------------------
(***************************************************************************)
(* A program that uses mm.c by the rules of malloc: it frees, resizes and  *)
(* writes only blocks it holds.  What it holds is the variable live; the   *)
(* heap it knows nothing of is brk and mem.                                *)
(***************************************************************************)
EXTENDS MMalloc, Functions

CONSTANTS Sizes,           \* sizes passed to malloc and realloc
          Counts,          \* first arguments of calloc
          Values           \* bytes the program writes

ASSUME ClientAssumption ==
  Sizes \subseteq Nat /\ Counts \subseteq Nat /\ Values \subseteq Nat

VARIABLES live,            \* pointer held |-> bytes the program asked for
          crashed          \* a call touched memory outside the mapping

vars == <<brk, mem, live, crashed>>

Init == /\ MemInit
        /\ live = << >>
        /\ crashed = FALSE

Hold(held, p, n) == [q \in DOMAIN held \cup {p} |-> IF q = p THEN n ELSE held[q]]
Drop(held, p)    == Restrict(held, DOMAIN held \ {p})

(* The heap after a call that returned r. *)
HeapAfter(r) == brk' = r.brk /\ mem' = r.mem /\ crashed' = r.crash

Malloc(n) ==
  LET r == mm_malloc(n)
  IN  /\ HeapAfter(r)
      /\ live' = IF r.ret = NULL \/ r.crash THEN live ELSE Hold(live, r.ret, n)

Calloc(k, n) ==
  LET r == mm_calloc(k, n)
  IN  /\ HeapAfter(r)
      /\ live' = IF r.ret = NULL \/ r.crash THEN live ELSE Hold(live, r.ret, k * n)

Free(p) == /\ HeapAfter(mm_free(p))
           /\ live' = Drop(live, p)

(* realloc(p, 0) is free(p); a realloc that fails leaves the block held.   *)
(* realloc(NULL, n) is malloc(n).                                          *)
Realloc(p, n) ==
  LET r    == mm_realloc(p, n)
      rest == IF p = NULL THEN live ELSE Drop(live, p)
  IN  /\ HeapAfter(r)
      /\ live' = IF n = 0 THEN rest
                 ELSE IF r.ret = NULL \/ r.crash THEN live
                 ELSE Hold(rest, r.ret, n)

(* The program fills its block. *)
Write(p, v) == /\ mem' = MemSet(mem, p, live[p], v)
               /\ crashed' = ~Mapped(p, live[p])
               /\ UNCHANGED <<brk, live>>

(* mdriver.c starts every pass over a trace with mem_reset_brk and mm_init *)
(* (which does nothing): every block is gone, the bytes stay.              *)
Reset == /\ mem_reset_brk
         /\ live' = << >>
         /\ UNCHANGED crashed

Next == /\ ~crashed
        /\ \/ \E n \in Sizes : Malloc(n)
           \/ \E k \in Counts, n \in Sizes : Calloc(k, n)
           \/ \E p \in DOMAIN live : Free(p)
           \/ \E p \in DOMAIN live \cup {NULL}, n \in Sizes \cup {0} : Realloc(p, n)
           \/ \E p \in DOMAIN live, v \in Values : Write(p, v)
           \/ Reset

Spec == Init /\ [][Next]_vars
-----------------------------------------------------------------------------
(* The variables range over what the code's types allow.                   *)
TypeOK == /\ brk \in 0 .. MAX_HEAP
          /\ mem \in [Addresses -> Nat]
          /\ live \in [DOMAIN live -> Nat]
          /\ DOMAIN live \subseteq 0 .. MAX_HEAP
          /\ crashed \in BOOLEAN

(* Every pointer mm.c hands out is a multiple of ALIGNMENT (mm.c:61).      *)
BlocksAligned == /\ brk % ALIGNMENT = 0
                 /\ \A p \in DOMAIN live : p % ALIGNMENT = 0

(* A block and the size word before it lie below the break.                *)
BlocksInHeap == \A p \in DOMAIN live :
                  SIZE_PTR(p) >= 0 /\ p + live[p] <= mem_heap_hi + 1

(* No block reaches into another block or the size word before it: what a  *)
(* program writes in one block can change neither another block nor the    *)
(* sizes that realloc trusts.                                              *)
BlocksDisjoint ==
  \A p, q \in DOMAIN live :
    p # q => \/ p + live[p] <= SIZE_PTR(q)
             \/ q + live[q] <= SIZE_PTR(p)

(* The size realloc reads before a block is the one the program asked for, *)
(* whatever was allocated, moved, freed or written since.                  *)
SizesIntact == \A p \in DOMAIN live : mem[SIZE_PTR(p)] = live[p]

(* The conjunction that is inductive (MMProofs).                           *)
HeapInv == TypeOK /\ BlocksAligned /\ BlocksInHeap /\ BlocksDisjoint /\ SizesIntact

(* No request is so large that a size_t or the int newsize wraps.          *)
SizesFit == \A n \in Sizes :
              Fits(n) /\ \A k \in Counts : Fits(k * n)

(* Blocks are never coalesced or reused (mm.c:5): outside a reset the break *)
(* never moves down and a new block lies above it, so no address is ever   *)
(* handed out twice, and what a freed block held stays readable.           *)
NeverReused ==
  [][ \/ Reset
      \/ /\ brk' >= brk
         /\ \A p \in DOMAIN live' \ DOMAIN live : SIZE_PTR(p) >= brk ]_vars

(* A legal program crashes in one way only: calloc writes through the NULL  *)
(* that its malloc step returned because the heap was full (mm.c:136).     *)
(* realloc never copies from or to unmapped memory, however often blocks   *)
(* have moved and whatever the program wrote into them.                    *)
OnlyCallocCrashes ==
  [][ /\ crashed' => \E k \in Counts, n \in Sizes :
                       Calloc(k, n) /\ mm_malloc(k * n).ret = NULL
      /\ \A p \in DOMAIN live, n \in Sizes : Realloc(p, n) => ~crashed' ]_vars

(* mm.c keeps the promises of AllocatorSpec, reading the blocks' bytes     *)
(* from the heap.                                                          *)
Abstract == INSTANCE AllocatorSpec
  WITH Pointer   <- 0 .. MAX_HEAP,
       Request   <- Sizes \cup {k * n : k \in Counts, n \in Sizes},
       Alignment <- ALIGNMENT,
       size      <- live,
       data      <- [p \in DOMAIN live |-> [i \in 0 .. live[p] - 1 |-> mem[p + i]]]

ImplementsAllocator == Abstract!ASpec

=============================================================================
