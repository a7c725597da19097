------------------------------- MODULE Memlib -------------------------------
(***************************************************************************)
(* Malloc/malloclab-handout/memlib.c: the simulated sbrk heap.             *)
(*                                                                         *)
(* An address is its distance from the start of the mapping ("heap" in the *)
(* code), so heap = 0 and mem_max_addr = MAX_HEAP.  NULL and the error     *)
(* value of mem_sbrk lie below the mapping, as they do in the process.     *)
(***************************************************************************)
EXTENDS Integers

CONSTANT MAX_HEAP          \* config.h: bytes in the mapping

ASSUME MaxHeapAssumption == MAX_HEAP \in Nat

VARIABLES brk,             \* mem_brk
          mem              \* the bytes of the mapping

ALIGNMENT  == 8            \* mm.c and config.h
NULL       == -2
SBRK_ERROR == -1           \* (void *)-1

Addresses == 0 .. MAX_HEAP - 1

(* The pages of /dev/zero that mem_init maps. *)
MemInit == brk = 0 /\ mem = [a \in Addresses |-> 0]

(* The result of mem_sbrk(incr): the old break and the new one. *)
mem_sbrk(incr) ==
  IF incr < 0 \/ brk + incr > MAX_HEAP
  THEN [ret |-> SBRK_ERROR, brk |-> brk]
  ELSE [ret |-> brk, brk |-> brk + incr]

\* mutant: forgets to
mem_reset_brk_Not == UNCHANGED <<brk, mem>>

(* Only the break goes back: the bytes stay. *)
mem_reset_brk == brk' = 0 /\ UNCHANGED mem

mem_heap_lo  == 0
mem_heap_hi  == brk - 1
mem_heapsize == brk

Mapped(lo, n) == n = 0 \/ (0 <= lo /\ lo + n <= MAX_HEAP)

(* libc's memset, and memcpy between areas that do not overlap. *)
MemSet(m, lo, n, v) ==
  [a \in DOMAIN m |-> IF lo <= a /\ a < lo + n THEN v ELSE m[a]]

MemCpy(m, dst, src, n) ==
  [a \in DOMAIN m |-> IF dst <= a /\ a < dst + n THEN m[src + (a - dst)] ELSE m[a]]
=============================================================================
