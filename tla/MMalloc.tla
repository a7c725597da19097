------------------------------ MODULE MMalloc -------------------------------
(***************************************************************************)
(* Malloc/malloclab-handout/mm.c: the bump allocator.  Each operator gives *)
(* what a call returns and the heap it leaves:                             *)
(*   ret    the pointer returned (an address, or NULL)                     *)
(*   brk    the break afterwards                                           *)
(*   mem    the bytes of the mapping afterwards                            *)
(*   crash  TRUE when the call touched memory outside the mapping          *)
(* A size_t is a number below SizeModulus and an int is a two's complement *)
(* number of IntModulus values; both are parameters so that a small model  *)
(* reaches the widths.                                                     *)
(***************************************************************************)
EXTENDS Memlib

CONSTANTS IntModulus,      \* 2^32: number of values of an int
          SizeModulus      \* 2^64: number of values of a size_t

ASSUME WidthAssumption == IntModulus \in Nat \ {0} /\ SizeModulus \in Nat \ {0}

\* mutant: rounds down
ALIGN_Down(size) == LET n == size % SizeModulus IN n - (n % ALIGNMENT)

ALIGN(size) == LET n == (size + (ALIGNMENT - 1)) % SizeModulus
               IN  n - (n % ALIGNMENT)

SIZE_T_SIZE == 8           \* ALIGN(sizeof(size_t))

SIZE_PTR(p) == p - SIZE_T_SIZE

(* Conversion of a size_t to int. *)
ToInt(n) == LET low == n % IntModulus
            IN  IF 2 * low < IntModulus THEN low ELSE low - IntModulus

\* mutant: forgets the size word
NewSize_NoWord(size) == ToInt(ALIGN(size % SizeModulus))

NewSize(size) == ToInt(ALIGN((size + SIZE_T_SIZE) % SizeModulus))

(* A size small enough that no size_t and no int newsize wraps. *)
Fits(size) == /\ 2 * (size + SIZE_T_SIZE + ALIGNMENT) < IntModulus
              /\ size + SIZE_T_SIZE + ALIGNMENT < SizeModulus

(* A size fits the first byte of its word: the other seven are zero. *)
StoreSize(m, word, size) ==
  [MemSet(m, word, SIZE_T_SIZE, 0) EXCEPT ![word] = size]

\* mutant: stores the size before moving past the size word
mm_malloc_SizeFirst(size) ==
  LET area == mem_sbrk(NewSize(size))
  IN  IF area.ret = SBRK_ERROR
      THEN [ret |-> NULL, brk |-> brk, mem |-> mem, crash |-> FALSE]
      ELSE [ret   |-> area.ret + SIZE_T_SIZE,
            brk   |-> area.brk,
            mem   |-> StoreSize(mem, SIZE_PTR(area.ret), size),
            crash |-> ~Mapped(area.ret, SIZE_T_SIZE)]

mm_malloc(size) ==
  LET area == mem_sbrk(NewSize(size))
  IN  IF area.ret = SBRK_ERROR
      THEN [ret |-> NULL, brk |-> brk, mem |-> mem, crash |-> FALSE]
      ELSE [ret   |-> area.ret + SIZE_T_SIZE,
            brk   |-> area.brk,
            mem   |-> StoreSize(mem, area.ret, size),
            crash |-> ~Mapped(area.ret, SIZE_T_SIZE)]

\* mutant: gives the block back by lowering the break
mm_free_Lowers(ptr) ==
  [ret |-> NULL, brk |-> IF ptr = NULL THEN brk ELSE SIZE_PTR(ptr), mem |-> mem, crash |-> FALSE]

mm_free(ptr) == [ret |-> NULL, brk |-> brk, mem |-> mem, crash |-> FALSE]

\* mutant: takes the word before a block for the size of word and block together
mm_realloc_ShortCopy(oldptr, size) ==
  IF size = 0 THEN mm_free(oldptr)
  ELSE IF oldptr = NULL THEN mm_malloc(size)
  ELSE LET new     == mm_malloc(size)
           oldsize == new.mem[SIZE_PTR(oldptr)] - SIZE_T_SIZE
           n       == IF size < oldsize THEN size ELSE oldsize
       IN  IF new.ret = NULL \/ new.crash THEN new
           ELSE IF ~Mapped(new.ret, n) THEN [new EXCEPT !.crash = TRUE]
           ELSE [new EXCEPT !.mem = MemCpy(new.mem, new.ret, oldptr, n)]

\* mutant: does not look at the pointer malloc returned
mm_realloc_NoCheck(oldptr, size) ==
  IF size = 0 THEN mm_free(oldptr)
  ELSE IF oldptr = NULL THEN mm_malloc(size)
  ELSE LET new     == mm_malloc(size)
           oldsize == new.mem[SIZE_PTR(oldptr)]
           n       == IF size < oldsize THEN size ELSE oldsize
       IN  IF ~Mapped(new.ret, n) THEN [new EXCEPT !.crash = TRUE]
           ELSE [new EXCEPT !.mem = MemCpy(new.mem, new.ret, oldptr, n)]

mm_realloc(oldptr, size) ==
  IF size = 0 THEN mm_free(oldptr)
  ELSE IF oldptr = NULL THEN mm_malloc(size)
  ELSE LET new     == mm_malloc(size)
           oldsize == new.mem[SIZE_PTR(oldptr)]
           n       == IF size < oldsize THEN size ELSE oldsize
       IN  IF new.ret = NULL \/ new.crash THEN new
           ELSE IF ~Mapped(new.ret, n) THEN [new EXCEPT !.crash = TRUE]
           ELSE [new EXCEPT !.mem = MemCpy(new.mem, new.ret, oldptr, n)]

(* calloc does not look at the pointer malloc returned before memset. *)
mm_calloc(nmemb, size) ==
  LET bytes == (nmemb * size) % SizeModulus
      new   == mm_malloc(bytes)
  IN  IF new.crash \/ ~Mapped(new.ret, bytes)
      THEN [new EXCEPT !.crash = TRUE]
      ELSE [new EXCEPT !.mem = MemSet(new.mem, new.ret, bytes, 0)]
=============================================================================
