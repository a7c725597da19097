------------------------------ MODULE MMProofs ------------------------------
(***************************************************************************)
(* HeapInv of MMClient is inductive, and mm.c implements AllocatorSpec, for *)
(* every heap size, every set of request sizes and every pair of integer   *)
(* widths those sizes fit in.                                              *)
(***************************************************************************)
EXTENDS MMClient, MMallocProofs

(* No request is so large that a size_t or the int newsize wraps.          *)
ASSUME SizesFitAssumption == SizesFit

LEMMA HeapInvOK == HeapInv => HeapOK
BY DEF HeapInv, TypeOK, BlocksAligned, HeapOK

(* A call that gave no block: the heap is as it was, though the call may    *)
(* have crashed.                                                           *)
Failed(r) == /\ r.ret = NULL \/ r.crash
             /\ r.brk = brk
             /\ r.mem = mem
             /\ r.crash \in BOOLEAN

(* The n bytes of the block that r returned are zero; and as far as both    *)
(* blocks go, they are the bytes of p.                                     *)
Zeroed(r, n)    == \A i \in 0 .. n - 1 : r.mem[r.ret + i] = 0
Copied(r, p, n) == \A i \in 0 .. n - 1 : i < live[p] => r.mem[r.ret + i] = mem[p + i]

(* calloc(k, n): a crash or an empty request, both after a NULL from malloc, *)
(* or a bumped break and zeroes.                                           *)
LEMMA CallocBumps ==
  ASSUME HeapOK, NEW k \in Counts, NEW n \in Sizes
  PROVE  \/ Failed(mm_calloc(k, n)) /\ Refused(mm_malloc(k * n))
         \/ Bumped(mm_calloc(k, n), k * n) /\ Zeroed(mm_calloc(k, n), k * n)
<1>. DEFINE bytes == k * n
            new   == mm_malloc(bytes)
<1>1. /\ bytes \in Nat /\ bytes % SizeModulus = bytes
      /\ Fits(bytes)
  <2>1. k \in Nat /\ n \in Nat /\ bytes \in Nat
    BY ClientAssumption
  <2>2. Fits(bytes)
    BY SizesFitAssumption DEF SizesFit
  <2>. HIDE DEF bytes
  <2>. QED  BY <2>1, <2>2, WidthAssumption DEF Fits, SIZE_T_SIZE, ALIGNMENT
<1>2. mm_calloc(k, n) = IF new.crash \/ ~Mapped(new.ret, bytes)
                        THEN [new EXCEPT !.crash = TRUE]
                        ELSE [new EXCEPT !.mem = MemSet(new.mem, new.ret, bytes, 0)]
  BY <1>1 DEF mm_calloc
<1>3. Refused(new) \/ Bumped(new, bytes)
  BY <1>1, MallocBumps
<1>. HIDE DEF bytes
<1>4. ASSUME Refused(new) PROVE Failed(mm_calloc(k, n))
  <2>1. CASE bytes = 0
    <3>1. Mapped(new.ret, bytes)
      BY <2>1 DEF Mapped
    <3>2. MemSet(mem, new.ret, bytes, 0) = mem
      BY <1>4, <2>1, MaxHeapAssumption DEF Refused, MemSet, HeapOK, Addresses, NULL
    <3>. QED  BY <1>2, <1>4, <3>1, <3>2 DEF Failed, Refused
  <2>2. CASE bytes # 0
    <3>1. ~Mapped(new.ret, bytes)
      BY <1>1, <1>4, <2>2 DEF Refused, Mapped, NULL
    <3>. QED  BY <1>2, <1>4, <3>1 DEF Failed, Refused
  <2>. QED  BY <2>1, <2>2
<1>5. CASE Bumped(new, bytes)
  <2>1. /\ brk \in Nat /\ new.ret = brk + 8 /\ new.ret \in Nat
        /\ new.ret + bytes <= MAX_HEAP /\ new.mem \in [Addresses -> Nat]
    BY <1>1, <1>5, MaxHeapAssumption DEF Bumped, Grown, HeapOK, SIZE_T_SIZE
  <2>2. Mapped(new.ret, bytes)
    BY <2>1 DEF Mapped
  <2>. DEFINE zeroed == MemSet(new.mem, new.ret, bytes, 0)
  <2>3. /\ zeroed \in [Addresses -> Nat]
        /\ \A a \in Addresses : a < new.ret => zeroed[a] = new.mem[a]
    <3>1. 0 \in Nat
      OBVIOUS
    <3>2. new.mem \in [Addresses -> Nat] /\ new.ret \in Nat /\ bytes \in Nat
      BY <1>1, <2>1
    <3>. HIDE DEF new
    <3>3. zeroed \in [Addresses -> Nat]
      BY <3>1, <3>2, MemSetBytes
    <3>4. \A a \in Addresses : a < new.ret => zeroed[a] = new.mem[a]
      BY <3>1, <3>2, MemSetBytes
    <3>. QED  BY <3>3, <3>4
  <2>4. Grown(new.ret, new.brk, zeroed, bytes)
    BY <1>1, <1>5, <2>3, GrownAfterWrite DEF Bumped
  <2>5. mm_calloc(k, n) = [new EXCEPT !.mem = zeroed]
    BY <1>2, <1>5, <2>2 DEF Bumped
  <2>6. Bumped([new EXCEPT !.mem = zeroed], bytes)
    BY <1>5, <2>4 DEF Bumped, mm_malloc
  <2>7. Zeroed([new EXCEPT !.mem = zeroed], bytes)
    <3>1. [new EXCEPT !.mem = zeroed].mem = zeroed /\ [new EXCEPT !.mem = zeroed].ret = new.ret
      BY <1>5 DEF Bumped, mm_malloc
    <3>. HIDE DEF new
    <3>2. ASSUME NEW i \in 0 .. bytes - 1 PROVE zeroed[new.ret + i] = 0
      <4>1. /\ new.ret + i \in Addresses
            /\ new.ret <= new.ret + i /\ new.ret + i < new.ret + bytes
        BY <1>1, <2>1, MaxHeapAssumption DEF Addresses
      <4>. QED  BY <2>1, <4>1 DEF MemSet
    <3>. QED  BY <3>1, <3>2 DEF Zeroed
  <2>. QED  BY <2>5, <2>6, <2>7 DEF bytes
<1>. QED  BY <1>3, <1>4, <1>5 DEF bytes

(* realloc(p, n) of a held block and n > 0: the size word is the one the    *)
(* program asked for, so the copy stays inside both blocks.                *)
LEMMA ReallocBumps ==
  ASSUME HeapInv, NEW p \in DOMAIN live, NEW n \in Sizes, n # 0
  PROVE  \/ Refused(mm_realloc(p, n))
         \/ Bumped(mm_realloc(p, n), n) /\ Copied(mm_realloc(p, n), p, n)
<1>1. n \in Nat \ {0} /\ Fits(n)
  BY ClientAssumption, SizesFitAssumption DEF SizesFit
<1>2. /\ p \in Nat /\ p >= SIZE_T_SIZE /\ live[p] \in Nat /\ p + live[p] <= brk
      /\ mem[SIZE_PTR(p)] = live[p]
  BY MaxHeapAssumption
  DEF HeapInv, TypeOK, BlocksInHeap, SizesIntact, SIZE_PTR, SIZE_T_SIZE, mem_heap_hi
<1>. QED  BY <1>1, <1>2, HeapInvOK, MovedBumps DEF Copied

(* realloc(NULL, n) is malloc(n), so realloc refuses or bumps either way.   *)
LEMMA ReallocOutcome ==
  ASSUME HeapInv, NEW p \in DOMAIN live \cup {NULL}, NEW n \in Sizes \cup {0}, n # 0
  PROVE  Refused(mm_realloc(p, n)) \/ Bumped(mm_realloc(p, n), n)
<1>. DEFINE r == mm_realloc(p, n)
<1>1. n \in Nat /\ n \in Sizes
  BY ClientAssumption
<1>2. CASE p = NULL
  <2>1. r = mm_malloc(n)
    BY <1>2 DEF mm_realloc
  <2>. QED  BY <1>1, <2>1, MallocBumps, HeapInvOK, SizesFitAssumption DEF SizesFit
<1>3. CASE p # NULL
  BY <1>1, <1>3, ReallocBumps
<1>. QED  BY <1>2, <1>3

(* The step that adds a block: the blocks kept lie below the old break, the *)
(* new one above it.                                                       *)
LEMMA GrowKeeps ==
  ASSUME HeapInv, NEW kept \in SUBSET DOMAIN live, NEW n \in Nat,
         NEW p, Grown(p, brk', mem', n), crashed' \in BOOLEAN,
         live' = [q \in kept \cup {p} |-> IF q = p THEN n ELSE live[q]]
  PROVE  HeapInv'
<1>1. /\ brk \in Nat /\ MAX_HEAP \in Nat /\ p = brk + 8 /\ brk' \in 0 .. MAX_HEAP
      /\ brk' >= brk + 8 + n /\ brk % 8 = 0 /\ brk' % 8 = 0 /\ mem'[brk] = n
      /\ mem' \in [Addresses -> Nat]
      /\ \A a \in Addresses : a < brk => mem'[a] = mem[a]
  BY MaxHeapAssumption DEF HeapInv, TypeOK, BlocksAligned, Grown, SIZE_T_SIZE, ALIGNMENT
<1>2. /\ DOMAIN live' = kept \cup {p} /\ live'[p] = n /\ p \notin kept
      /\ \A q \in kept : live'[q] = live[q]
  BY <1>1 DEF HeapInv, TypeOK, BlocksInHeap, SIZE_PTR, SIZE_T_SIZE, mem_heap_hi
<1>3. \A q \in kept : /\ q \in Nat /\ q >= 8 /\ live[q] \in Nat /\ q + live[q] <= brk
                      /\ q % 8 = 0 /\ mem[q - 8] = live[q]
  BY <1>1 DEF HeapInv, TypeOK, BlocksAligned, BlocksInHeap, SizesIntact,
              SIZE_PTR, SIZE_T_SIZE, ALIGNMENT, mem_heap_hi
<1>4. TypeOK'
  BY <1>1, <1>2, <1>3 DEF TypeOK, Addresses
<1>5. BlocksAligned'
  <2>1. p % 8 = 0
    BY <1>1
  <2>. QED  BY <1>1, <1>2, <1>3, <2>1 DEF BlocksAligned, ALIGNMENT
<1>6. BlocksInHeap'
  BY <1>1, <1>2, <1>3 DEF BlocksInHeap, SIZE_PTR, SIZE_T_SIZE, mem_heap_hi
<1>7. BlocksDisjoint'
  <2>1. ASSUME NEW q \in kept, NEW r \in kept, q # r
        PROVE  q + live[q] <= r - 8 \/ r + live[r] <= q - 8
    BY <2>1 DEF HeapInv, BlocksDisjoint, SIZE_PTR, SIZE_T_SIZE
  <2>2. \A q \in kept : q + live[q] <= p - 8
    BY <1>1, <1>3
  <2>. QED  BY <1>2, <2>1, <2>2 DEF BlocksDisjoint, SIZE_PTR, SIZE_T_SIZE
<1>8. SizesIntact'
  <2>1. \A q \in kept : q - 8 \in Addresses /\ q - 8 < brk
    <3>1. brk <= MAX_HEAP
      BY <1>1
    <3>2. ASSUME NEW q \in kept PROVE q - 8 \in Addresses /\ q - 8 < brk
      <4>1. q \in Nat /\ q >= 8 /\ q <= brk
        BY <1>1, <1>3, <3>2
      <4>. QED  BY <1>1, <3>1, <4>1 DEF Addresses
    <3>. QED  BY <3>2
  <2>2. p - 8 = brk
    BY <1>1
  <2>. QED  BY <1>1, <1>2, <1>3, <2>1, <2>2 DEF SizesIntact, SIZE_PTR, SIZE_T_SIZE
<1>. QED  BY <1>4, <1>5, <1>6, <1>7, <1>8 DEF HeapInv

(* The step that only takes blocks away: the heap stays.                   *)
LEMMA DropKeeps ==
  ASSUME HeapInv, NEW kept \in SUBSET DOMAIN live,
         live' = [q \in kept |-> live[q]],
         brk' = brk, mem' = mem, crashed' \in BOOLEAN
  PROVE  HeapInv'
<1>1. DOMAIN live' = kept /\ \A q \in kept : live'[q] = live[q]
  OBVIOUS
<1>2. TypeOK'
  BY DEF HeapInv, TypeOK
<1>3. BlocksAligned' /\ BlocksInHeap'
  BY <1>1 DEF HeapInv, BlocksAligned, BlocksInHeap, mem_heap_hi
<1>4. BlocksDisjoint'
  BY <1>1 DEF HeapInv, BlocksDisjoint
<1>5. SizesIntact'
  BY <1>1 DEF HeapInv, SizesIntact
<1>. QED  BY <1>2, <1>3, <1>4, <1>5 DEF HeapInv

(* The program's own writes stay inside its block, clear of every size word. *)
LEMMA WriteKeeps ==
  ASSUME HeapInv, NEW p \in DOMAIN live, NEW v \in Values, Write(p, v)
  PROVE  HeapInv'
<1>1. /\ p \in Nat /\ p >= 8 /\ live[p] \in Nat /\ v \in Nat /\ brk \in Nat
      /\ p + live[p] <= brk /\ brk <= MAX_HEAP /\ mem \in [Addresses -> Nat]
  BY ClientAssumption, MaxHeapAssumption
  DEF HeapInv, TypeOK, BlocksInHeap, SIZE_PTR, SIZE_T_SIZE, mem_heap_hi
<1>2. /\ mem' \in [Addresses -> Nat]
      /\ \A a \in Addresses : a < p => mem'[a] = mem[a]
      /\ \A a \in Addresses : a >= p + live[p] => mem'[a] = mem[a]
  <2>. DEFINE n == live[p]
              w == MemSet(mem, p, n, v)
  <2>1. mem' = w
    BY DEF Write
  <2>2. /\ w \in [Addresses -> Nat]
        /\ \A a \in Addresses : a < p => w[a] = mem[a]
        /\ \A a \in Addresses : a >= p + live[p] => w[a] = mem[a]
    <3>1. mem \in [Addresses -> Nat] /\ p \in Nat /\ n \in Nat /\ v \in Nat
      BY <1>1
    <3>. HIDE DEF n
    <3>2. w \in [Addresses -> Nat]
      BY <3>1, MemSetBytes
    <3>3. \A a \in Addresses : a < p => w[a] = mem[a]
      BY <3>1, MemSetBytes
    <3>4. \A a \in Addresses : a >= p + n => w[a] = mem[a]
      BY <3>1, MemSetBytes
    <3>. QED  BY <3>2, <3>3, <3>4 DEF n
  <2>. QED  BY <2>1, <2>2
<1>3. TypeOK'
  <2>1. crashed' \in BOOLEAN
    BY DEF Write, Mapped
  <2>. QED  BY <1>2, <2>1 DEF HeapInv, TypeOK, Write
<1>4. BlocksAligned' /\ BlocksInHeap' /\ BlocksDisjoint'
  BY DEF HeapInv, BlocksAligned, BlocksInHeap, BlocksDisjoint, mem_heap_hi, Write
<1>5. SizesIntact'
  <2>1. ASSUME NEW q \in DOMAIN live PROVE mem'[q - 8] = live[q]
    <3>1. q \in Nat /\ q >= 8 /\ live[q] \in Nat /\ q + live[q] <= brk /\ mem[q - 8] = live[q]
      BY <2>1, MaxHeapAssumption
      DEF HeapInv, TypeOK, BlocksInHeap, SizesIntact, SIZE_PTR, SIZE_T_SIZE, mem_heap_hi
    <3>2. q - 8 < p \/ q - 8 >= p + live[p]
      <4>1. CASE q = p
        BY <1>1, <4>1
      <4>2. CASE q # p
        <5>1. p + live[p] <= q - 8 \/ q + live[q] <= p - 8
          BY <4>2 DEF HeapInv, BlocksDisjoint, SIZE_PTR, SIZE_T_SIZE
        <5>. QED  BY <1>1, <3>1, <5>1
      <4>. QED  BY <4>1, <4>2
    <3>3. q - 8 \in Addresses
      <4>1. q <= MAX_HEAP
        BY <1>1, <3>1, MaxHeapAssumption
      <4>. QED  BY <3>1, <4>1, MaxHeapAssumption DEF Addresses
    <3>. QED  BY <1>2, <3>1, <3>2, <3>3
  <2>. QED  BY <2>1 DEF SizesIntact, SIZE_PTR, SIZE_T_SIZE, Write
<1>. QED  BY <1>3, <1>4, <1>5 DEF HeapInv

(* An empty heap holds no block.                                           *)
LEMMA InitHeapInv == Init => HeapInv
<1>. SUFFICES ASSUME Init PROVE HeapInv
  OBVIOUS
<1>1. DOMAIN live = {} /\ live = [q \in {} |-> 0]
  BY DEF Init
<1>2. TypeOK
  <2>1. live \in [DOMAIN live -> Nat] /\ DOMAIN live \subseteq 0 .. MAX_HEAP
    BY <1>1
  <2>2. brk \in 0 .. MAX_HEAP /\ mem \in [Addresses -> Nat]
    BY MaxHeapAssumption DEF Init, MemInit
  <2>3. crashed \in BOOLEAN
    BY DEF Init
  <2>. QED  BY <2>1, <2>2, <2>3 DEF TypeOK
<1>3. BlocksAligned
  BY <1>1 DEF Init, MemInit, BlocksAligned, ALIGNMENT
<1>. QED  BY <1>1, <1>2, <1>3 DEF HeapInv, BlocksInHeap, BlocksDisjoint, SizesIntact

(* Every call and every write of the program keeps HeapInv.                *)
LEMMA NextHeapInv == HeapInv /\ [Next]_vars => HeapInv'
<1>. SUFFICES ASSUME HeapInv, [Next]_vars PROVE HeapInv'
  OBVIOUS
<1>. DEFINE all == [q \in DOMAIN live |-> live[q]]
<1>0. all = live
  BY DEF HeapInv, TypeOK
<1>1. ASSUME NEW n \in Sizes, Malloc(n) PROVE HeapInv'
  <2>1. n \in Nat /\ (Refused(mm_malloc(n)) \/ Bumped(mm_malloc(n), n))
    BY MallocBumps, HeapInvOK, ClientAssumption, SizesFitAssumption DEF SizesFit
  <2>2. CASE Refused(mm_malloc(n))
    <3>1. live' = all /\ brk' = brk /\ mem' = mem /\ crashed' \in BOOLEAN
      BY <1>0, <1>1, <2>2 DEF Malloc, HeapAfter, Refused
    <3>. QED  BY <3>1, DropKeeps
  <2>3. CASE Bumped(mm_malloc(n), n)
    <3>. DEFINE p == mm_malloc(n).ret
    <3>1. Grown(p, brk', mem', n) /\ crashed' \in BOOLEAN
      BY <1>1, <2>3 DEF Malloc, HeapAfter, Bumped
    <3>2. p # NULL /\ ~mm_malloc(n).crash
      BY <2>3 DEF HeapInv, TypeOK, Bumped, Grown, NULL, SIZE_T_SIZE
    <3>3. live' = [q \in DOMAIN live \cup {p} |-> IF q = p THEN n ELSE live[q]]
      BY <1>1, <3>2 DEF Malloc, Hold
    <3>. HIDE DEF p
    <3>. QED  BY <2>1, <3>1, <3>3, GrowKeeps
  <2>. QED  BY <2>1, <2>2, <2>3
<1>2. ASSUME NEW k \in Counts, NEW n \in Sizes, Calloc(k, n) PROVE HeapInv'
  <2>1. k * n \in Nat /\ (Failed(mm_calloc(k, n)) \/ Bumped(mm_calloc(k, n), k * n))
    BY CallocBumps, HeapInvOK, ClientAssumption
  <2>2. CASE Failed(mm_calloc(k, n))
    <3>1. live' = all /\ brk' = brk /\ mem' = mem /\ crashed' \in BOOLEAN
      BY <1>0, <1>2, <2>2 DEF Calloc, HeapAfter, Failed
    <3>. QED  BY <3>1, DropKeeps
  <2>3. CASE Bumped(mm_calloc(k, n), k * n)
    <3>. DEFINE p == mm_calloc(k, n).ret
    <3>1. Grown(p, brk', mem', k * n) /\ crashed' \in BOOLEAN
      BY <1>2, <2>3 DEF Calloc, HeapAfter, Bumped
    <3>2. p # NULL /\ ~mm_calloc(k, n).crash
      BY <2>3 DEF HeapInv, TypeOK, Bumped, Grown, NULL, SIZE_T_SIZE
    <3>3. live' = [q \in DOMAIN live \cup {p} |-> IF q = p THEN k * n ELSE live[q]]
      BY <1>2, <3>2 DEF Calloc, Hold
    <3>. HIDE DEF p
    <3>. QED  BY <2>1, <3>1, <3>3, GrowKeeps
  <2>. QED  BY <2>1, <2>2, <2>3
<1>3. ASSUME NEW p \in DOMAIN live, Free(p) PROVE HeapInv'
  <2>1. /\ live' = [q \in DOMAIN live \ {p} |-> live[q]]
        /\ brk' = brk /\ mem' = mem /\ crashed' \in BOOLEAN
    BY <1>3 DEF Free, HeapAfter, mm_free, Drop, Restrict
  <2>. QED  BY <2>1, DropKeeps
<1>4. ASSUME NEW p \in DOMAIN live \cup {NULL}, NEW n \in Sizes \cup {0}, Realloc(p, n)
      PROVE  HeapInv'
  <2>. DEFINE r    == mm_realloc(p, n)
              kept == IF p = NULL THEN DOMAIN live ELSE DOMAIN live \ {p}
  <2>1. /\ p \in DOMAIN live => p # NULL
        /\ kept \in SUBSET DOMAIN live
        /\ (IF p = NULL THEN live ELSE Drop(live, p)) = [q \in kept |-> live[q]]
        /\ n \in Nat
    BY <1>0, ClientAssumption DEF HeapInv, TypeOK, NULL, Drop, Restrict
  <2>2. CASE n = 0
    <3>1. r = mm_free(p)
      BY <2>2 DEF mm_realloc
    <3>2. brk' = brk /\ mem' = mem /\ crashed' \in BOOLEAN
      BY <1>4, <3>1 DEF Realloc, HeapAfter, mm_free
    <3>3. live' = [q \in kept |-> live[q]]
      BY <1>4, <2>1, <2>2 DEF Realloc
    <3>. QED  BY <2>1, <3>2, <3>3, DropKeeps
  <2>3. CASE n # 0
    <3>1. Refused(r) \/ Bumped(r, n)
      BY <2>3, ReallocOutcome
    <3>2. CASE Refused(r)
      <4>1. live' = all /\ brk' = brk /\ mem' = mem /\ crashed' \in BOOLEAN
        BY <1>0, <1>4, <2>3, <3>2 DEF Realloc, HeapAfter, Refused
      <4>. QED  BY <4>1, DropKeeps
    <3>3. CASE Bumped(r, n)
      <4>. DEFINE b == r.ret
      <4>1. Grown(b, brk', mem', n) /\ crashed' \in BOOLEAN
        BY <1>4, <3>3 DEF Realloc, HeapAfter, Bumped
      <4>2. b # NULL /\ ~r.crash
        BY <3>3 DEF HeapInv, TypeOK, Bumped, Grown, NULL, SIZE_T_SIZE
      <4>3. live' = Hold([q \in kept |-> live[q]], b, n)
        BY <1>4, <2>1, <2>3, <4>2 DEF Realloc
      <4>. HIDE DEF b, kept
      <4>4. live' = [q \in kept \cup {b} |-> IF q = b THEN n ELSE live[q]]
        BY <4>3 DEF Hold
      <4>. QED  BY <2>1, <4>1, <4>4, GrowKeeps
    <3>. QED  BY <3>1, <3>2, <3>3
  <2>. QED  BY <2>2, <2>3
<1>5. ASSUME NEW p \in DOMAIN live, NEW v \in Values, Write(p, v) PROVE HeapInv'
  BY <1>5, WriteKeeps
<1>6. CASE Reset
  <2>1. DOMAIN live' = {} /\ live' = [q \in {} |-> 0] /\ brk' = 0
    BY <1>6 DEF Reset, mem_reset_brk
  <2>2. live' \in [DOMAIN live' -> Nat] /\ DOMAIN live' \subseteq 0 .. MAX_HEAP
    BY <2>1
  <2>3. TypeOK'
    BY <1>6, <2>1, <2>2, MaxHeapAssumption DEF HeapInv, TypeOK, Reset, mem_reset_brk
  <2>. QED  BY <2>1, <2>3
            DEF HeapInv, BlocksAligned, BlocksInHeap, BlocksDisjoint, SizesIntact, ALIGNMENT
<1>7. CASE UNCHANGED vars
  <2>1. live' = all /\ brk' = brk /\ mem' = mem /\ crashed' \in BOOLEAN
    BY <1>0, <1>7 DEF vars, HeapInv, TypeOK
  <2>. QED  BY <2>1, DropKeeps
<1>. QED  BY <1>1, <1>2, <1>3, <1>4, <1>5, <1>6, <1>7 DEF Next

(* Whatever a legal program does, mm.c's blocks stay aligned, inside the    *)
(* heap and apart, and the sizes realloc trusts stay the ones asked for.   *)
THEOREM HeapIsSound == Spec => []HeapInv
  BY InitHeapInv, NextHeapInv, PTL DEF Spec

(* The break stays inside the mapping and every pointer held is one of its  *)
(* addresses.                                                              *)
THEOREM TypeCorrect == Spec => []TypeOK
<1>. HeapInv => TypeOK
  BY DEF HeapInv
<1>. QED  BY HeapIsSound, PTL

(* No block ever reaches into another block or the size word before it.    *)
THEOREM BlocksStayApart == Spec => []BlocksDisjoint
<1>. HeapInv => BlocksDisjoint
  BY DEF HeapInv
<1>. QED  BY HeapIsSound, PTL

(* realloc always finds the size the program asked for.                    *)
THEOREM SizesStayIntact == Spec => []SizesIntact
<1>. HeapInv => SizesIntact
  BY DEF HeapInv
<1>. QED  BY HeapIsSound, PTL

(* Outside a reset the break never moves down, and every new pointer lies   *)
(* above it: an address is handed out once.                                *)
THEOREM AddressesHandedOutOnce == Spec => NeverReused
<1>. DEFINE Fresh == /\ brk' >= brk
                     /\ \A p \in DOMAIN live' \ DOMAIN live : SIZE_PTR(p) >= brk
<1>1. HeapInv /\ [Next]_vars => [Reset \/ Fresh]_vars
  <2>. SUFFICES ASSUME HeapInv, Next, ~Reset PROVE Fresh
    OBVIOUS
  <2>0. brk \in Nat
    BY MaxHeapAssumption DEF HeapInv, TypeOK
  <2>1. ASSUME NEW r, NEW n, Bumped(r, n), n \in Nat, HeapAfter(r),
               NEW kept \in SUBSET DOMAIN live, DOMAIN live' = kept \cup {r.ret}
        PROVE  Fresh
    BY <2>0, <2>1, MaxHeapAssumption DEF Bumped, Grown, HeapAfter, SIZE_PTR, SIZE_T_SIZE
  <2>2. ASSUME brk' = brk, DOMAIN live' \subseteq DOMAIN live PROVE Fresh
    BY <2>0, <2>2
  <2>3. ASSUME NEW n \in Sizes, Malloc(n) PROVE Fresh
    <3>1. n \in Nat /\ (Refused(mm_malloc(n)) \/ Bumped(mm_malloc(n), n))
      BY MallocBumps, HeapInvOK, ClientAssumption, SizesFitAssumption DEF SizesFit
    <3>2. CASE Refused(mm_malloc(n))
      BY <2>2, <2>3, <3>2 DEF Malloc, HeapAfter, Refused
    <3>3. CASE Bumped(mm_malloc(n), n)
      <4>. DEFINE r == mm_malloc(n)
      <4>1. r.ret # NULL /\ ~r.crash
        BY <2>0, <3>3 DEF Bumped, Grown, NULL, SIZE_T_SIZE
      <4>2. DOMAIN live' = DOMAIN live \cup {r.ret} /\ HeapAfter(r)
        BY <2>3, <4>1 DEF Malloc, Hold
      <4>. HIDE DEF r
      <4>. QED  BY <2>1, <3>1, <3>3, <4>2 DEF r
    <3>. QED  BY <3>1, <3>2, <3>3
  <2>4. ASSUME NEW k \in Counts, NEW n \in Sizes, Calloc(k, n) PROVE Fresh
    <3>1. k * n \in Nat /\ (Failed(mm_calloc(k, n)) \/ Bumped(mm_calloc(k, n), k * n))
      BY CallocBumps, HeapInvOK, ClientAssumption
    <3>2. CASE Failed(mm_calloc(k, n))
      BY <2>2, <2>4, <3>2 DEF Calloc, HeapAfter, Failed
    <3>3. CASE Bumped(mm_calloc(k, n), k * n)
      <4>. DEFINE r == mm_calloc(k, n)
      <4>1. r.ret # NULL /\ ~r.crash
        BY <2>0, <3>3 DEF Bumped, Grown, NULL, SIZE_T_SIZE
      <4>2. DOMAIN live' = DOMAIN live \cup {r.ret} /\ HeapAfter(r)
        BY <2>4, <4>1 DEF Calloc, Hold
      <4>. HIDE DEF r
      <4>. QED  BY <2>1, <3>1, <3>3, <4>2 DEF r
    <3>. QED  BY <3>1, <3>2, <3>3
  <2>5. ASSUME NEW p \in DOMAIN live, Free(p) PROVE Fresh
    BY <2>2, <2>5 DEF Free, HeapAfter, mm_free, Drop, Restrict
  <2>6. ASSUME NEW p \in DOMAIN live \cup {NULL}, NEW n \in Sizes \cup {0}, Realloc(p, n)
        PROVE  Fresh
    <3>. DEFINE r    == mm_realloc(p, n)
                kept == IF p = NULL THEN DOMAIN live ELSE DOMAIN live \ {p}
    <3>1. kept \in SUBSET DOMAIN live /\ n \in Nat
      BY ClientAssumption
    <3>2. DOMAIN (IF p = NULL THEN live ELSE Drop(live, p)) = kept
      BY DEF Drop, Restrict
    <3>3. CASE n = 0
      BY <2>2, <2>6, <3>1, <3>2, <3>3 DEF Realloc, HeapAfter, mm_realloc, mm_free
    <3>4. CASE n # 0
      <4>1. Refused(r) \/ Bumped(r, n)
        BY <3>4, ReallocOutcome
      <4>2. CASE Refused(r)
        BY <2>2, <2>6, <3>4, <4>2 DEF Realloc, HeapAfter, Refused
      <4>3. CASE Bumped(r, n)
        <5>1. r.ret # NULL /\ ~r.crash
          BY <2>0, <4>3 DEF Bumped, Grown, NULL, SIZE_T_SIZE
        <5>2. DOMAIN live' = kept \cup {r.ret} /\ HeapAfter(r)
          BY <2>6, <3>2, <3>4, <5>1 DEF Realloc, Hold
        <5>. HIDE DEF r, kept
        <5>. QED  BY <2>1, <3>1, <4>3, <5>2
      <4>. QED  BY <4>1, <4>2, <4>3
    <3>. QED  BY <3>3, <3>4
  <2>7. ASSUME NEW p \in DOMAIN live, NEW v \in Values, Write(p, v) PROVE Fresh
    BY <2>2, <2>7 DEF Write
  <2>. QED  BY <2>3, <2>4, <2>5, <2>6, <2>7 DEF Next
<1>. QED  BY <1>1, HeapIsSound, PTL DEF Spec, NeverReused

(* The only crash is calloc's, on the NULL of a full heap; a realloc never  *)
(* crashes.                                                                *)
THEOREM CrashIsACalloc == Spec => OnlyCallocCrashes
<1>. DEFINE FullHeap  == \E k \in Counts, n \in Sizes :
                           Calloc(k, n) /\ mm_malloc(k * n).ret = NULL
            Reallocs  == \A p \in DOMAIN live, n \in Sizes : Realloc(p, n) => ~crashed'
<1>1. HeapInv => Reallocs
  <2>. SUFFICES ASSUME HeapInv, NEW p \in DOMAIN live, NEW n \in Sizes, Realloc(p, n)
                PROVE  ~crashed'
    OBVIOUS
  <2>1. CASE n = 0
    BY <2>1 DEF Realloc, HeapAfter, mm_realloc, mm_free
  <2>2. CASE n # 0
    <3>1. Refused(mm_realloc(p, n)) \/ Bumped(mm_realloc(p, n), n)
      BY <2>2, ReallocOutcome
    <3>. QED  BY <3>1 DEF Realloc, HeapAfter, Refused, Bumped
  <2>. QED  BY <2>1, <2>2
<1>2. HeapInv /\ Next /\ crashed' => FullHeap
  <2>. SUFFICES ASSUME HeapInv, Next, crashed' PROVE FullHeap
    OBVIOUS
  <2>1. ASSUME NEW n \in Sizes, Malloc(n) PROVE FALSE
    <3>1. Refused(mm_malloc(n)) \/ Bumped(mm_malloc(n), n)
      BY MallocBumps, HeapInvOK, ClientAssumption, SizesFitAssumption DEF SizesFit
    <3>2. ~mm_malloc(n).crash
      BY <3>1 DEF Refused, Bumped
    <3>3. crashed' = mm_malloc(n).crash
      BY <2>1 DEF Malloc, HeapAfter
    <3>. QED  BY <3>2, <3>3
  <2>2. ASSUME NEW k \in Counts, NEW n \in Sizes, Calloc(k, n) PROVE FullHeap
    <3>1. \/ Refused(mm_malloc(k * n))
          \/ Bumped(mm_calloc(k, n), k * n)
      BY CallocBumps, HeapInvOK
    <3>2. CASE Refused(mm_malloc(k * n))
      <4>1. mm_malloc(k * n).ret = NULL
        BY <3>2 DEF Refused
      <4>. QED  BY <2>2, <4>1
    <3>3. CASE Bumped(mm_calloc(k, n), k * n)
      <4>1. ~mm_calloc(k, n).crash
        BY <3>3 DEF Bumped
      <4>2. crashed' = mm_calloc(k, n).crash
        BY <2>2 DEF Calloc, HeapAfter
      <4>. QED  BY <4>1, <4>2
    <3>. QED  BY <3>1, <3>2, <3>3
  <2>3. ASSUME NEW p \in DOMAIN live, Free(p) PROVE FALSE
    BY <2>3 DEF Free, HeapAfter, mm_free
  <2>4. ASSUME NEW p \in DOMAIN live \cup {NULL}, NEW n \in Sizes \cup {0}, Realloc(p, n)
        PROVE  FALSE
    <3>1. CASE n = 0
      BY <2>4, <3>1 DEF Realloc, HeapAfter, mm_realloc, mm_free
    <3>2. CASE n # 0
      <4>1. Refused(mm_realloc(p, n)) \/ Bumped(mm_realloc(p, n), n)
        BY <3>2, ReallocOutcome
      <4>2. ~mm_realloc(p, n).crash
        BY <4>1 DEF Refused, Bumped
      <4>3. crashed' = mm_realloc(p, n).crash
        BY <2>4 DEF Realloc, HeapAfter
      <4>. QED  BY <4>2, <4>3
    <3>. QED  BY <3>1, <3>2
  <2>5. ASSUME NEW p \in DOMAIN live, NEW v \in Values, Write(p, v) PROVE FALSE
    <3>1. p \in Nat /\ live[p] \in Nat /\ p + live[p] <= brk /\ brk <= MAX_HEAP
      BY MaxHeapAssumption
      DEF HeapInv, TypeOK, BlocksInHeap, SIZE_PTR, SIZE_T_SIZE, mem_heap_hi
    <3>2. Mapped(p, live[p])
      BY <3>1, MaxHeapAssumption DEF HeapInv, TypeOK, Mapped
    <3>. QED  BY <2>5, <3>2 DEF Write
  <2>6. CASE Reset
    BY <2>6 DEF Next, Reset
  <2>. QED  BY <2>1, <2>2, <2>3, <2>4, <2>5, <2>6 DEF Next
<1>3. HeapInv /\ [Next]_vars => [(crashed' => FullHeap) /\ Reallocs]_vars
  BY <1>1, <1>2
<1>. QED  BY <1>3, HeapIsSound, PTL DEF Spec, OnlyCallocCrashes
-----------------------------------------------------------------------------
(* The refinement: every step of a legal program over mm.c is a step of    *)
(* the abstract allocator, or leaves its blocks alone.                     *)

(* The refinement mapping: the bytes of the blocks held, as the heap has    *)
(* them.                                                                   *)
Bytes(held, m) == [p \in DOMAIN held |-> [i \in 0 .. held[p] - 1 |-> m[p + i]]]

(* A step that only drops blocks leaves the others' bytes as they were.     *)
LEMMA KeptBytes ==
  ASSUME NEW kept \in SUBSET DOMAIN live, live' = [q \in kept |-> live[q]], mem' = mem
  PROVE  Bytes(live', mem') = [q \in kept |-> Bytes(live, mem)[q]]
  BY DEF Bytes

(* A bump beside the blocks kept is what AllocatorSpec asks of a new block: *)
(* aligned, none of the others, disjoint from them all, their sizes and    *)
(* bytes as before.                                                        *)
LEMMA GrowFits ==
  ASSUME HeapInv, NEW kept \in SUBSET DOMAIN live, NEW n \in Nat, NEW p,
         Grown(p, brk', mem', n),
         live' = [q \in kept \cup {p} |-> IF q = p THEN n ELSE live[q]]
  PROVE  /\ p \in 0 .. MAX_HEAP
         /\ Abstract!Fits(p, n, kept)
         /\ Abstract!KeepsAnd(kept, p, n)
         /\ DOMAIN live' = kept \cup {p} /\ live'[p] = n
<1>1. /\ brk \in Nat /\ brk % 8 = 0 /\ p = brk + 8 /\ MAX_HEAP \in Nat
      /\ brk' \in Nat /\ brk' <= MAX_HEAP /\ brk + 8 + n <= brk'
  BY MaxHeapAssumption
  DEF HeapInv, TypeOK, BlocksAligned, Grown, ALIGNMENT, SIZE_T_SIZE
<1>2. ASSUME NEW q \in DOMAIN live
      PROVE  q \in Nat /\ live[q] \in Nat /\ q + live[q] <= brk /\ q <= brk
  <2>1. q \in Nat /\ live[q] \in Nat /\ q + live[q] <= brk
    BY <1>1, MaxHeapAssumption DEF HeapInv, TypeOK, BlocksInHeap, mem_heap_hi
  <2>. QED  BY <1>1, <2>1
<1>3. p \in 0 .. MAX_HEAP
  BY <1>1
<1>4. DOMAIN live' = kept \cup {p} /\ live'[p] = n /\ \A q \in kept : live'[q] = live[q]
  BY <1>1, <1>2
<1>5. Abstract!Fits(p, n, kept)
  <2>1. p % ALIGNMENT = 0
    BY <1>1 DEF ALIGNMENT
  <2>2. p \notin kept
    BY <1>1, <1>2
  <2>3. ASSUME NEW q \in kept
        PROVE  Abstract!Payload(p, n) \cap Abstract!Payload(q, live[q]) = {}
    <3>1. q \in Nat /\ live[q] \in Nat /\ q + live[q] <= brk
      BY <1>2
    <3>. QED  BY <1>1, <3>1 DEF Abstract!Payload
  <2>. QED  BY <2>1, <2>2, <2>3 DEF Abstract!Fits
<1>6. Abstract!KeepsAnd(kept, p, n)
  <2>1. DOMAIN Bytes(live', mem') = kept \cup {p}
    BY <1>4 DEF Bytes
  <2>2. DOMAIN Bytes(live', mem')[p] = 0 .. n - 1
    BY <1>4 DEF Bytes
  <2>3. ASSUME NEW q \in kept PROVE Bytes(live', mem')[q] = Bytes(live, mem)[q]
    <3>1. q \in DOMAIN live /\ live'[q] = live[q]
      BY <1>4
    <3>2. ASSUME NEW i \in 0 .. live[q] - 1 PROVE mem'[q + i] = mem[q + i]
      <4>1. q \in Nat /\ live[q] \in Nat /\ i \in Nat /\ i < live[q] /\ q + live[q] <= brk
        BY <1>2
      <4>2. q + i < brk
        BY <1>1, <4>1
      <4>3. brk <= MAX_HEAP
        BY <1>1
      <4>4. q + i \in Addresses
        BY <1>1, <4>1, <4>2, <4>3 DEF Addresses
      <4>. QED  BY <4>2, <4>4 DEF Grown
    <3>. QED  BY <3>1, <3>2, <1>4 DEF Bytes
  <2>. QED  BY <2>1, <2>2, <2>3 DEF Abstract!KeepsAnd, Bytes
<1>. QED  BY <1>3, <1>4, <1>5, <1>6

(* A request that is refused, or that crashes, leaves the blocks as they    *)
(* were, and so does every step that changes neither live nor mem.         *)
LEMMA Stutters ==
  ASSUME live' = live, mem' = mem
  PROVE  UNCHANGED Abstract!avars
  BY DEF Abstract!avars

LEMMA MallocImplements ==
  ASSUME HeapInv, NEW n \in Sizes, Malloc(n)
  PROVE  [Abstract!ANext]_(Abstract!avars)
<1>. DEFINE r == mm_malloc(n)
<1>1. n \in Nat /\ (Refused(r) \/ Bumped(r, n))
  BY MallocBumps, HeapInvOK, ClientAssumption, SizesFitAssumption DEF SizesFit
<1>2. CASE Refused(r)
  BY <1>2, Stutters DEF Malloc, HeapAfter, Refused
<1>3. CASE Bumped(r, n)
  <2>0. PICK p, all : p = r.ret /\ all = DOMAIN live
    OBVIOUS
  <2>1. Grown(p, brk', mem', n)
    BY <1>3, <2>0 DEF Malloc, HeapAfter, Bumped
  <2>2. p # NULL /\ ~r.crash
    BY <1>3, <2>0 DEF HeapInv, TypeOK, Bumped, Grown, NULL, SIZE_T_SIZE
  <2>3. live' = [q \in all \cup {p} |-> IF q = p THEN n ELSE live[q]]
    BY <2>0, <2>2 DEF Malloc, Hold
  <2>4. p \in 0 .. MAX_HEAP /\ Abstract!Fits(p, n, all)
        /\ Abstract!KeepsAnd(all, p, n)
    BY <1>1, <2>1, <2>3, <2>0, GrowFits
  <2>5. Abstract!AMalloc(n)
    BY <2>0, <2>4 DEF Abstract!AMalloc, Abstract!live
  <2>. QED  BY <2>5 DEF Abstract!ANext
<1>. QED  BY <1>1, <1>2, <1>3

LEMMA CallocImplements ==
  ASSUME HeapInv, NEW k \in Counts, NEW n \in Sizes, Calloc(k, n)
  PROVE  [Abstract!ANext]_(Abstract!avars)
<1>. DEFINE r     == mm_calloc(k, n)
            bytes == k * n
<1>1. bytes \in Nat /\ (Failed(r) \/ (Bumped(r, bytes) /\ Zeroed(r, bytes)))
  BY CallocBumps, HeapInvOK, ClientAssumption
<1>2. CASE Failed(r)
  BY <1>2, Stutters DEF Calloc, HeapAfter, Failed
<1>3. CASE Bumped(r, bytes) /\ Zeroed(r, bytes)
  <2>0. PICK p, all : p = r.ret /\ all = DOMAIN live
    OBVIOUS
  <2>1. Grown(p, brk', mem', bytes)
    BY <1>3, <2>0 DEF Calloc, HeapAfter, Bumped
  <2>2. p # NULL /\ ~r.crash
    BY <1>3, <2>0 DEF HeapInv, TypeOK, Bumped, Grown, NULL, SIZE_T_SIZE
  <2>3. live' = [q \in all \cup {p} |-> IF q = p THEN bytes ELSE live[q]]
    BY <2>0, <2>2 DEF Calloc, Hold
  <2>4. \A i \in 0 .. bytes - 1 : mem'[p + i] = 0
    BY <1>3, <2>0 DEF Calloc, HeapAfter, Zeroed
  <2>5. bytes \in {j * m : j \in Counts, m \in Sizes}
    OBVIOUS
  <2>. HIDE DEF bytes
  <2>6. /\ p \in 0 .. MAX_HEAP /\ Abstract!Fits(p, bytes, all)
        /\ Abstract!KeepsAnd(all, p, bytes)
        /\ p \in DOMAIN live' /\ live'[p] = bytes
    BY <1>1, <2>1, <2>3, <2>0, GrowFits
  <2>7. \A i \in 0 .. bytes - 1 : Bytes(live', mem')[p][i] = 0
    BY <2>4, <2>6 DEF Bytes
  <2>8. Abstract!ACalloc(bytes)
    BY <2>0, <2>6, <2>7 DEF Abstract!ACalloc, Abstract!live, Bytes
  <2>. QED  BY <2>5, <2>8 DEF Abstract!ANext
<1>. QED  BY <1>1, <1>2, <1>3

(* free, and the realloc to 0 bytes, of a block held. *)
LEMMA DropImplements ==
  ASSUME NEW p \in DOMAIN live, live' = Drop(live, p), mem' = mem
  PROVE  Abstract!ANext
<1>1. live' = [q \in DOMAIN live \ {p} |-> live[q]]
  BY DEF Drop, Restrict
<1>2. Bytes(live', mem') = [q \in DOMAIN live \ {p} |-> Bytes(live, mem)[q]]
  BY <1>1, KeptBytes
<1>3. Abstract!AFree(p)
  BY <1>1, <1>2 DEF Abstract!AFree, Abstract!live, Bytes
<1>. QED  BY <1>3 DEF Abstract!ANext, Abstract!live

LEMMA ReallocImplements ==
  ASSUME HeapInv, NEW p \in DOMAIN live \cup {NULL}, NEW n \in Sizes \cup {0}, Realloc(p, n)
  PROVE  [Abstract!ANext]_(Abstract!avars)
<1>. DEFINE r == mm_realloc(p, n)
<1>1. n \in Nat /\ (n # 0 => n \in Sizes) /\ (p \in DOMAIN live <=> p # NULL)
  BY ClientAssumption DEF HeapInv, TypeOK, NULL
<1>2. CASE n = 0
  <2>1. mem' = mem
    BY <1>2 DEF Realloc, HeapAfter, mm_realloc, mm_free
  <2>2. CASE p = NULL
    BY <1>2, <2>1, <2>2, Stutters DEF Realloc
  <2>3. CASE p # NULL
    <3>1. live' = Drop(live, p)
      BY <1>2, <2>3 DEF Realloc
    <3>. QED  BY <1>1, <2>1, <2>3, <3>1, DropImplements
  <2>. QED  BY <2>2, <2>3
<1>3. CASE n # 0 /\ Refused(r)
  BY <1>3, Stutters DEF Realloc, HeapAfter, Refused
<1>4. CASE n # 0 /\ Bumped(r, n)
  <2>0. PICK b, kept : b = r.ret /\ kept = DOMAIN live \ {p}
    OBVIOUS
  <2>1. Grown(b, brk', mem', n)
    BY <1>4, <2>0 DEF Realloc, HeapAfter, Bumped
  <2>2. b # NULL /\ ~r.crash
    BY <1>4, <2>0 DEF HeapInv, TypeOK, Bumped, Grown, NULL, SIZE_T_SIZE
  <2>3. live' = [q \in kept \cup {b} |-> IF q = b THEN n ELSE live[q]]
    <3>1. (IF p = NULL THEN live ELSE Drop(live, p)) = [q \in kept |-> live[q]]
      BY <1>1, <2>0 DEF HeapInv, TypeOK, Drop, Restrict
    <3>2. live' = Hold([q \in kept |-> live[q]], b, n)
      BY <1>4, <2>0, <2>2, <3>1 DEF Realloc
    <3>. QED  BY <3>2 DEF Hold
  <2>4. /\ b \in 0 .. MAX_HEAP /\ Abstract!Fits(b, n, kept) /\ Abstract!KeepsAnd(kept, b, n)
        /\ b \in DOMAIN live' /\ live'[b] = n
    BY <1>1, <2>0, <2>1, <2>3, GrowFits
  <2>5. CASE p = NULL
    <3>1. kept = DOMAIN live
      BY <1>1, <2>0, <2>5
    <3>2. Abstract!AMalloc(n)
      BY <2>4, <3>1 DEF Abstract!AMalloc, Abstract!live
    <3>. QED  BY <1>1, <1>4, <3>2 DEF Abstract!ANext
  <2>6. CASE p # NULL
    <3>1. p \in DOMAIN live /\ n \in Sizes
      BY <1>1, <1>4, <2>6
    <3>2. Copied(r, p, n)
      <4>1. Refused(r) \/ (Bumped(r, n) /\ Copied(r, p, n))
        BY <1>4, <3>1, ReallocBumps
      <4>2. ~Refused(r)
        BY <2>0, <2>2 DEF Refused
      <4>. QED  BY <4>1, <4>2
    <3>3. \A i \in 0 .. n - 1 : i < live[p] => mem'[b + i] = mem[p + i]
      BY <2>0, <3>2 DEF Realloc, HeapAfter, Copied
    <3>4. ASSUME NEW i \in 0 .. n - 1, i < live[p]
          PROVE  Bytes(live', mem')[b][i] = Bytes(live, mem)[p][i]
      <4>1. live[p] \in Nat /\ i \in 0 .. live[p] - 1
        BY <1>1, <3>1, <3>4 DEF HeapInv, TypeOK
      <4>. QED  BY <2>4, <3>1, <3>3, <3>4, <4>1 DEF Bytes
    <3>5. Abstract!ARealloc(p, n)
      BY <2>0, <2>4, <3>1, <3>4 DEF Abstract!ARealloc, Abstract!live, Bytes
    <3>. QED  BY <3>1, <3>5 DEF Abstract!ANext, Abstract!live
  <2>. QED  BY <2>5, <2>6
<1>. QED  BY <1>2, <1>3, <1>4, ReallocOutcome

(* A program's write changes the bytes of its own block only. *)
LEMMA WriteImplements ==
  ASSUME HeapInv, NEW p \in DOMAIN live, NEW v \in Values, Write(p, v)
  PROVE  Abstract!ANext
<1>1. ASSUME NEW q \in DOMAIN live, q # p PROVE Bytes(live', mem')[q] = Bytes(live, mem)[q]
  <2>1. /\ p \in Nat /\ q \in Nat /\ live[p] \in Nat /\ live[q] \in Nat
        /\ q + live[q] <= brk /\ brk <= MAX_HEAP /\ brk \in Nat
    BY <1>1, MaxHeapAssumption DEF HeapInv, TypeOK, BlocksInHeap, mem_heap_hi
  <2>2. p + live[p] <= q - 8 \/ q + live[q] <= p - 8
    BY <1>1 DEF HeapInv, BlocksDisjoint, SIZE_PTR, SIZE_T_SIZE
  <2>3. ASSUME NEW i \in 0 .. live[q] - 1 PROVE mem'[q + i] = mem[q + i]
    <3>1. i \in Nat /\ i < live[q]
      BY <2>1
    <3>2. ~(p <= q + i /\ q + i < p + live[p])
      BY <2>1, <2>2, <3>1
    <3>3. q + i \in Addresses
      <4>1. q + i < brk
        BY <2>1, <3>1
      <4>. QED  BY <2>1, <3>1, <4>1, MaxHeapAssumption DEF Addresses
    <3>. QED  BY <3>2, <3>3 DEF Write, MemSet, HeapInv, TypeOK
  <2>. QED  BY <2>3 DEF Bytes, Write
<1>2. DOMAIN Bytes(live', mem') = DOMAIN live /\ DOMAIN Bytes(live', mem')[p] = 0 .. live[p] - 1
  BY DEF Bytes, Write
<1>3. live' = live
  BY DEF Write
<1>4. Abstract!AWrite(p)
  BY <1>1, <1>2, <1>3 DEF Abstract!AWrite, Abstract!live, Bytes
<1>. QED  BY <1>4 DEF Abstract!ANext, Abstract!live

(* For every heap size, every set of request sizes that fit and every legal *)
(* program: mm.c hands out aligned blocks that lie apart, calloc's are     *)
(* zero, realloc keeps the bytes both sizes have, nothing but the program  *)
(* itself changes a block's bytes, and a call that fails changes nothing.  *)
THEOREM MMallocImplementsAllocator == Spec => ImplementsAllocator
<1>1. Init => Abstract!AInit
  <2>. SUFFICES ASSUME Init PROVE Abstract!AInit
    OBVIOUS
  <2>1. live = << >> /\ Bytes(live, mem) = << >>
    BY DEF Init, Bytes
  <2>. QED  BY <2>1 DEF Abstract!AInit, Bytes
<1>2. HeapInv /\ [Next]_vars => [Abstract!ANext]_(Abstract!avars)
  <2>. SUFFICES ASSUME HeapInv, [Next]_vars PROVE [Abstract!ANext]_(Abstract!avars)
    OBVIOUS
  <2>1. ASSUME NEW p \in DOMAIN live, Free(p) PROVE Abstract!ANext
    BY <2>1, DropImplements DEF Free, HeapAfter, mm_free
  <2>2. CASE Reset
    <3>1. live' = << >> /\ Bytes(live', mem') = << >>
      BY <2>2 DEF Reset, Bytes
    <3>2. Abstract!AReset
      BY <3>1 DEF Abstract!AReset, Bytes
    <3>. QED  BY <3>2 DEF Abstract!ANext
  <2>3. CASE UNCHANGED vars
    BY <2>3, Stutters DEF vars
  <2>. QED  BY <2>1, <2>2, <2>3, MallocImplements, CallocImplements, ReallocImplements,
               WriteImplements DEF Next
<1>. QED  BY <1>1, <1>2, HeapIsSound, PTL DEF Spec, ImplementsAllocator, Abstract!ASpec
=============================================================================
