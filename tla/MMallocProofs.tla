--------------------------- MODULE MMallocProofs ----------------------------
(***************************************************************************)
(* What the calls of mm.c do to the heap they find, whoever makes them: a  *)
(* call refuses and changes nothing, or bumps the break.                   *)
(***************************************************************************)
EXTENDS MMalloc, TLAPS

(* A heap as mm.c leaves it. *)
HeapOK == /\ brk \in 0 .. MAX_HEAP /\ brk % ALIGNMENT = 0
          /\ mem \in [Addresses -> Nat]

(* ALIGN and the conversion to int keep a small size's room: the block mm.c *)
(* asks sbrk for holds the size word and the bytes, in whole words.         *)
LEMMA NewSizeRoom ==
  ASSUME NEW n \in Nat,
         Fits(n)
  PROVE  /\ NewSize(n) \in Nat
         /\ NewSize(n) >= SIZE_T_SIZE + n
         /\ NewSize(n) % ALIGNMENT = 0
<1>1. (n + 8) % SizeModulus = n + 8
  BY WidthAssumption DEF Fits, SIZE_T_SIZE, ALIGNMENT
<1>2. (n + 15) % SizeModulus = n + 15
  BY WidthAssumption DEF Fits, SIZE_T_SIZE, ALIGNMENT
<1>. DEFINE a == (n + 15) - ((n + 15) % 8)
<1>3. ALIGN((n + SIZE_T_SIZE) % SizeModulus) = a
  BY <1>1, <1>2 DEF ALIGN, SIZE_T_SIZE, ALIGNMENT
<1>4. a \in Nat /\ a >= n + 8 /\ a <= n + 15 /\ a % 8 = 0
  OBVIOUS
<1>5. a % IntModulus = a
  BY <1>4, WidthAssumption DEF Fits, SIZE_T_SIZE, ALIGNMENT
<1>6. ToInt(a) = a
  BY <1>4, <1>5, WidthAssumption DEF Fits, ToInt, SIZE_T_SIZE, ALIGNMENT
<1>. QED  BY <1>3, <1>4, <1>6 DEF NewSize, SIZE_T_SIZE, ALIGNMENT

(* memset and memcpy change the bytes they are told to and keep the heap a  *)
(* heap.                                                                   *)
LEMMA MemSetBytes ==
  ASSUME NEW m \in [Addresses -> Nat], NEW lo \in Nat, NEW n \in Nat, NEW v \in Nat
  PROVE  /\ MemSet(m, lo, n, v) \in [Addresses -> Nat]
         /\ \A a \in Addresses : a < lo => MemSet(m, lo, n, v)[a] = m[a]
         /\ \A a \in Addresses : a >= lo + n => MemSet(m, lo, n, v)[a] = m[a]
  BY MaxHeapAssumption DEF MemSet, Addresses

LEMMA MemCpyBytes ==
  ASSUME NEW m \in [Addresses -> Nat], NEW dst \in Nat, NEW src \in Nat, NEW n \in Nat,
         src + n <= MAX_HEAP
  PROVE  /\ MemCpy(m, dst, src, n) \in [Addresses -> Nat]
         /\ \A a \in Addresses : a < dst => MemCpy(m, dst, src, n)[a] = m[a]
<1>1. ASSUME NEW a \in Addresses, dst <= a, a < dst + n
      PROVE  m[src + (a - dst)] \in Nat
  <2>1. src + (a - dst) \in Addresses
    BY <1>1, MaxHeapAssumption DEF Addresses
  <2>. QED  BY <2>1
<1>. QED  BY <1>1, MaxHeapAssumption DEF MemCpy, Addresses

(* What a bump of the break leaves: pointer p, break b and bytes m, with a  *)
(* size word at the old break, room for n bytes, and nothing below changed. *)
Grown(p, b, m, n) == /\ p = brk + SIZE_T_SIZE
                     /\ b \in 0 .. MAX_HEAP
                     /\ b % ALIGNMENT = 0
                     /\ b >= brk + SIZE_T_SIZE + n
                     /\ m \in [Addresses -> Nat]
                     /\ m[brk] = n
                     /\ \A a \in Addresses : a < brk => m[a] = mem[a]

Bumped(r, n) == Grown(r.ret, r.brk, r.mem, n) /\ r.crash = FALSE

Refused(r) == r = [ret |-> NULL, brk |-> brk, mem |-> mem, crash |-> FALSE]

(* mm_malloc either refuses and changes nothing, or bumps the break: it     *)
(* never crashes, and never writes below the old break.                    *)
LEMMA MallocBumps ==
  ASSUME HeapOK, NEW n \in Nat,
         Fits(n)
  PROVE  Refused(mm_malloc(n)) \/ Bumped(mm_malloc(n), n)
<1>. DEFINE s == NewSize(n)
<1>1. s \in Nat /\ s >= SIZE_T_SIZE + n /\ s % ALIGNMENT = 0
  BY NewSizeRoom
<1>2. CASE brk + s > MAX_HEAP
  BY <1>1, <1>2 DEF Refused, mm_malloc, mem_sbrk
<1>3. CASE brk + s <= MAX_HEAP
  <2>. HIDE DEF s
  <2>1. brk \in Nat /\ brk % 8 = 0 /\ MAX_HEAP \in Nat
    BY MaxHeapAssumption DEF HeapOK, ALIGNMENT
  <2>2. brk \in Addresses /\ Mapped(brk, SIZE_T_SIZE)
    BY <1>1, <1>3, <2>1 DEF Addresses, Mapped, SIZE_T_SIZE
  <2>3. mm_malloc(n) = [ret   |-> brk + SIZE_T_SIZE,
                        brk   |-> brk + s,
                        mem   |-> StoreSize(mem, brk, n),
                        crash |-> ~Mapped(brk, SIZE_T_SIZE)]
    BY <1>1, <1>3, <2>1 DEF s, mm_malloc, mem_sbrk, SBRK_ERROR, SIZE_T_SIZE
  <2>4. /\ mm_malloc(n).ret = brk + SIZE_T_SIZE
        /\ mm_malloc(n).brk = brk + s
        /\ mm_malloc(n).mem = StoreSize(mem, brk, n)
        /\ mm_malloc(n).crash = FALSE
    <3>1. (~Mapped(brk, SIZE_T_SIZE)) = FALSE
      BY <2>2
    <3>. HIDE DEF s
    <3>2. mm_malloc(n) = [ret   |-> brk + SIZE_T_SIZE,
                          brk   |-> brk + s,
                          mem   |-> StoreSize(mem, brk, n),
                          crash |-> FALSE]
      BY <2>3, <3>1, Zenon
    <3>. QED  BY <3>2
  <2>5. brk + s \in 0 .. MAX_HEAP /\ (brk + s) % ALIGNMENT = 0
    BY <1>1, <1>3, <2>1 DEF ALIGNMENT, SIZE_T_SIZE
  <2>6. /\ MemSet(mem, brk, SIZE_T_SIZE, 0) \in [Addresses -> Nat]
        /\ \A a \in Addresses :
             a < brk => MemSet(mem, brk, SIZE_T_SIZE, 0)[a] = mem[a]
    BY <2>1 DEF HeapOK, MemSet, SIZE_T_SIZE, Addresses
  <2>7. /\ StoreSize(mem, brk, n) \in [Addresses -> Nat]
        /\ StoreSize(mem, brk, n)[brk] = n
        /\ \A a \in Addresses : a < brk => StoreSize(mem, brk, n)[a] = mem[a]
    BY <2>1, <2>2, <2>6 DEF StoreSize, Addresses
  <2>. QED  BY <1>1, <2>1, <2>4, <2>5, <2>7 DEF Bumped, Grown, SIZE_T_SIZE
<1>. QED  BY <1>1, <1>2, <1>3, MaxHeapAssumption DEF HeapOK

(* Writing into the block only, as memset and memcpy then do, disturbs      *)
(* nothing a bump left.                                                    *)
LEMMA GrownAfterWrite ==
  ASSUME HeapOK, NEW n \in Nat, NEW p, NEW b, NEW m, Grown(p, b, m, n),
         NEW w \in [Addresses -> Nat],
         \A a \in Addresses : a < p => w[a] = m[a]
  PROVE  Grown(p, b, w, n)
<1>1. brk \in Nat /\ p = brk + 8 /\ b \in Nat /\ b <= MAX_HEAP /\ b >= brk + 8 + n
  BY DEF HeapOK, Grown, SIZE_T_SIZE
<1>2. brk \in Addresses /\ brk < p
  BY <1>1, MaxHeapAssumption DEF Addresses
<1>3. w[brk] = n
  BY <1>2 DEF Grown
<1>4. ASSUME NEW a \in Addresses, a < brk PROVE w[a] = mem[a]
  BY <1>1, <1>4 DEF Grown, Addresses
<1>. QED  BY <1>3, <1>4 DEF Grown

(* realloc of a block of old bytes, whose size word still says so, copies   *)
(* them as far as both blocks go and leaves both blocks' bounds.           *)
LEMMA MovedBumps ==
  ASSUME HeapOK, NEW p \in Nat, NEW old \in Nat, p >= SIZE_T_SIZE, p + old <= brk,
         mem[SIZE_PTR(p)] = old, NEW n \in Nat \ {0}, Fits(n)
  PROVE  \/ Refused(mm_realloc(p, n))
         \/ /\ Bumped(mm_realloc(p, n), n)
            /\ \A i \in 0 .. n - 1 :
                 i < old => mm_realloc(p, n).mem[mm_realloc(p, n).ret + i] = mem[p + i]
<1>. DEFINE new     == mm_malloc(n)
            oldsize == new.mem[SIZE_PTR(p)]
            len     == IF n < oldsize THEN n ELSE oldsize
<1>1. n \in Nat /\ (Refused(new) \/ Bumped(new, n))
  BY MallocBumps
<1>2. /\ p \in Nat /\ p >= 8 /\ old \in Nat /\ p + old <= brk
      /\ brk \in Nat /\ mem[p - 8] = old /\ p # NULL /\ n \in Nat
  BY MaxHeapAssumption DEF HeapOK, SIZE_PTR, SIZE_T_SIZE, NULL
<1>3. mm_realloc(p, n) = IF new.ret = NULL \/ new.crash THEN new
                         ELSE IF ~Mapped(new.ret, len) THEN [new EXCEPT !.crash = TRUE]
                         ELSE [new EXCEPT !.mem = MemCpy(new.mem, new.ret, p, len)]
  BY <1>2 DEF mm_realloc
<1>4. CASE Refused(new)
  BY <1>3, <1>4 DEF Refused
<1>5. CASE Bumped(new, n)
  <2>1. /\ new.ret = brk + 8 /\ new.ret \in Nat /\ new.ret # NULL /\ ~new.crash
        /\ new.ret + n <= MAX_HEAP /\ new.mem \in [Addresses -> Nat] /\ MAX_HEAP \in Nat
        /\ \A a \in Addresses : a < brk => new.mem[a] = mem[a]
    BY <1>2, <1>5, MaxHeapAssumption DEF Bumped, Grown, SIZE_T_SIZE, NULL
  <2>2. oldsize = old
    <3>1. p - 8 \in Addresses /\ p - 8 < brk
      <4>1. old >= 0 /\ p <= brk /\ brk <= MAX_HEAP
        BY <1>2, <2>1
      <4>. QED  BY <1>2, <2>1, <4>1 DEF Addresses
    <3>2. new.mem[p - 8] = mem[p - 8]
      BY <2>1, <3>1
    <3>. QED  BY <1>2, <3>2 DEF SIZE_PTR, SIZE_T_SIZE
  <2>. HIDE DEF new, oldsize
  <2>3. len \in Nat /\ len <= n /\ len <= old
    BY <1>2, <2>2
  <2>. HIDE DEF len
  <2>4. Mapped(new.ret, len)
    BY <1>2, <2>1, <2>3 DEF Mapped
  <2>. DEFINE copied == MemCpy(new.mem, new.ret, p, len)
  <2>5. /\ copied \in [Addresses -> Nat]
        /\ \A a \in Addresses : a < new.ret => copied[a] = new.mem[a]
    <3>1. /\ new.mem \in [Addresses -> Nat] /\ new.ret \in Nat
          /\ p \in Nat /\ len \in Nat /\ p + len <= MAX_HEAP
      BY <1>2, <2>1, <2>3
    <3>2. copied \in [Addresses -> Nat]
      BY <3>1, MemCpyBytes
    <3>3. \A a \in Addresses : a < new.ret => copied[a] = new.mem[a]
      BY <3>1, MemCpyBytes
    <3>. QED  BY <3>2, <3>3
  <2>6. Grown(new.ret, new.brk, copied, n)
    BY <1>2, <1>5, <2>5, GrownAfterWrite DEF Bumped
  <2>7. mm_realloc(p, n) = [new EXCEPT !.mem = copied]
    BY <1>3, <2>1, <2>4
  <2>8. Bumped([new EXCEPT !.mem = copied], n)
    BY <1>5, <2>6 DEF Bumped, new, mm_malloc
  <2>9. ASSUME NEW i \in 0 .. n - 1, i < old PROVE copied[new.ret + i] = mem[p + i]
    <3>1. i < len
      BY <1>2, <2>2, <2>9 DEF len
    <3>2. /\ new.ret + i \in Addresses /\ new.ret <= new.ret + i
          /\ new.ret + i < new.ret + len /\ p + ((new.ret + i) - new.ret) = p + i
      BY <1>2, <2>1, <2>3, <3>1 DEF Addresses
    <3>3. copied[new.ret + i] = new.mem[p + i]
      BY <2>1, <3>2 DEF MemCpy
    <3>4. p + i \in Addresses /\ p + i < brk
      <4>1. /\ i \in Nat /\ p \in Nat /\ old \in Nat /\ brk \in Nat
            /\ i < old /\ p + old <= brk
        BY <1>2, <2>9
      <4>2. brk <= MAX_HEAP /\ MAX_HEAP \in Nat
        BY <1>2, <2>1
      <4>3. p + i < brk
        BY <4>1
      <4>. QED  BY <4>1, <4>2, <4>3 DEF Addresses
    <3>. QED  BY <2>1, <3>3, <3>4
  <2>10. /\ [new EXCEPT !.mem = copied].mem = copied
         /\ [new EXCEPT !.mem = copied].ret = new.ret
    BY DEF new, mm_malloc
  <2>. QED  BY <2>7, <2>8, <2>9, <2>10
<1>. QED  BY <1>1, <1>4, <1>5
=============================================================================
