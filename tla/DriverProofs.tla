---------------------------- MODULE DriverProofs ----------------------------
(***************************************************************************)
(* mdriver replaying a trace, for every set of traces, every heap size and *)
(* every width of the integers: what its checks are worth against any      *)
(* package; and of mm.c, what the driver keeps of the blocks a trace       *)
(* holds, that its checks never accuse it, and that it never refuses in a  *)
(* later pass what it accepted.                                            *)
(***************************************************************************)
EXTENDS DriverMM, DriverAny, MMallocProofs, SequenceTheorems, FiniteSetTheorems,
        WellFoundedInduction

USE MaxHeapAssumption, WidthAssumption

Extent == [lo : Int, hi : Int, index : Int]
-----------------------------------------------------------------------------
(* remove_range takes out one element, or none.                            *)

LEMMA LeastExists ==
  ASSUME NEW I, I \subseteq Nat, I # {}
  PROVE  Min(I) \in I
<1> DEFINE R == OpToRel(<, Nat)
<1>1. IsWellFoundedOn(R, Nat)  BY NatLessThanWellFounded
<1>2. \A x, y \in Nat : y < x => <<y, x>> \in R  BY DEF OpToRel
<1> HIDE DEF R
<1>3. PICK x \in I : \A y \in I : ~(<<y, x>> \in R)
  BY <1>1, WFMin
<1>4. ASSUME NEW y \in I PROVE x <= y
  <2>1. x \in Nat /\ y \in Nat  OBVIOUS
  <2>2. ~(y < x)  BY <1>2, <1>3, <2>1
  <2> QED  BY <2>1, <2>2
<1> QED  BY <1>4 DEF Min

LEMMA RemoveAtElements ==
  ASSUME NEW s \in Seq(Extent), NEW k \in 1 .. Len(s)
  PROVE  /\ RemoveAt(s, k) \in Seq(Extent)
         /\ Len(RemoveAt(s, k)) = Len(s) - 1
         /\ \A j \in 1 .. Len(s) - 1 : RemoveAt(s, k)[j] = IF j < k THEN s[j] ELSE s[j + 1]
<1> DEFINE a == SubSeq(s, 1, k - 1)
           b == SubSeq(s, k + 1, Len(s))
<1>0. Len(s) \in Nat  BY LenProperties
<1>1. Len(s) \in Nat /\ \A j \in 1 .. Len(s) : s[j] \in Extent
  BY LenProperties, ElementOfSeq
<1>2. /\ a \in Seq(Extent) /\ Len(a) = k - 1
      /\ \A j \in 1 .. k - 1 : a[j] = s[j]
  BY <1>1, SubSeqProperties
<1>3. /\ b \in Seq(Extent) /\ Len(b) = Len(s) - k
      /\ \A j \in 1 .. Len(s) - k : b[j] = s[k + j]
  BY <1>1, SubSeqProperties
<1> HIDE DEF a, b
<1>4. /\ a \o b \in Seq(Extent)
      /\ Len(a \o b) = Len(s) - 1
      /\ \A j \in 1 .. Len(s) - 1 : (a \o b)[j] = IF j <= Len(a) THEN a[j] ELSE b[j - Len(a)]
  <2>1. /\ a \o b \in Seq(Extent) /\ Len(a \o b) = Len(a) + Len(b)
        /\ \A j \in 1 .. Len(a) + Len(b) :
             (a \o b)[j] = IF j <= Len(a) THEN a[j] ELSE b[j - Len(a)]
    <3>1. a \in Seq(Extent) /\ b \in Seq(Extent)  BY <1>2, <1>3
    <3> QED  BY <3>1, ConcatProperties
  <2>2. Len(a) + Len(b) = Len(s) - 1
    <3>1. Len(a) = k - 1 /\ Len(b) = Len(s) - k  BY <1>2, <1>3
    <3> QED  BY <1>0, <3>1
  <2> QED  BY <2>1, <2>2
<1>5. ASSUME NEW j \in 1 .. Len(s) - 1
      PROVE  (a \o b)[j] = IF j < k THEN s[j] ELSE s[j + 1]
  <2>1. CASE j < k  BY <1>1, <1>2, <1>4, <2>1
  <2>2. CASE j >= k
    <3>1. (a \o b)[j] = b[j - (k - 1)]  BY <1>1, <1>2, <1>4, <2>2
    <3>2. j - (k - 1) \in 1 .. Len(s) - k /\ k + (j - (k - 1)) = j + 1  BY <1>1, <2>2
    <3>3. b[j - (k - 1)] = s[j + 1]
      <4> DEFINE n == j - (k - 1)
      <4>1. n \in 1 .. Len(s) - k /\ k + n = j + 1  BY <3>2
      <4> HIDE DEF n
      <4>2. b[n] = s[k + n]  BY <1>3, <4>1
      <4> QED  BY <4>1, <4>2 DEF n
    <3> QED  BY <1>0, <2>2, <3>1, <3>3
  <2>3. j < k \/ j >= k  BY <1>0
  <2> QED  BY <2>1, <2>2, <2>3
<1>6. RemoveAt(s, k) = a \o b  BY DEF RemoveAt, a, b
<1> QED  BY <1>4, <1>5, <1>6

LEMMA RemoveRangeRemoves ==
  ASSUME NEW list \in Seq(Extent), NEW lo
  PROVE  \/ /\ \A k \in 1 .. Len(list) : list[k].lo # lo
            /\ remove_range(list, lo) = list
         \/ \E k \in 1 .. Len(list) : /\ list[k].lo = lo
                                      /\ remove_range(list, lo) = RemoveAt(list, k)
<1> DEFINE I == {j \in 1 .. Len(list) : list[j].lo = lo}
<1>1. ASSUME NEW j \in 1 .. Len(list) PROVE list[j].lo = lo <=> j \in I
  OBVIOUS
<1>2. I \subseteq Nat  BY LenProperties
<1>3. SelectInSeq(list, LAMBDA p : p.lo = lo) = IF I = {} THEN 0 ELSE Min(I)
  BY DEF SelectInSeq
<1>4. CASE I = {}
  BY <1>1, <1>4 DEF remove_range, RemoveFirstMatch
<1>5. CASE I # {}
  <2>1. Min(I) \in I  BY <1>2, <1>5, LeastExists
  <2>2. \E j \in 1 .. Len(list) : list[j].lo = lo  BY <1>5
  <2>3. remove_range(list, lo) = RemoveAt(list, Min(I))
    BY <1>3, <1>5, <2>2 DEF remove_range, RemoveFirstMatch
  <2> QED  BY <2>1, <2>3
<1> QED  BY <1>4, <1>5
-----------------------------------------------------------------------------
(* The list as ListedRangesAreSound has it, for a break b.                 *)

Apart(later, earlier) ==
  \/ later.hi < earlier.lo \/ earlier.hi < later.lo
  \/ later.lo < earlier.lo /\ earlier.hi < later.hi

Sound(list, b) ==
  /\ list \in Seq(Extent)
  /\ \A j \in 1 .. Len(list) : IS_ALIGNED(list[j].lo) /\ list[j].hi <= b - 1
  /\ \A j \in 1 .. Len(list) : \A k \in j + 1 .. Len(list) : Apart(list[j], list[k])

LEMMA SoundHigher ==
  ASSUME NEW list, NEW b \in Int, NEW c \in Int, b <= c, Sound(list, b)
  PROVE  Sound(list, c)
<1> SUFFICES ASSUME NEW j \in 1 .. Len(list) PROVE list[j].hi <= c - 1
  BY DEF Sound
<1>1. list[j] \in Extent  BY ElementOfSeq DEF Sound
<1>2. list[j].hi \in Int /\ list[j].hi <= b - 1  BY <1>1 DEF Sound, Extent
<1> QED  BY <1>2

LEMMA RemoveKeepsSound ==
  ASSUME NEW list, NEW b \in Int, Sound(list, b), NEW lo
  PROVE  Sound(remove_range(list, lo), b)
<1>0. list \in Seq(Extent) /\ Len(list) \in Nat  BY LenProperties DEF Sound
<1>1. CASE remove_range(list, lo) = list  BY <1>1
<1>2. ASSUME NEW n \in 1 .. Len(list), remove_range(list, lo) = RemoveAt(list, n)
      PROVE  Sound(remove_range(list, lo), b)
  <2> DEFINE rest == remove_range(list, lo)
             old(j) == IF j < n THEN j ELSE j + 1
  <2>1. /\ rest \in Seq(Extent) /\ Len(rest) = Len(list) - 1
        /\ \A j \in 1 .. Len(list) - 1 : rest[j] = IF j < n THEN list[j] ELSE list[j + 1]
    BY <1>0, <1>2, RemoveAtElements
  <2> HIDE DEF rest
  <2>2. ASSUME NEW j \in 1 .. Len(rest)
        PROVE  rest[j] = list[old(j)] /\ old(j) \in 1 .. Len(list)
    <3>1. j \in 1 .. Len(list) - 1  BY <2>1
    <3>2. CASE j < n  BY <1>0, <2>1, <3>1, <3>2
    <3>3. CASE ~(j < n)  BY <1>0, <2>1, <3>1, <3>3
    <3> QED  BY <3>2, <3>3
  <2>3. ASSUME NEW j \in 1 .. Len(rest), NEW k \in j + 1 .. Len(rest)
        PROVE  old(k) \in old(j) + 1 .. Len(list)
    <3>1. Len(rest) \in Nat /\ j \in Nat /\ k \in Nat /\ j < k /\ k <= Len(list) - 1
      BY <1>0, <2>1
    <3> QED  BY <1>0, <3>1
  <2> HIDE DEF old
  <2>4. ASSUME NEW j \in 1 .. Len(rest)
        PROVE  IS_ALIGNED(rest[j].lo) /\ rest[j].hi <= b - 1
    BY <2>2 DEF Sound
  <2>5. ASSUME NEW j \in 1 .. Len(rest), NEW k \in j + 1 .. Len(rest)
        PROVE  Apart(rest[j], rest[k])
    <3>1. k \in 1 .. Len(rest)  BY <1>0, <2>1
    <3>2. rest[j] = list[old(j)] /\ rest[k] = list[old(k)] /\ old(j) \in 1 .. Len(list)
      BY <2>2, <3>1
    <3>3. Apart(list[old(j)], list[old(k)])  BY <2>3, <3>2 DEF Sound
    <3> QED  BY <3>2, <3>3
  <2>6. Sound(rest, b)  BY <2>1, <2>4, <2>5 DEF Sound
  <2> QED  BY <2>6 DEF rest
<1> QED  BY <1>0, <1>1, <1>2, RemoveRangeRemoves

(* What add_range accepts may enclose a listed payload, but no more.       *)
LEMMA AddKeepsSound ==
  ASSUME NEW list, NEW b \in Int, Sound(list, b),
         NEW p \in Nat, NEW n \in Nat, NEW d \in Int, Accepted(list, p, n, b - 1)
  PROVE  Sound(add_range(list, p, n, d), b)
<1>0. list \in Seq(Extent) /\ Len(list) \in Nat /\ DOMAIN list = 1 .. Len(list)
  BY LenProperties DEF Sound
<1>1. CASE unchecked  BY <1>1 DEF add_range
<1>2. CASE ~unchecked
  <2> DEFINE new  == [lo |-> p, hi |-> p + n - 1, index |-> d]
             more == <<new>> \o list
  <2>1. new \in Extent /\ new.lo = p /\ new.hi = p + n - 1  BY DEF Extent
  <2>2. add_range(list, p, n, d) = more  BY <1>2 DEF add_range
  <2>3. IS_ALIGNED(new.lo) /\ new.hi <= b - 1
    BY <2>1 DEF Accepted, Outside
  <2>4. ASSUME NEW k \in 1 .. Len(list) PROVE Apart(new, list[k])
    <3>1. list[k] \in Extent  BY <1>0, ElementOfSeq
    <3>2. list[k].lo \in Int /\ list[k].hi \in Int  BY <3>1 DEF Extent
    <3>3. ~Overlaps(p, p + n - 1, list[k])  BY <1>0, <1>2 DEF Accepted
    <3> QED  BY <2>1, <3>2, <3>3 DEF Overlaps, Apart
  <2> HIDE DEF new
  <2>5. /\ more \in Seq(Extent) /\ Len(more) = Len(list) + 1
        /\ \A j \in 1 .. Len(list) + 1 : more[j] = IF j = 1 THEN new ELSE list[j - 1]
    <3>1. <<new>> \in Seq(Extent) /\ Len(<<new>>) = 1 /\ <<new>>[1] = new  BY <2>1
    <3>2. /\ more \in Seq(Extent) /\ Len(more) = 1 + Len(list)
          /\ \A j \in 1 .. 1 + Len(list) : more[j] = IF j <= 1 THEN <<new>>[j] ELSE list[j - 1]
      BY <1>0, <3>1, ConcatProperties
    <3>3. ASSUME NEW j \in 1 .. Len(list) + 1
          PROVE  more[j] = IF j = 1 THEN new ELSE list[j - 1]
      <4>1. j \in 1 .. 1 + Len(list)  BY <1>0
      <4>2. CASE j = 1  BY <3>1, <3>2, <4>1, <4>2
      <4>3. CASE j # 1  BY <1>0, <3>2, <4>1, <4>3
      <4> QED  BY <4>2, <4>3
    <3> QED  BY <1>0, <3>2, <3>3
  <2> HIDE DEF more
  <2>6. ASSUME NEW j \in 1 .. Len(more)
        PROVE  IS_ALIGNED(more[j].lo) /\ more[j].hi <= b - 1
    <3>1. CASE j = 1  BY <2>3, <2>5, <3>1
    <3>2. CASE j # 1
      <4>1. more[j] = list[j - 1] /\ j - 1 \in 1 .. Len(list)  BY <1>0, <2>5, <3>2
      <4> QED  BY <4>1 DEF Sound
    <3> QED  BY <3>1, <3>2
  <2>7. ASSUME NEW j \in 1 .. Len(more), NEW k \in j + 1 .. Len(more)
        PROVE  Apart(more[j], more[k])
    <3>1. /\ k \in 1 .. Len(list) + 1 /\ k # 1 /\ j \in 1 .. Len(list) + 1
          /\ k - 1 \in 1 .. Len(list)
      BY <1>0, <2>5
    <3>2. more[k] = list[k - 1]  BY <2>5, <3>1
    <3>3. CASE j = 1  BY <2>4, <2>5, <3>1, <3>2, <3>3
    <3>4. CASE j # 1
      <4>1. more[j] = list[j - 1]  BY <2>5, <3>1, <3>4
      <4>2. j - 1 \in 1 .. Len(list) /\ k - 1 \in (j - 1) + 1 .. Len(list)
        BY <1>0, <2>5, <3>1, <3>4
      <4> QED  BY <3>2, <4>1, <4>2 DEF Sound
    <3> QED  BY <3>3, <3>4
  <2> QED  BY <2>2, <2>5, <2>6, <2>7 DEF Sound
<1> QED  BY <1>1, <1>2
-----------------------------------------------------------------------------
RangeInv ==
  /\ ops \in Traces /\ i \in Nat \ {0} /\ brk \in Int
  /\ pc = "valid" => Sound(ranges, brk)

LEMMA LineType ==
  ASSUME RangeInv, i <= Len(ops)
  PROVE  line.size \in Nat /\ line.index \in Int
<1>1. ops \in Seq([type : {"a", "r", "f"}, index : Int, size : Nat])
  BY TraceAssumption DEF RangeInv
<1>2. i \in 1 .. Len(ops)  BY <1>1, LenProperties DEF RangeInv
<1>3. line \in [type : {"a", "r", "f"}, index : Int, size : Nat]
  BY <1>1, <1>2, ElementOfSeq DEF line
<1> QED  BY <1>3

LEMMA LaterBreak ==
  ASSUME RangeInv, NEW b \in LaterBreaks
  PROVE  b \in Int /\ brk <= b
<1>1. CASE b = brk  BY <1>1 DEF RangeInv
<1>2. CASE b \in Breaks /\ b > brk  BY <1>2, PackageAssumption, MaxHeapAssumption DEF RangeInv
<1> QED  BY <1>1, <1>2 DEF LaterBreaks

LEMMA PointerType == \A p \in Pointers : p \in Nat
BY PackageAssumption DEF Addresses

LEMMA InitRanges == AnyInit => RangeInv
BY DEF AnyInit, DInit, MemInit, RangeInv

LEMMA NextRanges == RangeInv /\ [AnyNext]_anyVars => RangeInv'
<1> SUFFICES ASSUME RangeInv, [AnyNext]_anyVars PROVE RangeInv'  OBVIOUS
<1>1. CASE Begin
  <2>1. ranges' = << >> /\ brk' = 0 /\ i' = 1 /\ ops' = ops
    BY <1>1 DEF Begin, BeginValid, mem_reset_brk, traceVars
  <2>2. Sound(<< >>, 0)
    <3>1. << >> \in Seq(Extent) /\ Len(<< >>) = 0  OBVIOUS
    <3> QED  BY <3>1 DEF Sound
  <2> QED  BY <2>1, <2>2 DEF RangeInv
<1>2. CASE Alloc
  <2>1. PICK base \in RandBases, p \in Pointers \cup {NULL}, b \in LaterBreaks :
          ValidAlloc(Returned(p, b, mem), base)
    BY <1>2 DEF Alloc, MallocAnswers
  <2> DEFINE r == Returned(p, b, mem)
  <2>2. r.ret = p /\ r.brk = b  BY DEF Returned
  <2>3. /\ pc = "valid" /\ i <= Len(ops) /\ ops' = ops
        /\ IF p # NULL /\ Accepted(ranges, p, line.size, b - 1)
             THEN /\ ranges' = add_range(ranges, p, line.size, line.index)
                  /\ brk' = b /\ i' = i + 1 /\ pc' = pc
             ELSE pc' = "done" /\ brk' = b /\ i' = i
    BY <2>1, <2>2 DEF ValidAlloc, At, Reject, HeapAfter, traceVars
  <2>4. b \in Int /\ brk <= b /\ brk \in Int  BY LaterBreak DEF RangeInv
  <2>5. CASE p # NULL /\ Accepted(ranges, p, line.size, b - 1)
    <3>1. Sound(ranges, b)  BY <2>3, <2>4, SoundHigher DEF RangeInv
    <3>2. p \in Nat /\ line.size \in Nat /\ line.index \in Int
      BY <2>3, <2>5, PointerType, LineType
    <3>3. Sound(add_range(ranges, p, line.size, line.index), b)
      BY <2>4, <2>5, <3>1, <3>2, AddKeepsSound
    <3> QED  BY <2>3, <2>4, <2>5, <3>3 DEF RangeInv
  <2>6. CASE ~(p # NULL /\ Accepted(ranges, p, line.size, b - 1))
    BY <2>3, <2>4, <2>6 DEF RangeInv
  <2> QED  BY <2>5, <2>6
<1>3. CASE Realloc
  <2>1. PICK base \in RandBases,
             r \in ReallocAnswers(blocks[line.index], block_sizes[line.index], line.size) :
          ValidRealloc(r, base)
    BY <1>3 DEF Realloc
  <2>2. r.ret \in Pointers \cup {NULL} /\ r.brk \in LaterBreaks
    BY DEF ReallocAnswers, Returned
  <2> DEFINE p == r.ret
             b == r.brk
             n == line.size
             rest == remove_range(ranges, blocks[line.index])
  <2>3. /\ pc = "valid" /\ i <= Len(ops) /\ ops' = ops
        /\ IF (p = NULL) # (n = 0) \/ (n > 0 /\ ~Accepted(rest, p, n, b - 1))
             THEN pc' = "done" /\ brk' = b /\ i' = i
             ELSE /\ ranges' = IF n = 0 THEN rest ELSE add_range(rest, p, n, line.index)
                  /\ brk' = b /\ i' = i + 1 /\ pc' = pc
    <3>1. CASE (p = NULL) # (n = 0)
      BY <2>1, <3>1 DEF ValidRealloc, At, Reject, HeapAfter, traceVars
    <3>2. CASE (p = NULL) = (n = 0) /\ n > 0 /\ ~Accepted(rest, p, n, b - 1)
      BY <2>1, <3>2 DEF ValidRealloc, At, Reject, HeapAfter, traceVars
    <3>3. CASE (p = NULL) = (n = 0) /\ ~(n > 0 /\ ~Accepted(rest, p, n, b - 1))
      BY <2>1, <3>3 DEF ValidRealloc, At, traceVars
    <3> QED  BY <3>1, <3>2, <3>3
  <2>4. b \in Int /\ brk <= b /\ brk \in Int  BY <2>2, LaterBreak DEF RangeInv
  <2>5. n \in Nat /\ line.index \in Int  BY <2>3, LineType
  <2>6. Sound(rest, b)
    <3>1. Sound(ranges, b)  BY <2>3, <2>4, SoundHigher DEF RangeInv
    <3> QED  BY <2>4, <3>1, RemoveKeepsSound
  <2> HIDE DEF rest, p, b, n
  <2>7. CASE (p = NULL) # (n = 0) \/ (n > 0 /\ ~Accepted(rest, p, n, b - 1))
    BY <2>3, <2>4, <2>7 DEF RangeInv
  <2>8. CASE ~((p = NULL) # (n = 0) \/ (n > 0 /\ ~Accepted(rest, p, n, b - 1)))
    <3>1. CASE n = 0  BY <2>3, <2>4, <2>6, <2>8, <3>1 DEF RangeInv
    <3>2. CASE n # 0
      <4>1. n > 0  BY <2>5, <3>2
      <4>2. p # NULL /\ Accepted(rest, p, n, b - 1)  BY <2>8, <3>2, <4>1
      <4>3. p \in Nat  BY <2>2, <4>2, PointerType DEF p
      <4>4. Sound(add_range(rest, p, n, line.index), b)
        BY <2>4, <2>5, <2>6, <4>2, <4>3, AddKeepsSound
      <4> QED  BY <2>3, <2>4, <2>8, <3>2, <4>4 DEF RangeInv
    <3> QED  BY <3>1, <3>2
  <2> QED  BY <2>7, <2>8
<1>4. CASE Free
  <2>1. PICK b \in LaterBreaks : ValidFree(Returned(NULL, b, mem))
    BY <1>4 DEF Free, FreeAnswers
  <2>2. /\ brk' = b /\ i' = i + 1 /\ ops' = ops /\ pc = "valid" /\ pc' = pc
        /\ ranges' = IF line.index = -1 THEN ranges ELSE remove_range(ranges, FreedPtr)
    BY <2>1 DEF ValidFree, HeapAfter, Returned, traceVars, At
  <2>3. b \in Int /\ brk <= b /\ brk \in Int  BY LaterBreak DEF RangeInv
  <2>4. Sound(ranges, b)  BY <2>2, <2>3, SoundHigher DEF RangeInv
  <2>5. Sound(ranges', b)
    <3>1. CASE line.index = -1  BY <2>2, <2>4, <3>1
    <3>2. CASE line.index # -1
      <4>1. Sound(remove_range(ranges, FreedPtr), b)  BY <2>3, <2>4, RemoveKeepsSound
      <4> QED  BY <2>2, <3>2, <4>1
    <3> QED  BY <3>1, <3>2
  <2> QED  BY <2>2, <2>3, <2>5 DEF RangeInv
<1>5. CASE End
  BY <1>5 DEF End, EndValid, StartPass, mem_reset_brk, traceVars, RangeInv
<1>6. CASE UNCHANGED anyVars
  BY <1>6 DEF anyVars, dvars, traceVars, checkVars, RangeInv
<1> QED  BY <1>1, <1>2, <1>3, <1>4, <1>5, <1>6 DEF AnyNext

(* Whatever the package answers, and for every trace and heap size: every  *)
(* listed payload is aligned and below the break, and a later one shares   *)
(* bytes with an earlier one only when it encloses it (mdriver.c:541-555). *)
THEOREM RangesAreSound == AnySpec => []ListedRangesAreSound
<1>1. RangeInv => ListedRangesAreSound
  <2> SUFFICES ASSUME Sound(ranges, brk), NEW j \in DOMAIN ranges
               PROVE  /\ IS_ALIGNED(ranges[j].lo) /\ ranges[j].hi <= mem_heap_hi
                      /\ \A k \in j + 1 .. Len(ranges) : Apart(ranges[j], ranges[k])
    BY DEF RangeInv, ListedRangesAreSound, Apart
  <2>1. j \in 1 .. Len(ranges)  BY LenProperties DEF Sound
  <2> QED  BY <2>1 DEF Sound, mem_heap_hi
<1> QED  BY <1>1, InitRanges, NextRanges, PTL DEF AnySpec
-----------------------------------------------------------------------------
(* What a trace holds before each of its lines.                            *)

Line == [type : {"a", "r", "f"}, index : Int, size : Nat]

Unused(t, k, d) == \A j \in 1 .. k - 1 : t[j].index # d

(* Line k gives its id a block, or takes it away; the other ids keep theirs. *)
LEMMA HeldStep ==
  ASSUME NEW t \in Seq(Line), NEW k \in 1 .. Len(t), NEW d
  PROVE  HeldBefore(t, k + 1, d) <=> IF t[k].index = d THEN t[k].type # "f"
                                     ELSE HeldBefore(t, k, d)
<1>0. Len(t) \in Nat /\ k \in Nat  BY LenProperties
<1>1. CASE t[k].index = d /\ t[k].type # "f"
  <2>1. k \in 1 .. (k + 1) - 1 /\ \A l \in k + 1 .. (k + 1) - 1 : FALSE  BY <1>0
  <2> QED  BY <1>1, <2>1 DEF HeldBefore
<1>2. CASE t[k].index = d /\ t[k].type = "f"
  <2>1. SUFFICES ASSUME HeldBefore(t, k + 1, d) PROVE FALSE  BY <1>2
  <2>2. PICK j \in 1 .. (k + 1) - 1 :
          /\ t[j].index = d /\ t[j].type # "f"
          /\ \A l \in j + 1 .. (k + 1) - 1 : t[l].index = d => t[l].type # "f"
    BY <2>1 DEF HeldBefore
  <2>3. j # k  BY <1>2, <2>2
  <2>4. k \in j + 1 .. (k + 1) - 1  BY <1>0, <2>3
  <2> QED  BY <1>2, <2>2, <2>4
<1>3. CASE t[k].index # d
  <2>1. ASSUME NEW j \in 1 .. k - 1
        PROVE  (\A l \in j + 1 .. k - 1 : t[l].index = d => t[l].type # "f")
               <=> \A l \in j + 1 .. (k + 1) - 1 : t[l].index = d => t[l].type # "f"
    <3>1. \A l \in j + 1 .. (k + 1) - 1 : l \in j + 1 .. k - 1 \/ l = k  BY <1>0
    <3>2. \A l \in j + 1 .. k - 1 : l \in j + 1 .. (k + 1) - 1  BY <1>0
    <3> QED  BY <1>3, <3>1, <3>2
  <2>2. \A j \in 1 .. (k + 1) - 1 : j \in 1 .. k - 1 \/ j = k  BY <1>0
  <2>3. \A j \in 1 .. k - 1 : j \in 1 .. (k + 1) - 1  BY <1>0
  <2> QED  BY <1>3, <2>1, <2>2, <2>3 DEF HeldBefore
<1> QED  BY <1>1, <1>2, <1>3

LEMMA NothingHeldAtFirst ==
  ASSUME NEW t, NEW d PROVE ~HeldBefore(t, 1, d) /\ Unused(t, 1, d)
BY DEF HeldBefore, Unused

(* What LegalTrace says of line k. *)
LEMMA LegalLine ==
  ASSUME LegalTraces, NEW t \in Traces, NEW k \in 1 .. Len(t)
  PROVE  /\ t \in Seq(Line) /\ t[k] \in Line
         /\ t[k].type # "f" => t[k].index \in Ids
         /\ t[k].type = "a" => ~HeldBefore(t, k, t[k].index) /\ t[k].size > 0
         /\ t[k].type = "r" => HeldBefore(t, k, t[k].index) \/ Unused(t, k, t[k].index)
         /\ t[k].type = "f" => HeldBefore(t, k, t[k].index) \/ t[k].index = -1
<1>1. t \in Seq(Line) /\ DOMAIN t = 1 .. Len(t)
  BY TraceAssumption, LenProperties DEF Line
<1>2. t[k] \in Line  BY <1>1, ElementOfSeq
<1>3. LegalTrace(t)  BY DEF LegalTraces
<1>4. /\ t[k].type = "a" => ~HeldBefore(t, k, t[k].index)
      /\ t[k].type = "r" => HeldBefore(t, k, t[k].index) \/ Earlier(t, k) = {}
      /\ t[k].type = "f" => HeldBefore(t, k, t[k].index) \/ t[k].index = -1
      /\ t[k].type # "f" => t[k].index \in Ids
  BY <1>1, <1>3 DEF LegalTrace
<1>5. Earlier(t, k) = {} => Unused(t, k, t[k].index)  BY DEF Earlier, Unused
<1> QED  BY <1>1, <1>2, <1>4, <1>5, TraceAssumption
-----------------------------------------------------------------------------
(* What an accepted trace means of a package that may answer anything.     *)

Spoilt(d) == Garbled(mem, blocks[d], block_sizes[d], block_rand_base[d])

(* While no error was counted, no realloc has lost bytes, and a block that *)
(* was changed and not set right again is still held with a wrong byte.    *)
Watched ==
  /\ errors \in Nat /\ valid = -1
  /\ blocks \in [Ids -> Int] /\ block_sizes \in [Ids -> Nat] /\ block_rand_base \in [Ids -> Nat]
  /\ \A d \in Ids : Unused(ops, i, d) => block_sizes[d] = 0
  /\ debug_mode # "none" /\ errors = 0 =>
       ~lost /\ (damaged /\ ~mended => \E d \in Held : Spoilt(d))

CleanInv ==
  /\ ops \in Traces /\ i \in 1 .. Len(ops) + 1
  /\ damaged \in BOOLEAN /\ mended \in BOOLEAN /\ lost \in BOOLEAN
  /\ pc = "start" => /\ ~damaged /\ ~lost /\ errors = 0 /\ valid = -1
                     /\ block_rand_base \in [Ids -> Nat]
  /\ pc = "valid" => Watched
  /\ CleanTraceIsCorrect

LEMMA SpoiltHasWrongByte ==
  ASSUME NEW d
  PROVE  Spoilt(d) <=> \E k \in 0 .. block_sizes[d] - 1 : WrongByte(mem, d, k)
BY DEF Spoilt, Garbled, WrongByte

(* A line that gives its id a block. *)
LEMMA AcceptedLine ==
  ASSUME LegalTraces, CleanInv, pc = "valid", i <= Len(ops), line.type # "f",
         ops' = ops, debug_mode' = debug_mode, i' = i + 1, valid' = valid,
         NEW p \in Int, NEW base \in RandBases, Remember(line.index, p, line.size, base),
         errors' \in Nat,
         errors' = 0 /\ debug_mode # "none" => errors = 0 /\ ~lost',
         errors' = 0 /\ debug_mode # "none" /\ line.index \in Held => ~Spoilt(line.index),
         Observed
  PROVE  Watched'
<1> DEFINE d == line.index
           n == line.size
<1>1. Watched /\ ops \in Traces /\ i \in 1 .. Len(ops) /\ Len(ops) \in Nat
      /\ damaged \in BOOLEAN /\ mended \in BOOLEAN
  BY LenProperties, TraceAssumption DEF CleanInv
<1>2. d \in Ids /\ n \in Nat /\ ops \in Seq(Line)  BY <1>1, LegalLine DEF line, Line
<1>3. \A e : HeldBefore(ops', i', e) <=> e = d \/ HeldBefore(ops, i, e)
  BY <1>1, <1>2, HeldStep DEF line
<1>4. /\ blocks' = [blocks EXCEPT ![d] = p] /\ block_sizes' = [block_sizes EXCEPT ![d] = n]
      /\ block_rand_base' = IF debug_mode = "none" THEN block_rand_base
                            ELSE [block_rand_base EXCEPT ![d] = base]
  BY DEF Remember
<1>5. base \in Nat  BY DriverAssumption
<1>6. /\ blocks' \in [Ids -> Int] /\ block_sizes' \in [Ids -> Nat]
      /\ block_rand_base' \in [Ids -> Nat]
  <2> HIDE DEF d, n
  <2> QED  BY <1>1, <1>2, <1>4, <1>5 DEF Watched
<1>7. ASSUME NEW e \in Ids, Unused(ops', i', e) PROVE block_sizes'[e] = 0
  <2>1. e # d
    <3>1. i \in 1 .. i' - 1  BY <1>1
    <3> QED  BY <1>7, <3>1 DEF Unused, line, d
  <2>2. Unused(ops, i, e)
    <3>1. \A j \in 1 .. i - 1 : j \in 1 .. i' - 1  BY <1>1
    <3> QED  BY <1>7, <3>1 DEF Unused
  <2> HIDE DEF d, n
  <2> QED  BY <1>1, <1>2, <1>4, <2>1, <2>2 DEF Watched
<1>8. ASSUME debug_mode # "none", errors' = 0, damaged', ~mended'
      PROVE  \E e \in Ids : HeldBefore(ops', i', e) /\ Spoilt(e)'
  <2>1. ASSUME NEW e \in Held, e # d, NEW k \in 0 .. block_sizes[e] - 1, WrongByte(mem', e, k)
        PROVE  e \in Ids /\ HeldBefore(ops', i', e) /\ Spoilt(e)'
    <3>1. e \in Ids /\ HeldBefore(ops', i', e)  BY <1>3 DEF Held
    <3> HIDE DEF d, n
    <3>2. block_rand_base'[e] = block_rand_base[e] /\ block_sizes'[e] = block_sizes[e]
          /\ blocks'[e] = blocks[e]
      BY <1>1, <1>4, <2>1, <3>1 DEF Watched
    <3>3. Spoilt(e)'  BY <2>1, <3>2 DEF Spoilt, Garbled, WrongByte
    <3> QED  BY <3>1, <3>3
  <2>2. valid' # 0  BY <1>1 DEF Watched
  <2>3. (damaged \/ Damages) /\ ~mended /\ ~Mends
    <3>1. damaged' = (damaged \/ (valid' # 0 /\ Damages))
          /\ mended' = (mended \/ (valid' # 0 /\ Mends))
      BY DEF Observed
    <3> QED  BY <1>8, <2>2, <3>1, Zenon
  <2>4. CASE Damages
    <3>1. PICK e \in Held \ {d} : \E k \in 0 .. block_sizes[e] - 1 : WrongByte(mem', e, k)
      BY <2>4 DEF Damages
    <3> QED  BY <2>1, <3>1
  <2>5. CASE damaged
    <3>1. PICK e \in Held : Spoilt(e)  BY <1>1, <1>8, <2>3, <2>5 DEF Watched
    <3>2. e # d  BY <1>8, <3>1
    <3>3. PICK k \in 0 .. block_sizes[e] - 1 : WrongByte(mem, e, k)
      BY <3>1, SpoiltHasWrongByte
    <3>4. WrongByte(mem', e, k)  BY <2>3, <3>2, <3>3 DEF Mends
    <3> QED  BY <2>1, <3>2, <3>4
  <2> QED  BY <2>3, <2>4, <2>5
<1> QED  BY <1>1, <1>6, <1>7, <1>8 DEF Watched, Held

LEMMA ChecksCount ==
  ASSUME RangeInv, pc = "valid", NEW d
  PROVE  ExpensiveCheck \in Nat /\ CheckIndex(mem, d) \in {0, 1}
<1>1. ranges \in Seq(Extent)  BY DEF RangeInv, Sound
<1>2. DOMAIN ranges = 1 .. Len(ranges) /\ Len(ranges) \in Nat  BY <1>1, LenProperties
<1> DEFINE bad == {k \in DOMAIN ranges : CheckIndex(mem, ranges[k].index) = 1}
<1>3. IsFiniteSet(1 .. Len(ranges))  BY <1>2, FS_Interval
<1>4. IsFiniteSet(bad)
  <2>1. bad \subseteq 1 .. Len(ranges)  BY <1>2
  <2> QED  BY <1>3, <2>1, FS_Subset
<1>5. Cardinality(bad) \in Nat  BY <1>4, FS_CardinalityType
<1> QED  BY <1>5 DEF ExpensiveCheck, CheckIndex

LEMMA InitClean == AnyInit => CleanInv
<1> SUFFICES ASSUME AnyInit PROVE CleanInv  OBVIOUS
<1>1. ops \in Traces  BY DEF AnyInit, DInit
<1>2. Len(ops) \in Nat  BY <1>1, TraceAssumption, LenProperties
<1>3. i \in 1 .. Len(ops) + 1  BY <1>2 DEF AnyInit, DInit
<1>4. /\ pc = "start" /\ damaged = FALSE /\ mended = FALSE /\ lost = FALSE
      /\ errors = 0 /\ valid = -1 /\ block_rand_base \in [Ids -> Nat]
  BY DEF AnyInit, DInit
<1> QED  BY <1>1, <1>3, <1>4 DEF CleanInv, CleanTraceIsCorrect

LEMMA NextClean ==
  ASSUME LegalTraces
  PROVE  RangeInv /\ CleanInv /\ [AnyNext]_anyVars => CleanInv'
<1> SUFFICES ASSUME RangeInv, CleanInv, [AnyNext]_anyVars PROVE CleanInv'  OBVIOUS
<1> USE DEF traceVars, blockVars, utilVars, history
<1>0. /\ ops \in Traces /\ ops \in Seq(Line) /\ Len(ops) \in Nat /\ i \in 1 .. Len(ops) + 1
      /\ damaged \in BOOLEAN /\ mended \in BOOLEAN /\ lost \in BOOLEAN
  BY TraceAssumption, LenProperties DEF CleanInv, Line
<1>1. CASE Begin
  <2>1. /\ pc = "start" /\ i' = 1 /\ ops' = ops /\ debug_mode' = debug_mode
        /\ damaged' = damaged /\ mended' = mended /\ lost' = lost
        /\ block_rand_base' = block_rand_base
        /\ blocks' = [d \in Ids |-> NULL] /\ block_sizes' = [d \in Ids |-> 0]
        /\ \/ pc' = "done" /\ valid' = 0
           \/ pc' = "valid" /\ errors' = errors /\ valid' = valid
    BY <1>1 DEF Begin, BeginValid, reinit_trace
  <2>2. ~damaged /\ ~lost /\ errors = 0 /\ valid = -1 /\ block_rand_base \in [Ids -> Nat]
    BY <2>1 DEF CleanInv
  <2>3. CASE pc' = "done" /\ valid' = 0
    BY <1>0, <2>1, <2>3 DEF CleanInv, CleanTraceIsCorrect
  <2>4. CASE pc' = "valid" /\ errors' = errors /\ valid' = valid
    <3>1. Watched'  BY <2>1, <2>2, <2>4 DEF Watched, NULL
    <3> QED  BY <1>0, <2>1, <2>2, <2>4, <3>1 DEF CleanInv, CleanTraceIsCorrect
  <2> QED  BY <2>1, <2>3, <2>4
<1>2. CASE Alloc
  <2>1. PICK base \in RandBases, p \in Pointers \cup {NULL}, b \in LaterBreaks :
          /\ ValidAlloc(Returned(p, b, mem), base)
          /\ Observed /\ lost' = lost
    BY <1>2 DEF Alloc, MallocAnswers
  <2>2. /\ pc = "valid" /\ i <= Len(ops) /\ line.type = "a"
        /\ ops' = ops /\ debug_mode' = debug_mode
    BY <2>1 DEF ValidAlloc, At
  <2>3. damaged' \in BOOLEAN /\ mended' \in BOOLEAN /\ lost' \in BOOLEAN
    <3>1. damaged' = (damaged \/ (valid' # 0 /\ Damages))
          /\ mended' = (mended \/ (valid' # 0 /\ Mends))
      BY <2>1 DEF Observed
    <3> QED  BY <1>0, <2>1, <3>1, Zenon
  <2>4. line.size \in Nat /\ line.size > 0 /\ i \in 1 .. Len(ops) /\ line.index \in Ids
    BY <1>0, <2>2, LegalLine DEF line, Line
  <2>5. CASE p # NULL /\ Accepted(ranges, p, line.size, b - 1)
    <3>1. /\ Remember(line.index, p, line.size, base)
          /\ errors' = errors + ExpensiveCheck /\ i' = i + 1 /\ valid' = valid /\ pc' = pc
      BY <2>1, <2>5 DEF ValidAlloc, Returned
    <3>2. p \in Int  BY <2>5, PointerType
    <3>3. Watched /\ valid' = -1 /\ errors \in Nat /\ ExpensiveCheck \in Nat
      BY <2>2, <3>1, ChecksCount DEF CleanInv, Watched
    <3>4. /\ errors' \in Nat
          /\ errors' = 0 /\ debug_mode # "none" => errors = 0 /\ ~lost'
      BY <2>1, <3>1, <3>3 DEF Watched
    <3>5. line.index \notin Held
      BY <1>0, <2>2, <2>4, LegalLine DEF Held, line
    <3>6. Watched'
      BY <2>1, <2>2, <3>1, <3>2, <3>4, <3>5, AcceptedLine
    <3> QED
      BY <1>0, <2>2, <2>3, <2>4, <3>1, <3>3, <3>6 DEF CleanInv, CleanTraceIsCorrect
  <2>6. CASE ~(p # NULL /\ Accepted(ranges, p, line.size, b - 1))
    <3>1. valid' = 0 /\ pc' = "done" /\ i' = i
      BY <2>1, <2>6 DEF ValidAlloc, Returned, Reject
    <3> QED  BY <1>0, <2>2, <2>3, <3>1 DEF CleanInv, CleanTraceIsCorrect
  <2> QED  BY <2>5, <2>6
<1>3. CASE Realloc
  <2> DEFINE d    == line.index
             n    == line.size
             kept == IF n < block_sizes[d] THEN n ELSE block_sizes[d]
             rest == remove_range(ranges, blocks[d])
  <2>1. PICK base \in RandBases, r \in ReallocAnswers(blocks[d], block_sizes[d], n) :
          /\ ValidRealloc(r, base) /\ Observed
          /\ lost' = (lost \/ (valid' # 0 /\ LosesBytes(r)))
    BY <1>3 DEF Realloc
  <2>2. /\ pc = "valid" /\ i <= Len(ops) /\ line.type = "r"
        /\ ops' = ops /\ debug_mode' = debug_mode
    BY <2>1 DEF ValidRealloc, At
  <2>3. /\ n \in Nat /\ i \in 1 .. Len(ops) /\ d \in Ids /\ d \in Nat
        /\ Watched /\ errors \in Nat /\ block_sizes[d] \in Nat
    <3>1. line \in Line /\ i \in 1 .. Len(ops) /\ d \in Ids
      BY <1>0, <2>2, LegalLine DEF line
    <3>2. Watched  BY <2>2 DEF CleanInv
    <3> QED  BY <3>1, <3>2, DriverAssumption DEF Line, Watched
  <2> DEFINE p == r.ret
             b == r.brk
             m == r.mem
             before == ExpensiveCheck + CheckIndex(mem, d)
             after  == IF debug_mode # "none" /\ Garbled(m, p, kept, block_rand_base[d])
                       THEN 1 ELSE 0
             wrong  == (p = NULL) # (n = 0) \/ (n > 0 /\ ~Accepted(rest, p, n, b - 1))
  <2>4. p \in Int
    <3>1. p \in Pointers \cup {NULL}  BY DEF ReallocAnswers, Returned
    <3> QED  BY <3>1, PointerType DEF NULL
  <2>5. IF wrong
        THEN valid' = 0 /\ pc' = "done" /\ i' = i
        ELSE /\ Remember(d, p, n, base)
             /\ errors' = errors + before + after
             /\ i' = i + 1 /\ valid' = valid /\ pc' = pc
    <3>1. CASE (p = NULL) # (n = 0)
      BY <2>1, <3>1 DEF ValidRealloc, Reject
    <3>2. CASE (p = NULL) = (n = 0) /\ n > 0 /\ ~Accepted(rest, p, n, b - 1)
      BY <2>1, <3>2 DEF ValidRealloc, Reject
    <3>3. CASE (p = NULL) = (n = 0) /\ ~(n > 0 /\ ~Accepted(rest, p, n, b - 1))
      BY <2>1, <3>3 DEF ValidRealloc
    <3> QED  BY <3>1, <3>2, <3>3
  <2>6. damaged' \in BOOLEAN /\ mended' \in BOOLEAN /\ lost' \in BOOLEAN
    <3>1. damaged' = (damaged \/ (valid' # 0 /\ Damages))
          /\ mended' = (mended \/ (valid' # 0 /\ Mends))
      BY <2>1 DEF Observed
    <3> QED  BY <1>0, <2>1, <3>1, Zenon
  <2> HIDE DEF p, b, m, rest
  <2>7. CASE wrong
    <3>1. valid' = 0 /\ pc' = "done" /\ i' = i  BY <2>5, <2>7
    <3> QED  BY <1>0, <2>2, <2>6, <3>1 DEF CleanInv, CleanTraceIsCorrect
  <2>8. CASE ~wrong
    <3>1. /\ Remember(d, p, n, base)
          /\ errors' = errors + before + after
          /\ i' = i + 1 /\ valid' = valid /\ pc' = pc
      BY <2>5, <2>8
    <3>3. ExpensiveCheck \in Nat /\ CheckIndex(mem, d) \in {0, 1} /\ after \in {0, 1}
          /\ valid' = -1
      BY <2>2, <2>3, <3>1, ChecksCount DEF Watched
    <3>4. errors' \in Nat
          /\ (errors' = 0 => errors = 0 /\ CheckIndex(mem, d) = 0 /\ after = 0)
      <4> HIDE DEF after, d
      <4> QED  BY <2>3, <3>1, <3>3
    <3>5. errors' = 0 /\ debug_mode # "none" => ~Spoilt(d)
      BY <2>3, <3>4 DEF CheckIndex, Spoilt
    <3>6. ASSUME errors' = 0, debug_mode # "none" PROVE ~LosesBytes(r)
      <4>1. SUFFICES ASSUME NEW k \in 0 .. n - 1, k < block_sizes[d]
                     PROVE  m[p + k] = mem[blocks[d] + k]
        BY DEF LosesBytes, m, p
      <4>2. k \in 0 .. kept - 1 /\ k \in 0 .. block_sizes[d] - 1
        <5> HIDE DEF n, d
        <5> QED  BY <2>3, <4>1
      <4>3. ~Garbled(m, p, kept, block_rand_base[d])  BY <3>4, <3>6
      <4> HIDE DEF kept
      <4>4. m[p + k] = Random(block_rand_base[d], k)  BY <4>2, <4>3 DEF Garbled
      <4>5. mem[blocks[d] + k] = Random(block_rand_base[d], k)
        BY <3>5, <3>6, <4>2 DEF Spoilt, Garbled
      <4> QED  BY <4>4, <4>5
    <3>7. errors' = 0 /\ debug_mode # "none" => errors = 0 /\ ~lost'
      <4>1. ASSUME errors' = 0, debug_mode # "none" PROVE ~lost'
        <5>1. errors = 0  BY <3>4, <4>1
        <5>2. ~lost  BY <2>3, <4>1, <5>1 DEF Watched
        <5> QED  BY <2>1, <3>6, <4>1, <5>2, Zenon
      <4> QED  BY <3>4, <4>1
    <3>8. Watched'
      <4>1. line.type # "f" /\ (errors' = 0 /\ debug_mode # "none" /\ d \in Held => ~Spoilt(d))
        BY <2>2, <3>5
      <4> QED
        BY <2>1, <2>2, <2>4, <3>1, <3>4, <3>7, <4>1, AcceptedLine
    <3> QED
      BY <1>0, <2>2, <2>3, <2>6, <3>1, <3>3, <3>8 DEF CleanInv, CleanTraceIsCorrect
  <2> QED  BY <2>7, <2>8
<1>4. CASE Free
  <2>1. PICK b \in LaterBreaks : ValidFree(Returned(NULL, b, mem)) /\ UNCHANGED history
    BY <1>4 DEF Free, FreeAnswers
  <2>2. /\ pc = "valid" /\ pc' = pc /\ i <= Len(ops) /\ line.type = "f" /\ i' = i + 1
        /\ ops' = ops /\ debug_mode' = debug_mode /\ valid' = valid
        /\ errors' = errors + ExpensiveCheck + CheckIndex(mem, line.index)
        /\ mem' = mem /\ damaged' = damaged /\ mended' = mended /\ lost' = lost
        /\ blocks' = blocks /\ block_sizes' = block_sizes /\ block_rand_base' = block_rand_base
    BY <2>1 DEF ValidFree, HeapAfter, Returned, At
  <2>4. i \in 1 .. Len(ops) /\ i' \in 1 .. Len(ops) + 1  BY <1>0, <2>2
  <2>5. Watched /\ errors \in Nat /\ ExpensiveCheck \in Nat /\ CheckIndex(mem, line.index) \in {0, 1}
    BY <2>2, ChecksCount DEF CleanInv, Watched
  <2>6. \A e : HeldBefore(ops', i', e) <=> e # line.index /\ HeldBefore(ops, i, e)
    BY <1>0, <2>2, <2>4, HeldStep DEF line
  <2>7. \A e : Unused(ops', i', e) => Unused(ops, i, e)
    <3>1. \A j \in 1 .. i - 1 : j \in 1 .. i' - 1  BY <1>0, <2>2
    <3> QED  BY <2>2, <3>1 DEF Unused
  <2>8. errors' \in Nat /\ (errors' = 0 => errors = 0 /\ CheckIndex(mem, line.index) = 0)
    BY <2>2, <2>5
  <2>9. ASSUME debug_mode # "none", errors' = 0, damaged, ~mended
        PROVE  \E e \in Ids : HeldBefore(ops', i', e) /\ Spoilt(e)'
    <3>1. PICK e \in Held : Spoilt(e)  BY <2>5, <2>8, <2>9 DEF Watched
    <3>2. e \in Ids /\ e \in Nat /\ HeldBefore(ops, i, e)  BY DriverAssumption DEF Held
    <3>3. e # line.index
      BY <2>8, <2>9, <3>1, <3>2 DEF CheckIndex, Spoilt
    <3>4. Spoilt(e)'  BY <2>2, <3>1 DEF Spoilt, Garbled
    <3> QED  BY <2>6, <3>2, <3>3, <3>4
  <2>10. Watched'
    BY <2>2, <2>5, <2>7, <2>8, <2>9 DEF Watched, Held
  <2> QED
    BY <1>0, <2>2, <2>4, <2>5, <2>10 DEF CleanInv, CleanTraceIsCorrect, Watched
<1>5. CASE End
  <2>1. /\ pc = "valid" /\ i > Len(ops) /\ pc' \in {"util", "app_error"} /\ i' = 1 /\ ops' = ops
        /\ debug_mode' = debug_mode /\ errors' = errors
        /\ damaged' = damaged /\ mended' = mended /\ lost' = lost
    BY <1>5 DEF End, EndValid, StartPass
  <2>2. i = Len(ops) + 1 /\ Watched  BY <1>0, <2>1 DEF CleanInv
  <2>3. HeldAtEnd' = Held  BY <2>1, <2>2 DEF HeldAtEnd, Held
  <2>4. CleanTraceIsCorrect'  BY <2>1, <2>2, <2>3 DEF CleanTraceIsCorrect, Watched
  <2> QED  BY <1>0, <2>1, <2>4 DEF CleanInv
<1>6. CASE UNCHANGED anyVars
  BY <1>6
  DEF anyVars, dvars, checkVars, CleanInv, Watched, CleanTraceIsCorrect, Held, HeldAtEnd,
      Spoilt, Garbled
<1> QED  BY <1>1, <1>2, <1>3, <1>4, <1>5, <1>6 DEF AnyNext

(* For every legal trace, heap size, random_data and checking mode but     *)
(* none: in a trace that frees what it allocates and is accepted without   *)
(* an error, no realloc changed a byte it keeps, whatever the package      *)
(* answered, and no block laid on a held one changed a byte of it, unless  *)
(* a later line wrote a changed byte's value back (mdriver.c:535).         *)
THEOREM CleanTraceMeansCorrect ==
  ASSUME LegalTraces
  PROVE  AnySpec => []CleanTraceIsCorrect
<1>1. RangeInv /\ CleanInv /\ [AnyNext]_anyVars => RangeInv' /\ CleanInv'
  BY NextRanges, NextClean
<1>2. CleanInv => CleanTraceIsCorrect  BY DEF CleanInv
<1> QED  BY <1>1, <1>2, InitRanges, InitClean, PTL DEF AnySpec
-----------------------------------------------------------------------------
(* What one line of a trace asks of mem_sbrk.                              *)

Asks(l)     == l.type = "a" \/ (l.type = "r" /\ l.size # 0)
Room(l, b)  == NewSize(l.size) >= 0 /\ b + NewSize(l.size) <= MAX_HEAP
Moved(l, b) == IF Asks(l) THEN b + NewSize(l.size) ELSE b

LEMMA NewSizeIsInt ==
  ASSUME NEW n \in Nat
  PROVE  NewSize(n) \in Int
<1>1. \A k \in Int : ToInt(k) \in Int
  BY DEF ToInt
<1>2. ALIGN((n + SIZE_T_SIZE) % SizeModulus) \in Int
  <2>1. (n + 8) % SizeModulus \in Int  BY WidthAssumption
  <2>2. \A k \in Int : ALIGN(k) \in Int  BY DEF ALIGN, ALIGNMENT
  <2> QED  BY <2>1, <2>2 DEF SIZE_T_SIZE
<1> QED  BY <1>1, <1>2 DEF NewSize

(* malloc depends on the break and the size alone. *)
LEMMA MallocOutcome ==
  ASSUME brk \in Nat, NEW l \in Line
  PROVE  IF Room(l, brk)
         THEN mm_malloc(l.size).ret # NULL /\ mm_malloc(l.size).brk = brk + NewSize(l.size)
         ELSE mm_malloc(l.size).ret = NULL
<1> DEFINE s == NewSize(l.size)
<1>1. s \in Int  BY NewSizeIsInt DEF Line
<1> HIDE DEF s
<1>2. CASE s < 0 \/ brk + s > MAX_HEAP
  <2>1. mem_sbrk(s).ret = SBRK_ERROR  BY <1>2 DEF mem_sbrk
  <2>2. ~Room(l, brk)  BY <1>1, <1>2 DEF Room, s
  <2> QED  BY <2>1, <2>2 DEF mm_malloc, s
<1>3. CASE ~(s < 0 \/ brk + s > MAX_HEAP)
  <2>1. mem_sbrk(s).ret = brk /\ mem_sbrk(s).brk = brk + s /\ brk # SBRK_ERROR
    BY <1>3 DEF mem_sbrk, SBRK_ERROR
  <2>2. Room(l, brk)  BY <1>1, <1>3 DEF Room, s
  <2>3. mm_malloc(l.size).ret = brk + 8 /\ mm_malloc(l.size).brk = brk + s
    BY <2>1 DEF mm_malloc, s, SIZE_T_SIZE
  <2> QED  BY <2>2, <2>3 DEF s, NULL
<1> QED  BY <1>2, <1>3

(* So does realloc, whatever pointer it is given. *)
LEMMA ReallocOutcome ==
  ASSUME NEW l \in Line, NEW p
  PROVE  /\ l.size = 0 => mm_realloc(p, l.size).ret = NULL /\ mm_realloc(p, l.size).brk = brk
         /\ l.size # 0 => /\ mm_realloc(p, l.size).ret = mm_malloc(l.size).ret
                          /\ mm_realloc(p, l.size).brk = mm_malloc(l.size).brk
<1>1. CASE l.size = 0  BY <1>1 DEF mm_realloc, mm_free
<1>2. CASE l.size # 0
  <2> DEFINE new == mm_malloc(l.size)
  <2>1. \A c, m : /\ [new EXCEPT !.crash = c].ret = new.ret
                  /\ [new EXCEPT !.crash = c].brk = new.brk
                  /\ [new EXCEPT !.mem = m].ret = new.ret
                  /\ [new EXCEPT !.mem = m].brk = new.brk
    BY DEF mm_malloc
  <2> HIDE DEF new
  <2> QED  BY <1>2, <2>1 DEF mm_realloc, new
<1> QED  BY <1>1, <1>2

(* The answer to the current line: a pointer exactly when there is room for *)
(* what the line asks, and then the break has moved by that.                *)
LEMMA LineOutcome ==
  ASSUME brk \in Nat, line \in Line
  PROVE  /\ Asks(line) /\ Room(line, brk) => Answer.ret # NULL
         /\ Asks(line) /\ ~Room(line, brk) => Answer.ret = NULL
         /\ ~Asks(line) \/ Room(line, brk) => Answer.brk = Moved(line, brk)
<1>1. CASE line.type = "a"
  <2>1. Answer = mm_malloc(line.size)  BY <1>1 DEF Answer
  <2> QED  BY <1>1, <2>1, MallocOutcome DEF Asks, Moved
<1>2. CASE line.type = "r"
  <2>1. Answer = mm_realloc(blocks[line.index], line.size)  BY <1>2 DEF Answer
  <2>2. CASE line.size = 0
    BY <1>2, <2>1, <2>2, ReallocOutcome DEF Asks, Moved
  <2>3. CASE line.size # 0
    BY <1>2, <2>1, <2>3, ReallocOutcome, MallocOutcome DEF Asks, Moved
  <2> QED  BY <2>2, <2>3
<1>3. CASE line.type = "f"
  BY <1>3 DEF Answer, mm_free, Asks, Moved
<1> QED  BY <1>1, <1>2, <1>3 DEF Line
-----------------------------------------------------------------------------
(* The invariant.  While the trace is checked, there is a history of breaks *)
(* that leads to the present one and had room for every line so far.  Once *)
(* the trace is accepted it covers every line, and the later replays, which *)
(* start from the same empty heap, follow it.                              *)

Path(t, b, n) ==
  /\ b \in [1 .. n -> Nat] /\ b[1] = 0
  /\ \A k \in 1 .. n - 1 : /\ Asks(t[k]) => Room(t[k], b[k])
                           /\ b[k + 1] = Moved(t[k], b[k])

ReplayInv ==
  /\ ops \in Seq(Line) /\ i \in 1 .. Len(ops) + 1
  /\ pc = "valid" => \E b : Path(ops, b, i) /\ b[i] = brk
  /\ pc \in {"util", "speed"} => \E b : Path(ops, b, Len(ops) + 1) /\ b[i] = brk
  /\ pc # "app_error"

LEMMA InitReplay == DInit => ReplayInv
<1> SUFFICES ASSUME DInit PROVE ReplayInv  OBVIOUS
<1>1. ops \in Seq(Line)  BY TraceAssumption DEF DInit, Line
<1>2. Len(ops) \in Nat  BY <1>1, LenProperties
<1> QED  BY <1>1, <1>2 DEF DInit, ReplayInv

(* An accepted line makes the history longer by one. *)
LEMMA PathGrows ==
  ASSUME NEW b, NEW n \in Nat \ {0}, Path(ops, b, n), ops \in Seq(Line), n <= Len(ops),
         Asks(ops[n]) => Room(ops[n], b[n])
  PROVE  \E c : Path(ops, c, n + 1) /\ c[n + 1] = Moved(ops[n], b[n])
<1> DEFINE c == [k \in 1 .. n + 1 |-> IF k <= n THEN b[k] ELSE Moved(ops[n], b[n])]
<1>1. ops[n] \in Line /\ b[n] \in Nat
  <2>1. Len(ops) \in Nat  BY LenProperties
  <2>2. n \in 1 .. Len(ops)  BY <2>1
  <2> QED  BY <2>2, ElementOfSeq DEF Path
<1>2. Moved(ops[n], b[n]) \in Nat
  <2>1. NewSize(ops[n].size) \in Int  BY <1>1, NewSizeIsInt DEF Line
  <2> QED  BY <1>1, <2>1 DEF Moved, Room
<1>3. c \in [1 .. n + 1 -> Nat] /\ c[1] = 0 /\ c[n + 1] = Moved(ops[n], b[n])
  BY <1>2 DEF Path
<1>4. ASSUME NEW k \in 1 .. (n + 1) - 1
      PROVE  (Asks(ops[k]) => Room(ops[k], c[k])) /\ c[k + 1] = Moved(ops[k], c[k])
  <2>1. CASE k = n  BY <2>1
  <2>2. CASE k # n
    <3>1. k \in 1 .. n - 1 /\ c[k] = b[k] /\ c[k + 1] = b[k + 1]  BY <2>2
    <3> QED  BY <3>1 DEF Path
  <2> QED  BY <2>1, <2>2
<1> HIDE DEF c
<1>5. Path(ops, c, n + 1)  BY <1>3, <1>4 DEF Path
<1> QED  BY <1>3, <1>5

(* A line of the validity pass that is accepted had room. *)
LEMMA ValidLine ==
  ASSUME ReplayInv, pc = "valid", i <= Len(ops), pc' = "valid", ops' = ops, i' = i + 1,
         brk' = Answer.brk, Asks(line) => Answer.ret # NULL
  PROVE  ReplayInv'
<1>1. PICK b : Path(ops, b, i) /\ b[i] = brk  BY DEF ReplayInv
<1>2. Len(ops) \in Nat /\ i \in 1 .. Len(ops) /\ ops \in Seq(Line)
  BY LenProperties DEF ReplayInv
<1>3. brk \in Nat  BY <1>1, <1>2 DEF Path
<1>4. line \in Line  BY <1>2, ElementOfSeq DEF line
<1>5. Asks(line) => Room(line, brk)  BY <1>3, <1>4, LineOutcome
<1>6. brk' = Moved(line, brk)  BY <1>3, <1>4, <1>5, LineOutcome
<1>7. \E c : Path(ops, c, i + 1) /\ c[i + 1] = brk'
  <2>1. \E c : Path(ops, c, i + 1) /\ c[i + 1] = Moved(ops[i], b[i])
    BY <1>1, <1>2, <1>5, PathGrows DEF line
  <2> QED  BY <1>1, <1>6, <2>1 DEF line
<1>8. i' \in 1 .. Len(ops') + 1 /\ ops' \in Seq(Line) /\ pc' # "app_error"
  BY <1>2
<1>9. \E c : Path(ops', c, i') /\ c[i'] = brk'  BY <1>7
<1> QED  BY <1>8, <1>9 DEF ReplayInv

(* A line of a later replay finds the room it had before. *)
LEMMA LaterLine ==
  ASSUME ReplayInv, pc \in {"util", "speed"}, i <= Len(ops)
  PROVE  /\ Asks(line) => Answer.ret # NULL
         /\ pc' = pc /\ ops' = ops /\ i' = i + 1 /\ brk' = Answer.brk => ReplayInv'
<1>1. PICK b : Path(ops, b, Len(ops) + 1) /\ b[i] = brk  BY DEF ReplayInv
<1>2. Len(ops) \in Nat /\ i \in 1 .. Len(ops) /\ ops \in Seq(Line)
  BY LenProperties DEF ReplayInv
<1>3. brk \in Nat  BY <1>1, <1>2 DEF Path
<1>4. line \in Line  BY <1>2, ElementOfSeq DEF line
<1>5. (Asks(line) => Room(line, brk)) /\ b[i + 1] = Moved(line, brk)
  BY <1>1, <1>2 DEF Path, line
<1>6. (Asks(line) => Answer.ret # NULL) /\ Answer.brk = Moved(line, brk)
  BY <1>3, <1>4, <1>5, LineOutcome
<1>7. ASSUME pc' = pc, ops' = ops, i' = i + 1, brk' = Answer.brk PROVE ReplayInv'
  <2>1. b[i'] = brk'  BY <1>5, <1>6, <1>7
  <2>2. i' \in 1 .. Len(ops') + 1 /\ ops' \in Seq(Line) /\ pc' \in {"util", "speed"}
    BY <1>2, <1>7
  <2>3. \E c : Path(ops', c, Len(ops') + 1) /\ c[i'] = brk'  BY <1>1, <1>7, <2>1
  <2> QED  BY <2>2, <2>3 DEF ReplayInv
<1> QED  BY <1>6, <1>7

(* A pass begins with an empty heap. *)
LEMMA PassBegins ==
  ASSUME ReplayInv, pc \in {"util", "speed"} \/ (pc = "valid" /\ i > Len(ops)),
         pc' \in {"util", "speed"}, ops' = ops, i' = 1, brk' = 0
  PROVE  ReplayInv'
<1>1. Len(ops) \in Nat  BY LenProperties DEF ReplayInv
<1>2. PICK b : Path(ops, b, Len(ops) + 1)
  <2>1. CASE pc = "valid"
    <3>1. i = Len(ops) + 1  BY <1>1, <2>1 DEF ReplayInv
    <3> QED  BY <2>1, <3>1 DEF ReplayInv
  <2> QED  BY <2>1 DEF ReplayInv
<1>3. ops' \in Seq(Line) /\ i' \in 1 .. Len(ops') + 1  BY <1>1 DEF ReplayInv
<1>4. Path(ops', b, Len(ops') + 1) /\ b[i'] = brk'  BY <1>2 DEF Path
<1> QED  BY <1>3, <1>4 DEF ReplayInv

(* Whatever leaves the trace where it is and ends its replay. *)
LEMMA ReplayEnds ==
  ASSUME ReplayInv, pc' = "done", ops' = ops, i' = i
  PROVE  ReplayInv'
BY DEF ReplayInv

LEMMA NextReplay == ReplayInv /\ [Next]_dvars => ReplayInv'
<1> SUFFICES ASSUME ReplayInv, [Next]_dvars PROVE ReplayInv'  OBVIOUS
<1> USE DEF traceVars, blockVars, checkVars, utilVars
<1>0. Len(ops) \in Nat /\ ops \in Seq(Line) /\ i \in 1 .. Len(ops) + 1 /\ pc # "app_error"
  BY LenProperties DEF ReplayInv
<1>1. CASE BeginValid(mm_init)
  <2>1. ops' = ops /\ pc' = "valid" /\ i' = 1 /\ brk' = 0
    BY <1>1 DEF BeginValid, mm_init, mem_reset_brk
  <2>2. Path(ops', [k \in 1 .. 1 |-> 0], i') /\ [k \in 1 .. 1 |-> 0][i'] = brk'
    BY <2>1 DEF Path
  <2> QED  BY <1>0, <2>1, <2>2 DEF ReplayInv
<1>2. ASSUME NEW base \in RandBases, ValidAlloc(Answer, base)
      PROVE  ReplayInv'
  <2>1. pc = "valid" /\ i <= Len(ops) /\ line.type = "a" /\ ops' = ops
    BY <1>2 DEF ValidAlloc, At
  <2>2. CASE pc' = "done" /\ i' = i  BY <2>1, <2>2, ReplayEnds
  <2>3. CASE ~(pc' = "done" /\ i' = i)
    <3>1. Answer.ret # NULL /\ brk' = Answer.brk /\ i' = i + 1 /\ pc' = "valid"
      BY <1>2, <2>1, <2>3 DEF ValidAlloc, Reject
    <3> QED  BY <2>1, <3>1, ValidLine
  <2> QED  BY <2>2, <2>3
<1>3. ASSUME NEW base \in RandBases, ValidRealloc(Answer, base)
      PROVE  ReplayInv'
  <2>1. pc = "valid" /\ i <= Len(ops) /\ line.type = "r" /\ ops' = ops
    BY <1>3 DEF ValidRealloc, At
  <2>2. CASE pc' = "done" /\ i' = i  BY <2>1, <2>2, ReplayEnds
  <2>3. CASE ~(pc' = "done" /\ i' = i)
    <3>1. ~((Answer.ret = NULL) # (line.size = 0))
      BY <1>3, <2>3 DEF ValidRealloc, Reject
    <3>2. brk' = Answer.brk /\ i' = i + 1 /\ pc' = "valid"
      BY <1>3, <2>1, <2>3 DEF ValidRealloc, Reject
    <3>3. Asks(line) => Answer.ret # NULL  BY <2>1, <3>1 DEF Asks
    <3> QED  BY <2>1, <3>2, <3>3, ValidLine
  <2> QED  BY <2>2, <2>3
<1>4. CASE ValidFree(Answer)
  <2>1. pc = "valid" /\ i <= Len(ops) /\ line.type = "f" /\ ops' = ops
        /\ brk' = Answer.brk /\ i' = i + 1 /\ pc' = "valid"
    BY <1>4 DEF ValidFree, At, HeapAfter
  <2>2. ~Asks(line)  BY <2>1 DEF Asks
  <2> QED  BY <2>1, <2>2, ValidLine
<1>5. CASE EndValid(mm_init)
  BY <1>5, PassBegins DEF EndValid, StartPass, mm_init, mem_reset_brk
<1>6. CASE UtilAlloc(Answer)
  <2>1. pc = "util" /\ i <= Len(ops) /\ line.type = "a" /\ ops' = ops /\ brk' = Answer.brk
    BY <1>6 DEF UtilAlloc, At, HeapAfter
  <2>2. Answer.ret # NULL  BY <2>1, LaterLine DEF Asks
  <2>3. pc' = pc /\ i' = i + 1  BY <1>6, <2>2 DEF UtilAlloc
  <2> QED  BY <2>1, <2>3, LaterLine
<1>7. CASE UtilRealloc(Answer)
  <2>1. pc = "util" /\ i <= Len(ops) /\ line.type = "r" /\ ops' = ops /\ brk' = Answer.brk
    BY <1>7 DEF UtilRealloc, At, HeapAfter
  <2>2. line.size # 0 => Answer.ret # NULL  BY <2>1, LaterLine DEF Asks
  <2>3. pc' = pc /\ i' = i + 1  BY <1>7, <2>2 DEF UtilRealloc
  <2> QED  BY <2>1, <2>3, LaterLine
<1>8. CASE UtilFree(Answer)
  <2>1. pc = "util" /\ i <= Len(ops) /\ ops' = ops /\ brk' = Answer.brk /\ pc' = pc /\ i' = i + 1
    BY <1>8 DEF UtilFree, At, HeapAfter
  <2> QED  BY <2>1, LaterLine
<1>9. CASE EndUtil(mm_init)
  BY <1>9, PassBegins DEF EndUtil, StartPass, mm_init, mem_reset_brk
<1>10. CASE SpeedLine(Answer)
  <2>1. pc = "speed" /\ i <= Len(ops) /\ ops' = ops /\ brk' = Answer.brk
    BY <1>10 DEF SpeedLine, HeapAfter
  <2>2. ~(\/ line.type = "a" /\ Answer.ret = NULL
          \/ line.type = "r" /\ Answer.ret = NULL /\ line.size # 0)
    BY <2>1, LaterLine DEF Asks
  <2>3. pc' = pc /\ i' = i + 1  BY <1>10, <2>2 DEF SpeedLine
  <2> QED  BY <2>1, <2>3, LaterLine
<1>11. CASE EndSpeed(mm_init)
  <2>1. CASE pc' = "done"
    <3>1. ops' = ops /\ i' = i  BY <1>11, <2>1 DEF EndSpeed, StartPass, mm_init
    <3> QED  BY <2>1, <3>1, ReplayEnds
  <2>2. CASE pc' # "done"
    BY <1>11, <2>2, PassBegins DEF EndSpeed, StartPass, mm_init, mem_reset_brk
  <2> QED  BY <2>1, <2>2
<1>12. CASE UNCHANGED dvars
  <2>1. ops' = ops /\ i' = i /\ pc' = pc /\ brk' = brk  BY <1>12 DEF dvars
  <2>2. pc = "valid" => \E b : Path(ops', b, i') /\ b[i'] = brk'
    BY <2>1 DEF ReplayInv
  <2>3. pc \in {"util", "speed"} => \E b : Path(ops', b, Len(ops') + 1) /\ b[i'] = brk'
    BY <2>1 DEF ReplayInv
  <2> QED  BY <1>0, <2>1, <2>2, <2>3 DEF ReplayInv
<1> QED
  BY <1>1, <1>2, <1>3, <1>4, <1>5, <1>6, <1>7, <1>8, <1>9, <1>10, <1>11, <1>12 DEF Next

(* A trace eval_mm_valid accepted of mm.c is replayed to its end by        *)
(* eval_mm_util and by every timed run: app_error, which would end the     *)
(* driver, is never called.                                                *)
THEOREM AcceptedNeverAborts == Spec => []AcceptedTraceNeverAborts
<1>1. ReplayInv => AcceptedTraceNeverAborts  BY DEF ReplayInv, AcceptedTraceNeverAborts
<1> QED  BY <1>1, InitReplay, NextReplay, PTL DEF Spec
-----------------------------------------------------------------------------
(* mm.c under the driver: where the blocks a trace holds lie.              *)

(* Block d of the blocks at b of sizes s, in a heap m that ends at top. *)
Laid(d, b, s, m, top) ==
  IF s[d] = 0 THEN b[d] = NULL
  ELSE /\ b[d] \in Nat /\ b[d] >= SIZE_T_SIZE /\ b[d] + s[d] <= top
       /\ m[SIZE_PTR(b[d])] = s[d]

Beside(d, e, b, s) ==
  \/ s[d] = 0 \/ s[e] = 0
  \/ b[d] + s[d] <= SIZE_PTR(b[e]) \/ b[e] + s[e] <= SIZE_PTR(b[d])

LaidOut(H, b, s, m, top) ==
  /\ H \subseteq Ids /\ b \in [Ids -> Int] /\ s \in [Ids -> Nat]
  /\ \A d \in H : Laid(d, b, s, m, top)
  /\ \A d, e \in H : d # e => Beside(d, e, b, s)

Layout ==
  /\ HeapOK
  /\ LaidOut(Held, blocks, block_sizes, mem, brk)
  /\ \A d \in Ids : Unused(ops, i, d) => blocks[d] = NULL /\ block_sizes[d] = 0

(* Block d at the break, and a heap that leaves the rest as it was. *)
LEMMA LaidOutGrows ==
  ASSUME NEW H, NEW b, NEW s, NEW m, NEW top \in 0 .. MAX_HEAP, LaidOut(H, b, s, m, top),
         NEW d \in Ids, NEW n \in Nat \ {0}, NEW higher \in Nat, higher >= top + 8 + n,
         NEW w, w[top] = n, \A a \in Addresses : a < top => w[a] = m[a]
  PROVE  LaidOut(H \cup {d}, [b EXCEPT ![d] = top + 8], [s EXCEPT ![d] = n], w, higher)
<1> DEFINE p == top + 8
           c == [b EXCEPT ![d] = p]
           t == [s EXCEPT ![d] = n]
<1>1. H \subseteq Ids /\ b \in [Ids -> Int] /\ s \in [Ids -> Nat]  BY DEF LaidOut
<1>2. p \in Nat /\ p - 8 = top /\ p >= 8 /\ p + n <= higher /\ n # 0 /\ n \in Nat /\ top \in Nat
  BY MaxHeapAssumption
<1>3. c \in [Ids -> Int] /\ t \in [Ids -> Nat] /\ c[d] = p /\ t[d] = n  BY <1>1, <1>2
<1>4. \A e \in Ids : e # d => c[e] = b[e] /\ t[e] = s[e]  BY <1>1
<1> HIDE DEF p, c, t
<1>5. Laid(d, c, t, w, higher)  BY <1>2, <1>3 DEF Laid, SIZE_PTR, SIZE_T_SIZE
<1>6. ASSUME NEW e \in H, e # d
      PROVE  Laid(e, c, t, w, higher) /\ Beside(d, e, c, t) /\ Beside(e, d, c, t)
  <2>1. /\ b[e] \in Int /\ s[e] \in Nat /\ c[e] = b[e] /\ t[e] = s[e]
        /\ Laid(e, b, s, m, top)
    BY <1>1, <1>4, <1>6 DEF LaidOut
  <2>2. CASE s[e] = 0  BY <2>1, <2>2 DEF Laid, Beside
  <2>3. CASE s[e] # 0
    <3>1. b[e] \in Nat /\ b[e] >= 8 /\ b[e] + s[e] <= top /\ m[b[e] - 8] = s[e]
      BY <2>1, <2>3 DEF Laid, SIZE_PTR, SIZE_T_SIZE
    <3>2. b[e] - 8 \in Addresses /\ b[e] - 8 < top
      BY <1>2, <2>1, <3>1, MaxHeapAssumption DEF Addresses
    <3>3. w[b[e] - 8] = s[e] /\ b[e] + s[e] <= higher /\ b[e] + s[e] <= p - 8
      BY <1>2, <2>1, <3>1, <3>2
    <3>4. Laid(e, c, t, w, higher)
      BY <2>1, <2>3, <3>1, <3>3 DEF Laid, SIZE_PTR, SIZE_T_SIZE
    <3> QED  BY <1>3, <2>1, <3>3, <3>4 DEF Beside, SIZE_PTR, SIZE_T_SIZE
  <2> QED  BY <2>2, <2>3
<1>7. ASSUME NEW e \in H, NEW f \in H, e # f, e # d, f # d PROVE Beside(e, f, c, t)
  BY <1>1, <1>4, <1>7 DEF LaidOut, Beside
<1>8. \A e, f \in H \cup {d} : e # f => Beside(e, f, c, t)  BY <1>6, <1>7
<1>9. \A e \in H \cup {d} : Laid(e, c, t, w, higher)  BY <1>5, <1>6
<1>10. LaidOut(H \cup {d}, c, t, w, higher)  BY <1>1, <1>3, <1>8, <1>9 DEF LaidOut
<1> QED  BY <1>10 DEF p, c, t

(* Block d without bytes. *)
LEMMA LaidOutDrops ==
  ASSUME NEW H, NEW b, NEW s, NEW m, NEW top, LaidOut(H, b, s, m, top), NEW d \in Ids
  PROVE  LaidOut(H \cup {d}, [b EXCEPT ![d] = NULL], [s EXCEPT ![d] = 0], m, top)
<1> DEFINE c == [b EXCEPT ![d] = NULL]
           t == [s EXCEPT ![d] = 0]
<1>1. H \subseteq Ids /\ b \in [Ids -> Int] /\ s \in [Ids -> Nat]  BY DEF LaidOut
<1>2. c \in [Ids -> Int] /\ t \in [Ids -> Nat] /\ c[d] = NULL /\ t[d] = 0
  BY <1>1 DEF NULL
<1>3. \A e \in Ids : e # d => c[e] = b[e] /\ t[e] = s[e]  BY <1>1
<1> HIDE DEF c, t
<1>4. ASSUME NEW e \in H \cup {d} PROVE Laid(e, c, t, m, top)
  BY <1>1, <1>2, <1>3 DEF Laid, LaidOut
<1>5. ASSUME NEW e \in H \cup {d}, NEW f \in H \cup {d}, e # f PROVE Beside(e, f, c, t)
  BY <1>1, <1>2, <1>3, <1>5 DEF Beside, LaidOut
<1>6. LaidOut(H \cup {d}, c, t, m, top)  BY <1>1, <1>2, <1>4, <1>5 DEF LaidOut
<1> QED  BY <1>6 DEF c, t

(* What a line of a legal trace is about. *)
LEMMA LineFacts ==
  ASSUME LegalTraces, TracesFit, ops \in Traces, i \in 1 .. Len(ops) + 1, i <= Len(ops)
  PROVE  /\ ops \in Seq(Line) /\ Len(ops) \in Nat /\ i \in 1 .. Len(ops)
         /\ line.type \in {"a", "r", "f"} /\ line.index \in Int
         /\ line.size \in Nat /\ Fits(line.size)
         /\ line.type # "f" => line.index \in Ids /\ line.index \in Nat
         /\ line.type = "a" => line.index \notin Held /\ line.size > 0
         /\ line.type = "r" => line.index \in Held \/ Unused(ops, i, line.index)
         /\ line.type = "f" => line.index \in Held \/ line.index = -1
<1>1. /\ ops \in Seq(Line) /\ Len(ops) \in Nat /\ i \in 1 .. Len(ops) /\ DOMAIN ops = 1 .. Len(ops)
  BY TraceAssumption, LenProperties DEF Line
<1>2. /\ line \in Line
      /\ line.type # "f" => line.index \in Ids
      /\ line.type = "a" => ~HeldBefore(ops, i, line.index) /\ line.size > 0
      /\ line.type = "r" => HeldBefore(ops, i, line.index) \/ Unused(ops, i, line.index)
      /\ line.type = "f" => HeldBefore(ops, i, line.index) \/ line.index = -1
  BY <1>1, LegalLine DEF line
<1>3. Fits(line.size)  BY <1>1 DEF TracesFit, line
<1>4. ASSUME HeldBefore(ops, i, line.index) PROVE line.index \in Ids
  <2>1. PICK j \in 1 .. i - 1 : ops[j].index = line.index /\ ops[j].type # "f"
    BY <1>4 DEF HeldBefore
  <2>2. j \in 1 .. Len(ops)  BY <1>1
  <2> QED  BY <2>1, <2>2, LegalLine
<1> QED  BY <1>1, <1>2, <1>3, <1>4, DriverAssumption DEF Line, Held

(* What the trace holds after a line. *)
LEMMA HeldAfter ==
  ASSUME ops \in Seq(Line), i \in 1 .. Len(ops), ops' = ops, i' = i + 1
  PROVE  /\ line.type = "f" => Held' = Held \ {line.index}
         /\ line.type # "f" /\ line.index \in Ids => Held' = Held \cup {line.index}
         /\ \A d : Unused(ops', i', d) => Unused(ops, i, d) /\ d # line.index
<1>1. \A d : HeldBefore(ops', i', d) <=> IF line.index = d THEN line.type # "f"
                                         ELSE HeldBefore(ops, i, d)
  BY HeldStep DEF line
<1>2. ASSUME NEW d, Unused(ops', i', d) PROVE Unused(ops, i, d) /\ d # line.index
  <2>1. i \in 1 .. i' - 1 /\ \A j \in 1 .. i - 1 : j \in 1 .. i' - 1
    OBVIOUS
  <2> QED  BY <1>2, <2>1 DEF Unused, line
<1> QED  BY <1>1, <1>2 DEF Held

LEMMA LayoutStart ==
  ASSUME HeapOK, reinit_trace, mem_reset_brk, i' = 1
  PROVE  Layout'
<1>1. \A d : ~HeldBefore(ops', i', d) /\ Unused(ops', i', d)  BY NothingHeldAtFirst
<1>2. HeapOK'
  BY MaxHeapAssumption DEF HeapOK, mem_reset_brk, ALIGNMENT
<1>3. Held' = {}  BY <1>1 DEF Held
<1>4. LaidOut(Held', blocks', block_sizes', mem', brk')
  BY <1>3 DEF LaidOut, reinit_trace, NULL
<1> QED  BY <1>2, <1>4 DEF Layout, reinit_trace

(* A line that gives its id the block a bump made. *)
LEMMA LayoutGrows ==
  ASSUME LegalTraces, TracesFit, ops \in Traces, i \in 1 .. Len(ops) + 1, i <= Len(ops),
         ops' = ops, i' = i + 1, Layout, line.type # "f", line.size > 0,
         NEW p, Grown(p, brk', mem', line.size),
         blocks' = [blocks EXCEPT ![line.index] = p],
         block_sizes' = [block_sizes EXCEPT ![line.index] = line.size]
  PROVE  Layout'
<1>1. /\ line.index \in Ids /\ line.size \in Nat \ {0}
      /\ Held' = Held \cup {line.index}
      /\ \A e : Unused(ops', i', e) => Unused(ops, i, e) /\ e # line.index
  BY LineFacts, HeldAfter
<1>2. HeapOK'  BY DEF Grown, HeapOK
<1>3. /\ brk \in 0 .. MAX_HEAP /\ brk' \in Nat /\ p = brk + 8 /\ brk' >= brk + 8 + line.size
      /\ mem'[brk] = line.size /\ \A a \in Addresses : a < brk => mem'[a] = mem[a]
  BY MaxHeapAssumption DEF Layout, HeapOK, Grown, SIZE_T_SIZE
<1>4. LaidOut(Held', blocks', block_sizes', mem', brk')
  BY <1>1, <1>3, LaidOutGrows DEF Layout
<1>5. ASSUME NEW e \in Ids, Unused(ops', i', e) PROVE blocks'[e] = NULL /\ block_sizes'[e] = 0
  <2>1. e # line.index /\ blocks[e] = NULL /\ block_sizes[e] = 0  BY <1>1, <1>5 DEF Layout
  <2> QED  BY <2>1 DEF Layout, LaidOut
<1> QED  BY <1>2, <1>4, <1>5 DEF Layout

(* A line that leaves the heap alone, and its id without a block. *)
LEMMA LayoutDrops ==
  ASSUME LegalTraces, TracesFit, ops \in Traces, i \in 1 .. Len(ops) + 1, i <= Len(ops),
         ops' = ops, i' = i + 1, Layout, brk' = brk, mem' = mem, line.type # "f",
         blocks' = [blocks EXCEPT ![line.index] = NULL],
         block_sizes' = [block_sizes EXCEPT ![line.index] = 0]
  PROVE  Layout'
<1>1. /\ line.index \in Ids /\ Held' = Held \cup {line.index}
      /\ \A e : Unused(ops', i', e) => Unused(ops, i, e) /\ e # line.index
  BY LineFacts, HeldAfter
<1>2. HeapOK'  BY DEF Layout, HeapOK
<1>3. LaidOut(Held', blocks', block_sizes', mem', brk')
  BY <1>1, LaidOutDrops DEF Layout
<1>4. ASSUME NEW e \in Ids, Unused(ops', i', e) PROVE blocks'[e] = NULL /\ block_sizes'[e] = 0
  <2>1. e # line.index /\ blocks[e] = NULL /\ block_sizes[e] = 0  BY <1>1, <1>4 DEF Layout
  <2> QED  BY <2>1 DEF Layout, LaidOut
<1> QED  BY <1>2, <1>3, <1>4 DEF Layout

(* A line that takes a block away, and leaves all else. *)
LEMMA LayoutFrees ==
  ASSUME LegalTraces, TracesFit, ops \in Traces, i \in 1 .. Len(ops) + 1, i <= Len(ops),
         ops' = ops, i' = i + 1, Layout, brk' = brk, mem' = mem, line.type = "f",
         UNCHANGED <<blocks, block_sizes>>
  PROVE  Layout'
<1>1. /\ Held' = Held \ {line.index}
      /\ \A e : Unused(ops', i', e) => Unused(ops, i, e)
  BY LineFacts, HeldAfter
<1>2. HeapOK'  BY DEF Layout, HeapOK
<1>3. LaidOut(Held', blocks', block_sizes', mem', brk')
  BY <1>1 DEF Layout, LaidOut
<1> QED  BY <1>1, <1>2, <1>3 DEF Layout

(* What mm.c answers a line, and what of the old bytes it keeps. *)
LEMMA AnswerKinds ==
  ASSUME LegalTraces, TracesFit, ops \in Traces, i \in 1 .. Len(ops) + 1, i <= Len(ops), Layout
  PROVE  /\ ~Asks(line) => Refused(Answer)
         /\ Asks(line) => line.size > 0
         /\ Asks(line) =>
              \/ Refused(Answer) /\ mm_malloc(line.size).ret = NULL
              \/ /\ Bumped(Answer, line.size)
                 /\ line.type = "r" =>
                      \A k \in 0 .. line.size - 1 : k < block_sizes[line.index] =>
                        Answer.mem[Answer.ret + k] = mem[blocks[line.index] + k]
<1> DEFINE d == line.index
           n == line.size
<1>1. /\ line.type \in {"a", "r", "f"} /\ n \in Nat /\ Fits(n) /\ line \in Line
      /\ line.type = "r" => d \in Ids /\ (d \in Held \/ Unused(ops, i, d))
      /\ line.type = "a" => n > 0
  <2>1. line \in Line
    <3>1. ops \in Seq(Line) /\ i \in 1 .. Len(ops)  BY LineFacts
    <3> QED  BY <3>1, ElementOfSeq DEF line
  <2> QED  BY <2>1, LineFacts
<1>2. HeapOK /\ LaidOut(Held, blocks, block_sizes, mem, brk)  BY DEF Layout
<1>3. Refused(mm_malloc(n)) \/ Bumped(mm_malloc(n), n)  BY <1>1, <1>2, MallocBumps
<1>4. Asks(line) => line.type \in {"a", "r"} /\ n > 0  BY <1>1 DEF Asks
<1>5. CASE line.type = "f"  BY <1>5 DEF Answer, Asks, mm_free, Refused
<1>6. CASE line.type = "a"
  <2>1. Answer = mm_malloc(n)  BY <1>6 DEF Answer
  <2>2. Refused(mm_malloc(n)) => mm_malloc(n).ret = NULL  BY DEF Refused
  <2> QED  BY <1>3, <1>4, <1>6, <2>1, <2>2 DEF Asks
<1>7. CASE line.type = "r" /\ n = 0
  BY <1>7 DEF Answer, Asks, mm_realloc, mm_free, Refused
<1>8. CASE line.type = "r" /\ n # 0
  <2>1. Answer = mm_realloc(blocks[d], n) /\ n > 0 /\ d \in Ids  BY <1>1, <1>8 DEF Answer
  <2>2. Refused(Answer) => mm_malloc(n).ret = NULL
    <3>1. mm_realloc(blocks[d], n).ret = mm_malloc(n).ret
      BY <1>1, <1>8, ReallocOutcome
    <3> QED  BY <2>1, <3>1 DEF Refused
  <2>3. blocks[d] \in Int /\ block_sizes[d] \in Nat  BY <1>2, <2>1 DEF LaidOut
  <2>4. \/ block_sizes[d] = 0 /\ blocks[d] = NULL
        \/ block_sizes[d] # 0 /\ Laid(d, blocks, block_sizes, mem, brk)
    <3>1. CASE d \in Held
      <4>1. Laid(d, blocks, block_sizes, mem, brk)  BY <1>2, <3>1 DEF LaidOut
      <4> QED  BY <4>1 DEF Laid
    <3>2. CASE Unused(ops, i, d)
      <4>1. \A e \in Ids : Unused(ops, i, e) => blocks[e] = NULL /\ block_sizes[e] = 0
        BY DEF Layout
      <4> QED  BY <2>1, <3>2, <4>1
    <3> QED  BY <1>1, <1>8, <3>1, <3>2
  <2>5. CASE block_sizes[d] = 0 /\ blocks[d] = NULL
    <3>1. Answer = mm_malloc(n)  BY <1>8, <2>1, <2>5 DEF mm_realloc
    <3>2. \A k \in 0 .. n - 1 : ~(k < block_sizes[d])  BY <1>1, <2>5
    <3> QED  BY <1>3, <1>4, <1>8, <2>2, <3>1, <3>2 DEF Asks
  <2>6. CASE block_sizes[d] # 0 /\ Laid(d, blocks, block_sizes, mem, brk)
    <3>1. /\ blocks[d] \in Nat /\ blocks[d] >= SIZE_T_SIZE /\ blocks[d] + block_sizes[d] <= brk
          /\ mem[SIZE_PTR(blocks[d])] = block_sizes[d]
      BY <2>6 DEF Laid
    <3>2. \/ Refused(Answer)
          \/ /\ Bumped(Answer, n)
             /\ \A k \in 0 .. n - 1 : k < block_sizes[d] => Answer.mem[Answer.ret + k] = mem[blocks[d] + k]
      <4> DEFINE p   == blocks[d]
                 old == block_sizes[d]
      <4>1. /\ HeapOK /\ p \in Nat /\ old \in Nat /\ p >= SIZE_T_SIZE /\ p + old <= brk
            /\ mem[SIZE_PTR(p)] = old /\ n \in Nat \ {0} /\ Fits(n) /\ Answer = mm_realloc(p, n)
        BY <1>1, <1>2, <1>8, <2>1, <2>3, <3>1
      <4> HIDE DEF p, old, n
      <4>2. \/ Refused(mm_realloc(p, n))
            \/ /\ Bumped(mm_realloc(p, n), n)
               /\ \A k \in 0 .. n - 1 :
                    k < old => mm_realloc(p, n).mem[mm_realloc(p, n).ret + k] = mem[p + k]
        BY <4>1, MovedBumps
      <4> QED  BY <4>1, <4>2 DEF p, old
    <3> QED  BY <1>4, <1>8, <2>2, <3>2 DEF Asks
  <2> QED  BY <2>4, <2>5, <2>6
<1> QED  BY <1>1, <1>5, <1>6, <1>7, <1>8
-----------------------------------------------------------------------------
(* The range list of the blocks a trace holds.                             *)

(* The list is one of the blocks at b of sizes s of the ids H, each once. *)
Lists(list, H, b, s) ==
  /\ list \in Seq(Extent)
  /\ \A k \in 1 .. Len(list) : /\ list[k].index \in H
                               /\ list[k].lo = b[list[k].index]
                               /\ list[k].hi = b[list[k].index] + s[list[k].index] - 1
  /\ \A d \in H : \E k \in 1 .. Len(list) : list[k].index = d
  /\ \A j, k \in 1 .. Len(list) : list[j].index = list[k].index => j = k

LEMMA ListsNothing == \A b, s : Lists(<< >>, {}, b, s)
<1>1. << >> \in Seq(Extent) /\ Len(<< >>) = 0  OBVIOUS
<1> QED  BY <1>1 DEF Lists

(* remove_range(list, b[d]) forgets block d, if no other block is there. *)
LEMMA ListsRemove ==
  ASSUME NEW list, NEW H, NEW b, NEW s, Lists(list, H, b, s), NEW d,
         \A e \in H : e # d => b[e] # b[d]
  PROVE  Lists(remove_range(list, b[d]), H \ {d}, b, s)
<1> DEFINE rest == remove_range(list, b[d])
<1>1. /\ list \in Seq(Extent) /\ Len(list) \in Nat
      /\ \A k \in 1 .. Len(list) : /\ list[k].index \in H
                                   /\ list[k].lo = b[list[k].index]
                                   /\ list[k].hi = b[list[k].index] + s[list[k].index] - 1
      /\ \A e \in H : \E k \in 1 .. Len(list) : list[k].index = e
      /\ \A j, k \in 1 .. Len(list) : list[j].index = list[k].index => j = k
  BY LenProperties DEF Lists
<1>2. ASSUME NEW k \in 1 .. Len(list) PROVE list[k].lo = b[d] <=> list[k].index = d
  BY <1>1
<1>3. CASE (\A k \in 1 .. Len(list) : list[k].lo # b[d]) /\ rest = list
  <2>1. d \notin H  BY <1>1, <1>2, <1>3
  <2>2. H \ {d} = H  BY <2>1
  <2> QED  BY <1>3, <2>2
<1>4. ASSUME NEW n \in 1 .. Len(list), list[n].lo = b[d], rest = RemoveAt(list, n)
      PROVE  Lists(rest, H \ {d}, b, s)
  <2> DEFINE old(j) == IF j < n THEN j ELSE j + 1
  <2>1. /\ rest \in Seq(Extent) /\ Len(rest) = Len(list) - 1
        /\ \A j \in 1 .. Len(list) - 1 : rest[j] = IF j < n THEN list[j] ELSE list[j + 1]
    <3>1. list \in Seq(Extent)  BY <1>1
    <3> QED  BY <1>4, <3>1, RemoveAtElements
  <2> HIDE DEF rest
  <2>2. list[n].index = d  BY <1>2, <1>4
  <2>3. ASSUME NEW j \in 1 .. Len(rest)
        PROVE  rest[j] = list[old(j)] /\ old(j) \in 1 .. Len(list) /\ old(j) # n
    <3>1. j \in 1 .. Len(list) - 1  BY <2>1
    <3>2. CASE j < n  BY <1>1, <2>1, <3>1, <3>2
    <3>3. CASE ~(j < n)  BY <1>1, <2>1, <3>1, <3>3
    <3> QED  BY <3>2, <3>3
  <2>4. ASSUME NEW j \in 1 .. Len(rest), NEW k \in 1 .. Len(rest), old(j) = old(k)
        PROVE  j = k
    <3>1. j \in Nat /\ k \in Nat  BY <1>1, <2>1
    <3> QED  BY <2>4, <3>1
  <2>5. ASSUME NEW k \in 1 .. Len(list), k # n
        PROVE  \E j \in 1 .. Len(rest) : old(j) = k
    <3>1. CASE k < n
      <4>1. k \in 1 .. Len(rest) /\ old(k) = k  BY <1>1, <2>1, <3>1
      <4> QED  BY <4>1
    <3>2. CASE k > n
      <4>1. k - 1 \in 1 .. Len(rest) /\ old(k - 1) = k  BY <1>1, <2>1, <3>2
      <4> QED  BY <4>1
    <3> QED  BY <1>1, <2>5, <3>1, <3>2
  <2> HIDE DEF old
  <2>6. ASSUME NEW j \in 1 .. Len(rest)
        PROVE  /\ rest[j].index \in H \ {d} /\ rest[j].lo = b[rest[j].index]
               /\ rest[j].hi = b[rest[j].index] + s[rest[j].index] - 1
    BY <1>1, <2>2, <2>3
  <2>7. ASSUME NEW e \in H \ {d} PROVE \E j \in 1 .. Len(rest) : rest[j].index = e
    <3>1. PICK k \in 1 .. Len(list) : list[k].index = e  BY <1>1
    <3>2. PICK j \in 1 .. Len(rest) : old(j) = k  BY <2>2, <2>5, <3>1
    <3> QED  BY <2>3, <3>1, <3>2
  <2>8. ASSUME NEW j \in 1 .. Len(rest), NEW k \in 1 .. Len(rest), rest[j].index = rest[k].index
        PROVE  j = k
    BY <1>1, <2>3, <2>4, <2>8
  <2> QED  BY <2>1, <2>6, <2>7, <2>8 DEF Lists
<1> QED  BY <1>1, <1>3, <1>4, RemoveRangeRemoves

(* add_range puts block d in front. *)
LEMMA ListsAdd ==
  ASSUME NEW list, NEW H, NEW b, NEW s, Lists(list, H, b, s), NEW d \in Int, d \notin H,
         NEW p \in Int, NEW n \in Int, NEW c, NEW t, c[d] = p, t[d] = n,
         \A e \in H : c[e] = b[e] /\ t[e] = s[e]
  PROVE  Lists(<<[lo |-> p, hi |-> p + n - 1, index |-> d]>> \o list, H \cup {d}, c, t)
<1> DEFINE new  == [lo |-> p, hi |-> p + n - 1, index |-> d]
           more == <<new>> \o list
<1>1. /\ list \in Seq(Extent) /\ Len(list) \in Nat
      /\ \A k \in 1 .. Len(list) : /\ list[k].index \in H
                                   /\ list[k].lo = b[list[k].index]
                                   /\ list[k].hi = b[list[k].index] + s[list[k].index] - 1
      /\ \A e \in H : \E k \in 1 .. Len(list) : list[k].index = e
      /\ \A j, k \in 1 .. Len(list) : list[j].index = list[k].index => j = k
  BY LenProperties DEF Lists
<1>2. new \in Extent /\ new.lo = p /\ new.hi = p + n - 1 /\ new.index = d  BY DEF Extent
<1> HIDE DEF new
<1>3. /\ more \in Seq(Extent) /\ Len(more) = Len(list) + 1
      /\ \A j \in 1 .. Len(list) + 1 : more[j] = IF j = 1 THEN new ELSE list[j - 1]
  <2>1. <<new>> \in Seq(Extent) /\ Len(<<new>>) = 1 /\ <<new>>[1] = new  BY <1>2
  <2>2. /\ more \in Seq(Extent) /\ Len(more) = 1 + Len(list)
        /\ \A j \in 1 .. 1 + Len(list) : more[j] = IF j <= 1 THEN <<new>>[j] ELSE list[j - 1]
    BY <1>1, <2>1, ConcatProperties
  <2>3. ASSUME NEW j \in 1 .. Len(list) + 1
        PROVE  more[j] = IF j = 1 THEN new ELSE list[j - 1]
    <3>1. j \in 1 .. 1 + Len(list)  BY <1>1
    <3>2. CASE j = 1  BY <2>1, <2>2, <3>1, <3>2
    <3>3. CASE j # 1  BY <1>1, <2>2, <3>1, <3>3
    <3> QED  BY <3>2, <3>3
  <2> QED  BY <1>1, <2>2, <2>3
<1> HIDE DEF more
<1>4. ASSUME NEW j \in 1 .. Len(more), j # 1
      PROVE  more[j] = list[j - 1] /\ j - 1 \in 1 .. Len(list)
  BY <1>1, <1>3, <1>4
<1>5. 1 \in 1 .. Len(more) /\ more[1] = new  BY <1>1, <1>3
<1>6. ASSUME NEW j \in 1 .. Len(more)
      PROVE  /\ more[j].index \in H \cup {d} /\ more[j].lo = c[more[j].index]
             /\ more[j].hi = c[more[j].index] + t[more[j].index] - 1
  <2>1. CASE j = 1  BY <1>2, <1>5, <2>1
  <2>2. CASE j # 1  BY <1>1, <1>4, <2>2, SMTT(20)
  <2> QED  BY <2>1, <2>2
<1>7. ASSUME NEW e \in H \cup {d} PROVE \E j \in 1 .. Len(more) : more[j].index = e
  <2>1. CASE e = d  BY <1>2, <1>5, <2>1
  <2>2. CASE e # d
    <3>1. PICK k \in 1 .. Len(list) : list[k].index = e  BY <1>1, <2>2
    <3>2. k + 1 \in 1 .. Len(more) /\ k + 1 # 1 /\ (k + 1) - 1 = k  BY <1>1, <1>3
    <3>3. more[k + 1] = list[k]  BY <1>4, <3>2
    <3> QED  BY <3>1, <3>2, <3>3
  <2> QED  BY <2>1, <2>2
<1>8. ASSUME NEW j \in 1 .. Len(more), NEW k \in 1 .. Len(more), more[j].index = more[k].index
      PROVE  j = k
  <2>1. ASSUME NEW l \in 1 .. Len(more), l # 1 PROVE more[l].index # d
    BY <1>1, <1>4, <2>1, SMTT(20)
  <2>2. CASE j = 1  BY <1>2, <1>5, <1>8, <2>1, <2>2
  <2>3. CASE k = 1  BY <1>2, <1>5, <1>8, <2>1, <2>3
  <2>4. CASE j # 1 /\ k # 1
    <3>1. /\ more[j] = list[j - 1] /\ more[k] = list[k - 1]
          /\ j - 1 \in 1 .. Len(list) /\ k - 1 \in 1 .. Len(list)
      BY <1>4, <2>4
    <3>2. j - 1 = k - 1  BY <1>1, <1>8, <3>1, SMTT(20)
    <3>3. j \in Int /\ k \in Int  BY <1>1, <1>3
    <3> QED  BY <3>2, <3>3
  <2> QED  BY <2>2, <2>3, <2>4
<1>9. Lists(more, H \cup {d}, c, t)  BY <1>3, <1>6, <1>7, <1>8 DEF Lists
<1> QED  BY <1>9 DEF more, new

(* A list has as many entries as there are blocks. *)
LEMMA ListsCount ==
  ASSUME NEW list, NEW H, NEW b, NEW s, Lists(list, H, b, s)
  PROVE  /\ Len(list) = Cardinality(H)
         /\ {list[k] : k \in DOMAIN list} =
              {[lo |-> b[d], hi |-> b[d] + s[d] - 1, index |-> d] : d \in H}
<1> DEFINE entry(d) == [lo |-> b[d], hi |-> b[d] + s[d] - 1, index |-> d]
<1>1. /\ list \in Seq(Extent) /\ Len(list) \in Nat /\ DOMAIN list = 1 .. Len(list)
      /\ \A k \in 1 .. Len(list) : /\ list[k].index \in H
                                   /\ list[k].lo = b[list[k].index]
                                   /\ list[k].hi = b[list[k].index] + s[list[k].index] - 1
      /\ \A e \in H : \E k \in 1 .. Len(list) : list[k].index = e
      /\ \A j, k \in 1 .. Len(list) : list[j].index = list[k].index => j = k
  BY LenProperties DEF Lists
<1>2. ASSUME NEW k \in 1 .. Len(list) PROVE list[k] = entry(list[k].index)
  <2>1. list[k] \in Extent  BY <1>1, ElementOfSeq
  <2>2. list[k] = [lo |-> list[k].lo, hi |-> list[k].hi, index |-> list[k].index]
    BY <2>1 DEF Extent
  <2> QED  BY <1>1, <2>2
<1> DEFINE f == [k \in 1 .. Len(list) |-> list[k].index]
<1>3. f \in [1 .. Len(list) -> H]  BY <1>1
<1>4. \A j, k \in 1 .. Len(list) : f[j] = f[k] => j = k  BY <1>1
<1>5. \A e \in H : \E k \in 1 .. Len(list) : f[k] = e  BY <1>1
<1> HIDE DEF f
<1>6. ExistsBijection(1 .. Len(list), H)
  <2>1. f \in Bijection(1 .. Len(list), H)
    BY <1>3, <1>4, <1>5 DEF Bijection, Injection, Surjection, IsInjective
  <2> QED  BY <2>1 DEF ExistsBijection
<1>7. IsFiniteSet(1 .. Len(list)) /\ Cardinality(1 .. Len(list)) = Len(list)
  <2>1. 1 \in Int /\ Len(list) \in Int /\ (IF 1 > Len(list) THEN 0 ELSE Len(list) - 1 + 1) = Len(list)
    BY <1>1
  <2> QED  BY <2>1, FS_Interval
<1>8. Cardinality(H) = Len(list)  BY <1>6, <1>7, FS_Bijection
<1> HIDE DEF entry
<1>9. {list[k] : k \in DOMAIN list} = {entry(d) : d \in H}  BY <1>1, <1>2
<1> QED  BY <1>8, <1>9 DEF entry
-----------------------------------------------------------------------------
(* eval_mm_valid finds nothing wrong with mm.c.                            *)

HeldBlocks == {d \in Held : block_sizes[d] > 0}

(* The list a line starts from: the blocks held, or nothing. *)
Listed(list, H) == IF unchecked THEN list = << >> ELSE Lists(list, H, blocks, block_sizes)

Checked ==
  /\ errors = 0 /\ valid = -1 /\ block_rand_base \in [Ids -> Nat]
  /\ debug_mode # "none" => \A d \in Held : ~Spoilt(d)
  /\ Listed(ranges, HeldBlocks)

(* An id a line may be about. *)
Known(d) == d \in Held \/ (d \in Ids /\ Unused(ops, i, d))

LEMMA HeldBlockLies ==
  ASSUME Layout, NEW d \in HeldBlocks
  PROVE  /\ d \in Ids /\ blocks[d] \in Nat /\ block_sizes[d] \in Nat \ {0} /\ brk \in Nat
         /\ blocks[d] >= 8 /\ blocks[d] + block_sizes[d] <= brk /\ brk <= MAX_HEAP
<1>1. LaidOut(Held, blocks, block_sizes, mem, brk) /\ d \in Held /\ d \in Ids /\ block_sizes[d] > 0
  BY DEF Layout, HeldBlocks, Held
<1>2. block_sizes[d] \in Nat /\ Laid(d, blocks, block_sizes, mem, brk)  BY <1>1 DEF LaidOut
<1>3. brk \in Nat /\ brk <= MAX_HEAP  BY MaxHeapAssumption DEF Layout, HeapOK
<1> QED  BY <1>1, <1>2, <1>3 DEF Laid, SIZE_T_SIZE

LEMMA HeldApart ==
  ASSUME Layout, NEW d, Known(d), NEW e \in HeldBlocks, e # d
  PROVE  blocks[e] # blocks[d]
<1>1. blocks[e] \in Nat /\ block_sizes[e] \in Nat \ {0} /\ e \in Held
  BY HeldBlockLies DEF HeldBlocks
<1>2. CASE d \in HeldBlocks
  <2>1. blocks[d] \in Nat /\ block_sizes[d] \in Nat \ {0} /\ d \in Held
    BY <1>2, HeldBlockLies DEF HeldBlocks
  <2>2. Beside(d, e, blocks, block_sizes)  BY <1>1, <2>1 DEF Layout, LaidOut
  <2> QED  BY <1>1, <2>1, <2>2 DEF Beside, SIZE_PTR, SIZE_T_SIZE
<1>3. CASE d \notin HeldBlocks
  <2>1. blocks[d] = NULL
    <3>1. CASE d \in Held
      <4>1. block_sizes[d] \in Nat /\ Laid(d, blocks, block_sizes, mem, brk)
        BY <3>1 DEF Layout, LaidOut
      <4>2. block_sizes[d] = 0  BY <1>3, <3>1, <4>1 DEF HeldBlocks
      <4> QED  BY <4>1, <4>2 DEF Laid
    <3>2. CASE d \in Ids /\ Unused(ops, i, d)  BY <3>2 DEF Layout
    <3> QED  BY <3>1, <3>2 DEF Known
  <2> QED  BY <1>1, <2>1 DEF NULL
<1> QED  BY <1>2, <1>3

LEMMA RestListed ==
  ASSUME Layout, Listed(ranges, HeldBlocks), NEW d, Known(d)
  PROVE  Listed(remove_range(ranges, blocks[d]), HeldBlocks \ {d})
<1>1. CASE unchecked
  <2>1. ranges = << >>  BY <1>1 DEF Listed
  <2>2. ranges \in Seq(Extent) /\ \A k : k \notin 1 .. Len(ranges)  BY <2>1
  <2>3. remove_range(ranges, blocks[d]) = ranges  BY <2>2, RemoveRangeRemoves
  <2> QED  BY <1>1, <2>1, <2>3 DEF Listed
<1>2. CASE ~unchecked
  <2>1. Lists(ranges, HeldBlocks, blocks, block_sizes)  BY <1>2 DEF Listed
  <2>2. \A e \in HeldBlocks : e # d => blocks[e] # blocks[d]  BY HeldApart
  <2> QED  BY <1>2, <2>1, <2>2, ListsRemove DEF Listed
<1> QED  BY <1>1, <1>2

(* add_range accepts the block a bump made. *)
LEMMA BumpAccepted ==
  ASSUME Layout, NEW n \in Nat \ {0}, NEW p, NEW b, NEW m, Grown(p, b, m, n),
         NEW list, NEW H \in SUBSET HeldBlocks, Listed(list, H)
  PROVE  p # NULL /\ Accepted(list, p, n, b - 1)
<1>1. brk \in Nat /\ brk % 8 = 0 /\ brk <= MAX_HEAP
  BY MaxHeapAssumption DEF Layout, HeapOK, ALIGNMENT
<1>2. p = brk + 8 /\ b \in Nat /\ b >= brk + 8 + n
  BY MaxHeapAssumption DEF Grown, SIZE_T_SIZE
<1>3. IS_ALIGNED(p)  BY <1>1, <1>2 DEF IS_ALIGNED, ALIGNMENT
<1>4. p # NULL /\ ~Outside(p, b - 1) /\ ~Outside(p + n - 1, b - 1)
  BY <1>1, <1>2 DEF Outside, mem_heap_lo, NULL
<1>5. ASSUME ~unchecked, NEW k \in DOMAIN list PROVE ~Overlaps(p, p + n - 1, list[k])
  <2>1. Lists(list, H, blocks, block_sizes)  BY <1>5 DEF Listed
  <2>2. k \in 1 .. Len(list)  BY <1>5, <2>1, LenProperties DEF Lists
  <2> DEFINE e == list[k].index
  <2>3. e \in HeldBlocks /\ list[k].lo = blocks[e] /\ list[k].hi = blocks[e] + block_sizes[e] - 1
    BY <2>1, <2>2 DEF Lists
  <2>4. blocks[e] \in Nat /\ block_sizes[e] \in Nat \ {0} /\ blocks[e] + block_sizes[e] <= brk
    BY <2>3, HeldBlockLies
  <2> HIDE DEF e
  <2> QED  BY <1>1, <1>2, <2>3, <2>4 DEF Overlaps
<1> QED  BY <1>3, <1>4, <1>5 DEF Accepted

(* No check between lines reports an error. *)
LEMMA NoComplaints ==
  ASSUME Layout, Checked
  PROVE  /\ ExpensiveCheck = 0
         /\ \A d : Known(d) \/ d = -1 => CheckIndex(mem, d) = 0
<1>1. ASSUME NEW d \in Held PROVE CheckIndex(mem, d) = 0
  BY DEF Checked, CheckIndex, Spoilt
<1>2. ASSUME NEW d \in Ids, Unused(ops, i, d) PROVE CheckIndex(mem, d) = 0
  <2>1. block_sizes[d] = 0  BY <1>2 DEF Layout
  <2>2. ~Garbled(mem, blocks[d], block_sizes[d], block_rand_base[d])  BY <2>1 DEF Garbled
  <2> QED  BY <2>2 DEF CheckIndex
<1>3. CheckIndex(mem, -1) = 0  BY DEF CheckIndex
<1>4. ExpensiveCheck = 0
  <2>1. {k \in DOMAIN ranges : CheckIndex(mem, ranges[k].index) = 1} = {}
    <3>1. CASE unchecked  BY <3>1 DEF Checked, Listed
    <3>2. CASE ~unchecked
      <4>1. Lists(ranges, HeldBlocks, blocks, block_sizes)  BY <3>2 DEF Checked, Listed
      <4>2. ASSUME NEW k \in DOMAIN ranges PROVE ranges[k].index \in Held
        <5>1. k \in 1 .. Len(ranges)  BY <4>1, LenProperties DEF Lists
        <5> QED  BY <4>1, <5>1 DEF Lists, HeldBlocks
      <4> QED  BY <1>1, <4>2
    <3> QED  BY <3>1, <3>2
  <2> QED  BY <2>1, FS_EmptySet DEF ExpensiveCheck
<1> QED  BY <1>1, <1>2, <1>3, <1>4 DEF Known

(* The random bytes written into the new block leave it a bump. *)
LEMMA GrownFilled ==
  ASSUME HeapOK, NEW n \in Nat \ {0}, NEW p, NEW b, NEW m, Grown(p, b, m, n), NEW base \in RandBases
  PROVE  /\ Grown(p, b, Filled(m, p, n, base), n)
         /\ debug_mode # "none" => ~Garbled(Filled(m, p, n, base), p, n, base)
<1> DEFINE w == Filled(m, p, n, base)
<1>1. /\ brk \in Nat /\ p = brk + 8 /\ p \in Nat /\ b \in Nat /\ p + n <= b /\ b <= MAX_HEAP
      /\ m \in [Addresses -> Nat] /\ n \in Nat
  BY MaxHeapAssumption DEF HeapOK, Grown, SIZE_T_SIZE
<1>2. \A k \in Int : Random(base, k) \in Nat
  <2>1. ASSUME NEW k \in Int PROVE Random(base, k) \in Nat
    <3>1. base + k \in Int /\ RANDOM_DATA_LEN \in Nat \ {0}  BY DriverAssumption
    <3>2. (base + k) % RANDOM_DATA_LEN \in 0 .. RANDOM_DATA_LEN - 1  BY <3>1
    <3>3. Random(base, k) \in 0 .. 255  BY <3>2, DriverAssumption DEF Random
    <3> QED  BY <3>3
  <2> QED  BY <2>1
<1>3. ASSUME NEW a \in Addresses
      PROVE  w[a] \in Nat /\ (a < p => w[a] = m[a])
  <2>1. a \in Int  BY DEF Addresses
  <2>2. w[a] = IF debug_mode # "none" /\ p <= a /\ a < p + n THEN Random(base, a - p) ELSE m[a]
    BY <1>1 DEF Filled, Randomized
  <2> QED  BY <1>1, <1>2, <2>1, <2>2
<1>4. w \in [Addresses -> Nat]
  <2>1. w = [a \in Addresses |-> w[a]]  BY <1>1 DEF Filled, Randomized
  <2> QED  BY <1>3, <2>1
<1>5. Grown(p, b, w, n)  BY <1>1, <1>3, <1>4, GrownAfterWrite
<1>6. ASSUME debug_mode # "none", NEW k \in 0 .. n - 1 PROVE w[p + k] = Random(base, k)
  <2>1. p + k \in Addresses /\ p <= p + k /\ p + k < p + n /\ (p + k) - p = k
    BY <1>1, MaxHeapAssumption DEF Addresses
  <2> QED  BY <1>1, <1>6, <2>1 DEF Filled, Randomized
<1> QED  BY <1>5, <1>6 DEF Garbled

(* What is written above the break spoils no block. *)
LEMMA BytesStay ==
  ASSUME Layout, NEW d \in Held, NEW w, \A a \in Addresses : a < brk => w[a] = mem[a], ~Spoilt(d)
  PROVE  ~Garbled(w, blocks[d], block_sizes[d], block_rand_base[d])
<1> SUFFICES ASSUME NEW k \in 0 .. block_sizes[d] - 1
             PROVE  w[blocks[d] + k] = Random(block_rand_base[d], k)
  BY DEF Garbled
<1>1. mem[blocks[d] + k] = Random(block_rand_base[d], k)  BY DEF Spoilt, Garbled
<1>2. block_sizes[d] \in Nat  BY DEF Layout, LaidOut
<1>3. d \in HeldBlocks  BY <1>2 DEF HeldBlocks
<1>4. blocks[d] + k \in Addresses /\ blocks[d] + k < brk
  <2>1. blocks[d] \in Nat /\ blocks[d] + block_sizes[d] <= brk /\ brk <= MAX_HEAP /\ brk \in Nat
    BY <1>3, HeldBlockLies
  <2> QED  BY <1>2, <2>1, MaxHeapAssumption DEF Addresses
<1> QED  BY <1>1, <1>4

(* A line that is answered with a new block. *)
LEMMA CheckedGrows ==
  ASSUME LegalTraces, TracesFit, ops \in Traces, i \in 1 .. Len(ops) + 1, i <= Len(ops),
         Layout, Checked, line.type # "f", line.size > 0,
         UNCHANGED traceVars, i' = i + 1, UNCHANGED <<errors, valid>>,
         NEW rest, Listed(rest, HeldBlocks \ {line.index}),
         NEW p, NEW m, Grown(p, brk', m, line.size),
         NEW base \in RandBases, Remember(line.index, p, line.size, base),
         ranges' = add_range(rest, p, line.size, line.index),
         mem' = Filled(m, p, line.size, base)
  PROVE  Layout' /\ Checked'
<1> DEFINE d == line.index
           n == line.size
<1> HIDE DEF d, n
<1>1. /\ ops' = ops /\ ignore_ranges' = ignore_ranges /\ debug_mode' = debug_mode
      /\ blocks' = [blocks EXCEPT ![d] = p] /\ block_sizes' = [block_sizes EXCEPT ![d] = n]
      /\ block_rand_base' = IF debug_mode = "none" THEN block_rand_base
                            ELSE [block_rand_base EXCEPT ![d] = base]
  BY DEF traceVars, Remember, d, n
<1>2. d \in Ids /\ d \in Int /\ n \in Nat \ {0} /\ Held' = Held \cup {d}
  BY <1>1, LineFacts, HeldAfter DEF d, n
<1>3. HeapOK /\ LaidOut(Held, blocks, block_sizes, mem, brk) /\ Held \subseteq Ids
  BY DEF Layout, Held
<1>4. /\ Grown(p, brk', mem', n)
      /\ debug_mode # "none" => ~Garbled(mem', p, n, base)
  BY <1>2, <1>3, GrownFilled DEF n
<1>5. Layout'  BY <1>1, <1>4, LayoutGrows DEF d, n
<1>6. /\ blocks'[d] = p /\ block_sizes'[d] = n
      /\ \A e \in Ids : e # d => blocks'[e] = blocks[e] /\ block_sizes'[e] = block_sizes[e]
  BY <1>1, <1>2, <1>3 DEF LaidOut
<1>7. /\ block_rand_base' \in [Ids -> Nat]
      /\ debug_mode # "none" => block_rand_base'[d] = base
      /\ \A e \in Ids : e # d => block_rand_base'[e] = block_rand_base[e]
  BY <1>1, <1>2, DriverAssumption DEF Checked
<1>8. ASSUME debug_mode # "none", NEW e \in Held' PROVE ~Spoilt(e)'
  <2>1. CASE e = d  BY <1>4, <1>6, <1>7, <1>8, <2>1 DEF Spoilt
  <2>2. CASE e # d
    <3>1. e \in Held /\ e \in Ids /\ ~Spoilt(e)  BY <1>2, <1>3, <1>8, <2>2 DEF Checked
    <3>2. \A a \in Addresses : a < brk => mem'[a] = mem[a]  BY <1>4 DEF Grown
    <3>3. ~Garbled(mem', blocks[e], block_sizes[e], block_rand_base[e])  BY <3>1, <3>2, BytesStay
    <3> QED  BY <1>6, <1>7, <2>2, <3>1, <3>3 DEF Spoilt
  <2> QED  BY <2>1, <2>2
<1>9. HeldBlocks' = (HeldBlocks \ {d}) \cup {d}
  <2>1. n > 0  BY <1>2
  <2> QED  BY <1>2, <1>3, <1>6, <2>1 DEF HeldBlocks
<1>10. unchecked' = unchecked  BY <1>1 DEF unchecked
<1>11. Listed(ranges, HeldBlocks)'
  <2>1. CASE unchecked  BY <1>10, <2>1 DEF Listed, add_range
  <2>2. CASE ~unchecked
    <3>1. Lists(rest, HeldBlocks \ {d}, blocks, block_sizes)  BY <2>2 DEF Listed, d
    <3>2. ranges' = <<[lo |-> p, hi |-> p + n - 1, index |-> d]>> \o rest
      BY <2>2 DEF add_range, d, n
    <3>3. p \in Int  BY <1>3, MaxHeapAssumption DEF HeapOK, Grown, SIZE_T_SIZE
    <3>4. \A e \in HeldBlocks \ {d} : blocks'[e] = blocks[e] /\ block_sizes'[e] = block_sizes[e]
      BY <1>3, <1>6 DEF HeldBlocks
    <3> DEFINE H == HeldBlocks \ {d}
    <3>5. d \in Int /\ d \notin H /\ n \in Int /\ blocks'[d] = p /\ block_sizes'[d] = n
      BY <1>2, <1>6
    <3> HIDE DEF H
    <3>6. Lists(<<[lo |-> p, hi |-> p + n - 1, index |-> d]>> \o rest, H \cup {d}, blocks', block_sizes')
      <4>1. /\ Lists(rest, H, blocks, block_sizes)
            /\ \A e \in H : blocks'[e] = blocks[e] /\ block_sizes'[e] = block_sizes[e]
        BY <3>1, <3>4 DEF H
      <4> QED  BY <3>3, <3>5, <4>1, ListsAdd, ZenonT(30)
    <3> QED  BY <1>9, <1>10, <2>2, <3>2, <3>6 DEF Listed, H
  <2> QED  BY <2>1, <2>2
<1>12. errors' = 0 /\ valid' = -1  BY DEF Checked
<1> QED  BY <1>1, <1>5, <1>7, <1>8, <1>11, <1>12 DEF Checked

(* A realloc to no bytes, which leaves its id without a block. *)
LEMMA CheckedDrops ==
  ASSUME LegalTraces, TracesFit, ops \in Traces, i \in 1 .. Len(ops) + 1, i <= Len(ops),
         Layout, Checked, line.type # "f", line.size = 0,
         UNCHANGED traceVars, i' = i + 1, UNCHANGED <<errors, valid>>,
         NEW base \in RandBases, Remember(line.index, NULL, 0, base),
         Listed(ranges', HeldBlocks \ {line.index}),
         brk' = brk, mem' = Filled(mem, NULL, 0, base)
  PROVE  Layout' /\ Checked'
<1> DEFINE d == line.index
<1> HIDE DEF d
<1>1. /\ ops' = ops /\ ignore_ranges' = ignore_ranges /\ debug_mode' = debug_mode
      /\ blocks' = [blocks EXCEPT ![d] = NULL] /\ block_sizes' = [block_sizes EXCEPT ![d] = 0]
      /\ block_rand_base' = IF debug_mode = "none" THEN block_rand_base
                            ELSE [block_rand_base EXCEPT ![d] = base]
  BY DEF traceVars, Remember, d
<1>2. d \in Ids /\ Held' = Held \cup {d}  BY <1>1, LineFacts, HeldAfter DEF d
<1>3. /\ HeapOK /\ LaidOut(Held, blocks, block_sizes, mem, brk) /\ Held \subseteq Ids
  BY DEF Layout, Held
<1>4. mem' = mem
  <2>1. mem \in [Addresses -> Nat]  BY <1>3 DEF HeapOK
  <2>2. \A a \in Addresses : ~(NULL <= a /\ a < NULL + 0)  BY DEF NULL, Addresses
  <2>3. mem = [a \in DOMAIN mem |-> mem[a]]  BY <2>1
  <2> QED  BY <2>1, <2>2, <2>3 DEF Filled, Randomized
<1>5. Layout'  BY <1>1, <1>4, LayoutDrops DEF d
<1>6. /\ blocks'[d] = NULL /\ block_sizes'[d] = 0
      /\ \A e \in Ids : e # d => blocks'[e] = blocks[e] /\ block_sizes'[e] = block_sizes[e]
  BY <1>1, <1>2, <1>3 DEF LaidOut
<1>7. /\ block_rand_base' \in [Ids -> Nat]
      /\ \A e \in Ids : e # d => block_rand_base'[e] = block_rand_base[e]
  BY <1>1, <1>2, DriverAssumption DEF Checked
<1>8. ASSUME debug_mode # "none", NEW e \in Held' PROVE ~Spoilt(e)'
  <2>1. CASE e = d  BY <1>6, <2>1 DEF Spoilt, Garbled
  <2>2. CASE e # d
    <3>1. e \in Ids /\ ~Spoilt(e)  BY <1>2, <1>3, <1>8, <2>2 DEF Checked
    <3> QED  BY <1>4, <1>6, <1>7, <2>2, <3>1 DEF Spoilt
  <2> QED  BY <2>1, <2>2
<1>9. HeldBlocks' = HeldBlocks \ {d}  BY <1>2, <1>3, <1>6 DEF HeldBlocks
<1>10. unchecked' = unchecked  BY <1>1 DEF unchecked
<1>11. Listed(ranges, HeldBlocks)'
  <2>1. CASE unchecked  BY <1>10, <2>1 DEF Listed
  <2>2. CASE ~unchecked
    <3>1. Lists(ranges', HeldBlocks \ {d}, blocks, block_sizes)  BY <2>2 DEF Listed, d
    <3>2. \A e \in HeldBlocks \ {d} : blocks'[e] = blocks[e] /\ block_sizes'[e] = block_sizes[e]
      BY <1>3, <1>6 DEF HeldBlocks
    <3>3. Lists(ranges', HeldBlocks \ {d}, blocks', block_sizes')  BY <3>1, <3>2 DEF Lists
    <3> QED  BY <1>9, <1>10, <2>2, <3>3 DEF Listed
  <2> QED  BY <2>1, <2>2
<1>12. errors' = 0 /\ valid' = -1  BY DEF Checked
<1> QED  BY <1>1, <1>5, <1>7, <1>8, <1>11, <1>12 DEF Checked

(* A free. *)
LEMMA CheckedFrees ==
  ASSUME LegalTraces, TracesFit, ops \in Traces, i \in 1 .. Len(ops) + 1, i <= Len(ops),
         Layout, Checked, line.type = "f",
         UNCHANGED <<traceVars, blockVars, errors, valid, brk, mem>>, i' = i + 1,
         Listed(ranges', HeldBlocks \ {line.index})
  PROVE  Layout' /\ Checked'
<1>1. /\ ops' = ops /\ ignore_ranges' = ignore_ranges /\ debug_mode' = debug_mode
      /\ blocks' = blocks /\ block_sizes' = block_sizes /\ block_rand_base' = block_rand_base
      /\ mem' = mem /\ brk' = brk
  BY DEF traceVars, blockVars
<1>2. Held' = Held \ {line.index}  BY <1>1, LineFacts, HeldAfter
<1>3. Layout'  BY <1>1, LayoutFrees
<1>4. HeldBlocks' = HeldBlocks \ {line.index}  BY <1>1, <1>2 DEF HeldBlocks
<1>5. Listed(ranges, HeldBlocks)'  BY <1>1, <1>4 DEF Listed, unchecked
<1>6. debug_mode' # "none" => \A e \in Held' : ~Spoilt(e)'
  BY <1>1, <1>2 DEF Checked, Spoilt
<1> QED  BY <1>1, <1>3, <1>5, <1>6 DEF Checked
-----------------------------------------------------------------------------
(* eval_mm_util's account of the bytes a trace holds.                      *)

BytesOf(H, s) == UNION {{d} \X (0 .. s[d] - 1) : d \in H}

(* Blocks that lie apart in a heap of top bytes have no more than top. *)
LEMMA BytesFit ==
  ASSUME NEW H, NEW b, NEW s, NEW m, NEW top \in Nat, LaidOut(H, b, s, m, top)
  PROVE  /\ IsFiniteSet(BytesOf(H, s)) /\ Cardinality(BytesOf(H, s)) \in Nat
         /\ Cardinality(BytesOf(H, s)) <= top
<1> DEFINE B == BytesOf(H, s)
           f == [x \in B |-> b[x[1]] + x[2]]
<1>1. ASSUME NEW x \in B
      PROVE  /\ x = <<x[1], x[2]>> /\ x[1] \in H /\ x[2] \in 0 .. s[x[1]] - 1
             /\ b[x[1]] \in Nat /\ s[x[1]] \in Nat \ {0} /\ b[x[1]] + s[x[1]] <= top
  <2>1. PICK d \in H : x \in {d} \X (0 .. s[d] - 1)  BY DEF BytesOf
  <2>2. x = <<x[1], x[2]>> /\ x[1] = d /\ x[2] \in 0 .. s[d] - 1  BY <2>1
  <2>3. s[d] \in Nat /\ Laid(d, b, s, m, top)  BY DEF LaidOut
  <2>4. s[d] # 0  BY <2>2, <2>3
  <2> QED  BY <2>2, <2>3, <2>4 DEF Laid
<1>2. ASSUME NEW x \in B PROVE b[x[1]] + x[2] \in 0 .. top - 1
  <2>1. /\ b[x[1]] \in Nat /\ s[x[1]] \in Nat /\ b[x[1]] + s[x[1]] <= top
        /\ x[2] \in 0 .. s[x[1]] - 1
    BY <1>1
  <2> QED  BY <2>1
<1>3. ASSUME NEW x \in B, NEW y \in B, b[x[1]] + x[2] = b[y[1]] + y[2] PROVE x = y
  <2> DEFINE d == x[1]
             e == y[1]
  <2>1. /\ x = <<d, x[2]>> /\ d \in H /\ x[2] \in 0 .. s[d] - 1 /\ b[d] \in Nat /\ s[d] \in Nat \ {0}
        /\ y = <<e, y[2]>> /\ e \in H /\ y[2] \in 0 .. s[e] - 1 /\ b[e] \in Nat /\ s[e] \in Nat \ {0}
        /\ b[d] + x[2] = b[e] + y[2]
    BY <1>1, <1>3
  <2> HIDE DEF d, e
  <2>2. CASE d = e
    <3>1. x[2] = y[2]  BY <2>1, <2>2
    <3> QED  BY <2>1, <2>2, <3>1
  <2>3. CASE d # e
    <3>1. Beside(d, e, b, s)  BY <2>1, <2>3 DEF LaidOut
    <3>2. b[d] + s[d] <= b[e] - 8 \/ b[e] + s[e] <= b[d] - 8
      BY <2>1, <3>1 DEF Beside, SIZE_PTR, SIZE_T_SIZE
    <3> QED  BY <2>1, <3>2
  <2> QED  BY <2>2, <2>3
<1> HIDE DEF B
<1>4. f \in Injection(B, 0 .. top - 1)
  BY <1>2, <1>3 DEF Injection, IsInjective
<1>5. IsFiniteSet(0 .. top - 1) /\ Cardinality(0 .. top - 1) <= top
  <2>1. 0 \in Int /\ top - 1 \in Int /\ (IF 0 > top - 1 THEN 0 ELSE top - 1 - 0 + 1) <= top
    OBVIOUS
  <2> QED  BY <2>1, FS_Interval
<1> HIDE DEF f
<1>6. IsFiniteSet(B) /\ Cardinality(B) <= Cardinality(0 .. top - 1)  BY <1>4, <1>5, FS_Injection
<1>7. Cardinality(B) \in Nat /\ Cardinality(0 .. top - 1) \in Nat  BY <1>5, <1>6, FS_CardinalityType
<1>8. Cardinality(B) <= top  BY <1>5, <1>6, <1>7
<1> QED  BY <1>6, <1>7, <1>8 DEF B

(* Block d adds its bytes to those of the others. *)
LEMMA BytesSplit ==
  ASSUME NEW H, NEW s, NEW d, d \notin H, s[d] \in Nat, IsFiniteSet(BytesOf(H, s))
  PROVE  Cardinality(BytesOf(H \cup {d}, s)) = Cardinality(BytesOf(H, s)) + s[d]
<1> DEFINE n == s[d]
           P == {d} \X (0 .. n - 1)
           f == [k \in 0 .. n - 1 |-> <<d, k>>]
<1>1. BytesOf(H \cup {d}, s) = BytesOf(H, s) \cup P  BY DEF BytesOf
<1>2. BytesOf(H, s) \cap P = {}
  <2> SUFFICES ASSUME NEW x \in BytesOf(H, s), x \in P PROVE FALSE  OBVIOUS
  <2>1. PICK e \in H : x \in {e} \X (0 .. s[e] - 1)  BY DEF BytesOf
  <2>2. x[1] = e /\ x[1] = d  BY <2>1
  <2> QED  BY <2>2
<1>3. IsFiniteSet(0 .. n - 1) /\ Cardinality(0 .. n - 1) = n
  <2>1. 0 \in Int /\ n - 1 \in Int /\ (IF 0 > n - 1 THEN 0 ELSE n - 1 - 0 + 1) = n  OBVIOUS
  <2> QED  BY <2>1, FS_Interval
<1>4. f \in Bijection(0 .. n - 1, P)
  BY DEF Bijection, Injection, IsInjective, Surjection
<1>5. ExistsBijection(0 .. n - 1, P)  BY <1>4 DEF ExistsBijection
<1> HIDE DEF P, f
<1>6. IsFiniteSet(P) /\ Cardinality(P) = n  BY <1>3, <1>5, FS_Bijection
<1>7. /\ Cardinality(BytesOf(H, s) \cup P)
           = Cardinality(BytesOf(H, s)) + Cardinality(P) - Cardinality(BytesOf(H, s) \cap P)
      /\ Cardinality(BytesOf(H, s)) \in Nat
  BY <1>6, FS_Union, FS_CardinalityType
<1>8. Cardinality({}) = 0  BY FS_EmptySet
<1> HIDE DEF n
<1>9. n \in Nat  BY DEF n
<1>10. Cardinality(BytesOf(H, s) \cup P) = Cardinality(BytesOf(H, s)) + n
  BY <1>2, <1>6, <1>7, <1>8, <1>9
<1> QED  BY <1>1, <1>10 DEF n

(* Giving block d another size changes the account by the difference. *)
LEMMA BytesChange ==
  ASSUME NEW H, NEW s, NEW t, NEW d, s[d] \in Nat, t[d] \in Nat, \A e \in H : e # d => t[e] = s[e],
         IsFiniteSet(BytesOf(H, s))
  PROVE  /\ Cardinality(BytesOf(H \cup {d}, t))
              = Cardinality(BytesOf(H, s)) + t[d] - (IF d \in H THEN s[d] ELSE 0)
         /\ Cardinality(BytesOf(H \ {d}, s))
              = Cardinality(BytesOf(H, s)) - (IF d \in H THEN s[d] ELSE 0)
<1> DEFINE R == H \ {d}
<1>1. d \notin R /\ H \cup {d} = R \cup {d} /\ (d \in H => H = R \cup {d}) /\ (d \notin H => H = R)
  OBVIOUS
<1>2. IsFiniteSet(BytesOf(R, s)) /\ BytesOf(R, s) = BytesOf(R, t)
  <2>1. BytesOf(R, s) \subseteq BytesOf(H, s)  BY DEF BytesOf
  <2>2. \A e \in R : {e} \X (0 .. s[e] - 1) = {e} \X (0 .. t[e] - 1)  OBVIOUS
  <2>3. BytesOf(R, s) = BytesOf(R, t)  BY <2>2 DEF BytesOf
  <2> QED  BY <2>1, <2>3, FS_Subset
<1> HIDE DEF R
<1>3. Cardinality(BytesOf(R, s)) \in Nat  BY <1>2, FS_CardinalityType
<1>4. Cardinality(BytesOf(R \cup {d}, t)) = Cardinality(BytesOf(R, s)) + t[d]
  <2>1. IsFiniteSet(BytesOf(R, t)) /\ d \notin R /\ t[d] \in Nat  BY <1>1, <1>2
  <2>2. Cardinality(BytesOf(R \cup {d}, t)) = Cardinality(BytesOf(R, t)) + t[d]
    BY <2>1, BytesSplit
  <2> QED  BY <1>2, <2>2
<1>5. Cardinality(BytesOf(R \cup {d}, s)) = Cardinality(BytesOf(R, s)) + s[d]
  <2>1. d \notin R /\ s[d] \in Nat /\ IsFiniteSet(BytesOf(R, s))  BY <1>1, <1>2
  <2> QED  BY <2>1, BytesSplit
<1>6. Cardinality(BytesOf(H, s)) = Cardinality(BytesOf(R, s)) + (IF d \in H THEN s[d] ELSE 0)
  <2>1. CASE d \in H  BY <1>1, <1>5, <2>1
  <2>2. CASE d \notin H  BY <1>1, <1>3, <2>2
  <2> QED  BY <2>1, <2>2
<1>7. Cardinality(BytesOf(R \cup {d}, t))
        = Cardinality(BytesOf(H, s)) + t[d] - (IF d \in H THEN s[d] ELSE 0)
  BY <1>3, <1>4, <1>6
<1>8. Cardinality(BytesOf(R, s)) = Cardinality(BytesOf(H, s)) - (IF d \in H THEN s[d] ELSE 0)
  BY <1>3, <1>6
<1> QED  BY <1>1, <1>7, <1>8 DEF R

Accounted == /\ total_size = Cardinality(HeldBytes)
             /\ max_total_size \in Nat /\ max_total_size <= brk

LEMMA AccountStep ==
  ASSUME Layout, Layout', Accounted, brk <= brk', NEW delta \in Int, Account(delta),
         Cardinality(HeldBytes)' = Cardinality(HeldBytes) + delta
  PROVE  Accounted'
<1>1. brk \in Nat /\ brk' \in Nat  BY MaxHeapAssumption DEF Layout, HeapOK
<1>2. HeldBytes' = BytesOf(Held', block_sizes')  BY DEF HeldBytes, BytesOf
<1>3. Cardinality(HeldBytes)' \in Nat /\ Cardinality(HeldBytes)' <= brk'
  BY <1>1, <1>2, BytesFit DEF Layout
<1>4. /\ total_size' = total_size + delta
      /\ max_total_size' = IF total_size + delta > max_total_size THEN total_size + delta
                           ELSE max_total_size
  BY DEF Account
<1>5. total_size' = Cardinality(HeldBytes)'  BY <1>4 DEF Accounted
<1> QED  BY <1>1, <1>3, <1>4, <1>5 DEF Accounted
-----------------------------------------------------------------------------
(* The invariant, pass by pass.                                            *)

MMInv ==
  /\ ops \in Traces /\ i \in 1 .. Len(ops) + 1
  /\ pc = "start" => HeapOK /\ valid = -1 /\ block_rand_base \in [Ids -> Nat]
  /\ pc = "valid" => Layout /\ Checked
  /\ pc = "util" => Layout /\ Accounted
  /\ pc # "done" => errors = 0
  /\ NoFalseAccusation

LEMMA InitMM == DInit => MMInv
<1> SUFFICES ASSUME DInit PROVE MMInv  OBVIOUS
<1>1. ops \in Traces /\ i = 1 /\ pc = "start" /\ errors = 0 /\ valid = -1  BY DEF DInit
<1>2. i \in 1 .. Len(ops) + 1
  <2>1. Len(ops) \in Nat  BY <1>1, TraceAssumption, LenProperties
  <2> QED  BY <1>1, <2>1
<1>3. block_rand_base \in [Ids -> Nat]  BY DEF DInit
<1>4. HeapOK  BY MaxHeapAssumption DEF DInit, MemInit, HeapOK, ALIGNMENT
<1> QED  BY <1>1, <1>2, <1>3, <1>4 DEF MMInv, NoFalseAccusation

(* A pass over the trace goes on to its next line. *)
LEMMA NextLine ==
  ASSUME MMInv, i <= Len(ops), ops' = ops, i' = i + 1, pc' = pc, pc # "done", errors' = 0,
         pc = "valid" => Layout' /\ Checked',
         pc = "util" => Layout' /\ Accounted',
         pc # "start"
  PROVE  MMInv'
<1>1. Len(ops) \in Nat  BY TraceAssumption, LenProperties DEF MMInv
<1>2. i' \in 1 .. Len(ops') + 1  BY <1>1 DEF MMInv
<1> QED  BY <1>2 DEF MMInv, NoFalseAccusation

(* The driver stops at a line mm.c refuses. *)
LEMMA RefusedLine ==
  ASSUME MMInv, line.type \in {"a", "r"}, mm_malloc(line.size).ret = NULL,
         ops' = ops, i' = i, brk' = brk, mem' = mem, pc' = "done", valid' = 0, errors' = 1
  PROVE  MMInv'
<1>1. line' = line  BY DEF line
<1>2. mm_malloc(line.size)' = mm_malloc(line.size)
  BY <1>1 DEF mm_malloc, mem_sbrk, StoreSize, MemSet
<1>3. NoFalseAccusation'  BY <1>1, <1>2 DEF NoFalseAccusation
<1> QED  BY <1>3 DEF MMInv

LEMMA ValidAllocMM ==
  ASSUME LegalTraces, TracesFit, MMInv, NEW base \in RandBases, ValidAlloc(Answer, base)
  PROVE  MMInv'
<1> DEFINE r == Answer
           n == line.size
           good == r.ret # NULL /\ Accepted(ranges, r.ret, n, r.brk - 1)
<1>1. /\ pc = "valid" /\ i <= Len(ops) /\ line.type = "a"
      /\ UNCHANGED traceVars /\ ops' = ops
      /\ IF good
         THEN /\ ranges' = add_range(ranges, r.ret, n, line.index)
              /\ Remember(line.index, r.ret, n, base)
              /\ brk' = r.brk /\ mem' = Filled(r.mem, r.ret, n, base)
              /\ errors' = errors + ExpensiveCheck
              /\ i' = i + 1
              /\ valid' = valid /\ pc' = pc
         ELSE /\ errors' = errors + ExpensiveCheck + 1
              /\ valid' = 0 /\ pc' = "done" /\ i' = i /\ brk' = r.brk /\ mem' = r.mem
  BY DEF ValidAlloc, At, Reject, HeapAfter, traceVars
<1> HIDE DEF r
<1>2. ops \in Traces /\ i \in 1 .. Len(ops) + 1 /\ Layout /\ Checked  BY <1>1 DEF MMInv
<1>3. errors = 0 /\ ExpensiveCheck = 0  BY <1>2, NoComplaints DEF Checked
<1>4. n \in Nat \ {0} /\ line.index \notin Held  BY <1>1, <1>2, LineFacts
<1>5. \/ Refused(r) /\ mm_malloc(n).ret = NULL
      \/ Bumped(r, n)
  BY <1>1, <1>2, AnswerKinds DEF Asks, r
<1>6. CASE Refused(r) /\ mm_malloc(n).ret = NULL
  <2>1. r.ret = NULL /\ r.brk = brk /\ r.mem = mem  BY <1>6 DEF Refused
  <2> QED  BY <1>1, <1>3, <1>6, <2>1, RefusedLine
<1>7. CASE Bumped(r, n)
  <2>1. Grown(r.ret, r.brk, r.mem, n) /\ Listed(ranges, HeldBlocks)
    BY <1>2, <1>7 DEF Bumped, Checked
  <2>2. good  BY <1>2, <1>4, <2>1, BumpAccepted
  <2>3. /\ ranges' = add_range(ranges, r.ret, n, line.index)
        /\ Remember(line.index, r.ret, n, base)
        /\ brk' = r.brk /\ mem' = Filled(r.mem, r.ret, n, base)
        /\ errors' = 0 /\ errors' = errors /\ i' = i + 1 /\ valid' = valid /\ pc' = pc
    BY <1>1, <1>3, <2>2
  <2>4. HeldBlocks \ {line.index} = HeldBlocks  BY <1>4 DEF HeldBlocks
  <2>5. Listed(ranges, HeldBlocks \ {line.index})  BY <2>1, <2>4
  <2>6. line.type # "f" /\ line.size > 0 /\ Grown(r.ret, brk', r.mem, line.size)
    BY <1>1, <1>4, <2>1, <2>3
  <2>7. Layout' /\ Checked'
    BY <1>1, <1>2, <2>3, <2>5, <2>6, CheckedGrows
  <2> QED  BY <1>1, <2>3, <2>7, NextLine
<1> QED  BY <1>5, <1>6, <1>7

LEMMA ValidReallocMM ==
  ASSUME LegalTraces, TracesFit, MMInv, NEW base \in RandBases, ValidRealloc(Answer, base)
  PROVE  MMInv'
<1> DEFINE r == Answer
           n == line.size
           d == line.index
           kept == IF n < block_sizes[d] THEN n ELSE block_sizes[d]
           rest == remove_range(ranges, blocks[d])
           before == ExpensiveCheck + CheckIndex(mem, d)
           after  == IF debug_mode # "none" /\ Garbled(r.mem, r.ret, kept, block_rand_base[d])
                     THEN 1 ELSE 0
           odd  == (r.ret = NULL) # (n = 0)
           bad  == n > 0 /\ ~Accepted(rest, r.ret, n, r.brk - 1)
<1>1. /\ pc = "valid" /\ i <= Len(ops) /\ line.type = "r"
      /\ UNCHANGED traceVars /\ ops' = ops
      /\ odd \/ bad => /\ errors' = errors + before + 1 /\ valid' = 0 /\ pc' = "done" /\ i' = i
                       /\ brk' = r.brk /\ mem' = r.mem
      /\ ~odd /\ ~bad =>
           /\ ranges' = IF n = 0 THEN rest ELSE add_range(rest, r.ret, n, d)
           /\ Remember(d, r.ret, n, base)
           /\ brk' = r.brk /\ mem' = Filled(r.mem, r.ret, n, base)
           /\ errors' = errors + before + after
           /\ i' = i + 1 /\ valid' = valid /\ pc' = pc
  <2>1. /\ pc = "valid" /\ i <= Len(ops) /\ line.type = "r" /\ UNCHANGED traceVars /\ ops' = ops
    BY DEF ValidRealloc, At, traceVars
  <2>2. CASE odd  BY <2>1, <2>2 DEF ValidRealloc, Reject, HeapAfter
  <2>3. CASE ~odd /\ bad  BY <2>1, <2>3 DEF ValidRealloc, Reject, HeapAfter
  <2>4. CASE ~odd /\ ~bad  BY <2>1, <2>4 DEF ValidRealloc
  <2> QED  BY <2>2, <2>3, <2>4
<1>2. ops \in Traces /\ i \in 1 .. Len(ops) + 1 /\ Layout /\ Checked  BY <1>1 DEF MMInv
<1>3. n \in Nat /\ d \in Ids /\ Known(d) /\ d \in Nat
  BY <1>1, <1>2, LineFacts DEF Known
<1>4. errors = 0 /\ before = 0  BY <1>2, <1>3, NoComplaints DEF Checked
<1>5. Listed(rest, HeldBlocks \ {d})  BY <1>2, <1>3, RestListed DEF Checked
<1>6. CASE n = 0
  <2>1. Refused(r)  BY <1>1, <1>2, <1>6, AnswerKinds DEF Asks
  <2>2. r.ret = NULL /\ r.brk = brk /\ r.mem = mem  BY <2>1 DEF Refused
  <2>3. ~odd /\ ~bad  BY <1>6, <2>2
  <2>4. block_sizes[d] \in Nat  BY <1>2, <1>3 DEF Layout, LaidOut
  <2>5. after = 0  BY <1>6, <2>4 DEF Garbled
  <2>6. /\ Remember(d, NULL, 0, base) /\ brk' = brk /\ mem' = Filled(mem, NULL, 0, base)
        /\ errors' = 0 /\ errors' = errors /\ i' = i + 1 /\ valid' = valid /\ pc' = pc
        /\ Listed(ranges', HeldBlocks \ {d})
    BY <1>1, <1>4, <1>5, <1>6, <2>2, <2>3, <2>5
  <2>7. Layout' /\ Checked'  BY <1>1, <1>2, <1>6, <2>6, CheckedDrops
  <2> QED  BY <1>1, <2>6, <2>7, NextLine
<1>7. CASE n # 0
  <2>1. \/ Refused(r) /\ mm_malloc(n).ret = NULL
        \/ /\ Bumped(r, n)
           /\ \A k \in 0 .. n - 1 :
                k < block_sizes[d] => r.mem[r.ret + k] = mem[blocks[d] + k]
    BY <1>1, <1>2, <1>7, AnswerKinds DEF Asks
  <2> HIDE DEF r
  <2>2. CASE Refused(r) /\ mm_malloc(n).ret = NULL
    <3>1. r.ret = NULL /\ r.brk = brk /\ r.mem = mem  BY <2>2 DEF Refused
    <3>2. odd  BY <1>7, <3>1
    <3>3. errors' = 1 /\ valid' = 0 /\ pc' = "done" /\ i' = i /\ brk' = brk /\ mem' = mem
      BY <1>1, <1>4, <3>1, <3>2
    <3> QED  BY <1>1, <2>2, <3>3, RefusedLine
  <2>3. CASE /\ Bumped(r, n)
             /\ \A k \in 0 .. n - 1 :
                  k < block_sizes[d] => r.mem[r.ret + k] = mem[blocks[d] + k]
    <3>1. Grown(r.ret, r.brk, r.mem, n) /\ n \in Nat \ {0}  BY <1>3, <1>7, <2>3 DEF Bumped
    <3>2. r.ret # NULL /\ Accepted(rest, r.ret, n, r.brk - 1)
      <4>1. HeldBlocks \ {d} \in SUBSET HeldBlocks  OBVIOUS
      <4> QED  BY <1>2, <1>5, <3>1, <4>1, BumpAccepted
    <3>3. ~odd /\ ~bad  BY <1>7, <3>2
    <3>4. after = 0
      <4>1. SUFFICES ASSUME debug_mode # "none", NEW k \in 0 .. kept - 1
                     PROVE  r.mem[r.ret + k] = Random(block_rand_base[d], k)
        BY DEF Garbled
      <4>2. block_sizes[d] \in Nat  BY <1>2, <1>3 DEF Layout, LaidOut
      <4>3. k \in 0 .. n - 1 /\ k < block_sizes[d] /\ k \in 0 .. block_sizes[d] - 1
        <5> HIDE DEF n, d
        <5> QED  BY <1>3, <4>1, <4>2
      <4>4. d \in Held
        <5>1. Unused(ops, i, d) => block_sizes[d] = 0  BY <1>2, <1>3 DEF Layout
        <5>2. block_sizes[d] # 0
          <6> HIDE DEF d
          <6> QED  BY <4>2, <4>3
        <5> QED  BY <1>3, <5>1, <5>2 DEF Known
      <4>5. mem[blocks[d] + k] = Random(block_rand_base[d], k)
        BY <1>2, <4>1, <4>3, <4>4 DEF Checked, Spoilt, Garbled
      <4> QED  BY <2>3, <4>3, <4>5
    <3>5. /\ ranges' = add_range(rest, r.ret, n, d) /\ Remember(d, r.ret, n, base)
          /\ brk' = r.brk /\ mem' = Filled(r.mem, r.ret, n, base)
          /\ errors' = 0 /\ errors' = errors /\ i' = i + 1 /\ valid' = valid /\ pc' = pc
      BY <1>1, <1>4, <1>7, <3>3, <3>4
    <3> HIDE DEF rest
    <3>6. line.type # "f" /\ line.size > 0 /\ Grown(r.ret, brk', r.mem, line.size)
      BY <1>1, <3>1, <3>5
    <3>7. Layout' /\ Checked'  BY <1>1, <1>2, <1>5, <3>5, <3>6, CheckedGrows
    <3> QED  BY <1>1, <3>5, <3>7, NextLine
  <2> QED  BY <2>1, <2>2, <2>3
<1> QED  BY <1>6, <1>7

LEMMA ValidFreeMM ==
  ASSUME LegalTraces, TracesFit, MMInv, ValidFree(Answer)
  PROVE  MMInv'
<1> DEFINE d == line.index
<1>1. /\ pc = "valid" /\ i <= Len(ops) /\ line.type = "f"
      /\ UNCHANGED <<traceVars, blockVars, valid>> /\ ops' = ops /\ pc' = pc /\ i' = i + 1
      /\ errors' = errors + ExpensiveCheck + CheckIndex(mem, d)
      /\ ranges' = IF d = -1 THEN ranges ELSE remove_range(ranges, FreedPtr)
      /\ brk' = Answer.brk /\ mem' = Answer.mem
  BY DEF ValidFree, At, HeapAfter, traceVars
<1>2. ops \in Traces /\ i \in 1 .. Len(ops) + 1 /\ Layout /\ Checked  BY <1>1 DEF MMInv
<1>3. d \in Held \/ d = -1  BY <1>1, <1>2, LineFacts
<1>4. errors' = 0 /\ errors' = errors
  BY <1>1, <1>2, <1>3, NoComplaints DEF Checked, Known
<1>5. brk' = brk /\ mem' = mem  BY <1>1 DEF Answer, mm_free
<1>6. Listed(ranges', HeldBlocks \ {d})
  <2>1. CASE d \in Held
    <3>1. d \in Nat  BY <2>1, DriverAssumption DEF Held
    <3>2. ranges' = remove_range(ranges, blocks[d])  BY <1>1, <3>1 DEF FreedPtr
    <3> QED  BY <1>2, <2>1, <3>2, RestListed DEF Checked, Known
  <2>2. CASE d = -1
    <3>1. -1 \notin Held  BY DriverAssumption DEF Held
    <3>2. HeldBlocks \ {d} = HeldBlocks  BY <2>2, <3>1 DEF HeldBlocks
    <3> QED  BY <1>1, <1>2, <2>2, <3>2 DEF Checked
  <2> QED  BY <1>3, <2>1, <2>2
<1>7. Layout' /\ Checked'  BY <1>1, <1>2, <1>4, <1>5, <1>6, CheckedFrees
<1> QED  BY <1>1, <1>4, <1>7, NextLine
-----------------------------------------------------------------------------
(* eval_mm_util: the bytes the trace holds lie within the heap.            *)

(* app_error: the driver exits without having reported an error. *)
LEMMA AbortedLine ==
  ASSUME MMInv, pc = "util", ops' = ops, i' = i, pc' = "app_error", errors' = errors
  PROVE  MMInv'
BY DEF MMInv, NoFalseAccusation

(* A line of eval_mm_util that gives its id the n bytes at p. *)
LEMMA UtilGives ==
  ASSUME LegalTraces, TracesFit, ops \in Traces, i \in 1 .. Len(ops) + 1, i <= Len(ops),
         Layout, Accounted, line.type # "f", ops' = ops, i' = i + 1,
         NEW p, \/ line.size > 0 /\ Grown(p, brk', mem', line.size)
                \/ line.size = 0 /\ p = NULL /\ brk' = brk /\ mem' = mem,
         blocks' = [blocks EXCEPT ![line.index] = p],
         block_sizes' = [block_sizes EXCEPT ![line.index] = line.size],
         Account(line.size - (IF line.index \in Held THEN block_sizes[line.index] ELSE 0))
  PROVE  Layout' /\ Accounted'
<1> DEFINE d == line.index
           n == line.size
           old == IF d \in Held THEN block_sizes[d] ELSE 0
<1>1. d \in Ids /\ n \in Nat /\ Held' = Held \cup {d}  BY LineFacts, HeldAfter
<1>2. /\ brk \in Nat /\ block_sizes \in [Ids -> Nat]
      /\ LaidOut(Held, blocks, block_sizes, mem, brk)
  BY MaxHeapAssumption DEF Layout, HeapOK, LaidOut
<1>3. Layout'
  <2>1. CASE n > 0 /\ Grown(p, brk', mem', n)  BY <2>1, LayoutGrows
  <2>2. CASE n = 0 /\ p = NULL /\ brk' = brk /\ mem' = mem
    <3>1. /\ blocks' = [blocks EXCEPT ![line.index] = NULL]
          /\ block_sizes' = [block_sizes EXCEPT ![line.index] = 0]
      BY <2>2
    <3> QED  BY <2>2, <3>1, LayoutDrops
  <2> QED  BY <2>1, <2>2
<1>4. brk <= brk'
  <2>1. CASE n > 0 /\ Grown(p, brk', mem', n)
    BY <1>1, <1>2, <2>1, MaxHeapAssumption DEF Grown, SIZE_T_SIZE
  <2>2. CASE brk' = brk  BY <1>2, <2>2
  <2> QED  BY <2>1, <2>2
<1> HIDE DEF d, n
<1>5. block_sizes'[d] = n /\ \A e \in Held : e # d => block_sizes'[e] = block_sizes[e]
  BY <1>1, <1>2 DEF Held, d, n
<1>6. IsFiniteSet(BytesOf(Held, block_sizes)) /\ Cardinality(BytesOf(Held, block_sizes)) \in Nat
  BY <1>2, BytesFit
<1>7. Cardinality(BytesOf(Held \cup {d}, block_sizes'))
        = Cardinality(BytesOf(Held, block_sizes)) + n - old
  <2>1. block_sizes[d] \in Nat /\ block_sizes'[d] \in Nat /\ block_sizes'[d] = n
    BY <1>1, <1>2, <1>5
  <2>2. Cardinality(BytesOf(Held \cup {d}, block_sizes'))
          = Cardinality(BytesOf(Held, block_sizes)) + block_sizes'[d] - old
    BY <1>5, <1>6, <2>1, BytesChange, ZenonT(30)
  <2> QED  BY <2>1, <2>2
<1>8. HeldBytes = BytesOf(Held, block_sizes) /\ HeldBytes' = BytesOf(Held', block_sizes')
  BY DEF HeldBytes, BytesOf
<1>9. old \in Nat  BY <1>1, <1>2
<1> HIDE DEF old
<1>10. Cardinality(HeldBytes)' = Cardinality(HeldBytes) + (n - old)
  BY <1>1, <1>6, <1>7, <1>8, <1>9
<1>11. Account(n - old) /\ n - old \in Int  BY <1>1, <1>9 DEF n, old, d
<1> QED  BY <1>3, <1>4, <1>10, <1>11, AccountStep

LEMMA UtilAllocMM ==
  ASSUME LegalTraces, TracesFit, MMInv, UtilAlloc(Answer)
  PROVE  MMInv'
<1> DEFINE r == Answer
           n == line.size
           d == line.index
<1>1. /\ pc = "util" /\ i <= Len(ops) /\ line.type = "a" /\ ops' = ops /\ errors' = errors
      /\ brk' = r.brk /\ mem' = r.mem
      /\ r.ret = NULL => pc' = "app_error" /\ i' = i
      /\ r.ret # NULL => /\ blocks' = [blocks EXCEPT ![d] = r.ret]
                         /\ block_sizes' = [block_sizes EXCEPT ![d] = n]
                         /\ Account(n) /\ i' = i + 1 /\ pc' = pc
  BY DEF UtilAlloc, At, HeapAfter, Abort, traceVars, checkVars
<1> HIDE DEF r
<1>2. ops \in Traces /\ i \in 1 .. Len(ops) + 1 /\ Layout /\ Accounted /\ errors = 0
  BY <1>1 DEF MMInv
<1>3. n \in Nat \ {0} /\ d \notin Held  BY <1>1, <1>2, LineFacts
<1>4. Refused(r) \/ Bumped(r, n)  BY <1>1, <1>2, AnswerKinds DEF Asks, r
<1>5. CASE r.ret = NULL  BY <1>1, <1>5, AbortedLine
<1>6. CASE r.ret # NULL
  <2>1. Grown(r.ret, brk', mem', n)  BY <1>1, <1>4, <1>6 DEF Bumped, Refused
  <2>2. Account(n - (IF d \in Held THEN block_sizes[d] ELSE 0))
    <3>1. n - (IF d \in Held THEN block_sizes[d] ELSE 0) = n  BY <1>3
    <3> QED  BY <1>1, <1>6, <3>1
  <2>3. line.size > 0 /\ line.type # "f"  BY <1>1, <1>3
  <2>4. Layout' /\ Accounted'
    BY <1>1, <1>2, <1>6, <2>1, <2>2, <2>3, UtilGives
  <2> QED  BY <1>1, <1>2, <1>6, <2>4, NextLine
<1> QED  BY <1>5, <1>6

LEMMA UtilReallocMM ==
  ASSUME LegalTraces, TracesFit, MMInv, UtilRealloc(Answer)
  PROVE  MMInv'
<1> DEFINE r == Answer
           n == line.size
           d == line.index
           fails == r.ret = NULL /\ n # 0
<1>1. /\ pc = "util" /\ i <= Len(ops) /\ line.type = "r" /\ ops' = ops /\ errors' = errors
      /\ brk' = r.brk /\ mem' = r.mem
      /\ fails => pc' = "app_error" /\ i' = i
      /\ ~fails => /\ blocks' = [blocks EXCEPT ![d] = r.ret]
                   /\ block_sizes' = [block_sizes EXCEPT ![d] = n]
                   /\ Account(n - block_sizes[d]) /\ i' = i + 1 /\ pc' = pc
  BY DEF UtilRealloc, At, HeapAfter, Abort, traceVars, checkVars
<1> HIDE DEF r
<1>2. ops \in Traces /\ i \in 1 .. Len(ops) + 1 /\ Layout /\ Accounted /\ errors = 0
  BY <1>1 DEF MMInv
<1>3. n \in Nat /\ d \in Ids /\ (d \in Held \/ Unused(ops, i, d))
  BY <1>1, <1>2, LineFacts
<1>4. /\ n = 0 => Refused(r)
      /\ n # 0 => Refused(r) \/ Bumped(r, n)
  BY <1>1, <1>2, AnswerKinds DEF Asks, r
<1>5. CASE fails  BY <1>1, <1>5, AbortedLine
<1>6. CASE ~fails
  <2>1. \/ n > 0 /\ Grown(r.ret, brk', mem', n)
        \/ n = 0 /\ r.ret = NULL /\ brk' = brk /\ mem' = mem
    BY <1>1, <1>3, <1>4, <1>6 DEF Bumped, Refused
  <2>2. Account(n - (IF d \in Held THEN block_sizes[d] ELSE 0))
    <3>1. d \notin Held => block_sizes[d] = 0  BY <1>2, <1>3 DEF Layout
    <3>2. (IF d \in Held THEN block_sizes[d] ELSE 0) = block_sizes[d]  BY <3>1
    <3> QED  BY <1>1, <1>6, <3>2
  <2>3. line.type # "f"  BY <1>1
  <2>4. Layout' /\ Accounted'
    BY <1>1, <1>2, <1>6, <2>1, <2>2, <2>3, UtilGives
  <2> QED  BY <1>1, <1>2, <1>6, <2>4, NextLine
<1> QED  BY <1>5, <1>6

LEMMA UtilFreeMM ==
  ASSUME LegalTraces, TracesFit, MMInv, UtilFree(Answer)
  PROVE  MMInv'
<1> DEFINE d == line.index
           old == IF d < 0 THEN 0 ELSE block_sizes[d]
<1>1. /\ pc = "util" /\ i <= Len(ops) /\ line.type = "f" /\ ops' = ops /\ errors' = errors
      /\ brk' = Answer.brk /\ mem' = Answer.mem /\ UNCHANGED <<blocks, block_sizes>>
      /\ Account(IF d < 0 THEN 0 ELSE - block_sizes[d]) /\ i' = i + 1 /\ pc' = pc
  BY DEF UtilFree, At, HeapAfter, traceVars, checkVars, blockVars
<1>2. ops \in Traces /\ i \in 1 .. Len(ops) + 1 /\ Layout /\ Accounted /\ errors = 0
  BY <1>1 DEF MMInv
<1>3. /\ brk' = brk /\ mem' = mem  BY <1>1 DEF Answer, mm_free
<1>4. (d \in Held \/ d = -1) /\ Held' = Held \ {d}  BY <1>1, <1>2, LineFacts, HeldAfter
<1>5. Held \subseteq Ids /\ Ids \subseteq Nat  BY DriverAssumption DEF Held
<1>6. /\ brk \in Nat /\ block_sizes \in [Ids -> Nat]
      /\ LaidOut(Held, blocks, block_sizes, mem, brk)
  BY <1>2, MaxHeapAssumption DEF Layout, HeapOK, LaidOut
<1>7. Layout'  BY <1>1, <1>2, <1>3, LayoutFrees
<1>8. IsFiniteSet(BytesOf(Held, block_sizes)) /\ Cardinality(BytesOf(Held, block_sizes)) \in Nat
  BY <1>6, BytesFit
<1>9. HeldBytes = BytesOf(Held, block_sizes) /\ HeldBytes' = BytesOf(Held \ {d}, block_sizes)
  BY <1>1, <1>4 DEF HeldBytes, BytesOf
<1> HIDE DEF d
<1>10. old \in Nat /\ Cardinality(HeldBytes)' = Cardinality(HeldBytes) - old
  <2>1. CASE d \in Held
    <3>1. d \in Ids /\ d \in Nat  BY <1>5, <2>1
    <3>3. ~(d < 0) /\ block_sizes[d] \in Nat  BY <1>6, <3>1
    <3>2. Cardinality(BytesOf(Held \ {d}, block_sizes))
            = Cardinality(BytesOf(Held, block_sizes)) - block_sizes[d]
      BY <1>8, <2>1, <3>3, BytesChange
    <3> QED  BY <1>9, <3>2, <3>3
  <2>2. CASE d = -1
    <3>1. Held \ {d} = Held  BY <1>5, <2>2
    <3> QED  BY <1>8, <1>9, <2>2, <3>1
  <2> QED  BY <1>4, <2>1, <2>2
<1>11. Account(- old)
  <2>1. (IF d < 0 THEN 0 ELSE - block_sizes[d]) = - old  OBVIOUS
  <2>2. Account(IF d < 0 THEN 0 ELSE - block_sizes[d])  BY <1>1 DEF d
  <2> QED  BY <2>1, <2>2
<1> HIDE DEF old
<1>12. - old \in Int /\ Cardinality(HeldBytes)' = Cardinality(HeldBytes) + (- old)
  BY <1>8, <1>9, <1>10
<1>13. brk <= brk'  BY <1>3, <1>6
<1>14. Accounted'  BY <1>2, <1>7, <1>11, <1>12, <1>13, AccountStep
<1> QED  BY <1>1, <1>2, <1>7, <1>14, NextLine
-----------------------------------------------------------------------------
(* The whole run of a trace.                                               *)

LEMMA BeginValidMM ==
  ASSUME MMInv, BeginValid(mm_init) PROVE MMInv'
<1>1. /\ pc = "start" /\ mem_reset_brk /\ reinit_trace /\ ranges' = << >>
      /\ pc' = "valid" /\ i' = 1 /\ ops' = ops /\ errors' = errors /\ valid' = valid
      /\ block_rand_base' = block_rand_base
  BY DEF BeginValid, mm_init, reinit_trace, traceVars
<1>2. /\ ops \in Traces /\ HeapOK /\ valid = -1 /\ block_rand_base \in [Ids -> Nat] /\ errors = 0
  BY <1>1 DEF MMInv
<1>3. i' \in 1 .. Len(ops') + 1
  <2>1. Len(ops) \in Nat  BY <1>2, TraceAssumption, LenProperties
  <2> QED  BY <1>1, <2>1
<1>4. Layout'  BY <1>1, <1>2, LayoutStart
<1>5. Checked'
  <2>1. Held' = {}
    <3>1. \A d : ~HeldBefore(ops', i', d)  BY <1>1, NothingHeldAtFirst
    <3> QED  BY <3>1 DEF Held
  <2>2. HeldBlocks' = {}  BY <2>1 DEF HeldBlocks
  <2>3. Listed(ranges, HeldBlocks)'  BY <1>1, <2>2, ListsNothing DEF Listed
  <2> QED  BY <1>1, <1>2, <2>1, <2>3 DEF Checked
<1> QED  BY <1>1, <1>2, <1>3, <1>4, <1>5 DEF MMInv, NoFalseAccusation

LEMMA EndValidMM ==
  ASSUME MMInv, EndValid(mm_init) PROVE MMInv'
<1>1. /\ pc = "valid" /\ mem_reset_brk /\ reinit_trace /\ total_size' = 0 /\ max_total_size' = 0
      /\ pc' = "util" /\ i' = 1 /\ ops' = ops /\ errors' = errors
  BY DEF EndValid, StartPass, mm_init, traceVars
<1>2. /\ ops \in Traces /\ HeapOK /\ errors = 0
  BY <1>1 DEF MMInv, Layout
<1>3. i' \in 1 .. Len(ops') + 1
  <2>1. Len(ops) \in Nat  BY <1>2, TraceAssumption, LenProperties
  <2> QED  BY <1>1, <2>1
<1>4. Layout'  BY <1>1, <1>2, LayoutStart
<1>5. Accounted'
  <2>1. Held' = {}
    <3>1. \A d : ~HeldBefore(ops', i', d)  BY <1>1, NothingHeldAtFirst
    <3> QED  BY <3>1 DEF Held
  <2>2. HeldBytes' = {}  BY <2>1 DEF HeldBytes
  <2>3. brk' \in Nat  BY <1>4, MaxHeapAssumption DEF Layout, HeapOK
  <2> QED  BY <1>1, <2>2, <2>3, FS_EmptySet DEF Accounted
<1> QED  BY <1>1, <1>2, <1>3, <1>4, <1>5 DEF MMInv, NoFalseAccusation

(* The timed runs touch neither the checks nor the accounts. *)
LEMMA SpeedMM ==
  ASSUME MMInv, EndUtil(mm_init) \/ SpeedLine(Answer) \/ EndSpeed(mm_init) PROVE MMInv'
<1>1. /\ ops \in Traces /\ i \in 1 .. Len(ops) + 1 /\ Len(ops) \in Nat
  BY TraceAssumption, LenProperties DEF MMInv
<1>2. /\ pc \in {"util", "speed"} /\ ops' = ops /\ errors' = errors
      /\ i' \in {1, i} \/ (i <= Len(ops) /\ i' = i + 1)
      /\ pc' \in {"speed", "app_error", "done"}
  <2>1. CASE EndUtil(mm_init)  BY <2>1 DEF EndUtil, StartPass, mm_init, traceVars, checkVars
  <2>2. CASE SpeedLine(Answer)  BY <2>2 DEF SpeedLine, Abort, traceVars, checkVars
  <2>3. CASE EndSpeed(mm_init)  BY <2>3 DEF EndSpeed, StartPass, mm_init, traceVars, checkVars
  <2> QED  BY <2>1, <2>2, <2>3
<1>3. errors = 0 /\ i' \in 1 .. Len(ops') + 1  BY <1>1, <1>2 DEF MMInv
<1> QED  BY <1>1, <1>2, <1>3 DEF MMInv, NoFalseAccusation

LEMMA StutterMM ==
  ASSUME MMInv, UNCHANGED dvars PROVE MMInv'
<1>1. /\ brk' = brk /\ mem' = mem /\ ops' = ops /\ ignore_ranges' = ignore_ranges
      /\ debug_mode' = debug_mode /\ blocks' = blocks /\ block_sizes' = block_sizes
      /\ block_rand_base' = block_rand_base /\ ranges' = ranges /\ errors' = errors
      /\ valid' = valid /\ total_size' = total_size /\ max_total_size' = max_total_size
      /\ pc' = pc /\ i' = i
  BY DEF dvars, traceVars, blockVars, checkVars, utilVars
<1>2. Held' = Held /\ line' = line  BY <1>1 DEF Held, line
<1>3. HeapOK' = HeapOK  BY <1>1 DEF HeapOK
<1>4. Layout => Layout'  BY <1>1, <1>2, <1>3 DEF Layout
<1>5. Checked => Checked'
  BY <1>1, <1>2 DEF Checked, Spoilt, Listed, unchecked, HeldBlocks
<1>6. Accounted => Accounted'  BY <1>1, <1>2 DEF Accounted, HeldBytes
<1>7. NoFalseAccusation'
  <2>1. mm_malloc(line.size)' = mm_malloc(line.size)
    BY <1>1, <1>2 DEF mm_malloc, mem_sbrk, StoreSize, MemSet
  <2> QED  BY <1>1, <1>2, <2>1 DEF MMInv, NoFalseAccusation
<1> QED  BY <1>1, <1>3, <1>4, <1>5, <1>6, <1>7 DEF MMInv

LEMMA NextMM ==
  ASSUME LegalTraces, TracesFit PROVE MMInv /\ [Next]_dvars => MMInv'
<1> SUFFICES ASSUME MMInv, [Next]_dvars PROVE MMInv'  OBVIOUS
<1>1. CASE BeginValid(mm_init)  BY <1>1, BeginValidMM
<1>2. ASSUME NEW base \in RandBases, ValidAlloc(Answer, base) PROVE MMInv'
  BY <1>2, ValidAllocMM
<1>3. ASSUME NEW base \in RandBases, ValidRealloc(Answer, base) PROVE MMInv'
  BY <1>3, ValidReallocMM
<1>4. CASE ValidFree(Answer)  BY <1>4, ValidFreeMM
<1>5. CASE EndValid(mm_init)  BY <1>5, EndValidMM
<1>6. CASE UtilAlloc(Answer)  BY <1>6, UtilAllocMM
<1>7. CASE UtilRealloc(Answer)  BY <1>7, UtilReallocMM
<1>8. CASE UtilFree(Answer)  BY <1>8, UtilFreeMM
<1>9. CASE EndUtil(mm_init) \/ SpeedLine(Answer) \/ EndSpeed(mm_init)  BY <1>9, SpeedMM
<1>10. CASE UNCHANGED dvars  BY <1>10, StutterMM
<1> QED  BY <1>1, <1>2, <1>3, <1>4, <1>5, <1>6, <1>7, <1>8, <1>9, <1>10 DEF Next

LEMMA RunOfMM == ASSUME LegalTraces, TracesFit PROVE Spec => []MMInv
<1>1. MMInv /\ [Next]_dvars => MMInv'  BY NextMM
<1> QED  BY <1>1, InitMM, PTL DEF Spec

(* While eval_mm_valid replays legal traces against mm.c, add_range and      *)
(* remove_range keep the range list equal to the extents of the non-empty    *)
(* blocks the trace holds, each listed once.                                 *)
THEOREM RangesFollowTheBlocks ==
  ASSUME LegalTraces, TracesFit PROVE Spec => []RangesAreHeldBlocks
<1>1. MMInv => RangesAreHeldBlocks
  <2> SUFFICES ASSUME MMInv, pc = "valid", ~unchecked
               PROVE  /\ Len(ranges) = Cardinality(HeldBlocks)
                      /\ {ranges[k] : k \in DOMAIN ranges} =
                           {[lo |-> blocks[d], hi |-> blocks[d] + block_sizes[d] - 1, index |-> d]
                              : d \in HeldBlocks}
    BY DEF RangesAreHeldBlocks, HeldBlocks
  <2>1. Lists(ranges, HeldBlocks, blocks, block_sizes)  BY DEF MMInv, Checked, Listed
  <2> QED  BY <2>1, ListsCount
<1> QED  BY <1>1, RunOfMM, PTL

(* The driver reports an error of mm.c on a legal trace only when the heap   *)
(* is too small for the line eval_mm_valid stopped at: it never accuses      *)
(* mm.c of a misplaced block or of lost bytes.                               *)
THEOREM NeverAccusesMM ==
  ASSUME LegalTraces, TracesFit PROVE Spec => []NoFalseAccusation
<1>1. MMInv => NoFalseAccusation  BY DEF MMInv
<1> QED  BY <1>1, RunOfMM, PTL

(* Between two lines of eval_mm_valid every block the trace holds has the    *)
(* random bytes randomize_block gave it: no later mm_malloc, mm_realloc or   *)
(* mm_free of mm.c has written to it.                                        *)
THEOREM HeldBytesAreKept ==
  ASSUME LegalTraces, TracesFit PROVE Spec => []HeldBlocksKeepTheirBytes
<1>1. MMInv => HeldBlocksKeepTheirBytes
  BY DEF MMInv, Checked, Spoilt, HeldBlocksKeepTheirBytes
<1> QED  BY <1>1, RunOfMM, PTL

(* In eval_mm_util total_size is the number of bytes the trace holds, and    *)
(* its high-water mark never exceeds the heap: the utilization mdriver       *)
(* prints for mm.c is at most 1.                                             *)
THEOREM UtilizationIsAtMostOne ==
  ASSUME LegalTraces, TracesFit PROVE Spec => []UtilizationIsSound
<1>1. MMInv => UtilizationIsSound
  BY MaxHeapAssumption DEF MMInv, Layout, HeapOK, Accounted, UtilizationIsSound, mem_heapsize
<1> QED  BY <1>1, RunOfMM, PTL
=============================================================================
