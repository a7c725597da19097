----------------------------- MODULE FcycProofs -----------------------------
(***************************************************************************)
(* fcyc's table and result for every kbest, maxsamples and epsilon and all *)
(* measurements; and what holds of clock.c for every width of the halves   *)
(* of the counter, wherever it stands and whenever the timer interrupts.   *)
(***************************************************************************)
EXTENDS Fcyc, SequenceTheorems, FiniteSetTheorems, TLAPS

USE KBestAssumption DEF KBestAssumption
-----------------------------------------------------------------------------
(* The table is described by ranks: entry k is below x if and only if more *)
(* than k measurements are.  Counting measurements:                        *)

Below(t, x) == Cardinality({k \in DOMAIN t : t[k] < x})

LEMMA BelowIsBounded ==
  ASSUME NEW t \in Seq(Int), NEW x \in Int
  PROVE  IsFiniteSet({k \in DOMAIN t : t[k] < x}) /\ Below(t, x) \in 0 .. Len(t)
<1>1. Len(t) \in Nat /\ DOMAIN t = 1 .. Len(t)  BY LenProperties
<1>2. IsFiniteSet(1 .. Len(t)) /\ Cardinality(1 .. Len(t)) = Len(t)
  <2>1. 1 \in Int /\ Len(t) \in Int  BY <1>1
  <2>2. /\ IsFiniteSet(1 .. Len(t))
        /\ Cardinality(1 .. Len(t)) = IF 1 > Len(t) THEN 0 ELSE Len(t) - 1 + 1
    BY <2>1, FS_Interval
  <2> QED  BY <1>1, <2>2
<1> DEFINE B == {k \in DOMAIN t : t[k] < x}
<1>3. B \in SUBSET (1 .. Len(t))  BY <1>1
<1> HIDE DEF B
<1>4. IsFiniteSet(B) /\ Cardinality(B) <= Len(t)  BY <1>2, <1>3, FS_Subset
<1>5. Cardinality(B) \in Nat  BY <1>4, FS_CardinalityType
<1>6. Cardinality(B) \in 0 .. Len(t)  BY <1>1, <1>4, <1>5
<1> QED  BY <1>4, <1>6 DEF Below, B

LEMMA BelowAppend ==
  ASSUME NEW t \in Seq(Int), NEW v \in Int, NEW x \in Int
  PROVE  Below(Append(t, v), x) = IF v < x THEN Below(t, x) + 1 ELSE Below(t, x)
<1> DEFINE n == Len(t)
           u == Append(t, v)
           B == {k \in DOMAIN t : t[k] < x}
           C == {k \in DOMAIN u : u[k] < x}
<1>1. n \in Nat /\ DOMAIN t = 1 .. n  BY LenProperties
<1>2. /\ DOMAIN u = 1 .. n + 1 /\ u[n + 1] = v
      /\ \A k \in 1 .. n : u[k] = t[k]
  BY <1>1, AppendProperties, LenProperties
<1>3. IsFiniteSet(B)  BY BelowIsBounded
<1>4. n + 1 \notin B  BY <1>1
<1> HIDE DEF n, u
<1>5. CASE v < x
  <2>1. C = B \cup {n + 1}  BY <1>1, <1>2, <1>5
  <2>2. Cardinality(B \cup {n + 1}) = Cardinality(B) + 1  BY <1>3, <1>4, FS_AddElement
  <2> QED  BY <1>5, <2>1, <2>2 DEF Below, u
<1>6. CASE ~(v < x)
  <2>1. C = B  BY <1>1, <1>2, <1>6
  <2> QED  BY <1>6, <2>1 DEF Below, u
<1> QED  BY <1>5, <1>6

LEMMA LeastExists ==
  ASSUME NEW I, I \subseteq Nat, I # {}
  PROVE  \E x \in I : \A y \in I : x <= y
<1> DEFINE R == OpToRel(<, Nat)
<1>1. IsWellFoundedOn(R, Nat)  BY NatLessThanWellFounded
<1>2. \A x, y \in Nat : y < x => <<y, x>> \in R  BY DEF OpToRel
<1> HIDE DEF R
<1>3. PICK x \in I : \A y \in I : ~(<<y, x>> \in R)
  BY <1>1, WFMin
<1>4. ASSUME NEW y \in I PROVE x <= y
  <2>1. x \in Nat /\ y \in Nat  OBVIOUS
  <2>2. ~(y < x)  BY <1>2, <1>3, <2>1
  <2> QED  BY <2>1, <2>2
<1> QED  BY <1>4
-----------------------------------------------------------------------------
(* The insertion sort moves the new value past every larger one.           *)
LEMMA SiftedPlace ==
  ASSUME NEW v \in [Slots -> Int], NEW pos \in Slots
  PROVE  \E to \in 0 .. pos :
           /\ \A j \in to .. pos - 1 : v[j] > v[pos]
           /\ to > 0 => v[to - 1] <= v[pos]
           /\ Sifted(v, pos) = [k \in Slots |-> IF k = to THEN v[pos]
                                                ELSE IF to < k /\ k <= pos THEN v[k - 1]
                                                ELSE v[k]]
<1> DEFINE P(k) == /\ \A j \in k .. pos - 1 : v[j] > v[pos]
                   /\ k > 0 => v[k - 1] <= v[pos]
           I == {k \in 0 .. pos : \A j \in k .. pos - 1 : v[j] > v[pos]}
<1>0. pos \in Nat  BY DEF Slots
<1>1. pos \in I  BY <1>0
<1>2. I \subseteq Nat /\ I # {}  BY <1>0, <1>1
<1>3. PICK m \in I : \A y \in I : m <= y
  <2> HIDE DEF I
  <2> QED  BY <1>2, LeastExists
<1>4. m \in 0 .. pos /\ \A j \in m .. pos - 1 : v[j] > v[pos]  OBVIOUS
<1>5. P(m)
  <2>1. ASSUME m > 0, v[m - 1] > v[pos] PROVE FALSE
    <3>1. m - 1 \in 0 .. pos  BY <1>0, <1>4, <2>1
    <3>2. \A j \in m - 1 .. pos - 1 : j = m - 1 \/ j \in m .. pos - 1  BY <1>0, <1>4
    <3>3. m - 1 \in I  BY <1>4, <2>1, <3>1, <3>2
    <3>4. m <= m - 1  BY <1>3, <3>3
    <3> QED  BY <1>4, <3>4
  <2>2. m > 0 => v[m - 1] \in Int  BY <1>0, <1>4 DEF Slots
  <2>3. v[pos] \in Int  OBVIOUS
  <2> QED  BY <1>4, <2>1, <2>2, <2>3
<1> HIDE DEF P
<1> DEFINE to == CHOOSE k \in 0 .. pos : P(k)
<1>6. to \in 0 .. pos /\ P(to)  BY <1>4, <1>5
<1>7. Sifted(v, pos) = [k \in Slots |-> IF k = to THEN v[pos]
                                        ELSE IF to < k /\ k <= pos THEN v[k - 1]
                                        ELSE v[k]]
  BY DEF Sifted, P
<1> HIDE DEF to
<1> QED  BY <1>6, <1>7 DEF P
-----------------------------------------------------------------------------
KBestTypes ==
  /\ values \in [Slots -> Int] /\ samplecount \in Nat /\ samplecount <= maxsamples
  /\ taken \in Seq(Int) /\ samplecount = Len(taken)

Ranked == \A k \in Filled, x \in Int : values[k] < x <=> k < Below(taken, x)

(* What fcyc returned is the head of a table on which it stopped.          *)
Returned ==
  ~running /\ samplecount > 0 => result = values[0] /\ ~GoesOn(values, samplecount)

RankInv == KBestTypes /\ Ranked

(* The new value enters at pos: the next free slot, or the last one when   *)
(* it is below that slot's value.                                          *)
LEMMA InsertKeepsRanks ==
  ASSUME RankInv, NEW val \in Int, NEW pos \in Slots,
         \/ pos = samplecount
         \/ pos = kbest - 1 /\ samplecount >= kbest /\ val < values[pos],
         values' = Sifted([values EXCEPT ![pos] = val], pos),
         samplecount' = samplecount + 1, taken' = Append(taken, val)
  PROVE  values' \in [Slots -> Int] /\ Ranked'
<1> DEFINE v == [values EXCEPT ![pos] = val]
<1>1. /\ v \in [Slots -> Int] /\ v[pos] = val
      /\ \A k \in Slots : k # pos => v[k] = values[k]
      /\ values' = Sifted(v, pos)
  BY DEF RankInv, KBestTypes
<1> HIDE DEF v
<1>2. PICK to \in 0 .. pos :
        /\ \A j \in to .. pos - 1 : v[j] > val
        /\ to > 0 => v[to - 1] <= val
        /\ values' = [k \in Slots |-> IF k = to THEN val
                                      ELSE IF to < k /\ k <= pos THEN v[k - 1]
                                      ELSE v[k]]
  <2>1. \E to \in 0 .. pos :
           /\ \A j \in to .. pos - 1 : v[j] > v[pos]
           /\ to > 0 => v[to - 1] <= v[pos]
           /\ Sifted(v, pos) = [k \in Slots |-> IF k = to THEN v[pos]
                                                ELSE IF to < k /\ k <= pos THEN v[k - 1]
                                                ELSE v[k]]
    BY <1>1, SiftedPlace
  <2> QED  BY <1>1, <2>1, Zenon
<1>3. pos \in Nat /\ pos < kbest /\ to \in Nat /\ to <= pos  BY DEF Slots
<1>4. values' \in [Slots -> Int]
  <2> SUFFICES ASSUME NEW k \in Slots
               PROVE  (IF k = to THEN val ELSE IF to < k /\ k <= pos THEN v[k - 1] ELSE v[k]) \in Int
    BY <1>2
  <2>1. CASE k = to  BY <2>1
  <2>2. CASE to < k /\ k <= pos
    <3>1. k - 1 \in Slots  BY <1>3, <2>2 DEF Slots
    <3> QED  BY <1>1, <1>3, <2>2, <3>1 DEF Slots
  <2>3. CASE ~(k = to) /\ ~(to < k /\ k <= pos)  BY <1>1, <2>3
  <2> QED  BY <2>1, <2>2, <2>3
<1>5. Filled' = 0 .. pos
  <2>1. CASE pos = samplecount  BY <1>3, <2>1 DEF Filled, RankInv, KBestTypes
  <2>2. CASE pos = kbest - 1 /\ samplecount >= kbest
    BY <2>2 DEF Filled, RankInv, KBestTypes
  <2> QED  BY <2>1, <2>2
<1>6. ASSUME NEW k \in 0 .. pos, k < pos PROVE k \in Filled /\ k \in Slots /\ v[k] = values[k]
  <2>1. k \in Slots  BY <1>3, <1>6 DEF Slots
  <2>2. k \in Filled  BY <1>3, <1>6 DEF Filled, RankInv, KBestTypes
  <2> QED  BY <1>1, <1>6, <2>1, <2>2
<1>7. ASSUME NEW k \in 0 .. pos, NEW x \in Int
      PROVE  values'[k] < x <=> k < Below(taken', x)
  <2> DEFINE b == Below(taken, x)
             c == Below(taken', x)
  <2>1. b \in Nat /\ b <= samplecount /\ c = IF val < x THEN b + 1 ELSE b
    <3>1. taken \in Seq(Int) /\ samplecount = Len(taken)  BY DEF RankInv, KBestTypes
    <3>2. b \in 0 .. Len(taken) /\ Len(taken) \in Nat  BY <3>1, BelowIsBounded, LenProperties
    <3>3. c = IF val < x THEN b + 1 ELSE b  BY <3>1, BelowAppend
    <3> HIDE DEF b, c
    <3> QED  BY <3>1, <3>2, <3>3
  <2>2. ASSUME NEW j \in 0 .. pos, j < pos PROVE v[j] \in Int /\ (v[j] < x <=> j < b)
    BY <1>1, <1>6, <2>2 DEF RankInv, Ranked
  <2> HIDE DEF b, c
  <2>3. CASE k < to
    <3>1. k < pos /\ k \in Slots  BY <1>3, <2>3 DEF Slots
    <3>2. values'[k] = v[k]
      <4>1. k # to /\ ~(to < k)  BY <1>3, <2>3
      <4> QED  BY <1>2, <3>1, <4>1
    <3>3. v[k] \in Int /\ (v[k] < x <=> k < b)  BY <2>2, <3>1
    <3>4. val < x => k < b
      <4> SUFFICES ASSUME val < x PROVE k < b  OBVIOUS
      <4>1. to - 1 \in 0 .. pos /\ to - 1 < pos /\ to > 0  BY <1>3, <2>3
      <4>2. v[to - 1] \in Int /\ v[to - 1] <= val /\ (v[to - 1] < x <=> to - 1 < b)
        BY <1>2, <2>2, <4>1
      <4>3. v[to - 1] < x  BY <4>2
      <4> QED  BY <1>3, <2>1, <2>3, <4>2, <4>3
    <3>5. CASE val < x
      <4>1. v[k] < x /\ c = b + 1  BY <2>1, <3>3, <3>4, <3>5
      <4> QED  BY <2>1, <3>2, <3>4, <3>5, <4>1 DEF c
    <3>6. CASE ~(val < x)
      <4>1. c = b  BY <2>1, <3>6
      <4> QED  BY <3>2, <3>3, <4>1 DEF c
    <3> QED  BY <3>5, <3>6
  <2>4. CASE k = to
    <3>1. values'[k] = val
      <4>1. k \in Slots  BY <1>3 DEF Slots
      <4> QED  BY <1>2, <2>4, <4>1
    <3>2. CASE val < x
      <4>1. to > 0 => to - 1 < b
        <5> SUFFICES ASSUME to > 0 PROVE to - 1 < b  OBVIOUS
        <5>1. to - 1 \in 0 .. pos /\ to - 1 < pos  BY <1>3
        <5>2. v[to - 1] \in Int /\ v[to - 1] <= val /\ (v[to - 1] < x <=> to - 1 < b)
          BY <1>2, <2>2, <5>1
        <5> QED  BY <3>2, <5>2
      <4>2. k < b + 1  BY <1>3, <2>1, <2>4, <4>1
      <4> QED  BY <2>1, <3>1, <3>2, <4>2 DEF c
    <3>3. CASE ~(val < x)
      <4>1. ~(to < b)
        <5>1. CASE to < pos
          <6>1. v[to] > val  BY <1>2, <1>3, <5>1
          <6>2. v[to] \in Int /\ (v[to] < x <=> to < b)  BY <2>2, <5>1
          <6> QED  BY <3>3, <6>1, <6>2
        <5>2. CASE to = pos /\ pos = samplecount  BY <1>3, <2>1, <5>2
        <5>3. CASE to = pos /\ pos = kbest - 1 /\ samplecount >= kbest /\ val < values[pos]
          <6>1. pos \in Filled  BY <1>3, <5>3 DEF Filled, RankInv, KBestTypes
          <6>2. values[pos] < x <=> pos < b  BY <6>1 DEF RankInv, Ranked, b
          <6>3. values[pos] \in Int  BY DEF RankInv, KBestTypes
          <6> QED  BY <3>3, <5>3, <6>2, <6>3
        <5> QED  BY <1>3, <5>1, <5>2, <5>3
      <4>2. c = b  BY <2>1, <3>3
      <4> QED  BY <2>4, <3>1, <3>3, <4>1, <4>2 DEF c
    <3> QED  BY <3>2, <3>3
  <2>5. CASE to < k
    <3>1. k \in Slots /\ k - 1 \in 0 .. pos /\ k - 1 < pos /\ k - 1 \in to .. pos - 1
      BY <1>3, <2>5 DEF Slots
    <3>2. values'[k] = v[k - 1]
      <4>1. k # to /\ k <= pos  BY <1>3, <2>5
      <4> QED  BY <1>2, <2>5, <3>1, <4>1
    <3>3. v[k - 1] \in Int /\ (v[k - 1] < x <=> k - 1 < b) /\ v[k - 1] > val
      BY <1>2, <2>2, <3>1
    <3>4. CASE val < x
      <4>1. c = b + 1  BY <2>1, <3>4
      <4>2. k - 1 < b <=> k < b + 1  BY <1>3, <2>1
      <4> QED  BY <3>2, <3>3, <4>1, <4>2 DEF c
    <3>5. CASE ~(val < x)
      <4>1. c = b  BY <2>1, <3>5
      <4>2. ~(v[k - 1] < x)  BY <3>3, <3>5
      <4>3. ~(k < b)  BY <1>3, <2>1, <3>3, <4>2
      <4> QED  BY <3>2, <4>1, <4>2, <4>3 DEF c
    <3> QED  BY <3>4, <3>5
  <2>6. k < to \/ k = to \/ to < k  BY <1>3
  <2> QED  BY <2>3, <2>4, <2>5, <2>6
<1>8. Ranked'
  <2>1. \A k \in Filled', x \in Int : values'[k] < x <=> k < Below(taken', x)
    BY <1>5, <1>7
  <2> QED  BY <2>1 DEF Ranked
<1> QED  BY <1>4, <1>8
-----------------------------------------------------------------------------
LEMMA SampleKeepsRanks ==
  ASSUME RankInv, NEW val \in Int, add_sample(val), taken' = Append(taken, val)
  PROVE  values' \in [Slots -> Int] /\ Ranked'
<1>0. samplecount' = samplecount + 1  BY DEF add_sample
<1>1. CASE samplecount < kbest
  <2>1. samplecount \in Slots  BY <1>1 DEF RankInv, KBestTypes, Slots
  <2>2. values' = Sifted([values EXCEPT ![samplecount] = val], samplecount)
    BY <1>1 DEF add_sample
  <2> QED  BY <1>0, <2>1, <2>2, InsertKeepsRanks
<1>2. CASE samplecount >= kbest /\ val < values[kbest - 1]
  <2>1. kbest - 1 \in Slots  BY DEF Slots
  <2>2. values' = Sifted([values EXCEPT ![kbest - 1] = val], kbest - 1)
    BY <1>2 DEF add_sample, RankInv, KBestTypes
  <2> QED  BY <1>0, <1>2, <2>1, <2>2, InsertKeepsRanks
<1>3. CASE samplecount >= kbest /\ ~(val < values[kbest - 1])
  <2>1. values' = values  BY <1>3 DEF add_sample, RankInv, KBestTypes
  <2>2. Filled' = Slots /\ Filled = Slots
    BY <1>0, <1>3 DEF Filled, Slots, RankInv, KBestTypes
  <2>3. ASSUME NEW k \in Slots, NEW x \in Int
        PROVE  values[k] < x <=> k < Below(taken', x)
    <3> DEFINE b == Below(taken, x)
               c == Below(taken', x)
    <3>1. taken \in Seq(Int) /\ Len(taken) \in Nat  BY LenProperties DEF RankInv, KBestTypes
    <3>2. b \in Nat /\ (c = IF val < x THEN b + 1 ELSE b)
      <4>1. b \in 0 .. Len(taken)  BY <3>1, BelowIsBounded
      <4>2. c = IF val < x THEN b + 1 ELSE b  BY <3>1, BelowAppend
      <4> HIDE DEF b, c
      <4> QED  BY <3>1, <4>1, <4>2
    <3>3. values[k] < x <=> k < b  BY <2>2 DEF RankInv, Ranked
    <3>4. values[kbest - 1] < x <=> kbest - 1 < b
      <4>1. kbest - 1 \in Filled  BY <2>2 DEF Slots
      <4> QED  BY <4>1 DEF RankInv, Ranked
    <3>5. values[kbest - 1] \in Int /\ values[k] \in Int /\ k \in Nat /\ k <= kbest - 1
      BY DEF RankInv, KBestTypes, Slots
    <3> HIDE DEF b, c
    <3>6. CASE val < x
      <4>1. values[kbest - 1] < x  BY <1>3, <3>5, <3>6
      <4>2. kbest - 1 < b  BY <3>4, <4>1
      <4>3. k < b /\ k < c  BY <3>2, <3>5, <3>6, <4>2
      <4> QED  BY <3>3, <4>3 DEF c
    <3>7. CASE ~(val < x)  BY <3>2, <3>3, <3>7 DEF c
    <3> QED  BY <3>6, <3>7
  <2>4. Ranked'  BY <2>1, <2>2, <2>3 DEF Ranked
  <2> QED  BY <2>1, <2>4 DEF RankInv, KBestTypes
<1>4. values[kbest - 1] \in Int  BY DEF RankInv, KBestTypes, Slots
<1> QED  BY <1>1, <1>2, <1>3, <1>4 DEF RankInv, KBestTypes

KBestInv == RankInv /\ Returned

LEMMA InitKBest == Init => KBestInv
<1> SUFFICES ASSUME Init PROVE KBestInv  OBVIOUS
<1>1. taken \in Seq(Int) /\ Len(taken) = 0  BY DEF Init
<1>2. KBestTypes  BY <1>1 DEF Init, KBestTypes
<1>3. Filled = {}  BY DEF Init, Filled
<1> QED  BY <1>2, <1>3 DEF KBestInv, RankInv, Ranked, Returned, Init

LEMMA NextKBest == KBestInv /\ [Next]_vars => KBestInv'
<1> SUFFICES ASSUME KBestInv, [Next]_vars PROVE KBestInv'  OBVIOUS
<1>1. CASE init_sampler
  <2>1. /\ values' = [k \in Slots |-> 0] /\ samplecount' = 0
        /\ taken' = << >> /\ running'
    BY <1>1 DEF init_sampler
  <2>2. taken' \in Seq(Int) /\ Len(taken') = 0  BY <2>1
  <2>3. KBestTypes'  BY <2>1, <2>2 DEF KBestTypes
  <2>4. Filled' = {}  BY <2>1 DEF Filled
  <2> QED  BY <2>1, <2>3, <2>4 DEF KBestInv, RankInv, Ranked, Returned
<1>2. CASE Measure
  <2>1. PICK val \in Cycles : add_sample(val) /\ taken' = Append(taken, val)
    BY <1>2 DEF Measure
  <2>2. val \in Int /\ RankInv  BY DEF KBestInv
  <2>3. values' \in [Slots -> Int] /\ Ranked'  BY <2>1, <2>2, SampleKeepsRanks
  <2>4. samplecount' = samplecount + 1  BY <2>1 DEF add_sample
  <2>5. samplecount < maxsamples
    BY <1>2, <2>2 DEF Measure, GoesOn, RankInv, KBestTypes
  <2>6. taken' \in Seq(Int) /\ Len(taken') = Len(taken) + 1
    BY <2>1, <2>2, AppendProperties DEF RankInv, KBestTypes
  <2>7. KBestTypes'  BY <2>2, <2>3, <2>4, <2>5, <2>6 DEF RankInv, KBestTypes
  <2>8. running' = running /\ running  BY <1>2 DEF Measure
  <2> QED  BY <2>3, <2>7, <2>8 DEF KBestInv, RankInv, Returned
<1>3. CASE Return
  BY <1>3 DEF Return, KBestInv, RankInv, KBestTypes, Ranked, Filled, Returned, GoesOn, Converged
<1>4. CASE UNCHANGED vars
  BY <1>4 DEF vars, KBestInv, RankInv, KBestTypes, Ranked, Filled, Returned, GoesOn, Converged
<1> QED  BY <1>1, <1>2, <1>3, <1>4 DEF Next

LEMMA KBestIsInvariant == Spec => []KBestInv
BY InitKBest, NextKBest, PTL DEF Spec

(* For every kbest, and whatever is measured: the table holds the kbest    *)
(* smallest measurements, ties included, in ascending order (fcyc.c:73).   *)
THEOREM TableHoldsTheSmallest == Spec => []HoldsTheSmallest
<1>1. KBestInv => HoldsTheSmallest
  <2> SUFFICES ASSUME RankInv PROVE HoldsTheSmallest  BY DEF KBestInv
  <2>0. \A k \in Filled : k \in Nat /\ values[k] \in Int
    BY DEF RankInv, KBestTypes, Filled, Slots
  <2>1. ASSUME NEW j \in Filled, NEW k \in Filled, j < k PROVE values[j] <= values[k]
    <3> DEFINE x == values[k] + 1
    <3>1. x \in Int /\ values[k] < x  BY <2>0
    <3>2. values[k] < x <=> k < Below(taken, x)  BY <3>1 DEF RankInv, Ranked
    <3>3. values[j] < x <=> j < Below(taken, x)  BY <3>1 DEF RankInv, Ranked
    <3>4. Below(taken, x) \in 0 .. Len(taken) /\ Len(taken) \in Nat
      BY <3>1, BelowIsBounded, LenProperties DEF RankInv, KBestTypes
    <3>5. j < Below(taken, x)
      <4> HIDE DEF x
      <4> QED  BY <2>0, <2>1, <3>1, <3>2, <3>4
    <3>6. values[j] < values[k] + 1  BY <3>3, <3>5
    <3> QED  BY <2>0, <3>6
  <2>2. ASSUME NEW x \in Int
        PROVE  StoredBelow(x) = IF TakenBelow(x) < kbest THEN TakenBelow(x) ELSE kbest
    <3> DEFINE b == Below(taken, x)
               n == IF b < kbest THEN b ELSE kbest
    <3>1. b = TakenBelow(x)  BY DEF Below, TakenBelow
    <3>2. b \in 0 .. Len(taken) /\ Len(taken) = samplecount /\ samplecount \in Nat
      BY BelowIsBounded DEF RankInv, KBestTypes
    <3>3. {k \in Filled : values[k] < x} = {k \in Filled : k < b}
      BY DEF RankInv, Ranked
    <3> HIDE DEF b
    <3>4. {k \in Filled : k < b} = 0 .. n - 1  BY <3>2 DEF Filled
    <3>5. Cardinality(0 .. n - 1) = n
      <4>1. n \in Nat  BY <3>2
      <4> HIDE DEF n
      <4> QED  BY <4>1, FS_Interval
    <3> QED  BY <3>1, <3>3, <3>4, <3>5 DEF StoredBelow
  <2>3. \A x \in {taken[k] + 1 : k \in DOMAIN taken} \cup {values[k] + 1 : k \in Filled} :
          x \in Int
    <3>1. \A k \in DOMAIN taken : taken[k] \in Int
      BY LenProperties, ElementOfSeq DEF RankInv, KBestTypes
    <3> QED  BY <2>0, <3>1
  <2> QED  BY <2>1, <2>2, <2>3 DEF HoldsTheSmallest
<1> QED  BY <1>1, KBestIsInvariant, PTL

(* For every kbest, maxsamples and epsilon: fcyc returns the smallest      *)
(* measurement of the call and, unless it gave up at maxsamples, kbest of  *)
(* them are within epsilon of it (fcyc.c:97-101, 229-231).                 *)
THEOREM ResultIsTheBest == Spec => []ReturnsTheBest
<1>1. KBestInv => ReturnsTheBest
  <2> SUFFICES ASSUME RankInv, Returned, ~running, samplecount > 0
               PROVE  /\ \E k \in DOMAIN taken : taken[k] = result
                      /\ \A k \in DOMAIN taken : taken[k] >= result
                      /\ \/ samplecount = maxsamples
                         \/ Cardinality({k \in DOMAIN taken :
                                EpsDen * taken[k] <= (EpsDen + EpsNum) * result}) >= kbest
    BY DEF KBestInv, ReturnsTheBest
  <2>1. result = values[0] /\ ~GoesOn(values, samplecount)  BY DEF Returned
  <2>2. 0 \in Filled /\ result \in Int
    BY <2>1 DEF Filled, RankInv, KBestTypes, Slots
  <2>3. /\ taken \in Seq(Int) /\ DOMAIN taken = 1 .. Len(taken)
        /\ \A k \in DOMAIN taken : taken[k] \in Int
    BY LenProperties, ElementOfSeq DEF RankInv, KBestTypes
  <2>4. \A k \in DOMAIN taken : taken[k] >= result
    <3> DEFINE B == {k \in DOMAIN taken : taken[k] < result}
    <3>1. ~(0 < Below(taken, result))  BY <2>1, <2>2 DEF RankInv, Ranked
    <3>2. IsFiniteSet(B) /\ Below(taken, result) \in 0 .. Len(taken)
      BY <2>2, <2>3, BelowIsBounded
    <3>3. Cardinality(B) = 0  BY <2>3, <3>1, <3>2, LenProperties DEF Below
    <3> HIDE DEF B
    <3>4. B = {}  BY <3>2, <3>3, FS_EmptySet
    <3> QED  BY <2>2, <2>3, <3>4 DEF B
  <2>5. \E k \in DOMAIN taken : taken[k] = result
    <3> DEFINE x == result + 1
               B == {k \in DOMAIN taken : taken[k] < x}
    <3>1. x \in Int /\ result < x  BY <2>2
    <3>2. 0 < Below(taken, x)  BY <2>1, <2>2, <3>1 DEF RankInv, Ranked
    <3>3. B # {}
      <4>1. Cardinality(B) # 0  BY <3>2 DEF Below
      <4> QED  BY <4>1, FS_EmptySet
    <3>4. PICK k \in DOMAIN taken : taken[k] < result + 1  BY <3>3
    <3> QED  BY <2>2, <2>3, <2>4, <3>4
  <2>6. ASSUME samplecount # maxsamples
        PROVE  Cardinality({k \in DOMAIN taken :
                              EpsDen * taken[k] <= (EpsDen + EpsNum) * result}) >= kbest
    <3>1. samplecount >= kbest /\ (EpsDen + EpsNum) * values[0] >= EpsDen * values[kbest - 1]
      BY <2>1, <2>6 DEF GoesOn, Converged, RankInv, KBestTypes
    <3> DEFINE last == values[kbest - 1]
               x == last + 1
               B == {k \in DOMAIN taken : taken[k] < x}
               C == {k \in DOMAIN taken : EpsDen * taken[k] <= (EpsDen + EpsNum) * result}
    <3>2. kbest - 1 \in Filled /\ last \in Int
      BY <3>1 DEF Filled, RankInv, KBestTypes, Slots
    <3>3. kbest - 1 < Below(taken, x)
      <4>1. x \in Int /\ last < x  BY <3>2
      <4> QED  BY <3>2, <4>1 DEF RankInv, Ranked
    <3> HIDE DEF last
    <3>4. ASSUME NEW k \in DOMAIN taken, taken[k] < x
          PROVE  EpsDen * taken[k] <= (EpsDen + EpsNum) * result
      <4>1. taken[k] \in Int /\ taken[k] <= last  BY <2>3, <3>2, <3>4
      <4>2. EpsDen * taken[k] <= EpsDen * last  BY <3>2, <4>1
      <4>3. EpsDen * last <= (EpsDen + EpsNum) * result  BY <2>1, <3>1 DEF last
      <4>4. /\ EpsDen * taken[k] \in Int /\ EpsDen * last \in Int
            /\ (EpsDen + EpsNum) * result \in Int
        BY <2>2, <3>2, <4>1
      <4> QED  BY <4>2, <4>3, <4>4
    <3>5. B \in SUBSET C  BY <3>4
    <3>6. IsFiniteSet(C)
      <4>1. IsFiniteSet(1 .. Len(taken))  BY <2>3, LenProperties, FS_Interval
      <4> QED  BY <2>3, <4>1, FS_Subset
    <3> HIDE DEF C
    <3>7. Cardinality(B) <= Cardinality(C)  BY <3>5, <3>6, FS_Subset
    <3>8. Cardinality(B) = Below(taken, x) /\ Below(taken, x) \in Int /\ Cardinality(C) \in Int
      <4>1. x \in Int  BY <3>2
      <4>2. Below(taken, x) \in 0 .. Len(taken)  BY <2>3, <4>1, BelowIsBounded
      <4> QED  BY <2>3, <3>6, <4>2, FS_CardinalityType, LenProperties DEF Below
    <3> QED  BY <3>3, <3>7, <3>8 DEF C
  <2> QED  BY <2>4, <2>5, <2>6
<1> QED  BY <1>1, KBestIsInvariant, PTL
-----------------------------------------------------------------------------
(* clock.c. *)

USE FcycAssumption DEF FcycAssumption
-----------------------------------------------------------------------------
(* The subtraction in two halves, the borrow included.                     *)

(* A number below Base^2 in halves. *)
LEMMA Halves ==
  ASSUME NEW x \in 0 .. Base * Base - 1
  PROVE  /\ x \div Base \in 0 .. Base - 1 /\ x % Base \in 0 .. Base - 1
         /\ x = (x \div Base) * Base + (x % Base)
<1>1. x % Base \in 0 .. Base - 1 /\ x \div Base \in Int /\ x = Base * (x \div Base) + (x % Base)
  OBVIOUS
<1> DEFINE h == x \div Base
<1> HIDE DEF h
<1>2. h \in Int /\ 0 <= Base * h + (x % Base) /\ Base * h + (x % Base) < Base * Base
  BY <1>1 DEF h
<1>3. h >= 0
  <2>1. ASSUME h <= -1 PROVE FALSE
    <3>1. Base * h <= Base * (-1)  BY <2>1, <1>2
    <3> QED  BY <3>1, <1>1, <1>2
  <2> QED  BY <2>1, <1>2
<1>4. h < Base
  <2>1. ASSUME h >= Base PROVE FALSE
    <3>1. Base * h >= Base * Base  BY <2>1, <1>2
    <3> QED  BY <3>1, <1>1, <1>2
  <2> QED  BY <2>1, <1>2
<1> QED  BY <1>1, <1>2, <1>3, <1>4 DEF h

(* Of two numbers in halves that are d apart, once around or not.          *)
LEMMA SubtractHalves ==
  ASSUME NEW h \in 0 .. Base - 1, NEW l \in 0 .. Base - 1,
         NEW ch \in 0 .. Base - 1, NEW cl \in 0 .. Base - 1,
         NEW d \in Nat, d < Base * Base,
         \/ h * Base + l = ch * Base + cl + d
         \/ h * Base + l = ch * Base + cl + d - Base * Base
  PROVE  LET lo     == (l - cl) % Base
             borrow == IF lo > l THEN 1 ELSE 0
         IN  ((h - ch - borrow) % Base) * Base + lo = d
<1> DEFINE lo == (l - cl) % Base
           borrow == IF lo > l THEN 1 ELSE 0
           hi == (h - ch - borrow) % Base
<1>1. \/ lo = l - cl /\ borrow = 0 /\ cl <= l
      \/ lo = l - cl + Base /\ borrow = 1 /\ l < cl
  <2>1. CASE cl <= l
    <3>1. lo = l - cl  BY <2>1
    <3> QED  BY <2>1, <3>1
  <2>2. CASE l < cl
    <3>1. lo = l - cl + Base
      <4>1. (l - cl) % Base = (l - cl + Base) % Base  OBVIOUS
      <4> QED  BY <4>1, <2>2
    <3> QED  BY <2>2, <3>1
  <2> QED  BY <2>1, <2>2
<1>2. lo \in 0 .. Base - 1 /\ borrow \in {0, 1}  BY <1>1
<1>3. lo = l - cl + borrow * Base  BY <1>1
<1> HIDE DEF lo, borrow
<1>4. \/ hi = h - ch - borrow
      \/ hi = h - ch - borrow + Base
  <2>1. CASE h - ch - borrow >= 0  BY <2>1, <1>2
  <2>2. CASE h - ch - borrow < 0
    <3>1. (h - ch - borrow) % Base = (h - ch - borrow + Base) % Base  BY <1>2
    <3> QED  BY <2>2, <3>1, <1>2
  <2> QED  BY <2>1, <2>2, <1>2
<1>5. hi \in 0 .. Base - 1  BY <1>2
<1> HIDE DEF hi
<1>6. \/ hi * Base + lo = (h * Base + l) - (ch * Base + cl)
      \/ hi * Base + lo = (h * Base + l) - (ch * Base + cl) + Base * Base
  <2>1. CASE hi = h - ch - borrow
    <3>1. hi * Base = h * Base - ch * Base - borrow * Base  BY <2>1, <1>2
    <3> QED  BY <3>1, <1>2, <1>3, <1>5
  <2>2. CASE hi = h - ch - borrow + Base
    <3>1. hi * Base = h * Base - ch * Base - borrow * Base + Base * Base  BY <2>2, <1>2
    <3> QED  BY <3>1, <1>2, <1>3, <1>5
  <2> QED  BY <1>4, <2>1, <2>2
<1>7. hi * Base + lo >= 0 /\ hi * Base + lo < Base * Base
  <2>1. hi * Base <= (Base - 1) * Base /\ hi * Base >= 0  BY <1>5
  <2>2. (Base - 1) * Base = Base * Base - Base  OBVIOUS
  <2> QED  BY <2>1, <2>2, <1>2, <1>5
<1>8. hi * Base + lo = d
  <2> DEFINE r == hi * Base + lo
             q == Base * Base
             x == h * Base + l
             s == ch * Base + cl
  <2>1. r \in Int /\ q \in Nat /\ q > 0 /\ x \in Int /\ s \in Int  BY <1>2, <1>5
  <2>2. /\ r >= 0 /\ r < q /\ d < q
        /\ r = x - s \/ r = x - s + q
        /\ x = s + d \/ x = s + d - q
    BY <1>6, <1>7
  <2> HIDE DEF r, q, x, s
  <2>3. r = d  BY <2>1, <2>2
  <2> QED  BY <2>3 DEF r
<1> QED  BY <1>8 DEF lo, borrow, hi
-----------------------------------------------------------------------------
(* The steps at which start_counter has been called.                       *)
Counting == pc \in {"first", "loop", "event", "f", "stop"}

Start == cyc_hi * Base + cyc_lo

ClockTypes ==
  /\ tsc \in 0 .. Base * Base - 1 /\ utime \in Nat
  /\ elapsed \in Nat /\ elapsed < Base * Base /\ inside \in Nat
  /\ cyc_hi \in 0 .. Base - 1 /\ cyc_lo \in 0 .. Base - 1
  /\ pc \in {"ready", "callibrate", "begun", "first", "loop", "event", "times", "start", "f",
             "stop"}

(* The counter is elapsed cycles past its start, once around or not.       *)
ClockInv ==
  /\ ClockTypes
  /\ Counting => tsc = Start + elapsed \/ tsc = Start + elapsed - Base * Base

LEMMA InitClock == FInit => ClockInv
<1> SUFFICES ASSUME FInit PROVE ClockInv  OBVIOUS
<1>1. Base * Base > 0  OBVIOUS
<1> QED  BY <1>1 DEF FInit, ClockInv, ClockTypes, Counting

(* A step that does not start the counter anew.                            *)
LEMMA StartsTheCounter ==
  ASSUME ClockInv, start_counter, tsc' = tsc, utime' = utime,
         pc' \in {"first", "f"}
  PROVE  ClockInv'
<1>1. /\ cyc_hi' \in 0 .. Base - 1 /\ cyc_lo' \in 0 .. Base - 1
      /\ tsc = cyc_hi' * Base + cyc_lo'
  BY Halves DEF ClockInv, ClockTypes, start_counter, Hi, Lo
<1>2. Base * Base > 0  OBVIOUS
<1>3. ClockTypes'  BY <1>1, <1>2 DEF ClockInv, ClockTypes, start_counter
<1>4. tsc' = Start' + elapsed'
  <2>1. Start' = tsc /\ elapsed' = 0  BY <1>1 DEF start_counter, Start
  <2> QED  BY <2>1 DEF ClockInv, ClockTypes
<1> QED  BY <1>3, <1>4 DEF ClockInv

LEMMA NextClock == ClockInv /\ [FNext]_fvars => ClockInv'
<1> SUFFICES ASSUME ClockInv, [FNext]_fvars PROVE ClockInv'  OBVIOUS
<1>1. CASE Elapse
  <2>1. PICK d \in Gaps, t \in {0, 1} :
          /\ elapsed + d < Base * Base
          /\ tsc' = (tsc + d) % (Base * Base) /\ elapsed' = elapsed + d
          /\ utime' = utime + t /\ inside' = IF pc = "f" THEN inside + t ELSE inside
    BY <1>1 DEF Elapse
  <2>2. UNCHANGED <<cyc_hi, cyc_lo, pc>>  BY <1>1 DEF Elapse, counter
  <2> DEFINE q == Base * Base
  <2>3. q \in Nat /\ q > 0 /\ d \in Nat /\ tsc \in 0 .. q - 1 /\ elapsed + d < q
        /\ tsc' = (tsc + d) % q /\ elapsed \in Nat
    BY <2>1 DEF ClockInv, ClockTypes
  <2>4. Start \in Int
    <3>1. cyc_hi \in Int /\ cyc_lo \in Int  BY DEF ClockInv, ClockTypes
    <3> QED  BY <3>1 DEF Start
  <2>5. Counting => tsc = Start + elapsed \/ tsc = Start + elapsed - q
    BY DEF ClockInv
  <2>6. Start' = Start /\ Counting' = Counting  BY <2>2 DEF Start, Counting
  <2> HIDE DEF q
  <2>7. \/ tsc' = tsc + d
        \/ tsc' = tsc + d - q
    <3>1. CASE tsc + d < q  BY <2>3, <3>1
    <3>2. CASE tsc + d >= q
      <4>1. tsc + d - q \in 0 .. q - 1  BY <2>3, <3>2
      <4>2. (tsc + d) % q = (tsc + d - q) % q  BY <2>3
      <4>3. (tsc + d - q) % q = tsc + d - q  BY <2>3, <4>1
      <4> QED  BY <2>3, <4>2, <4>3
    <3> QED  BY <2>3, <3>1, <3>2
  <2>8. tsc' \in 0 .. q - 1  BY <2>3
  <2>9. ClockTypes'
    <3>1. tsc' \in 0 .. Base * Base - 1  BY <2>8 DEF q
    <3> QED  BY <2>1, <2>2, <3>1 DEF ClockInv, ClockTypes
  <2>10. Counting' => tsc' = Start' + elapsed' \/ tsc' = Start' + elapsed' - q
    <3> SUFFICES ASSUME Counting
                 PROVE  tsc' = Start + elapsed' \/ tsc' = Start + elapsed' - q
      BY <2>6
    <3>1. Start >= 0 /\ Start < q
      <4>1. cyc_hi * Base <= (Base - 1) * Base /\ cyc_hi * Base >= 0
        BY DEF ClockInv, ClockTypes
      <4>2. (Base - 1) * Base = Base * Base - Base  OBVIOUS
      <4> QED  BY <4>1, <4>2 DEF Start, ClockInv, ClockTypes, q
    <3>2. elapsed' = elapsed + d  BY <2>1
    <3> QED  BY <2>3, <2>4, <2>5, <2>7, <2>8, <3>1, <3>2
  <2> QED  BY <2>9, <2>10 DEF ClockInv, q
<1>2. CASE BeginCount
  BY <1>2, StartsTheCounter DEF BeginCount
<1>3. CASE StartCounter
  BY <1>3, StartsTheCounter DEF StartCounter
<1>4. ASSUME UNCHANGED <<clock, counter>>, Counting' => Counting,
             pc' \in {"ready", "callibrate", "begun", "first", "loop", "event", "times", "start",
                     "f", "stop"}
      PROVE  ClockInv'
  BY <1>4 DEF ClockInv, ClockTypes, Start, clock, counter
<1>5. CASE Call  BY <1>5, <1>4 DEF Call, Counting, ClockInv, ClockTypes
<1>6. CASE Begin  BY <1>6, <1>4 DEF Begin, Counting
<1>7. CASE ReadCounter  BY <1>7, <1>4 DEF ReadCounter, Counting
<1>8. CASE Event  BY <1>8, <1>4 DEF Event, Counting
<1>9. CASE StartTick  BY <1>9, <1>4 DEF StartTick, Counting
<1>10. CASE GetCounter  BY <1>10, <1>4 DEF GetCounter, Counting
<1>11. CASE Stop  BY <1>11, <1>4 DEF Stop, Counting
<1>12. CASE Done  BY <1>12, <1>4 DEF Done, Counting, ClockInv, ClockTypes
<1>13. CASE Callibrate  BY <1>13, <1>4 DEF Callibrate, Counting
<1>14. CASE FirstCount  BY <1>14, <1>4 DEF FirstCount, Counting
<1>15. CASE UNCHANGED fvars
  BY <1>15, <1>4 DEF fvars, Counting, ClockInv, ClockTypes
<1> QED
  BY <1>1, <1>2, <1>3, <1>5, <1>6, <1>7, <1>8, <1>9, <1>10, <1>11, <1>12, <1>13, <1>14, <1>15
  DEF FNext

(* For every width of the halves, wherever the counter stood and however   *)
(* often it wrapped, get_counter returns the cycles since start_counter    *)
(* (clock.c:65-78).                                                        *)
THEOREM CounterIsRight == FSpec => []CounterIsElapsed
<1>1. ClockInv => CounterIsElapsed
  <2> SUFFICES ASSUME ClockInv, Counting PROVE get_counter = elapsed
    BY DEF CounterIsElapsed, Counting
  <2>1. Hi \in 0 .. Base - 1 /\ Lo \in 0 .. Base - 1 /\ tsc = Hi * Base + Lo
    BY Halves DEF ClockInv, ClockTypes, Hi, Lo
  <2> HIDE DEF Hi, Lo
  <2>2. /\ cyc_hi \in 0 .. Base - 1 /\ cyc_lo \in 0 .. Base - 1
        /\ elapsed \in Nat /\ elapsed < Base * Base
        /\ \/ Hi * Base + Lo = cyc_hi * Base + cyc_lo + elapsed
           \/ Hi * Base + Lo = cyc_hi * Base + cyc_lo + elapsed - Base * Base
    BY <2>1 DEF ClockInv, ClockTypes, Start
  <2>3. LET lo     == (Lo - cyc_lo) % Base
            borrow == IF lo > Lo THEN 1 ELSE 0
        IN  ((Hi - cyc_hi - borrow) % Base) * Base + lo = elapsed
    BY <2>1, <2>2, SubtractHalves
  <2> QED  BY <2>3 DEF get_counter
<1> QED  BY <1>1, InitClock, NextClock, PTL DEF FSpec
-----------------------------------------------------------------------------
(* While f runs, the ticks read before it and those that fell in its run   *)
(* are all in the ticks of user time.  No other call of fcyc begins then.  *)
TickInv ==
  /\ ClockTypes
  /\ taken \in Seq(Int) /\ time \in Int /\ oldt \in Int /\ oldc \in Int
  /\ cyc_per_tick \in Nat /\ start_tick \in Nat
  /\ pc # "ready" => running
  /\ compensate /\ pc = "start" => start_tick <= utime
  /\ compensate /\ pc \in {"f", "stop"} => start_tick + inside <= utime

LEMMA GetCounterIsInt == ClockTypes => get_counter \in Int
<1> SUFFICES ASSUME ClockTypes PROVE get_counter \in Int  OBVIOUS
<1>1. Hi \in Int /\ Lo \in Int  BY Halves DEF ClockTypes, Hi, Lo
<1> DEFINE lo == (Lo - cyc_lo) % Base
<1>2. lo \in Int  BY <1>1 DEF ClockTypes
<1> HIDE DEF lo
<1> DEFINE borrow == IF lo > Lo THEN 1 ELSE 0
<1>3. borrow \in {0, 1}  OBVIOUS
<1> HIDE DEF borrow
<1> DEFINE hi == (Hi - cyc_hi - borrow) % Base
<1>4. hi \in Int  BY <1>1, <1>3 DEF ClockTypes
<1> HIDE DEF hi
<1>5. hi * Base + lo \in Int  BY <1>2, <1>4
<1> QED  BY <1>5 DEF get_counter, hi, borrow, lo

(* A tick costs some cycles or, when none was measured, nothing.           *)
LEMMA CostIsNat ==
  ASSUME TickInv, ClockInv, Event
  PROVE  cyc_per_tick' \in Nat /\ oldc' \in Int
<1>1. CASE utime > oldc
  <2> DEFINE cpt == ((time - oldt) * Unit) \div (utime - oldc)
  <2>1. (time - oldt) * Unit \in Int /\ utime - oldc \in Int /\ utime - oldc > 0
    BY <1>1 DEF TickInv, ClockTypes
  <2>2. cpt \in Int  BY <2>1
  <2>3. RECORDTHRESH * Unit >= 0  OBVIOUS
  <2>4. cyc_per_tick' = IF (cyc_per_tick = 0 \/ cyc_per_tick > cpt) /\ cpt > RECORDTHRESH * Unit
                        THEN cpt ELSE cyc_per_tick
    BY <1>1 DEF Event
  <2> HIDE DEF cpt
  <2>5. cyc_per_tick' \in Nat  BY <2>2, <2>3, <2>4 DEF TickInv
  <2> QED  BY <1>1, <2>5 DEF Event, TickInv, ClockTypes
<1>2. CASE ~(utime > oldc)
  BY <1>2 DEF Event, TickInv
<1> QED  BY <1>1, <1>2

LEMMA InitTicks == FInit => TickInv
<1> SUFFICES ASSUME FInit PROVE TickInv  OBVIOUS
<1>1. ClockTypes  BY InitClock DEF ClockInv
<1>2. taken \in Seq(Int)  BY DEF FInit, Init
<1> QED  BY <1>1, <1>2 DEF FInit, TickInv

LEMMA NextTicks == TickInv /\ ClockInv /\ [FNext]_fvars => TickInv'
<1> SUFFICES ASSUME TickInv, ClockInv, [FNext]_fvars PROVE TickInv'  OBVIOUS
<1>0. ClockTypes'  BY NextClock DEF ClockInv
<1>1. CASE Elapse
  <2>1. PICK t \in {0, 1} : /\ utime' = utime + t
                           /\ inside' = IF pc = "f" THEN inside + t ELSE inside
    BY <1>1 DEF Elapse
  <2> QED  BY <1>0, <1>1, <2>1 DEF Elapse, TickInv, ClockTypes, vars, locals
<1>2. CASE Call
  BY <1>0, <1>2 DEF Call, init_sampler, TickInv, clock, locals
<1>3. CASE Begin
  <2>1. pc' = "start" => ~compensate  BY <1>3 DEF Begin
  <2>2. pc' \in {"start", "callibrate", "times"}  BY <1>3 DEF Begin
  <2> QED  BY <1>0, <1>3, <2>1, <2>2 DEF Begin, TickInv, vars, clock, locals
<1>4. CASE Callibrate
  BY <1>0, <1>4 DEF Callibrate, TickInv, ClockTypes, vars, clock
<1>5. CASE ReadCounter
  <2>1. time' \in Int  BY <1>5, GetCounterIsInt DEF ReadCounter, TickInv
  <2>2. pc' \in {"event", "loop"}  BY <1>5 DEF ReadCounter
  <2> QED  BY <1>0, <1>5, <2>1, <2>2 DEF ReadCounter, TickInv, vars, clock, locals
<1>6. CASE Event
  <2>1. cyc_per_tick' \in Nat /\ oldc' \in Int  BY <1>6, CostIsNat
  <2>2. pc' \in {"times", "loop"} /\ oldt' = time /\ time' = 0  BY <1>6 DEF Event
  <2>3. UNCHANGED <<taken, running, start_tick, compensate>> /\ pc # "ready"
    BY <1>6 DEF Event, vars
  <2> QED  BY <1>0, <2>1, <2>2, <2>3 DEF TickInv
<1>7. CASE StartTick
  BY <1>0, <1>7 DEF StartTick, TickInv, ClockTypes, vars, clock
<1>8. CASE StartCounter
  BY <1>0, <1>8 DEF StartCounter, start_counter, TickInv, ClockTypes, vars, locals
<1>9. CASE GetCounter
  <2>1. time' \in Int  BY <1>9, GetCounterIsInt DEF GetCounter, TickInv
  <2> QED  BY <1>0, <1>9, <2>1 DEF GetCounter, TickInv, vars, clock, locals
<1>10. CASE Stop
  <2> DEFINE val == time * Unit - (IF compensate THEN (utime - start_tick) * cyc_per_tick ELSE 0)
  <2>1. val \in Int
    <3>1. time * Unit \in Int /\ (utime - start_tick) * cyc_per_tick \in Int
      BY DEF TickInv, ClockTypes
    <3> QED  BY <3>1
  <2>2. taken' = Append(taken, val) /\ pc' = "ready" /\ time' = 0  BY <1>10 DEF Stop
  <2> HIDE DEF val
  <2>3. taken' \in Seq(Int)  BY <2>1, <2>2 DEF TickInv
  <2> QED  BY <1>0, <1>10, <2>2, <2>3 DEF Stop, TickInv, locals
<1>11. CASE Done
  BY <1>0, <1>11 DEF Done, Return, TickInv, clock, locals
<1>12. CASE BeginCount
  BY <1>0, <1>12 DEF BeginCount, TickInv, vars, locals
<1>13. CASE FirstCount
  <2>1. oldt' \in Int  BY <1>13, GetCounterIsInt DEF FirstCount, TickInv
  <2>2. pc' \in {"times", "loop"}  BY <1>13 DEF FirstCount
  <2> QED  BY <1>0, <1>13, <2>1, <2>2 DEF FirstCount, TickInv, vars, clock
<1>14. CASE UNCHANGED fvars
  BY <1>0, <1>14 DEF fvars, vars, TickInv, clock, locals
<1> QED
  BY <1>1, <1>2, <1>3, <1>4, <1>5, <1>6, <1>7, <1>8, <1>9, <1>10, <1>11, <1>12, <1>13,
     <1>14
  DEF FNext

(* Whenever the timer interrupts, every tick that fell into f's run is     *)
(* taken off the measurement (clock.c:285-291): it is never too large.     *)
THEOREM TicksAreCompensated == FSpec => EveryTickIsCompensated
<1> DEFINE Compensated ==
      pc = "stop" /\ taken' # taken /\ compensate =>
        taken'[Len(taken')] <= time * Unit - inside * cyc_per_tick
<1>1. TickInv /\ [FNext]_fvars => [Compensated]_fvars
  <2> SUFFICES ASSUME TickInv, FNext, pc = "stop", taken' # taken, compensate
               PROVE  taken'[Len(taken')] <= time * Unit - inside * cyc_per_tick
    BY Zenon
  <2>1. Stop
    <3>1. ~Call  BY DEF Call, init_sampler, TickInv
    <3>2. ~Begin /\ ~Callibrate /\ ~BeginCount /\ ~FirstCount /\ ~ReadCounter /\ ~Event /\ ~StartTick /\ ~StartCounter
          /\ ~GetCounter /\ ~Done
      BY DEF Begin, Callibrate, BeginCount, FirstCount, ReadCounter, Event, StartTick,
             StartCounter, GetCounter, Done
    <3>3. ~Elapse  BY DEF Elapse, vars
    <3> QED  BY <3>1, <3>2, <3>3 DEF FNext
  <2> DEFINE val == time * Unit - (utime - start_tick) * cyc_per_tick
  <2>2. taken' = Append(taken, val)  BY <2>1 DEF Stop
  <2>3. val \in Int /\ val <= time * Unit - inside * cyc_per_tick
    <3> DEFINE ticks == utime - start_tick
    <3>1. ticks \in Int /\ inside \in Nat /\ inside <= ticks /\ cyc_per_tick \in Nat
      BY DEF TickInv, ClockTypes
    <3> HIDE DEF ticks
    <3>2. inside * cyc_per_tick <= ticks * cyc_per_tick  BY <3>1
    <3>3. /\ inside * cyc_per_tick \in Int /\ ticks * cyc_per_tick \in Int
          /\ time * Unit \in Int
      BY <3>1 DEF TickInv
    <3> QED  BY <3>2, <3>3 DEF ticks
  <2> HIDE DEF val
  <2>4. taken'[Len(taken')] = val  BY <2>2, <2>3 DEF TickInv
  <2> QED  BY <2>3, <2>4
<1> QED  BY <1>1, InitClock, NextClock, InitTicks, NextTicks, PTL
      DEF FSpec, EveryTickIsCompensated
-----------------------------------------------------------------------------
(* The steps of a measurement implement the one step that KBest takes.     *)

(* While a measurement is taken, the do loop's condition still holds.      *)
TurnInv == pc # "ready" => samplecount = 0 \/ GoesOn(values, samplecount)

LEMMA NextTurn == TurnInv /\ [FNext]_fvars => TurnInv'
<1> SUFFICES ASSUME TurnInv, [FNext]_fvars PROVE TurnInv'  OBVIOUS
<1>1. CASE Call \/ Stop \/ Done
  <2>1. pc' = "ready" \/ (pc' = pc /\ samplecount' = 0)
    BY <1>1 DEF Call, Stop, Done, init_sampler
  <2> QED  BY <2>1 DEF TurnInv
<1>2. CASE Begin
  BY <1>2 DEF Begin, vars, TurnInv, GoesOn, Converged
<1>3. CASE \/ Elapse \/ Callibrate \/ BeginCount \/ FirstCount \/ ReadCounter \/ Event
           \/ StartTick \/ StartCounter \/ GetCounter \/ UNCHANGED fvars
  <2>1. UNCHANGED vars /\ (pc = "ready" => pc' = "ready")
    BY <1>3 DEF Elapse, Callibrate, BeginCount, FirstCount, ReadCounter, Event, StartTick,
                StartCounter, GetCounter, fvars
  <2> QED  BY <2>1 DEF vars, TurnInv, GoesOn, Converged
<1> QED  BY <1>1, <1>2, <1>3 DEF FNext

(* A step of Fcyc is a call, a measurement or a return of KBest, or none:  *)
(* fcyc.c does with clock.c's counter what the scheme asks for, whatever   *)
(* the counter and the timer do, if any integer may be measured.           *)
THEOREM FcycImplementsKBest ==
  ASSUME Cycles = Int
  PROVE  FSpec => MeasuresAsKBest
<1>1. FInit => Init  BY DEF FInit
<1>2. TurnInv /\ TickInv /\ [FNext]_fvars => [Next]_vars
  <2> SUFFICES ASSUME TurnInv, TickInv, [FNext]_fvars PROVE [Next]_vars  OBVIOUS
  <2>1. CASE Call  BY <2>1 DEF Call, Next
  <2>2. CASE Done  BY <2>2 DEF Done, Next
  <2>3. CASE Stop
    <3> DEFINE val == time * Unit
                      - (IF compensate THEN (utime - start_tick) * cyc_per_tick ELSE 0)
    <3>1. val \in Cycles
      <4>1. time * Unit \in Int /\ (utime - start_tick) * cyc_per_tick \in Int
        BY DEF TickInv, ClockTypes
      <4> QED  BY <4>1
    <3>2. /\ add_sample(val) /\ taken' = Append(taken, val)
          /\ pc = "stop" /\ UNCHANGED <<result, running>>
      BY <2>3 DEF Stop
    <3> HIDE DEF val
    <3>3. running /\ (samplecount = 0 \/ GoesOn(values, samplecount))
      BY <3>2 DEF TurnInv, TickInv
    <3> QED  BY <3>1, <3>2, <3>3 DEF Measure, Next
  <2>4. CASE \/ Elapse \/ Begin \/ Callibrate \/ BeginCount \/ FirstCount \/ ReadCounter
             \/ Event \/ StartTick \/ StartCounter \/ GetCounter \/ UNCHANGED fvars
    BY <2>4 DEF Elapse, Begin, Callibrate, BeginCount, FirstCount, ReadCounter, Event, StartTick,
                StartCounter, GetCounter, fvars
  <2> QED  BY <2>1, <2>2, <2>3, <2>4 DEF FNext
<1>3. FInit => TurnInv  BY DEF FInit, TurnInv
<1> QED
  BY <1>1, <1>2, <1>3, NextTurn, InitClock, NextClock, InitTicks, NextTicks, PTL
  DEF FSpec, MeasuresAsKBest, Spec
=============================================================================
