----------------------------- MODULE RBMapProofs -----------------------------
(***************************************************************************)
(* Proofs about the map, for every set of keys and every number of nodes:  *)
(* as long as no keys were lost, it is a search tree of the keys asked     *)
(* for, which the iterator passes in their order, and until a node is      *)
(* erased no insertion meets a NULL uncle.                                 *)
(***************************************************************************)
EXTENDS RBMap, FiniteSetTheorems, SequenceTheorems, WellFoundedInduction, TLAPS
-----------------------------------------------------------------------------
(* Loops.                                                                  *)

(* In place of induction: a set of numbers has a least one. *)
LEMMA FirstExists ==
  ASSUME NEW I, I \subseteq Nat, I # {}
  PROVE  \E x \in I : \A y \in I : x <= y
<1> DEFINE R == OpToRel(<, Nat)
<1>1. IsWellFoundedOn(R, Nat)  BY NatLessThanWellFounded
<1>2. \A x, y \in Nat : y < x => <<y, x>> \in R  BY DEF OpToRel
<1> HIDE DEF R
<1>3. PICK x \in I : \A y \in I : ~(<<y, x>> \in R)
  BY <1>1, WFMin
<1>4. ASSUME NEW y \in I PROVE x <= y
  <2>1. x \in Nat /\ y \in Nat  OBVIOUS
  <2>2. ~(y < x)  BY <1>2, <1>3, <2>1
  <2> QED  BY <2>1, <2>2
<1> QED  BY <1>4

(* What holds at first, and after a turn if before it, holds throughout. *)
LEMMA Throughout ==
  ASSUME NEW n \in Nat, NEW S, 0 \in S,
         \A j \in 1 .. n : j - 1 \in S => j \in S
  PROVE  0 .. n \subseteq S
<1> DEFINE I == {j \in 0 .. n : j \notin S}
<1> SUFFICES ASSUME I # {} PROVE FALSE  OBVIOUS
<1>1. I \subseteq Nat  OBVIOUS
<1>2. PICK x \in I : \A y \in I : x <= y  BY <1>1, FirstExists
<1>3. x # 0 /\ x \in 1 .. n /\ x - 1 \in 0 .. n /\ ~(x <= x - 1)  OBVIOUS
<1>4. x - 1 \notin I  BY <1>2, <1>3
<1>5. x - 1 \in S  BY <1>3, <1>4
<1> QED  BY <1>3, <1>5

(* The turns of a loop whose j-th one makes step[<<j, v>>] of v. *)
Turns(n, a, step, f) ==
  \A j \in 0 .. n : f[j] = IF j = 0 THEN a ELSE step[<<j, f[j - 1]>>]

LEMMA LoopsExist ==
  ASSUME NEW n \in Nat, NEW R, NEW a \in R, NEW step \in [(1 .. n) \X R -> R]
  PROVE  \E f \in [0 .. n -> R] : Turns(n, a, step, f)
<1> DEFINE S == {k \in 0 .. n : \E f \in [0 .. k -> R] : Turns(k, a, step, f)}
<1>1. 0 \in S
  <2> DEFINE f == [j \in 0 .. 0 |-> a]
  <2>1. f \in [0 .. 0 -> R] /\ Turns(0, a, step, f)  BY DEF Turns
  <2> QED  BY <2>1
<1>2. ASSUME NEW j \in 1 .. n, j - 1 \in S PROVE j \in S
  <2>1. PICK f \in [0 .. j - 1 -> R] : Turns(j - 1, a, step, f)  BY <1>2
  <2> DEFINE g == [i \in 0 .. j |-> IF i = j THEN step[<<j, f[j - 1]>>] ELSE f[i]]
  <2>2. f[j - 1] \in R  OBVIOUS
  <2>3. step[<<j, f[j - 1]>>] \in R  BY <2>2
  <2>4. g \in [0 .. j -> R]  BY <2>3
  <2>5. ASSUME NEW i \in 0 .. j PROVE g[i] = IF i = 0 THEN a ELSE step[<<i, g[i - 1]>>]
    <3>1. CASE i = j
      <4>1. g[i] = step[<<j, f[j - 1]>>] /\ i # 0 /\ i - 1 \in 0 .. j /\ i - 1 # j  BY <3>1
      <4>2. g[i - 1] = f[j - 1]  BY <3>1, <4>1
      <4> QED  BY <3>1, <4>1, <4>2
    <3>2. CASE i # j
      <4>1. i \in 0 .. j - 1 /\ g[i] = f[i]  BY <3>2
      <4>2. f[i] = IF i = 0 THEN a ELSE step[<<i, f[i - 1]>>]  BY <2>1, <4>1 DEF Turns
      <4>3. i # 0 => i - 1 \in 0 .. j /\ i - 1 # j  BY <4>1
      <4>4. i # 0 => g[i - 1] = f[i - 1]  BY <4>3
      <4> QED  BY <4>1, <4>2, <4>4
    <3> QED  BY <3>1, <3>2
  <2>6. Turns(j, a, step, g)  BY <2>5 DEF Turns
  <2> QED  BY <2>4, <2>6
<1>3. 0 .. n \subseteq S  BY <1>1, <1>2, Throughout
<1>4. n \in S  BY <1>3
<1> QED  BY <1>4
-----------------------------------------------------------------------------
(* Search trees.                                                           *)

(* The memory as insert and erase may leave it. *)
Memory ==
  [head : 0 .. MaxNodes, size : 0 .. MaxNodes, red : SUBSET Nodes, freed : SUBSET Nodes,
   key : [Nodes -> Nat], child : [Side -> [Nodes -> 0 .. MaxNodes]],
   prev : [Nodes -> 0 .. MaxNodes]]

Bounds == [Side -> [Nodes -> Int]]

(* A search comes to x only for a key between x's bounds. *)
Between(e, x, k) == e["left"][x] < k /\ k < e["right"][x]

(* The nodes of T and what their child pointers lead to. *)
Frame(t, T, e, B) ==
  /\ T \subseteq 1 .. t.size /\ t.head \in T
  /\ e["left"][t.head] = -1 /\ e["right"][t.head] = B
  /\ \A x \in T : Between(e, x, t.key[x]) /\ -1 <= e["left"][x] /\ e["right"][x] <= B
  /\ \A x \in T, s \in Side :
       t.child[s][x] # NULL =>
         /\ t.child[s][x] \in T
         /\ e[s][t.child[s][x]] = e[s][x]
         /\ e[Other(s)][t.child[s][x]] = t.key[x]

(* T is a search tree below head. *)
Shape(t, T, e, B) ==
  /\ Frame(t, T, e, B)
  /\ \A y \in T : y # t.head => \E x \in T, s \in Side : t.child[s][x] = y

LEMMA Sides ==
  /\ Side = {"left", "right"} /\ Other("left") = "right" /\ Other("right") = "left"
  /\ \A s \in Side : Other(s) \in Side /\ Other(s) # s /\ Other(Other(s)) = s
BY DEF Side, Other

LEMMA FrameFacts ==
  ASSUME NEW t \in Memory, NEW T, NEW e \in Bounds, NEW B \in Nat, Frame(t, T, e, B), NEW x \in T
  PROVE  /\ x \in Nodes /\ x # NULL /\ t.key[x] \in Nat
         /\ e["left"][x] \in Int /\ e["right"][x] \in Int
         /\ e["left"][x] < t.key[x] /\ t.key[x] < e["right"][x]
         /\ -1 <= e["left"][x] /\ e["right"][x] <= B
         /\ t.child["left"][x] # NULL =>
              /\ t.child["left"][x] \in T
              /\ e["left"][t.child["left"][x]] = e["left"][x]
              /\ e["right"][t.child["left"][x]] = t.key[x]
         /\ t.child["right"][x] # NULL =>
              /\ t.child["right"][x] \in T
              /\ e["right"][t.child["right"][x]] = e["right"][x]
              /\ e["left"][t.child["right"][x]] = t.key[x]
<1>1. T \subseteq 1 .. t.size /\ t.size \in 0 .. MaxNodes /\ MaxNodes \in Nat
  BY MapAssumption DEF Frame, Memory
<1>2. x \in Nodes /\ x # NULL  BY <1>1 DEF Nodes, NULL
<1>3. t.key[x] \in Nat /\ e["left"][x] \in Int /\ e["right"][x] \in Int
  BY <1>2, Sides DEF Memory, Bounds
<1>4. /\ "left" \in Side /\ "right" \in Side /\ Other("left") = "right" /\ Other("right") = "left"
  BY Sides
<1> QED  BY <1>2, <1>3, <1>4 DEF Frame, Between

(* What holds of head, and of a node's children if of the node, holds of T. *)
LEMMA TreeInduction ==
  ASSUME NEW t \in Memory, NEW T, NEW e \in Bounds, NEW B \in Nat, Shape(t, T, e, B),
         NEW S, t.head \in S,
         \A x \in T, s \in Side : x \in S /\ t.child[s][x] # NULL => t.child[s][x] \in S
  PROVE  T \subseteq S
<1> DEFINE w(y) == B + 1 - (e["right"][y] - e["left"][y])
           I == {w(y) : y \in {y \in T : y \notin S}}
<1>0. Frame(t, T, e, B)  BY DEF Shape
<1> SUFFICES ASSUME {y \in T : y \notin S} # {} PROVE FALSE  OBVIOUS
<1>1. ASSUME NEW y \in T PROVE w(y) \in Nat
  <2>1. /\ e["left"][y] \in Int /\ e["right"][y] \in Int
        /\ -1 <= e["left"][y] /\ e["right"][y] <= B
    BY <1>0, FrameFacts
  <2> QED  BY <2>1
<1> HIDE DEF w
<1>2. I \subseteq Nat /\ I # {}  BY <1>1
<1>3. PICK v \in I : \A u \in I : v <= u  BY <1>2, FirstExists
<1>4. PICK y \in T : y \notin S /\ v = w(y)  BY <1>3
<1>5. PICK x \in T, s \in Side : t.child[s][x] = y  BY <1>4 DEF Shape
<1>6. y # NULL  BY <1>0, FrameFacts
<1>7. w(x) < w(y)
  <2>1. s = "left" \/ s = "right"  BY Sides
  <2>2. /\ e["left"][x] \in Int /\ e["right"][x] \in Int /\ t.key[x] \in Nat
        /\ e["left"][x] < t.key[x] /\ t.key[x] < e["right"][x]
    BY <1>0, FrameFacts
  <2>3. e[s][y] = e[s][x] /\ e[Other(s)][y] = t.key[x]
    BY <1>0, <1>5, <1>6 DEF Frame
  <2>4. /\ s = "left" => e["left"][y] = e["left"][x] /\ e["right"][y] = t.key[x]
        /\ s = "right" => e["right"][y] = e["right"][x] /\ e["left"][y] = t.key[x]
    BY <2>3, Sides
  <2> QED  BY <2>1, <2>2, <2>4 DEF w
<1>8. x \in S
  <2>1. w(x) \notin I  BY <1>1, <1>3, <1>4, <1>7
  <2> QED  BY <2>1
<1> QED  BY <1>4, <1>5, <1>6, <1>8
-----------------------------------------------------------------------------
(* Any two nodes of a tree are one below the other or apart.               *)

(* The bounds of y are on side s of a. *)
Inside(t, e, s, a, y) ==
  /\ e["left"][a] <= e["left"][y] /\ e["right"][y] <= e["right"][a]
  /\ IF s = "left" THEN e["right"][y] <= t.key[a] ELSE t.key[a] <= e["left"][y]

Under(t, e, a, y) == Inside(t, e, "left", a, y) \/ Inside(t, e, "right", a, y)

Apart(e, a, y) == e["right"][y] <= e["left"][a] \/ e["right"][a] <= e["left"][y]

Related(t, e, a, y) == y = a \/ Under(t, e, a, y) \/ Under(t, e, y, a) \/ Apart(e, a, y)

(* The bounds of x's child c on side s. *)
ChildIs(t, T, e, x, s, c) ==
  /\ c \in T
  /\ s = "left" => e["left"][c] = e["left"][x] /\ e["right"][c] = t.key[x]
  /\ s = "right" => e["right"][c] = e["right"][x] /\ e["left"][c] = t.key[x]
  /\ Inside(t, e, s, x, c)

LEMMA ChildBounds ==
  ASSUME NEW t \in Memory, NEW T, NEW e \in Bounds, NEW B \in Nat, Frame(t, T, e, B),
         NEW x \in T, NEW s \in Side, NEW c, c = t.child[s][x], c # NULL
  PROVE  ChildIs(t, T, e, x, s, c)
<1>1. c \in T /\ e[s][c] = e[s][x] /\ e[Other(s)][c] = t.key[x]  BY DEF Frame
<1>2. /\ s = "left" => e["left"][c] = e["left"][x] /\ e["right"][c] = t.key[x]
      /\ s = "right" => e["right"][c] = e["right"][x] /\ e["left"][c] = t.key[x]
  BY <1>1, Sides
<1>3. /\ e["left"][x] \in Int /\ e["right"][x] \in Int /\ t.key[x] \in Nat
      /\ e["left"][x] < t.key[x] /\ t.key[x] < e["right"][x]
  BY FrameFacts
<1>4. s = "left" \/ s = "right"  BY Sides
<1>5. Inside(t, e, s, x, c)  BY <1>2, <1>3, <1>4 DEF Inside
<1> QED  BY <1>1, <1>2, <1>5 DEF ChildIs

LEMMA Entry ==
  ASSUME NEW t \in Memory, NEW T, NEW e \in Bounds, NEW B \in Nat, Shape(t, T, e, B),
         NEW a \in T, \A y \in T : Related(t, e, a, y),
         NEW r \in Side, NEW y \in T, Inside(t, e, r, a, y)
  PROVE  LET c == t.child[r][a] IN c # NULL /\ (y = c \/ Under(t, e, c, y))
<1> DEFINE d == t.child[r][a]
           S == {z \in T : Inside(t, e, r, a, z) => d # NULL /\ (z = d \/ Under(t, e, d, z))}
<1>0. Frame(t, T, e, B)  BY DEF Shape
<1>a. /\ e["left"][a] \in Int /\ e["right"][a] \in Int /\ t.key[a] \in Nat
      /\ e["left"][a] < t.key[a] /\ t.key[a] < e["right"][a]
      /\ -1 <= e["left"][a] /\ e["right"][a] <= B
  BY <1>0, FrameFacts
<1>r. r = "left" \/ r = "right"  BY Sides
<1>1. t.head \in S
  <2>1. t.head \in T /\ e["left"][t.head] = -1 /\ e["right"][t.head] = B  BY <1>0 DEF Frame
  <2>2. ~Inside(t, e, r, a, t.head)  BY <1>a, <1>r, <2>1 DEF Inside
  <2> QED  BY <2>1, <2>2
<1>2. ASSUME NEW x \in T, NEW s \in Side, x \in S, NEW c, c = t.child[s][x], c # NULL PROVE c \in S
  <2>0. ChildIs(t, T, e, x, s, c)  BY <1>0, <1>2, ChildBounds
  <2>1. /\ c \in T
        /\ s = "left" => e["left"][c] = e["left"][x] /\ e["right"][c] = t.key[x]
        /\ s = "right" => e["right"][c] = e["right"][x] /\ e["left"][c] = t.key[x]
        /\ Inside(t, e, s, x, c)
    BY <2>0 DEF ChildIs
  <2>2. /\ e["left"][x] \in Int /\ e["right"][x] \in Int /\ t.key[x] \in Nat
        /\ e["left"][x] < t.key[x] /\ t.key[x] < e["right"][x]
    BY <1>0, FrameFacts
  <2>3. /\ e["left"][c] \in Int /\ e["right"][c] \in Int /\ t.key[c] \in Nat
        /\ e["left"][c] < t.key[c] /\ t.key[c] < e["right"][c]
    BY <1>0, <2>1, FrameFacts
  <2>s. s = "left" \/ s = "right"  BY Sides
  <2> SUFFICES ASSUME Inside(t, e, r, a, c) PROVE d # NULL /\ (c = d \/ Under(t, e, d, c))
    BY <2>1
  <2>4. CASE x = a
    <3>1. s = r  BY <1>r, <2>1, <2>3, <2>s, <2>4 DEF Inside
    <3> QED  BY <1>2, <2>4, <3>1
  <2>5. CASE Under(t, e, a, x)
    <3>1. Inside(t, e, r, a, x)  BY <1>a, <1>r, <2>1, <2>2, <2>3, <2>s, <2>5 DEF Inside, Under
    <3>2. d # NULL /\ (x = d \/ Under(t, e, d, x))  BY <1>2, <3>1
    <3>3. d \in T  BY <1>0, <3>2, ChildBounds DEF ChildIs
    <3>4. CASE x = d
      <4>1. Under(t, e, d, c)  BY <2>1, <2>s, <3>4 DEF Under
      <4> QED  BY <3>2, <4>1
    <3>5. CASE Under(t, e, d, x)
      <4> HIDE DEF d
      <4>1. e["left"][d] \in Int /\ e["right"][d] \in Int /\ t.key[d] \in Nat
        BY <1>0, <3>3, FrameFacts
      <4>2. Under(t, e, d, c)
        BY <2>1, <2>2, <2>3, <2>s, <3>5, <4>1 DEF Under, Inside
      <4> QED  BY <3>2, <4>2
    <3> QED  BY <3>2, <3>4, <3>5
  <2>6. CASE Under(t, e, x, a)
    BY <1>a, <1>r, <2>1, <2>2, <2>3, <2>s, <2>6 DEF Inside, Under
  <2>7. CASE Apart(e, a, x)
    BY <1>a, <1>r, <2>1, <2>2, <2>3, <2>s, <2>7 DEF Inside, Apart
  <2> QED  BY <2>4, <2>5, <2>6, <2>7 DEF Related
<1> HIDE DEF S
<1>3. T \subseteq S  BY <1>1, <1>2, TreeInduction
<1>4. y \in S  BY <1>3
<1> QED  BY <1>4 DEF S

LEMMA Nested ==
  ASSUME NEW t \in Memory, NEW T, NEW e \in Bounds, NEW B \in Nat, Shape(t, T, e, B),
         NEW a \in T, NEW y \in T
  PROVE  Related(t, e, a, y)
<1> DEFINE S == {x \in T : \A z \in T : Related(t, e, x, z)}
<1>0. Frame(t, T, e, B)  BY DEF Shape
<1>1. t.head \in S
  <2> DEFINE h == t.head
             R == {z \in T : Related(t, e, h, z)}
  <2>1. h \in T  BY <1>0 DEF Frame
  <2>2. h \in R  BY <2>1 DEF Related
  <2>3. ASSUME NEW x \in T, NEW s \in Side, x \in R, NEW c, c = t.child[s][x], c # NULL PROVE c \in R
    <3>1. c \in T /\ Inside(t, e, s, x, c)  BY <1>0, <2>3, ChildBounds DEF ChildIs
    <3>2. /\ e["left"][x] \in Int /\ e["right"][x] \in Int /\ t.key[x] \in Nat
          /\ e["left"][x] < t.key[x] /\ t.key[x] < e["right"][x]
          /\ -1 <= e["left"][x] /\ e["right"][x] <= B
      BY <1>0, FrameFacts
    <3>h. e["left"][h] = -1 /\ e["right"][h] = B  BY <1>0 DEF Frame
    <3> HIDE DEF h
    <3>3. /\ e["left"][h] \in Int /\ e["right"][h] \in Int /\ t.key[h] \in Nat
          /\ e["left"][h] < t.key[h] /\ t.key[h] < e["right"][h]
      BY <1>0, <2>1, FrameFacts
    <3>4. e["left"][c] \in Int /\ e["right"][c] \in Int  BY <1>0, <3>1, FrameFacts
    <3>s. s = "left" \/ s = "right"  BY Sides
    <3>5. Related(t, e, h, x)  BY <2>3
    <3>6. Related(t, e, h, c)
      <4>1. CASE x = h  BY <3>1, <3>s, <4>1 DEF Related, Under
      <4>2. CASE Under(t, e, h, x)
        <5>1. Under(t, e, h, c)  BY <3>1, <3>2, <3>3, <3>h, <3>4, <3>s, <4>2 DEF Under, Inside
        <5> QED  BY <5>1 DEF Related
      <4>3. ~Under(t, e, x, h) /\ ~Apart(e, h, x)  BY <3>2, <3>3, <3>h DEF Under, Inside, Apart
      <4> QED  BY <3>5, <4>1, <4>2, <4>3 DEF Related
    <3> QED  BY <3>1, <3>6 DEF h
  <2> HIDE DEF R
  <2>4. T \subseteq R  BY <2>2, <2>3, TreeInduction
  <2> QED  BY <2>1, <2>4 DEF R
<1>2. ASSUME NEW x \in T, NEW s \in Side, x \in S, NEW c, c = t.child[s][x], c # NULL PROVE c \in S
  <2>0. c = t.child[s][x] /\ c # NULL  BY <1>2
  <2>c. ChildIs(t, T, e, x, s, c)  BY <1>0, <2>0, ChildBounds
  <2>1. /\ c \in T
        /\ s = "left" => e["left"][c] = e["left"][x] /\ e["right"][c] = t.key[x]
        /\ s = "right" => e["right"][c] = e["right"][x] /\ e["left"][c] = t.key[x]
        /\ Inside(t, e, s, x, c)
    BY <2>c DEF ChildIs
  <2> SUFFICES ASSUME NEW z \in T PROVE Related(t, e, c, z)  BY <2>1
  <2>2. /\ e["left"][x] \in Int /\ e["right"][x] \in Int /\ t.key[x] \in Nat
        /\ e["left"][x] < t.key[x] /\ t.key[x] < e["right"][x]
    BY <1>0, FrameFacts
  <2>3. /\ e["left"][z] \in Int /\ e["right"][z] \in Int /\ t.key[z] \in Nat
        /\ e["left"][z] < t.key[z] /\ t.key[z] < e["right"][z]
    BY <1>0, FrameFacts
  <2>4. /\ e["left"][c] \in Int /\ e["right"][c] \in Int /\ t.key[c] \in Nat
    BY <1>0, <2>1, FrameFacts
  <2>s. s = "left" \/ s = "right"  BY Sides
  <2>5. \A u \in T : Related(t, e, x, u)  BY <1>2
  <2>6. CASE z = x  BY <2>1, <2>6, <2>s DEF Related, Under
  <2>7. CASE Inside(t, e, s, x, z)
    <3>1. z = c \/ Under(t, e, c, z)  BY <2>0, <2>5, <2>7, Entry
    <3> QED  BY <3>1 DEF Related
  <2>8. CASE Under(t, e, x, z) /\ ~Inside(t, e, s, x, z)
    <3>1. Apart(e, c, z)  BY <2>1, <2>2, <2>3, <2>4, <2>8, <2>s DEF Under, Inside, Apart
    <3> QED  BY <3>1 DEF Related
  <2>9. CASE Under(t, e, z, x)
    <3>1. Under(t, e, z, c)  BY <2>1, <2>2, <2>3, <2>4, <2>9, <2>s DEF Under, Inside
    <3> QED  BY <3>1 DEF Related
  <2>10. CASE Apart(e, x, z)
    <3>1. Apart(e, c, z)  BY <2>1, <2>2, <2>3, <2>4, <2>10, <2>s DEF Inside, Apart
    <3> QED  BY <3>1 DEF Related
  <2> QED  BY <2>5, <2>6, <2>7, <2>8, <2>9, <2>10 DEF Related
<1> HIDE DEF S
<1>3. T \subseteq S  BY <1>1, <1>2, TreeInduction
<1> QED  BY <1>3 DEF S
-----------------------------------------------------------------------------
(* What child pointers lead to.                                            *)

Closed(X) == \A s \in Side, x \in X : m.child[s][x] # NULL => m.child[s][x] \in X

Reached(nodes) == nodes \cup ({m.child[s][x] : s \in Side, x \in nodes} \ {NULL})

IsFound(n, f) ==
  f = [j \in 0 .. MaxNodes |-> IF j = 0 THEN {n} \ {NULL} ELSE Reached(f[j - 1])]

LEMMA FoundExists ==
  ASSUME m \in Memory, NEW n \in Nodes \cup {NULL}
  PROVE  \E f \in [0 .. MaxNodes -> SUBSET Nodes] : IsFound(n, f) /\ Below(n) = f[MaxNodes]
<1> DEFINE R == SUBSET Nodes
           step == [jx \in (1 .. MaxNodes) \X R |-> Reached(jx[2])]
           a == {n} \ {NULL}
<1>0. MaxNodes \in Nat  BY MapAssumption
<1>1. ASSUME NEW X \in R PROVE Reached(X) \in R
  <2> SUFFICES ASSUME NEW s \in Side, NEW x \in X, m.child[s][x] # NULL PROVE m.child[s][x] \in Nodes
    BY DEF Reached
  <2>1. x \in Nodes  OBVIOUS
  <2>2. m.child[s][x] \in 0 .. MaxNodes  BY <2>1 DEF Memory
  <2> QED  BY <1>0, <2>2 DEF Nodes, NULL
<1>2. a \in R  BY DEF NULL
<1>3. step \in [(1 .. MaxNodes) \X R -> R]
  <2> QED  BY <1>1
<1>4. PICK f \in [0 .. MaxNodes -> R] : Turns(MaxNodes, a, step, f)
  <2> HIDE DEF R, a, step
  <2> QED  BY <1>0, <1>2, <1>3, LoopsExist
<1>5. ASSUME NEW j \in 0 .. MaxNodes PROVE f[j] = IF j = 0 THEN a ELSE Reached(f[j - 1])
  <2>1. f[j] = IF j = 0 THEN a ELSE step[<<j, f[j - 1]>>]
    <3> HIDE DEF step, a, R
    <3> QED  BY <1>4 DEF Turns
  <2>2. j # 0 => j \in 1 .. MaxNodes /\ f[j - 1] \in R  BY <1>0
  <2> HIDE DEF R, a
  <2>3. j # 0 => step[<<j, f[j - 1]>>] = Reached(f[j - 1])  BY <2>2
  <2> QED  BY <2>1, <2>3
<1>6. IsFound(n, f)
  <2> DEFINE F == [j \in 0 .. MaxNodes |-> IF j = 0 THEN a ELSE Reached(f[j - 1])]
  <2>1. f = F  BY <1>5
  <2> QED  BY <2>1 DEF IsFound
<1>7. IsFound(n, CHOOSE g : IsFound(n, g))  BY <1>6
<1>8. Below(n) = (CHOOSE g : IsFound(n, g))[MaxNodes]  BY DEF Below, IsFound, Reached
<1>9. ASSUME NEW g, IsFound(n, g) PROVE g = f
  <2> DEFINE S == {j \in 0 .. MaxNodes : g[j] = f[j]}
  <2>1. ASSUME NEW j \in 0 .. MaxNodes PROVE g[j] = IF j = 0 THEN a ELSE Reached(g[j - 1])
    BY <1>9 DEF IsFound
  <2>2. 0 \in S
    <3>1. 0 \in 0 .. MaxNodes  BY <1>0
    <3>2. g[0] = a /\ f[0] = a  BY <1>5, <2>1, <3>1
    <3> QED  BY <3>1, <3>2
  <2>3. ASSUME NEW j \in 1 .. MaxNodes, j - 1 \in S PROVE j \in S
    <3>1. j \in 0 .. MaxNodes /\ j # 0 /\ g[j - 1] = f[j - 1]  BY <2>3
    <3>2. g[j] = Reached(g[j - 1]) /\ f[j] = Reached(f[j - 1])  BY <1>5, <2>1, <3>1
    <3> QED  BY <3>1, <3>2
  <2>4. 0 .. MaxNodes \subseteq S
    <3> HIDE DEF S
    <3> QED  BY <1>0, <2>2, <2>3, Throughout
  <2>5. g = [j \in 0 .. MaxNodes |-> g[j]]  BY <1>9 DEF IsFound
  <2> QED  BY <2>4, <2>5
<1>10. (CHOOSE g : IsFound(n, g)) = f  BY <1>7, <1>9
<1> QED  BY <1>6, <1>8, <1>10

LEMMA BelowFacts ==
  ASSUME m \in Memory, NEW n \in Nodes \cup {NULL}
  PROVE  /\ Below(n) \subseteq Nodes /\ Closed(Below(n))
         /\ n # NULL => n \in Below(n)
         /\ n = NULL => Below(n) = {}
         /\ \A X : (n # NULL => n \in X) /\ Closed(X) => Below(n) \subseteq X
<1>0. MaxNodes \in Nat  BY MapAssumption
<1>1. PICK f \in [0 .. MaxNodes -> SUBSET Nodes] : IsFound(n, f) /\ Below(n) = f[MaxNodes]
  BY FoundExists
<1>2. f[0] = {n} \ {NULL}
  <2>1. 0 \in 0 .. MaxNodes  BY <1>0
  <2> QED  BY <1>1, <2>1 DEF IsFound
<1>3. ASSUME NEW j \in 1 .. MaxNodes
      PROVE  f[j] = f[j - 1] \cup ({m.child[s][x] : s \in Side, x \in f[j - 1]} \ {NULL})
  <2>1. j \in 0 .. MaxNodes /\ j # 0  BY <1>0
  <2>2. f[j] = Reached(f[j - 1])  BY <1>1, <2>1 DEF IsFound
  <2> QED  BY <2>2 DEF Reached
<1>4. ASSUME NEW X, n # NULL => n \in X, Closed(X) PROVE Below(n) \subseteq X
  <2> DEFINE S == {j \in 0 .. MaxNodes : f[j] \subseteq X}
  <2>1. 0 \in S  BY <1>0, <1>2, <1>4
  <2>2. ASSUME NEW j \in 1 .. MaxNodes, j - 1 \in S PROVE j \in S
    <3>1. f[j] \subseteq X  BY <1>3, <1>4, <2>2 DEF Closed
    <3> QED  BY <3>1
  <2>3. 0 .. MaxNodes \subseteq S  BY <1>0, <2>1, <2>2, Throughout
  <2> QED  BY <1>0, <1>1, <2>3
<1>5. n # NULL => n \in Below(n)
  <2> DEFINE S == {j \in 0 .. MaxNodes : n \in f[j]}
  <2> SUFFICES ASSUME n # NULL PROVE n \in f[MaxNodes]  BY <1>1
  <2>1. 0 \in S  BY <1>0, <1>2
  <2>2. ASSUME NEW j \in 1 .. MaxNodes, j - 1 \in S PROVE j \in S
    BY <1>3, <2>2
  <2>3. 0 .. MaxNodes \subseteq S  BY <1>0, <2>1, <2>2, Throughout
  <2> QED  BY <1>0, <2>3
<1>6. n = NULL => Below(n) = {}
  <2>1. Closed({})  BY DEF Closed
  <2> QED  BY <1>4, <2>1
<1>7. IsFiniteSet(Nodes) /\ Cardinality(Nodes) = MaxNodes
  BY <1>0, FS_Interval DEF Nodes
<1>8. ASSUME NEW j \in 0 .. MaxNodes
      PROVE  IsFiniteSet(f[j]) /\ Cardinality(f[j]) \in Nat /\ Cardinality(f[j]) <= MaxNodes
  BY <1>7, FS_Subset, FS_CardinalityType
<1>9. ASSUME n # NULL PROVE Closed(f[MaxNodes])
  <2> DEFINE S == {j \in 0 .. MaxNodes : Closed(f[j]) \/ Cardinality(f[j]) >= j + 1}
  <2>1. 0 \in S
    <3>1. f[0] = {n}  BY <1>2, <1>9
    <3>2. Cardinality(f[0]) = 1  BY <3>1, FS_Singleton
    <3> QED  BY <1>0, <3>2
  <2>2. ASSUME NEW j \in 1 .. MaxNodes, j - 1 \in S PROVE j \in S
    <3>0. j - 1 \in 0 .. MaxNodes /\ j \in 0 .. MaxNodes  BY <1>0
    <3>1. CASE Closed(f[j - 1])
      <4>1. \A y \in f[j] : y \in f[j - 1]  BY <1>3, <3>1 DEF Closed
      <4>2. f[j - 1] \subseteq f[j]  BY <1>3
      <4>3. f[j] = f[j - 1]  BY <4>1, <4>2
      <4> QED  BY <3>0, <3>1, <4>3
    <3>2. CASE ~Closed(f[j - 1])
      <4>1. Cardinality(f[j - 1]) >= j  BY <2>2, <3>0, <3>2
      <4>2. PICK s \in Side, x \in f[j - 1] : m.child[s][x] # NULL /\ m.child[s][x] \notin f[j - 1]
        BY <3>2 DEF Closed
      <4>3. f[j - 1] \cup {m.child[s][x]} \subseteq f[j]  BY <1>3, <4>2
      <4>4. Cardinality(f[j - 1] \cup {m.child[s][x]}) = Cardinality(f[j - 1]) + 1
        <5> DEFINE X == f[j - 1]
        <5>1. IsFiniteSet(X) /\ m.child[s][x] \notin X  BY <1>8, <3>0, <4>2
        <5> HIDE DEF X
        <5>2. Cardinality(X \cup {m.child[s][x]}) = Cardinality(X) + 1  BY <5>1, FS_AddElement
        <5> QED  BY <5>2 DEF X
      <4>5. Cardinality(f[j - 1] \cup {m.child[s][x]}) <= Cardinality(f[j])
        BY <1>8, <3>0, <4>3, FS_Subset
      <4> QED  BY <1>8, <3>0, <4>1, <4>4, <4>5
    <3> QED  BY <3>1, <3>2
  <2>3. 0 .. MaxNodes \subseteq S
    <3> HIDE DEF S
    <3> QED  BY <1>0, <2>1, <2>2, Throughout
  <2> QED  BY <1>0, <1>8, <2>3
<1>10. Closed(Below(n))
  <2>1. CASE n = NULL  BY <1>6, <2>1 DEF Closed
  <2>2. CASE n # NULL  BY <1>1, <1>9, <2>2
  <2> QED  BY <2>1, <2>2
<1>11. Below(n) \subseteq Nodes  BY <1>0, <1>1
<1> QED  BY <1>4, <1>5, <1>6, <1>10, <1>11

(* head reaches the nodes of the tree. *)
LEMMA TreeIsT ==
  ASSUME m \in Memory, NEW T, NEW e \in Bounds, NEW B \in Nat, Shape(m, T, e, B)
  PROVE  Tree = T
<1>1. Frame(m, T, e, B)  BY DEF Shape
<1>2. m.head \in T /\ m.head \in Nodes /\ m.head # NULL
  <2>1. m.head \in T  BY <1>1 DEF Frame
  <2>2. \A x \in T : x \in Nodes /\ x # NULL  BY <1>1, FrameFacts
  <2> QED  BY <2>1, <2>2
<1>3. Closed(T)  BY <1>1 DEF Frame, Closed
<1>4. Below(m.head) \subseteq T  BY <1>2, <1>3, BelowFacts
<1>5. T \subseteq Below(m.head)
  <2>1. m.head \in Below(m.head) /\ Closed(Below(m.head))  BY <1>2, BelowFacts
  <2>2. \A x \in T, s \in Side :
          x \in Below(m.head) /\ m.child[s][x] # NULL => m.child[s][x] \in Below(m.head)
    BY <2>1 DEF Closed
  <2> QED  BY <2>1, <2>2, TreeInduction
<1> QED  BY <1>4, <1>5 DEF Tree
-----------------------------------------------------------------------------
(* The search.                                                             *)

Wide(e, x) == e["right"][x] - e["left"][x]

(* p follows a search for k from head down. *)
Trail(t, T, e, k, p) ==
  /\ p \in Seq(T) /\ p # << >> /\ p[1] = t.head
  /\ \A i \in 1 .. Len(p) - 1 :
       /\ t.key[p[i]] # k /\ p[i + 1] # NULL
       /\ p[i + 1] = t.child[SideOf(t, p[i], k)][p[i]]
       /\ Wide(e, p[Len(p)]) < Wide(e, p[i])
  /\ \A i \in 1 .. Len(p) : Between(e, p[i], k)

Distinct(p) ==
  LET nodes == {p[i] : i \in 1 .. Len(p)}
  IN  IsFiniteSet(nodes) /\ Cardinality(nodes) = Len(p)

Stopped(t, k, n) == t.key[n] = k \/ t.child[SideOf(t, n, k)][n] = NULL

LEMMA SideFacts ==
  ASSUME NEW t \in Memory, NEW n \in Nodes, NEW k \in Nat
  PROVE  /\ SideOf(t, n, k) \in Side
         /\ t.key[n] < k => SideOf(t, n, k) = "right"
         /\ t.key[n] >= k => SideOf(t, n, k) = "left"
<1>1. t.key[n] \in Nat  BY DEF Memory
<1> QED  BY <1>1, Sides DEF SideOf

LEMMA TrailGrows ==
  ASSUME NEW t \in Memory, NEW T, NEW e \in Bounds, NEW B \in Nat, Frame(t, T, e, B), NEW k \in Nat,
         NEW p, Trail(t, T, e, k, p), Distinct(p), NEW n, n = p[Len(p)],
         t.key[n] # k, NEW c, c = t.child[SideOf(t, n, k)][n], c # NULL
  PROVE  Trail(t, T, e, k, Append(p, c)) /\ Distinct(Append(p, c))
<1> DEFINE q == Append(p, c)
<1>1. p \in Seq(T) /\ Len(p) \in Nat /\ Len(p) >= 1 /\ Len(p) \in 1 .. Len(p) /\ 1 \in 1 .. Len(p)
  BY DEF Trail
<1>2. n \in T /\ Between(e, n, k)  BY <1>1 DEF Trail
<1>3. n \in Nodes /\ t.key[n] \in Nat  BY <1>2, FrameFacts
<1>4. SideOf(t, n, k) \in Side  BY <1>3, SideFacts
<1>5. ChildIs(t, T, e, n, SideOf(t, n, k), c)  BY <1>2, <1>4, ChildBounds
<1>f. \A x \in T : /\ e["left"][x] \in Int /\ e["right"][x] \in Int
                   /\ e["left"][x] < t.key[x] /\ t.key[x] < e["right"][x]
  BY FrameFacts
<1>6. /\ e["left"][n] \in Int /\ e["right"][n] \in Int
      /\ e["left"][n] < t.key[n] /\ t.key[n] < e["right"][n]
  BY <1>2, <1>f
<1>7. c \in T  BY <1>5 DEF ChildIs
<1>8. Between(e, c, k) /\ Wide(e, c) < Wide(e, n)
  BY <1>2, <1>3, <1>5, <1>6, SideFacts DEF ChildIs, Between, Wide
<1>9. q \in Seq(T) /\ Len(q) = Len(p) + 1 /\ q[Len(p) + 1] = c /\ \A i \in 1 .. Len(p) : q[i] = p[i]
  BY <1>1, <1>7
<1> HIDE DEF q
<1>10. ASSUME NEW i \in 1 .. Len(p) PROVE Wide(e, c) < Wide(e, p[i]) /\ p[i] # c
  <2>1. p[i] \in T  BY <1>1
  <2>2. \A x \in T : Wide(e, x) \in Int
    <3>1. ASSUME NEW x \in T PROVE Wide(e, x) \in Int
      <4>1. e["left"][x] \in Int /\ e["right"][x] \in Int  BY <1>f
      <4> QED  BY <4>1 DEF Wide
    <3> QED  BY <3>1
  <2>4. Wide(e, p[i]) \in Int /\ Wide(e, n) \in Int /\ Wide(e, c) \in Int  BY <1>2, <1>7, <2>1, <2>2
  <2>5. i # Len(p) => i \in 1 .. Len(p) - 1  BY <1>1
  <2>6. i # Len(p) => Wide(e, n) < Wide(e, p[i])  BY <2>5 DEF Trail
  <2>7. Wide(e, c) < Wide(e, p[i])  BY <1>8, <2>4, <2>6
  <2> QED  BY <2>4, <2>7
<1>11. Trail(t, T, e, k, q)
  <2>1. q # << >> /\ q[1] = t.head  BY <1>1, <1>9 DEF Trail
  <2>2. ASSUME NEW i \in 1 .. Len(q) - 1
        PROVE  /\ t.key[q[i]] # k /\ q[i + 1] # NULL
               /\ q[i + 1] = t.child[SideOf(t, q[i], k)][q[i]]
               /\ Wide(e, q[Len(q)]) < Wide(e, q[i])
    <3>1. i \in 1 .. Len(p) /\ q[i] = p[i] /\ q[Len(q)] = c  BY <1>1, <1>9
    <3>2. Wide(e, q[Len(q)]) < Wide(e, q[i])  BY <1>10, <3>1
    <3>3. CASE i = Len(p)  BY <1>9, <3>1, <3>2, <3>3
    <3>4. CASE i # Len(p)
      <4>1. i \in 1 .. Len(p) - 1 /\ i + 1 \in 1 .. Len(p)  BY <1>1, <3>1, <3>4
      <4>2. q[i + 1] = p[i + 1]  BY <1>9, <4>1
      <4> QED  BY <3>1, <3>2, <4>1, <4>2 DEF Trail
    <3> QED  BY <3>3, <3>4
  <2>3. ASSUME NEW i \in 1 .. Len(q) PROVE Between(e, q[i], k)
    <3>1. i = Len(p) + 1 \/ i \in 1 .. Len(p)  BY <1>1, <1>9
    <3> QED  BY <1>8, <1>9, <3>1 DEF Trail
  <2> QED  BY <1>9, <2>1, <2>2, <2>3 DEF Trail
<1>12. Distinct(q)
  <2> DEFINE P == {p[i] : i \in 1 .. Len(p)}
             Q == {q[i] : i \in 1 .. Len(q)}
  <2>1. \A x \in Q : x \in P \cup {c}
    <3> SUFFICES ASSUME NEW i \in 1 .. Len(q) PROVE q[i] \in P \cup {c}  OBVIOUS
    <3>1. i = Len(p) + 1 \/ i \in 1 .. Len(p)  BY <1>1, <1>9
    <3> QED  BY <1>9, <3>1
  <2>2. \A x \in P \cup {c} : x \in Q
    <3>1. Len(p) + 1 \in 1 .. Len(q) /\ \A i \in 1 .. Len(p) : i \in 1 .. Len(q)  BY <1>1, <1>9
    <3>2. c \in Q  BY <1>9, <3>1
    <3>3. ASSUME NEW i \in 1 .. Len(p) PROVE p[i] \in Q  BY <1>9, <3>1
    <3> QED  BY <3>2, <3>3
  <2>3. Q = P \cup {c}  BY <2>1, <2>2
  <2>4. c \notin P  BY <1>10
  <2>5. IsFiniteSet(P) /\ Cardinality(P) = Len(p)  BY DEF Distinct
  <2> HIDE DEF P, Q
  <2>6. IsFiniteSet(Q) /\ Cardinality(Q) = Len(p) + 1  BY <2>3, <2>4, <2>5, FS_AddElement
  <2> QED  BY <1>9, <2>6 DEF Distinct, Q
<1> QED  BY <1>11, <1>12 DEF q

Onward(t, k, passed) ==
  LET n     == Last(passed)
      below == t.child[SideOf(t, n, k)][n]
  IN  IF t.key[n] = k \/ below = NULL THEN passed ELSE Append(passed, below)

IsPath(t, k, f) ==
  f = [j \in 0 .. MaxNodes |-> IF j = 0 THEN <<t.head>> ELSE Onward(t, k, f[j - 1])]

LEMMA PathExists ==
  ASSUME NEW t \in Memory, NEW T, NEW e \in Bounds, NEW B \in Nat, Frame(t, T, e, B), NEW k \in Nat
  PROVE  \E f : IsPath(t, k, f) /\ Path(t, k) = f[MaxNodes]
<1> DEFINE R == {p \in Seq(T) : p # << >>}
           a == <<t.head>>
           step == [jx \in (1 .. MaxNodes) \X R |-> Onward(t, k, jx[2])]
<1>0. MaxNodes \in Nat  BY MapAssumption
<1>1. ASSUME NEW p \in R PROVE Onward(t, k, p) \in R
  <2> DEFINE n == p[Len(p)]
             c == t.child[SideOf(t, n, k)][n]
  <2>1. Len(p) \in 1 .. Len(p)  OBVIOUS
  <2>2. n \in T  BY <2>1
  <2>3. n \in Nodes  BY <2>2, FrameFacts
  <2>4. SideOf(t, n, k) \in Side  BY <2>3, SideFacts
  <2>5. c # NULL => c \in T  BY <2>2, <2>4 DEF Frame
  <2>6. Onward(t, k, p) = IF t.key[n] = k \/ c = NULL THEN p ELSE Append(p, c)
    BY DEF Onward, Last
  <2> HIDE DEF c, n
  <2>7. c # NULL => Append(p, c) \in R  BY <2>5
  <2> QED  BY <2>6, <2>7
<1>2. a \in R  BY DEF Frame
<1>3. step \in [(1 .. MaxNodes) \X R -> R]
  <2> HIDE DEF R
  <2> QED  BY <1>1
<1>4. PICK f \in [0 .. MaxNodes -> R] : Turns(MaxNodes, a, step, f)
  <2> HIDE DEF R, a, step
  <2> QED  BY <1>0, <1>2, <1>3, LoopsExist
<1>5. ASSUME NEW j \in 0 .. MaxNodes PROVE f[j] = IF j = 0 THEN a ELSE Onward(t, k, f[j - 1])
  <2>1. f[j] = IF j = 0 THEN a ELSE step[<<j, f[j - 1]>>]
    <3> HIDE DEF step, a, R
    <3> QED  BY <1>4 DEF Turns
  <2> HIDE DEF R, a
  <2>2. j # 0 => j \in 1 .. MaxNodes /\ f[j - 1] \in R  BY <1>0
  <2>3. j # 0 => step[<<j, f[j - 1]>>] = Onward(t, k, f[j - 1])  BY <2>2
  <2> QED  BY <2>1, <2>3
<1>6. IsPath(t, k, f)
  <2> DEFINE F == [j \in 0 .. MaxNodes |-> IF j = 0 THEN a ELSE Onward(t, k, f[j - 1])]
  <2>1. f = F  BY <1>5
  <2> QED  BY <2>1 DEF IsPath
<1>7. IsPath(t, k, CHOOSE g : IsPath(t, k, g))  BY <1>6
<1>8. Path(t, k) = (CHOOSE g : IsPath(t, k, g))[MaxNodes]  BY DEF Path, IsPath, Onward
<1> QED  BY <1>7, <1>8

(* The search ends, and where it ends k is found or has its place. *)
LEMMA PathFacts ==
  ASSUME NEW t \in Memory, NEW T, NEW e \in Bounds, NEW B \in Nat, Frame(t, T, e, B),
         NEW k \in Nat, k < B
  PROVE  LET p == Path(t, k)
         IN  Trail(t, T, e, k, p) /\ Distinct(p) /\ Stopped(t, k, Last(p))
<1>0. MaxNodes \in Nat  BY MapAssumption
<1>1. PICK f : IsPath(t, k, f) /\ Path(t, k) = f[MaxNodes]  BY PathExists
<1>2. f[0] = <<t.head>>
  <2>1. 0 \in 0 .. MaxNodes  BY <1>0
  <2> QED  BY <1>1, <2>1 DEF IsPath
<1>3. ASSUME NEW j \in 1 .. MaxNodes PROVE f[j] = Onward(t, k, f[j - 1])
  <2>1. j \in 0 .. MaxNodes /\ j # 0  BY <1>0
  <2> QED  BY <1>1, <2>1 DEF IsPath
<1> DEFINE Good(p) == Trail(t, T, e, k, p) /\ Distinct(p)
           S == {j \in 0 .. MaxNodes : Good(f[j]) /\ (Stopped(t, k, Last(f[j])) \/ Len(f[j]) = j + 1)}
<1>4. 0 \in S
  <2> DEFINE p == <<t.head>>
  <2>1. Len(p) = 1 /\ p[1] = t.head /\ p \in Seq(T) /\ p # << >>  BY DEF Frame
  <2>2. Between(e, t.head, k)  BY DEF Frame, Between
  <2>3. Trail(t, T, e, k, p)
    <3>1. \A i \in 1 .. Len(p) : i = 1  BY <2>1
    <3>2. 1 .. Len(p) - 1 = {}  BY <2>1
    <3> HIDE DEF p
    <3> QED  BY <2>1, <2>2, <3>1, <3>2 DEF Trail
  <2>4. Distinct(p)
    <3>1. {p[i] : i \in 1 .. Len(p)} = {t.head}  OBVIOUS
    <3> HIDE DEF p
    <3> QED  BY <2>1, <3>1, FS_Singleton DEF Distinct
  <2> QED  BY <1>0, <1>2, <2>1, <2>3, <2>4
<1>5. ASSUME NEW j \in 1 .. MaxNodes, j - 1 \in S PROVE j \in S
  <2> DEFINE p == f[j - 1]
             n == p[Len(p)]
             c == t.child[SideOf(t, n, k)][n]
  <2>0. Good(p) /\ (Stopped(t, k, n) \/ Len(p) = j)  BY <1>0, <1>5 DEF Last
  <2>1. f[j] = IF t.key[n] = k \/ c = NULL THEN p ELSE Append(p, c)
    BY <1>3 DEF Onward, Last
  <2>t. p \in Seq(T)  BY <2>0 DEF Trail
  <2> HIDE DEF Good
  <2>2. CASE Stopped(t, k, n)
    <3>1. f[j] = p /\ Last(p) = n  BY <2>1, <2>2 DEF Stopped, Last
    <3> HIDE DEF p, n
    <3> QED  BY <2>0, <2>2, <3>1
  <2>3. CASE ~Stopped(t, k, n)
    <3>1. f[j] = Append(p, c) /\ c # NULL /\ t.key[n] # k  BY <2>1, <2>3 DEF Stopped
    <3>2. n = p[Len(p)] /\ c = t.child[SideOf(t, n, k)][n]  OBVIOUS
    <3> HIDE DEF p, n, c
    <3>3. Good(Append(p, c))  BY <2>0, <3>1, <3>2, TrailGrows DEF Good
    <3>4. Len(Append(p, c)) = j + 1  BY <2>0, <2>3, <2>t
    <3>5. j \in 0 .. MaxNodes  BY <1>0
    <3>6. Good(f[j]) /\ Len(f[j]) = j + 1  BY <3>1, <3>3, <3>4
    <3> QED  BY <3>5, <3>6
  <2> QED  BY <2>2, <2>3
<1>6. MaxNodes \in S
  <2>1. 0 .. MaxNodes \subseteq S
    <3> HIDE DEF S
    <3> QED  BY <1>0, <1>4, <1>5, Throughout
  <2> QED  BY <1>0, <2>1
<1>7. Len(f[MaxNodes]) # MaxNodes + 1
  <2> DEFINE p == f[MaxNodes]
             P == {p[i] : i \in 1 .. Len(p)}
  <2>1. p \in Seq(T) /\ Cardinality(P) = Len(p)  BY <1>6 DEF Trail, Distinct
  <2>2. T \subseteq Nodes  BY FrameFacts
  <2>3. P \subseteq Nodes
    <3>1. ASSUME NEW i \in 1 .. Len(p) PROVE p[i] \in Nodes
      <4>1. p[i] \in T
        <5>1. p \in Seq(T)  BY <2>1
        <5> HIDE DEF p
        <5> QED  BY <5>1
      <4> QED  BY <2>2, <4>1
    <3> QED  BY <3>1
  <2>4. Cardinality(P) <= MaxNodes
    <3> HIDE DEF P
    <3>1. IsFiniteSet(Nodes) /\ Cardinality(Nodes) = MaxNodes  BY <1>0, FS_Interval DEF Nodes
    <3> QED  BY <2>3, <3>1, FS_Subset
  <2> QED  BY <1>0, <2>1, <2>4
<1> QED  BY <1>1, <1>6, <1>7
-----------------------------------------------------------------------------
(* A key is in one place.                                                  *)

LEMMA KeysDiffer ==
  ASSUME NEW t \in Memory, NEW T, NEW e \in Bounds, NEW B \in Nat, Shape(t, T, e, B),
         NEW x \in T, NEW y \in T, t.key[x] = t.key[y]
  PROVE  x = y
<1>0. Frame(t, T, e, B)  BY DEF Shape
<1>1. Related(t, e, x, y)  BY Nested
<1>2. /\ e["left"][x] \in Int /\ e["right"][x] \in Int /\ t.key[x] \in Nat
      /\ e["left"][x] < t.key[x] /\ t.key[x] < e["right"][x]
  BY <1>0, FrameFacts
<1>3. /\ e["left"][y] \in Int /\ e["right"][y] \in Int /\ t.key[y] \in Nat
      /\ e["left"][y] < t.key[y] /\ t.key[y] < e["right"][y]
  BY <1>0, FrameFacts
<1>4. ~Under(t, e, x, y)  BY <1>2, <1>3 DEF Under, Inside
<1>5. ~Under(t, e, y, x)  BY <1>2, <1>3 DEF Under, Inside
<1>6. ~Apart(e, x, y)  BY <1>2, <1>3 DEF Apart
<1> QED  BY <1>1, <1>4, <1>5, <1>6 DEF Related

(* Where a search for k ends without k, k is not in the tree. *)
LEMMA NotThere ==
  ASSUME NEW t \in Memory, NEW T, NEW e \in Bounds, NEW B \in Nat, Shape(t, T, e, B),
         NEW k \in Nat, NEW n \in T, Between(e, n, k), Stopped(t, k, n), t.key[n] # k, NEW z \in T
  PROVE  t.key[z] # k
<1>0. Frame(t, T, e, B)  BY DEF Shape
<1> SUFFICES ASSUME t.key[z] = k PROVE FALSE  OBVIOUS
<1> DEFINE s == SideOf(t, n, k)
<1>1. \A y \in T : Related(t, e, n, y)  BY Nested
<1>2. /\ n \in Nodes /\ e["left"][n] \in Int /\ e["right"][n] \in Int /\ t.key[n] \in Nat
      /\ e["left"][n] < t.key[n] /\ t.key[n] < e["right"][n]
  BY <1>0, FrameFacts
<1>3. /\ e["left"][z] \in Int /\ e["right"][z] \in Int
      /\ e["left"][z] < k /\ k < e["right"][z]
  BY <1>0, FrameFacts
<1>4. /\ s \in Side
      /\ t.key[n] < k => s = "right"
      /\ t.key[n] >= k => s = "left"
  BY <1>2, SideFacts
<1>5. t.child[s][n] = NULL  BY DEF Stopped
<1>6. e["left"][n] < k /\ k < e["right"][n]  BY DEF Between
<1> HIDE DEF s
<1>s. s \in Side  BY <1>4
<1>7. ASSUME Inside(t, e, s, n, z) PROVE FALSE
  <2>1. LET c == t.child[s][n] IN c # NULL /\ (z = c \/ Under(t, e, c, z))
    BY <1>1, <1>7, <1>s, Entry
  <2> QED  BY <1>5, <2>1
<1>8. ~Under(t, e, n, z)
  <2> SUFFICES ASSUME Under(t, e, n, z) PROVE FALSE  OBVIOUS
  <2>1. CASE t.key[n] < k
    <3>1. ~Inside(t, e, "left", n, z)  BY <1>2, <1>3, <2>1, Sides DEF Inside
    <3> QED  BY <1>4, <1>7, <2>1, <3>1 DEF Under
  <2>2. CASE t.key[n] >= k
    <3>1. ~Inside(t, e, "right", n, z)  BY <1>2, <1>3, <2>2, Sides DEF Inside
    <3> QED  BY <1>4, <1>7, <2>2, <3>1 DEF Under
  <2> QED  BY <1>2, <2>1, <2>2
<1>9. ~Under(t, e, z, n)  BY <1>2, <1>3, <1>6 DEF Under, Inside
<1>10. ~Apart(e, n, z)  BY <1>2, <1>3, <1>6 DEF Apart
<1> QED  BY <1>1, <1>8, <1>9, <1>10 DEF Related

(* f leaves the nodes in U at least the bounds of e. *)
Wider(U, e, f) == \A x \in U : f["left"][x] <= e["left"][x] /\ e["right"][x] <= f["right"][x]

(* The upper bound of all may be raised. *)
LEMMA Raised ==
  ASSUME NEW t \in Memory, NEW T, NEW e \in Bounds, NEW B \in Nat, Shape(t, T, e, B),
         NEW C \in Nat, B <= C
  PROVE  \E f \in Bounds : Shape(t, T, f, C) /\ Wider(T, e, f)
<1>0. Frame(t, T, e, B)  BY DEF Shape
<1> DEFINE f == [s \in Side |-> [x \in Nodes |-> IF s = "right" /\ e[s][x] = B THEN C ELSE e[s][x]]]
<1>a. "left" \in Side /\ "right" \in Side /\ "left" # "right"  BY Sides
<1>1. f \in Bounds  BY DEF Bounds
<1>2. ASSUME NEW x \in T
      PROVE  /\ f["left"][x] = e["left"][x]
             /\ f["right"][x] = IF e["right"][x] = B THEN C ELSE e["right"][x]
  <2>1. x \in Nodes  BY <1>0, FrameFacts
  <2> QED  BY <1>a, <2>1
<1> HIDE DEF f
<1>3. Frame(t, T, f, C)
  <2>1. T \subseteq 1 .. t.size /\ t.head \in T  BY <1>0 DEF Frame
  <2>2. f["left"][t.head] = -1 /\ f["right"][t.head] = C
    BY <1>0, <1>2, <2>1 DEF Frame
  <2>3. ASSUME NEW x \in T
        PROVE  Between(f, x, t.key[x]) /\ -1 <= f["left"][x] /\ f["right"][x] <= C
    <3>1. /\ e["left"][x] \in Int /\ e["right"][x] \in Int /\ t.key[x] \in Nat
          /\ e["left"][x] < t.key[x] /\ t.key[x] < e["right"][x]
          /\ -1 <= e["left"][x] /\ e["right"][x] <= B
      BY <1>0, FrameFacts
    <3> QED  BY <1>2, <3>1 DEF Between
  <2>4. ASSUME NEW x \in T, NEW s \in Side, NEW c, c = t.child[s][x], c # NULL
        PROVE  c \in T /\ f[s][c] = f[s][x] /\ f[Other(s)][c] = t.key[x]
    <3>0. ChildIs(t, T, e, x, s, c)  BY <1>0, <2>4, ChildBounds
    <3>1. /\ c \in T
          /\ s = "left" => e["left"][c] = e["left"][x] /\ e["right"][c] = t.key[x]
          /\ s = "right" => e["right"][c] = e["right"][x] /\ e["left"][c] = t.key[x]
      BY <3>0 DEF ChildIs
    <3>2. /\ e["right"][x] \in Int /\ t.key[x] \in Nat /\ t.key[x] < e["right"][x] /\ e["right"][x] <= B
      BY <1>0, FrameFacts
    <3>3. t.key[x] # B  BY <3>2
    <3>4. /\ f["left"][c] = e["left"][c]
          /\ f["right"][c] = IF e["right"][c] = B THEN C ELSE e["right"][c]
      BY <1>2, <3>1
    <3>5. /\ f["left"][x] = e["left"][x]
          /\ f["right"][x] = IF e["right"][x] = B THEN C ELSE e["right"][x]
      BY <1>2
    <3>6. CASE s = "left"  BY <3>1, <3>3, <3>4, <3>5, <3>6, Sides
    <3>7. CASE s = "right"  BY <3>1, <3>3, <3>4, <3>5, <3>7, Sides
    <3> QED  BY <3>6, <3>7, Sides
  <2> QED  BY <2>1, <2>2, <2>3, <2>4 DEF Frame
<1>4. Wider(T, e, f)
  <2> SUFFICES ASSUME NEW x \in T
               PROVE  f["left"][x] <= e["left"][x] /\ e["right"][x] <= f["right"][x]
    BY DEF Wider
  <2>1. e["left"][x] \in Int /\ e["right"][x] \in Int  BY <1>0, FrameFacts
  <2> QED  BY <1>2, <2>1
<1> QED  BY <1>0, <1>1, <1>3, <1>4 DEF Shape
-----------------------------------------------------------------------------
(* Parents.                                                                *)

Linked(t, T) ==
  /\ t.prev[t.head] = t.head
  /\ \A x \in T, s \in Side : t.child[s][x] # NULL => t.prev[t.child[s][x]] = x

Holds(t, T, e, B) == Shape(t, T, e, B) /\ Linked(t, T)

(* x hangs on side s of y. *)
Hangs(t, T, y, s, x) ==
  x \in T /\ y = t.prev[x] /\ x # t.head /\ y # x /\ t.child[Other(s)][y] # x

LEMMA ParentIs ==
  ASSUME NEW t \in Memory, NEW T, NEW e \in Bounds, NEW B \in Nat, Holds(t, T, e, B),
         NEW y \in T, NEW s \in Side, NEW x, x = t.child[s][y], x # NULL
  PROVE  Hangs(t, T, y, s, x)
<1>0. Shape(t, T, e, B) /\ Frame(t, T, e, B) /\ Linked(t, T)  BY DEF Holds, Shape
<1>1. y = t.prev[x]  BY <1>0 DEF Linked
<1>2. ChildIs(t, T, e, y, s, x)  BY <1>0, ChildBounds
<1>3. /\ e["left"][y] \in Int /\ e["right"][y] \in Int /\ t.key[y] \in Nat
      /\ e["left"][y] < t.key[y] /\ t.key[y] < e["right"][y]
      /\ -1 <= e["left"][y] /\ e["right"][y] <= B
  BY <1>0, FrameFacts
<1>4. x \in T  BY <1>2 DEF ChildIs
<1>5. y # x  BY <1>2, <1>3, Sides DEF ChildIs
<1>6. x # t.head  BY <1>0, <1>2, <1>3, Sides DEF ChildIs, Frame
<1>7. t.child[Other(s)][y] # x
  <2> SUFFICES ASSUME t.child[Other(s)][y] = x PROVE FALSE  OBVIOUS
  <2>1. Other(s) \in Side  BY Sides
  <2>2. ChildIs(t, T, e, y, Other(s), x)  BY <1>0, <2>1, ChildBounds
  <2>3. /\ t.key[x] \in Nat /\ e["left"][x] < t.key[x] /\ t.key[x] < e["right"][x]
        /\ e["left"][x] \in Int /\ e["right"][x] \in Int
    BY <1>0, <1>4, FrameFacts
  <2> QED  BY <1>2, <2>2, <2>3, Sides DEF ChildIs
<1> QED  BY <1>1, <1>4, <1>5, <1>6, <1>7 DEF Hangs

LEMMA LinkedFacts ==
  ASSUME NEW t \in Memory, NEW T, NEW e \in Bounds, NEW B \in Nat, Holds(t, T, e, B), NEW x \in T
  PROVE  /\ x \in Nodes
         /\ IsRoot(t, x) <=> x = t.head
         /\ t.prev[x] \in T
         /\ x # t.head => \E s \in Side : t.child[s][t.prev[x]] = x
<1>0. Shape(t, T, e, B) /\ Frame(t, T, e, B) /\ Linked(t, T)  BY DEF Holds, Shape
<1>1. x \in Nodes  BY <1>0, FrameFacts
<1>2. x # NULL  BY <1>1 DEF Nodes, NULL
<1>3. ASSUME x # t.head
      PROVE  t.prev[x] \in T /\ t.prev[x] # x /\ \E s \in Side : t.child[s][t.prev[x]] = x
  <2>1. PICK y \in T, s \in Side : t.child[s][y] = x  BY <1>0, <1>3 DEF Shape
  <2>2. Hangs(t, T, y, s, x)  BY <1>2, <2>1, ParentIs
  <2> QED  BY <2>1, <2>2 DEF Hangs
<1>4. t.prev[t.head] = t.head /\ t.head \in T  BY <1>0 DEF Linked, Frame
<1> QED  BY <1>1, <1>3, <1>4 DEF IsRoot
-----------------------------------------------------------------------------
(* What insert and erase do to the tree while it is intact.                *)

(* u is t with new hung below n on side s. *)
AddsLeaf(t, T, n, s, new, k, u) ==
  /\ new = t.size + 1 /\ u.head = t.head /\ u.size = new
  /\ u.key[new] = k /\ u.prev[new] = n /\ \A r \in Side : u.child[r][new] = NULL
  /\ \A x \in T : u.key[x] = t.key[x] /\ u.prev[x] = t.prev[x]
  /\ \A x \in T, r \in Side : u.child[r][x] = IF x = n /\ r = s THEN new ELSE t.child[r][x]

(* u is t with p's child x on side s taken out. *)
DropsLeaf(t, T, p, s, x, u) ==
  /\ u.head = t.head /\ u.size = t.size /\ u.key = t.key /\ u.prev = t.prev
  /\ x = t.child[s][p] /\ \A r \in Side : t.child[r][x] = NULL
  /\ \A y \in T, r \in Side : u.child[r][y] = IF y = p /\ r = s THEN NULL ELSE t.child[r][y]

(* u is t with p's left child x taken out and its key moved to p. *)
MovesUp(t, T, p, x, u) ==
  /\ u.head = t.head /\ u.size = t.size /\ u.prev = t.prev
  /\ x = t.child["left"][p] /\ \A r \in Side : t.child[r][x] = NULL
  /\ \A y \in T : u.key[y] = IF y = p THEN t.key[x] ELSE t.key[y]
  /\ \A y \in T, r \in Side : u.child[r][y] = IF y = p /\ r = "left" THEN NULL ELSE t.child[r][y]

(* u is t with c, a node without children, hung below n on side s. *)
GetsLeaf(t, T, n, s, c, k, u) ==
  /\ c \notin T /\ c \in 1 .. u.size /\ u.head = t.head /\ t.size <= u.size
  /\ u.key[c] = k /\ \A r \in Side : u.child[r][c] = NULL
  /\ \A x \in T : u.key[x] = t.key[x]
  /\ \A x \in T, r \in Side : u.child[r][x] = IF x = n /\ r = s THEN c ELSE t.child[r][x]

LEMMA LeafShape ==
  ASSUME NEW t \in Memory, NEW T, NEW e \in Bounds, NEW B \in Nat, Shape(t, T, e, B),
         NEW n \in T, NEW k \in Nat, Between(e, n, k), t.key[n] # k,
         NEW s, s = SideOf(t, n, k), t.child[s][n] = NULL,
         NEW c \in Nodes, NEW u \in Memory, GetsLeaf(t, T, n, s, c, k, u)
  PROVE  \E f \in Bounds : Shape(u, T \cup {c}, f, B) /\ Wider(T, e, f)
<1>0. Frame(t, T, e, B)  BY DEF Shape
<1>u. /\ c \notin T /\ c \in 1 .. u.size /\ u.head = t.head /\ t.size <= u.size
      /\ u.key[c] = k /\ \A r \in Side : u.child[r][c] = NULL
      /\ \A x \in T : u.key[x] = t.key[x]
      /\ \A x \in T, r \in Side : u.child[r][x] = IF x = n /\ r = s THEN c ELSE t.child[r][x]
  BY DEF GetsLeaf
<1> DEFINE U == T \cup {c}
           f == [r \in Side |-> [x \in Nodes |->
                  IF x # c THEN e[r][x] ELSE IF r = s THEN e[r][n] ELSE t.key[n]]]
<1>a. "left" \in Side /\ "right" \in Side /\ "left" # "right"  BY Sides
<1>1. /\ n \in Nodes /\ t.key[n] \in Nat /\ e["left"][n] \in Int /\ e["right"][n] \in Int
      /\ e["left"][n] < t.key[n] /\ t.key[n] < e["right"][n]
      /\ -1 <= e["left"][n] /\ e["right"][n] <= B
  BY <1>0, FrameFacts
<1>n. ASSUME NEW x \in T PROVE x # NULL
  <2>1. x \in Nodes  BY <1>0, FrameFacts
  <2> QED  BY <2>1 DEF Nodes, NULL
<1>2. /\ s \in Side
      /\ t.key[n] < k => s = "right"
      /\ t.key[n] >= k => s = "left"
      /\ s = "left" \/ s = "right"
  BY <1>1, SideFacts, Sides
<1>3. c \notin T /\ c # n  BY <1>u
<1>4. f \in Bounds  BY <1>1 DEF Bounds
<1>5. \A x \in T : f["left"][x] = e["left"][x] /\ f["right"][x] = e["right"][x]
  <2> SUFFICES ASSUME NEW x \in T PROVE f["left"][x] = e["left"][x] /\ f["right"][x] = e["right"][x]
    OBVIOUS
  <2>1. x \in Nodes /\ x # c  BY <1>0, <1>3, FrameFacts
  <2> QED  BY <1>a, <2>1
<1>6. /\ f["left"][c] = IF s = "left" THEN e["left"][n] ELSE t.key[n]
      /\ f["right"][c] = IF s = "right" THEN e["right"][n] ELSE t.key[n]
  BY <1>a
<1> HIDE DEF f
<1>k. e["left"][n] < k /\ k < e["right"][n]  BY DEF Between
<1>7. Frame(u, U, f, B)
  <2>1. U \subseteq 1 .. u.size /\ u.head \in U
    <3>1. T \subseteq 1 .. t.size /\ t.head \in T /\ t.size \in Nat /\ u.size \in Nat
      BY <1>0, MapAssumption DEF Frame, Memory
    <3> QED  BY <1>u, <3>1
  <2>a. t.head \in T /\ e["left"][t.head] = -1 /\ e["right"][t.head] = B /\ u.head = t.head
    BY <1>0, <1>u DEF Frame
  <2>2. f["left"][u.head] = -1 /\ f["right"][u.head] = B
    BY <1>5, <2>a
  <2>3. ASSUME NEW x \in U PROVE Between(f, x, u.key[x]) /\ -1 <= f["left"][x] /\ f["right"][x] <= B
    <3>1. CASE x \in T
      <4>1. Between(e, x, t.key[x]) /\ -1 <= e["left"][x] /\ e["right"][x] <= B  BY <1>0, <3>1 DEF Frame
      <4> QED  BY <1>5, <1>u, <3>1, <4>1 DEF Between
    <3>2. CASE x = c
      BY <1>1, <1>2, <1>6, <1>k, <1>u, <3>2 DEF Between
    <3> QED  BY <3>1, <3>2
  <2>4. ASSUME NEW x \in U, NEW r \in Side, NEW d, d = u.child[r][x], d # NULL
        PROVE  d \in U /\ f[r][d] = f[r][x] /\ f[Other(r)][d] = u.key[x]
    <3>1. x \in T  BY <1>u, <2>4
    <3>2. CASE x = n /\ r = s
      <4>1. d = c  BY <1>1, <1>u, <2>4, <3>2
      <4> QED  BY <1>2, <1>5, <1>6, <1>u, <3>1, <3>2, <4>1, Sides
    <3>3. CASE ~(x = n /\ r = s)
      <4>1. d = t.child[r][x]  BY <1>u, <2>4, <3>1, <3>3
      <4>2. ChildIs(t, T, e, x, r, d)  BY <1>0, <2>4, <3>1, <4>1, ChildBounds
      <4> QED  BY <1>5, <1>u, <3>1, <4>2, Sides DEF ChildIs
    <3> QED  BY <3>2, <3>3
  <2> QED  BY <2>1, <2>2, <2>3, <2>4 DEF Frame
<1>8. ASSUME NEW y \in U, y # u.head PROVE \E x \in U, r \in Side : u.child[r][x] = y
  <2>1. CASE y = c  BY <1>2, <1>u, <2>1
  <2>2. CASE y \in T
    <3>1. PICK x \in T, r \in Side : t.child[r][x] = y  BY <1>8, <1>u, <2>2 DEF Shape
    <3>2. y # NULL  BY <1>n, <2>2
    <3>3. ~(x = n /\ r = s)  BY <3>1, <3>2
    <3> QED  BY <1>u, <3>1, <3>3
  <2> QED  BY <2>1, <2>2
<1>9. ASSUME NEW x \in T
      PROVE  f["left"][x] <= e["left"][x] /\ e["right"][x] <= f["right"][x]
  <2>1. e["left"][x] \in Int /\ e["right"][x] \in Int  BY <1>0, FrameFacts
  <2> QED  BY <1>5, <2>1
<1>10. Shape(u, U, f, B) /\ Wider(T, e, f)  BY <1>7, <1>8, <1>9 DEF Shape, Wider
<1> QED  BY <1>4, <1>10

LEMMA LeafAdded ==
  ASSUME NEW t \in Memory, NEW T, NEW e \in Bounds, NEW B \in Nat, Holds(t, T, e, B),
         NEW n \in T, NEW k \in Nat, Between(e, n, k), t.key[n] # k,
         NEW s, s = SideOf(t, n, k), t.child[s][n] = NULL,
         NEW new \in Nodes, NEW u \in Memory, AddsLeaf(t, T, n, s, new, k, u)
  PROVE  \E f \in Bounds : Holds(u, T \cup {new}, f, B)
<1>0. Shape(t, T, e, B) /\ Frame(t, T, e, B) /\ Linked(t, T)  BY DEF Holds, Shape
<1>u. /\ new = t.size + 1 /\ u.head = t.head /\ u.size = new
      /\ u.key[new] = k /\ u.prev[new] = n /\ \A r \in Side : u.child[r][new] = NULL
      /\ \A x \in T : u.key[x] = t.key[x] /\ u.prev[x] = t.prev[x]
      /\ \A x \in T, r \in Side : u.child[r][x] = IF x = n /\ r = s THEN new ELSE t.child[r][x]
  BY DEF AddsLeaf
<1> DEFINE U == T \cup {new}
<1>1. new \notin T /\ new \in 1 .. u.size /\ t.size <= u.size
  <2>1. T \subseteq 1 .. t.size /\ t.size \in Nat  BY <1>0, MapAssumption DEF Frame, Memory
  <2>2. new \notin 1 .. t.size /\ new \in 1 .. u.size /\ t.size <= u.size  BY <1>u, <2>1
  <2> QED  BY <2>1, <2>2
<1>2. GetsLeaf(t, T, n, s, new, k, u)  BY <1>1, <1>u DEF GetsLeaf
<1>3. PICK f \in Bounds : Shape(u, U, f, B)  BY <1>0, <1>2, LeafShape
<1>4. Linked(u, U)
  <2>1. u.prev[u.head] = u.head  BY <1>0, <1>u DEF Linked, Frame
  <2>2. ASSUME NEW x \in U, NEW r \in Side, u.child[r][x] # NULL PROVE u.prev[u.child[r][x]] = x
    <3>1. x \in T  BY <1>u, <2>2
    <3>2. CASE ~(x = n /\ r = s)
      <4>1. u.child[r][x] = t.child[r][x]  BY <1>u, <3>1, <3>2
      <4>2. t.child[r][x] \in T  BY <1>0, <2>2, <3>1, <4>1 DEF Frame
      <4> QED  BY <1>0, <1>u, <2>2, <3>1, <4>1, <4>2 DEF Linked
    <3> QED  BY <1>u, <3>1, <3>2
  <2> QED  BY <2>1, <2>2 DEF Linked
<1> QED  BY <1>3, <1>4 DEF Holds

LEMMA LeafDropped ==
  ASSUME NEW t \in Memory, NEW T, NEW e \in Bounds, NEW B \in Nat, Holds(t, T, e, B),
         NEW p \in T, NEW s \in Side, NEW x \in T,
         NEW u \in Memory, DropsLeaf(t, T, p, s, x, u)
  PROVE  Holds(u, T \ {x}, e, B)
<1>0. Shape(t, T, e, B) /\ Frame(t, T, e, B) /\ Linked(t, T)  BY DEF Holds, Shape
<1>u. /\ u.head = t.head /\ u.size = t.size /\ u.key = t.key /\ u.prev = t.prev
      /\ x = t.child[s][p] /\ \A r \in Side : t.child[r][x] = NULL
      /\ \A y \in T, r \in Side : u.child[r][y] = IF y = p /\ r = s THEN NULL ELSE t.child[r][y]
  BY DEF DropsLeaf
<1> DEFINE U == T \ {x}
<1>1. /\ x # t.head /\ p # x /\ t.child[Other(s)][p] # x
      /\ \A y \in T, r \in Side : t.child[r][y] = x => y = p /\ r = s
  <2>0. x # NULL
    <3>1. x \in Nodes  BY LinkedFacts
    <3> QED  BY <3>1 DEF Nodes, NULL
  <2>1. x = t.child[s][p]  BY <1>u
  <2>2. Hangs(t, T, p, s, x)  BY <2>0, <2>1, ParentIs
  <2>3. ASSUME NEW y \in T, NEW r \in Side, t.child[r][y] = x PROVE y = p /\ r = s
    <3>1. Hangs(t, T, y, r, x)  BY <2>0, <2>3, ParentIs
    <3>2. y = p  BY <2>2, <3>1 DEF Hangs
    <3> QED  BY <2>1, <2>2, <2>3, <3>1, <3>2, Sides DEF Hangs
  <2> QED  BY <2>2, <2>3 DEF Hangs
<1>2. Frame(u, U, e, B)
  <2>1. U \subseteq 1 .. u.size /\ u.head \in U  BY <1>0, <1>1, <1>u DEF Frame
  <2>2. e["left"][u.head] = -1 /\ e["right"][u.head] = B  BY <1>0, <1>u DEF Frame
  <2>3. \A y \in U : Between(e, y, u.key[y]) /\ -1 <= e["left"][y] /\ e["right"][y] <= B
    BY <1>0, <1>u DEF Frame
  <2>4. ASSUME NEW y \in U, NEW r \in Side, u.child[r][y] # NULL
        PROVE  /\ u.child[r][y] \in U /\ e[r][u.child[r][y]] = e[r][y]
               /\ e[Other(r)][u.child[r][y]] = u.key[y]
    <3>1. u.child[r][y] = t.child[r][y] /\ t.child[r][y] # x  BY <1>1, <1>u, <2>4
    <3> QED  BY <1>0, <1>u, <2>4, <3>1 DEF Frame
  <2> QED  BY <2>1, <2>2, <2>3, <2>4 DEF Frame
<1>3. ASSUME NEW y \in U, y # u.head PROVE \E z \in U, r \in Side : u.child[r][z] = y
  <2>1. PICK z \in T, r \in Side : t.child[r][z] = y  BY <1>0, <1>3, <1>u DEF Shape
  <2>2. y \in T /\ y # x  OBVIOUS
  <2>3. y # NULL  BY <1>0, <2>2, FrameFacts
  <2>4. z # x  BY <1>u, <2>1, <2>3
  <2>5. ~(z = p /\ r = s)  BY <1>u, <2>1, <2>2
  <2>6. u.child[r][z] = y  BY <1>u, <2>1, <2>5
  <2> QED  BY <2>1, <2>4, <2>6
<1>4. Linked(u, U)
  <2>1. \A y \in U, r \in Side : u.child[r][y] # NULL => u.child[r][y] = t.child[r][y]  BY <1>u
  <2> QED  BY <1>0, <1>u, <2>1 DEF Linked
<1> QED  BY <1>2, <1>3, <1>4 DEF Holds, Shape

LEMMA LeafMovedUp ==
  ASSUME NEW t \in Memory, NEW T, NEW e \in Bounds, NEW B \in Nat, Holds(t, T, e, B),
         NEW p \in T, NEW x \in T, NEW u \in Memory, MovesUp(t, T, p, x, u)
  PROVE  \E f \in Bounds : Holds(u, T \ {x}, f, B)
<1> DEFINE v == [t EXCEPT !.child["left"][p] = NULL]
           U == T \ {x}
<1>0. Frame(t, T, e, B)  BY DEF Holds, Shape
<1>u. /\ u.head = t.head /\ u.size = t.size /\ u.prev = t.prev
      /\ x = t.child["left"][p] /\ \A r \in Side : t.child[r][x] = NULL
      /\ \A y \in T : u.key[y] = IF y = p THEN t.key[x] ELSE t.key[y]
      /\ \A y \in T, r \in Side : u.child[r][y] = IF y = p /\ r = "left" THEN NULL ELSE t.child[r][y]
  BY DEF MovesUp
<1>a. "left" \in Side /\ "right" \in Side /\ "left" # "right"  BY Sides
<1>p. p \in Nodes  BY <1>0, FrameFacts
<1>1. /\ v \in Memory /\ v.head = t.head /\ v.size = t.size /\ v.key = t.key /\ v.prev = t.prev
      /\ \A y \in Nodes, r \in Side : v.child[r][y] = IF y = p /\ r = "left" THEN NULL ELSE t.child[r][y]
  <2>1. NULL \in 0 .. MaxNodes  BY MapAssumption DEF NULL
  <2> QED  BY <1>a, <1>p, <2>1 DEF Memory
<1> HIDE DEF v
<1>2. \A y \in T : y \in Nodes  BY <1>0, FrameFacts
<1>3. Holds(v, U, e, B)
  <2>1. DropsLeaf(t, T, p, "left", x, v)  BY <1>1, <1>2, <1>u DEF DropsLeaf
  <2> QED  BY <1>a, <1>1, <2>1, LeafDropped
<1>4. Shape(v, U, e, B) /\ Frame(v, U, e, B) /\ Linked(v, U)  BY <1>3 DEF Holds, Shape
<1>5. p \in U
  <2>0. x # NULL
    <3>1. x \in Nodes  BY LinkedFacts
    <3> QED  BY <3>1 DEF Nodes, NULL
  <2>1. x = t.child["left"][p]  BY <1>u
  <2>2. Hangs(t, T, p, "left", x)  BY <1>a, <2>0, <2>1, ParentIs
  <2> QED  BY <2>2 DEF Hangs
<1> DEFINE f == [r \in Side |-> [y \in Nodes |->
                  IF r = "left" /\ e["left"][y] = t.key[p] THEN t.key[x] ELSE e[r][y]]]
<1>x. t.key[x] \in Nat /\ t.key[p] \in Nat /\ t.key[x] < t.key[p] /\ e["left"][p] < t.key[x]
  <2>1. t.key[x] \in Nat /\ e["left"][x] < t.key[x] /\ t.key[x] < e["right"][x]
    BY <1>0, FrameFacts
  <2>2. t.key[p] \in Nat /\ x # NULL
    <3>1. t.key[p] \in Nat  BY <1>0, FrameFacts
    <3>2. x # NULL  BY <1>0, FrameFacts
    <3> QED  BY <3>1, <3>2
  <2>3. e["left"][x] = e["left"][p] /\ e["right"][x] = t.key[p]
    <3>1. x = t.child["left"][p] /\ x # NULL  BY <1>u, <2>2
    <3>2. ChildIs(t, T, e, p, "left", x)  BY <1>0, <1>a, <3>1, ChildBounds
    <3> QED  BY <3>2 DEF ChildIs
  <2> QED  BY <2>1, <2>2, <2>3
<1>6. f \in Bounds  BY <1>x DEF Bounds
<1>7. ASSUME NEW y \in U
      PROVE  /\ f["left"][y] = IF e["left"][y] = t.key[p] THEN t.key[x] ELSE e["left"][y]
             /\ f["right"][y] = e["right"][y]
  <2>1. y \in Nodes  BY <1>2
  <2> QED  BY <1>a, <2>1
<1> HIDE DEF f
<1>8. \A y \in U : u.key[y] = IF y = p THEN t.key[x] ELSE v.key[y]  BY <1>1, <1>u
<1>9. \A y \in U, r \in Side : u.child[r][y] = v.child[r][y]  BY <1>1, <1>2, <1>u
<1>10. \A y \in U : t.key[y] = t.key[p] => y = p  BY KeysDiffer DEF Holds
<1>11. Frame(u, U, f, B)
  <2>1. U \subseteq 1 .. u.size /\ u.head \in U  BY <1>1, <1>4, <1>u DEF Frame
  <2>2. f["left"][u.head] = -1 /\ f["right"][u.head] = B
    BY <1>1, <1>4, <1>7, <1>u, <1>x, <2>1 DEF Frame
  <2>3. ASSUME NEW y \in U PROVE Between(f, y, u.key[y]) /\ -1 <= f["left"][y] /\ f["right"][y] <= B
    <3>1. /\ t.key[y] \in Nat /\ e["left"][y] \in Int /\ e["right"][y] \in Int
          /\ e["left"][y] < t.key[y] /\ t.key[y] < e["right"][y]
          /\ -1 <= e["left"][y] /\ e["right"][y] <= B
      BY <1>0, FrameFacts
    <3>2. CASE y = p
      <4>1. e["left"][p] # t.key[p]  BY <3>1, <3>2
      <4> QED  BY <1>7, <1>8, <1>x, <3>1, <3>2, <4>1 DEF Between
    <3>3. CASE y # p
      <4>1. u.key[y] = t.key[y]  BY <1>1, <1>8, <3>3
      <4> QED  BY <1>7, <1>x, <3>1, <4>1 DEF Between
    <3> QED  BY <3>2, <3>3
  <2>4. ASSUME NEW y \in U, NEW r \in Side, NEW c, c = u.child[r][y], c # NULL
        PROVE  c \in U /\ f[r][c] = f[r][y] /\ f[Other(r)][c] = u.key[y]
    <3>1. c = v.child[r][y]  BY <1>9, <2>4
    <3>2. ChildIs(v, U, e, y, r, c)  BY <1>1, <1>4, <2>4, <3>1, ChildBounds
    <3>3. /\ c \in U
          /\ r = "left" => e["left"][c] = e["left"][y] /\ e["right"][c] = t.key[y]
          /\ r = "right" => e["right"][c] = e["right"][y] /\ e["left"][c] = t.key[y]
      BY <1>1, <3>2 DEF ChildIs
    <3>4. CASE r = "left"
      <4>1. y # p  BY <1>1, <1>p, <1>a, <2>4, <3>1, <3>4
      <4>2. u.key[y] = t.key[y]  BY <1>1, <1>8, <4>1
      <4> QED  BY <1>7, <3>3, <3>4, <4>2, Sides
    <3>5. CASE r = "right"
      <4>1. f["right"][c] = f["right"][y]  BY <1>7, <3>3, <3>5
      <4>2. f["left"][c] = u.key[y]  BY <1>1, <1>7, <1>8, <1>10, <3>3, <3>5
      <4> QED  BY <3>3, <3>5, <4>1, <4>2, Sides
    <3> QED  BY <3>4, <3>5, Sides
  <2> QED  BY <2>1, <2>2, <2>3, <2>4 DEF Frame
<1>12. \A y \in U : y # u.head => \E z \in U, r \in Side : u.child[r][z] = y
  BY <1>1, <1>4, <1>9, <1>u DEF Shape
<1>13. Linked(u, U)  BY <1>1, <1>4, <1>9, <1>u DEF Linked
<1> QED  BY <1>6, <1>11, <1>12, <1>13 DEF Holds, Shape

(* u is t with n, a leaf, in the place of its parent p below g, and p and  *)
(* new below n.                                                            *)
Pivots(t, T, g, q, p, s, n, new, k, u) ==
  /\ p = t.child[q][g] /\ n = t.child[s][p] /\ t.child[Other(s)][p] = NULL
  /\ \A r \in Side : t.child[r][n] = NULL
  /\ new = t.size + 1 /\ u.head = t.head /\ u.size = new
  /\ u.key[new] = k /\ u.prev[new] = n /\ \A r \in Side : u.child[r][new] = NULL
  /\ \A x \in T : u.key[x] = t.key[x]
  /\ \A x \in T : u.prev[x] = IF x = p THEN n ELSE IF x = n THEN g ELSE t.prev[x]
  /\ \A x \in T, r \in Side :
       u.child[r][x] = IF x = n THEN (IF r = s THEN new ELSE p)
                       ELSE IF x = p THEN NULL
                       ELSE IF x = g /\ r = q THEN n
                       ELSE t.child[r][x]

LEMMA Pivoted ==
  ASSUME NEW t \in Memory, NEW T, NEW e \in Bounds, NEW B \in Nat, Holds(t, T, e, B),
         NEW g \in T, NEW q \in Side, NEW p \in T, NEW s \in Side, NEW n \in T,
         NEW k \in Nat, Between(e, n, k), t.key[n] # k, s = SideOf(t, n, k),
         NEW new \in Nodes, NEW u \in Memory, Pivots(t, T, g, q, p, s, n, new, k, u)
  PROVE  \E f \in Bounds : Holds(u, T \cup {new}, f, B)
<1>0. Shape(t, T, e, B) /\ Frame(t, T, e, B) /\ Linked(t, T)  BY DEF Holds, Shape
<1>t. p = t.child[q][g] /\ n = t.child[s][p] /\ t.child[Other(s)][p] = NULL
      /\ \A r \in Side : t.child[r][n] = NULL
  BY DEF Pivots
<1>u. /\ new = t.size + 1 /\ u.head = t.head /\ u.size = new
      /\ u.key[new] = k /\ u.prev[new] = n /\ \A r \in Side : u.child[r][new] = NULL
      /\ \A x \in T : u.key[x] = t.key[x]
  BY DEF Pivots
<1>n. \A x \in T : x \in Nodes /\ x # NULL
  <2> SUFFICES ASSUME NEW x \in T PROVE x \in Nodes /\ x # NULL  OBVIOUS
  <2>1. x \in Nodes  BY LinkedFacts
  <2> QED  BY <2>1 DEF Nodes, NULL
<1>1. Hangs(t, T, g, q, p) /\ Hangs(t, T, p, s, n)
  <2>1. p # NULL /\ n # NULL /\ p = t.child[q][g] /\ n = t.child[s][p]  BY <1>n, <1>t
  <2>2. Hangs(t, T, g, q, p)  BY <2>1, ParentIs
  <2>3. Hangs(t, T, p, s, n)  BY <2>1, ParentIs
  <2> QED  BY <2>2, <2>3
<1>i. e["left"][g] <= e["left"][p] /\ e["right"][p] <= e["right"][g]
  <2>1. p # NULL /\ p = t.child[q][g]  BY <1>n, <1>t
  <2>2. ChildIs(t, T, e, g, q, p)  BY <1>0, <2>1, ChildBounds
  <2> QED  BY <2>2 DEF ChildIs, Inside
<1>4. ChildIs(t, T, e, g, q, p) /\ ChildIs(t, T, e, p, s, n)
  <2>1. p # NULL /\ n # NULL /\ p = t.child[q][g] /\ n = t.child[s][p]  BY <1>n, <1>t
  <2>2. ChildIs(t, T, e, g, q, p)  BY <1>0, <2>1, ChildBounds
  <2>3. ChildIs(t, T, e, p, s, n)  BY <1>0, <2>1, ChildBounds
  <2> QED  BY <2>2, <2>3
<1>5. /\ s = "left" => e["left"][n] = e["left"][p] /\ e["right"][n] = t.key[p]
      /\ s = "right" => e["right"][n] = e["right"][p] /\ e["left"][n] = t.key[p]
  BY <1>4 DEF ChildIs
<1>6. /\ t.key[n] \in Nat /\ e["left"][n] \in Int /\ e["right"][n] \in Int
      /\ e["left"][n] < t.key[n] /\ t.key[n] < e["right"][n]
      /\ -1 <= e["left"][n] /\ e["right"][n] <= B
  BY <1>0, FrameFacts
<1>7. /\ t.key[p] \in Nat /\ e["left"][p] \in Int /\ e["right"][p] \in Int
      /\ e["left"][p] < t.key[p] /\ t.key[p] < e["right"][p]
      /\ -1 <= e["left"][p] /\ e["right"][p] <= B
  BY <1>0, FrameFacts
<1>2. /\ p # t.head /\ n # t.head /\ p # g /\ n # p /\ n # g
      /\ t.prev[p] = g /\ t.prev[n] = p
  <2>1. n # g  BY <1>5, <1>6, <1>7, <1>i, Sides
  <2> QED  BY <1>1, <2>1 DEF Hangs
<1>3. new \notin T
  <2>1. T \subseteq 1 .. t.size /\ t.size \in Nat  BY <1>0, MapAssumption DEF Frame, Memory
  <2>2. new \notin 1 .. t.size  BY <1>u, <2>1
  <2> QED  BY <2>1, <2>2
<1>c. /\ \A r \in Side : u.child[r][n] = IF r = s THEN new ELSE p
      /\ \A r \in Side : u.child[r][p] = NULL
      /\ \A x \in T, r \in Side :
           x # n /\ x # p => u.child[r][x] = IF x = g /\ r = q THEN n ELSE t.child[r][x]
  BY <1>2 DEF Pivots
<1>p. /\ u.prev[p] = n /\ u.prev[n] = g
      /\ \A x \in T : x # n /\ x # p => u.prev[x] = t.prev[x]
  BY <1>2 DEF Pivots
<1>8. /\ t.key[n] < k => s = "right"
      /\ t.key[n] >= k => s = "left"
      /\ s = "left" \/ s = "right"
  BY <1>n, SideFacts, Sides
<1>a. "left" \in Side /\ "right" \in Side /\ "left" # "right"  BY Sides
<1>k. e["left"][n] < k /\ k < e["right"][n]  BY DEF Between
<1> DEFINE U == T \cup {new}
           f == [r \in Side |-> [x \in Nodes |->
                  IF x = new THEN IF r = s THEN e[r][n] ELSE t.key[n]
                  ELSE IF x = p THEN IF r = s THEN t.key[n] ELSE e[r][p]
                  ELSE IF x = n THEN e[r][p] ELSE e[r][x]]]
<1>9. f \in Bounds
  <2> SUFFICES ASSUME NEW r \in Side, NEW x \in Nodes PROVE f[r][x] \in Int  BY DEF Bounds
  <2>1. e[r][x] \in Int /\ e[r][p] \in Int /\ e[r][n] \in Int /\ t.key[n] \in Int
    BY <1>6, <1>n DEF Bounds
  <2> QED  BY <2>1
<1>10. \A x \in T : x # p /\ x # n => f["left"][x] = e["left"][x] /\ f["right"][x] = e["right"][x]
  BY <1>a, <1>n, <1>3
<1>11. /\ f["left"][new] = IF s = "left" THEN e["left"][n] ELSE t.key[n]
       /\ f["right"][new] = IF s = "right" THEN e["right"][n] ELSE t.key[n]
  BY <1>a
<1>12. /\ f["left"][p] = IF s = "left" THEN t.key[n] ELSE e["left"][p]
       /\ f["right"][p] = IF s = "right" THEN t.key[n] ELSE e["right"][p]
  BY <1>a, <1>n, <1>3
<1>13. f["left"][n] = e["left"][p] /\ f["right"][n] = e["right"][p]
  BY <1>a, <1>n, <1>2, <1>3
<1> HIDE DEF f
<1>14. Frame(u, U, f, B)
  <2>1. U \subseteq 1 .. u.size /\ u.head \in U
    <3>1. T \subseteq 1 .. t.size /\ t.head \in T /\ t.size \in Nat  BY <1>0, MapAssumption DEF Frame, Memory
    <3>2. u.size = t.size + 1 /\ new \in 1 .. u.size /\ u.head \in T  BY <1>u, <3>1
    <3>3. \A x \in 1 .. t.size : x \in 1 .. u.size  BY <3>1, <3>2
    <3> QED  BY <3>1, <3>2, <3>3
  <2>a. t.head \in T /\ e["left"][t.head] = -1 /\ e["right"][t.head] = B /\ u.head = t.head
    BY <1>0, <1>u DEF Frame
  <2>2. f["left"][u.head] = -1 /\ f["right"][u.head] = B
    BY <1>2, <1>10, <2>a
  <2>3. ASSUME NEW x \in U PROVE Between(f, x, u.key[x]) /\ -1 <= f["left"][x] /\ f["right"][x] <= B
    <3>1. CASE x \in T /\ x # p /\ x # n
      <4>1. Between(e, x, t.key[x]) /\ -1 <= e["left"][x] /\ e["right"][x] <= B  BY <1>0, <3>1 DEF Frame
      <4> QED  BY <1>10, <1>u, <3>1, <4>1 DEF Between
    <3>2. CASE x = new
      BY <1>5, <1>6, <1>7, <1>8, <1>11, <1>k, <1>u, <3>2 DEF Between
    <3>3. CASE x = p
      <4>1. u.key[x] = t.key[p]  BY <1>u, <3>3
      <4> QED  BY <1>5, <1>6, <1>7, <1>8, <1>12, <3>3, <4>1 DEF Between
    <3>4. CASE x = n
      <4>1. u.key[x] = t.key[n]  BY <1>u, <3>4
      <4> QED  BY <1>5, <1>6, <1>7, <1>8, <1>13, <3>4, <4>1 DEF Between
    <3> QED  BY <3>1, <3>2, <3>3, <3>4
  <2>4. ASSUME NEW x \in U, NEW r \in Side, NEW c, c = u.child[r][x], c # NULL
        PROVE  c \in U /\ f[r][c] = f[r][x] /\ f[Other(r)][c] = u.key[x]
    <3>r. r = "left" \/ r = "right"  BY Sides
    <3>1. x \in T /\ x # p  BY <1>c, <1>u, <2>4
    <3>k. u.key[x] = t.key[x]  BY <1>u, <3>1
    <3>2. CASE x = n /\ r = s
      <4>1. c = new  BY <1>c, <2>4, <3>2
      <4> QED  BY <1>5, <1>8, <1>11, <1>13, <3>2, <3>k, <4>1, Sides
    <3>3. CASE x = n /\ r # s
      <4>1. c = p  BY <1>c, <2>4, <3>3
      <4> QED  BY <1>8, <1>12, <1>13, <3>3, <3>r, <3>k, <4>1, Sides
    <3>4. CASE x = g /\ r = q
      <4>1. c = n  BY <1>2, <1>c, <2>4, <3>4
      <4>2. f["left"][g] = e["left"][g] /\ f["right"][g] = e["right"][g]  BY <1>2, <1>10
      <4>3. /\ r = "left" => e["left"][p] = e["left"][g] /\ e["right"][p] = t.key[g]
            /\ r = "right" => e["right"][p] = e["right"][g] /\ e["left"][p] = t.key[g]
        BY <1>4, <3>4 DEF ChildIs
      <4> QED  BY <1>13, <3>4, <3>r, <3>k, <4>1, <4>2, <4>3, Sides
    <3>5. CASE x # n /\ ~(x = g /\ r = q)
      <4>1. c = t.child[r][x]  BY <1>c, <2>4, <3>1, <3>5
      <4>2. ChildIs(t, T, e, x, r, c)  BY <1>0, <2>4, <3>1, <4>1, ChildBounds
      <4>3. Hangs(t, T, x, r, c)  BY <2>4, <3>1, <4>1, ParentIs
      <4>4. c \in T /\ c # n /\ c # p
        <5>1. c # n  BY <1>1, <3>1, <4>3 DEF Hangs
        <5>2. c # p
          <6> SUFFICES ASSUME c = p PROVE FALSE  OBVIOUS
          <6>1. x = g  BY <1>2, <4>3 DEF Hangs
          <6>2. r = Other(q)  BY <3>5, <3>r, <6>1, Sides
          <6> QED  BY <1>1, <4>1, <6>1, <6>2 DEF Hangs
        <5> QED  BY <4>3, <5>1, <5>2 DEF Hangs
      <4>5. /\ f["left"][c] = e["left"][c] /\ f["right"][c] = e["right"][c]
            /\ f["left"][x] = e["left"][x] /\ f["right"][x] = e["right"][x]
        BY <1>10, <3>1, <3>5, <4>4
      <4>6. /\ r = "left" => e["left"][c] = e["left"][x] /\ e["right"][c] = t.key[x]
            /\ r = "right" => e["right"][c] = e["right"][x] /\ e["left"][c] = t.key[x]
        BY <4>2 DEF ChildIs
      <4> QED  BY <3>r, <3>k, <4>4, <4>5, <4>6, Sides
    <3> QED  BY <3>2, <3>3, <3>4, <3>5
  <2>5. \A x \in U, r \in Side : u.child[r][x] # NULL =>
           u.child[r][x] \in U /\ f[r][u.child[r][x]] = f[r][x] /\ f[Other(r)][u.child[r][x]] = u.key[x]
    BY <2>4
  <2>6. \A x \in U : Between(f, x, u.key[x]) /\ -1 <= f["left"][x] /\ f["right"][x] <= B  BY <2>3
  <2> QED  BY <2>1, <2>2, <2>5, <2>6 DEF Frame
<1>15. ASSUME NEW y \in U, y # u.head PROVE \E x \in U, r \in Side : u.child[r][x] = y
  <2>1. CASE y = new  BY <1>c, <2>1
  <2>2. CASE y = p
    <3>1. Other(s) \in Side /\ Other(s) # s  BY Sides
    <3> QED  BY <1>c, <2>2, <3>1
  <2>3. CASE y = n  BY <1>2, <1>c, <2>3
  <2>4. CASE y \in T /\ y # p /\ y # n
    <3>1. y # t.head  BY <1>15, <1>u
    <3>2. PICK x \in T, r \in Side : t.child[r][x] = y  BY <1>0, <2>4, <3>1 DEF Shape
    <3>3. y # NULL  BY <1>n, <2>4
    <3>4. x # n  BY <1>t, <3>2, <3>3
    <3>5. x # p
      <4> SUFFICES ASSUME x = p PROVE FALSE  OBVIOUS
      <4>1. r = s \/ r = Other(s)  BY Sides
      <4> QED  BY <1>t, <2>4, <3>2, <3>3, <4>1
    <3>6. ~(x = g /\ r = q)  BY <1>t, <2>4, <3>2
    <3>7. u.child[r][x] = y  BY <1>c, <3>2, <3>4, <3>5, <3>6
    <3> QED  BY <3>2, <3>7
  <2> QED  BY <2>1, <2>2, <2>3, <2>4
<1>16. Linked(u, U)
  <2>1. u.prev[u.head] = u.head
    <3>1. t.head \in T /\ t.prev[t.head] = t.head  BY <1>0 DEF Linked, Frame
    <3> QED  BY <1>2, <1>p, <1>u, <3>1
  <2>2. ASSUME NEW x \in U, NEW r \in Side, u.child[r][x] # NULL PROVE u.prev[u.child[r][x]] = x
    <3>1. x \in T /\ x # p  BY <1>c, <1>u, <2>2
    <3>2. CASE x = n  BY <1>c, <1>p, <1>u, <3>2
    <3>3. CASE x = g /\ r = q  BY <1>2, <1>c, <1>p, <3>3
    <3>4. CASE x # n /\ ~(x = g /\ r = q)
      <4> DEFINE c == t.child[r][x]
      <4>1. u.child[r][x] = c  BY <1>c, <3>1, <3>4
      <4>2. c = t.child[r][x] /\ c # NULL  BY <2>2, <4>1
      <4> HIDE DEF c
      <4>3. Hangs(t, T, x, r, c)  BY <3>1, <4>2, ParentIs
      <4>4. c # n  BY <1>1, <3>1, <4>3 DEF Hangs
      <4>5. c # p
        <5> SUFFICES ASSUME c = p PROVE FALSE  OBVIOUS
        <5>1. x = g  BY <1>2, <4>3 DEF Hangs
        <5>2. r = Other(q)  BY <3>4, <5>1, Sides
        <5> QED  BY <1>1, <4>2, <5>1, <5>2 DEF Hangs
      <4>6. c \in T /\ t.prev[c] = x  BY <4>3 DEF Hangs
      <4>7. u.prev[c] = t.prev[c]  BY <1>p, <4>4, <4>5, <4>6
      <4> QED  BY <4>1, <4>6, <4>7
    <3> QED  BY <3>2, <3>3, <3>4
  <2> QED  BY <2>1, <2>2 DEF Linked
<1>17. Holds(u, U, f, B)  BY <1>14, <1>15, <1>16 DEF Holds, Shape
<1> QED  BY <1>9, <1>17
-----------------------------------------------------------------------------
(* Insertion.                                                              *)

(* What Attach starts with. *)
Hung(k, n, s) ==
  [Allocated(k) EXCEPT !.red = @ \cup {m.size + 1}, !.prev[m.size + 1] = n, !.child[s][n] = m.size + 1]

LEMMA HungFacts ==
  ASSUME m \in Memory, m.size < MaxNodes, NEW k \in Nat, NEW n \in Nodes, NEW s \in Side,
         n # m.size + 1
  PROVE  LET t == Hung(k, n, s)
             new == m.size + 1
         IN  /\ t \in Memory /\ t.head = m.head /\ t.size = new /\ t.red = m.red \cup {new}
             /\ t.freed = m.freed /\ new \in Nodes
             /\ t.key[new] = k /\ t.prev[new] = n
             /\ \A x \in Nodes : x # new => t.key[x] = m.key[x] /\ t.prev[x] = m.prev[x]
             /\ \A x \in Nodes, r \in Side :
                  t.child[r][x] = IF x = n /\ r = s THEN new ELSE m.child[r][x]
<1> DEFINE t == Hung(k, n, s)
           new == m.size + 1
<1>1. MaxNodes \in Nat /\ m.size \in Nat /\ new \in Nodes /\ new \in 0 .. MaxNodes /\ n \in 0 .. MaxNodes
  BY MapAssumption DEF Memory, Nodes
<1>2. /\ t.head = m.head /\ t.size = new /\ t.red = m.red \cup {new} /\ t.freed = m.freed
      /\ t.key = [m.key EXCEPT ![new] = k] /\ t.prev = [m.prev EXCEPT ![new] = n]
      /\ t.child = [m.child EXCEPT ![s][n] = new]
  BY DEF Hung, Allocated, Memory
<1>3. t \in Memory
  <2>1. t.key \in [Nodes -> Nat] /\ t.prev \in [Nodes -> 0 .. MaxNodes]
    BY <1>1, <1>2 DEF Memory
  <2>2. t.child \in [Side -> [Nodes -> 0 .. MaxNodes]]
    BY <1>1, <1>2 DEF Memory
  <2>3. t.red \in SUBSET Nodes  BY <1>1, <1>2 DEF Memory
  <2> QED  BY <1>1, <2>1, <2>2, <2>3 DEF Hung, Allocated, Memory
<1>4. /\ t.key[new] = k /\ t.prev[new] = n
      /\ \A x \in Nodes : x # new => t.key[x] = m.key[x] /\ t.prev[x] = m.prev[x]
  BY <1>1, <1>2 DEF Memory
<1>5. \A x \in Nodes, r \in Side :
        t.child[r][x] = IF x = n /\ r = s THEN new ELSE m.child[r][x]
  BY <1>1, <1>2 DEF Memory
<1> QED  BY <1>1, <1>2, <1>3, <1>4, <1>5

(* a is t in other colours. *)
Recolored(t, a) == \E R \in SUBSET Nodes : a = [t EXCEPT !.red = R]

LEMMA RecoloredFacts ==
  ASSUME NEW t \in Memory, NEW a, Recolored(t, a)
  PROVE  /\ a \in Memory /\ a.head = t.head /\ a.size = t.size /\ a.key = t.key
         /\ a.child = t.child /\ a.prev = t.prev /\ a.freed = t.freed
BY DEF Recolored, Memory

LEMMA RecoloredAgain ==
  ASSUME NEW t \in Memory, NEW a, Recolored(t, a), NEW R \in SUBSET Nodes, NEW b, b = [a EXCEPT !.red = R]
  PROVE  Recolored(t, b)
<1>1. PICK Q \in SUBSET Nodes : a = [t EXCEPT !.red = Q]  BY DEF Recolored
<1>2. b = [t EXCEPT !.red = R]  BY <1>1 DEF Memory
<1> QED  BY <1>2 DEF Recolored

LEMMA RecoloredSelf ==
  ASSUME NEW t \in Memory
  PROVE  Recolored(t, t)
<1>1. t.red \in SUBSET Nodes /\ t = [t EXCEPT !.red = t.red]  BY DEF Memory
<1> QED  BY <1>1 DEF Recolored

LEMMA HoldsRecolored ==
  ASSUME NEW t \in Memory, NEW a, Recolored(t, a), NEW T, NEW e, NEW B, Holds(t, T, e, B)
  PROVE  Holds(a, T, e, B)
<1>1. /\ a.head = t.head /\ a.size = t.size /\ a.key = t.key
      /\ a.child = t.child /\ a.prev = t.prev
  BY RecoloredFacts
<1> QED  BY <1>1 DEF Holds, Shape, Frame, Linked

LEMMA Unwound ==
  ASSUME NEW t \in Memory, NEW a, Recolored(t, a), NEW n \in Nodes, t.prev[n] \in Nodes
  PROVE  Recolored(t, Unwind(n, a))
<1>1. a \in Memory /\ a.prev = t.prev /\ a.red \in SUBSET Nodes
  <2>1. a \in Memory /\ a.prev = t.prev  BY RecoloredFacts
  <2> QED  BY <2>1 DEF Memory
<1> DEFINE p == a.prev[n]
           cs == {a.child[s][p] : s \in Side}
           R1 == a.red \ {n}
           R2 == (a.red \ cs) \cup {p}
<1>2. R1 \in SUBSET Nodes /\ R2 \in SUBSET Nodes
  <2> HIDE DEF cs
  <2> QED  BY <1>1
<1>3. \/ Unwind(n, a) = a
      \/ Unwind(n, a) = [a EXCEPT !.red = R1]
      \/ Unwind(n, a) = [a EXCEPT !.red = R2]
  BY DEF Unwind
<1> HIDE DEF R1, R2
<1> QED  BY <1>2, <1>3, RecoloredAgain

(* Nodes not given out yet have no children. *)
Fresh(t) == \A x \in Nodes, r \in Side : x > t.size => t.child[r][x] = NULL

IsHung(k, n, s, a) == \E R \in SUBSET Nodes : a = [Hung(k, n, s) EXCEPT !.red = R]

LEMMA HungLeaf ==
  ASSUME m \in Memory, m.size < MaxNodes, NEW k \in Nat, NEW T, NEW e \in Bounds, NEW B \in Nat,
         Holds(m, T, e, B), Fresh(m), NEW n \in T, NEW s \in Side,
         NEW a, IsHung(k, n, s, a)
  PROVE  /\ a \in Memory /\ a.freed = m.freed /\ Fresh(a)
         /\ AddsLeaf(m, T, n, s, m.size + 1, k, a)
<1> DEFINE t == Hung(k, n, s)
           new == m.size + 1
<1>1. n \in Nodes /\ new \notin T /\ \A x \in T : x \in Nodes /\ x # new
  <2>1. T \subseteq 1 .. m.size /\ m.size \in 0 .. MaxNodes /\ MaxNodes \in Nat
    BY MapAssumption DEF Holds, Shape, Frame, Memory
  <2>2. 1 .. m.size \subseteq Nodes /\ new \notin 1 .. m.size  BY <2>1 DEF Nodes
  <2> QED  BY <2>1, <2>2
<1>2. /\ t \in Memory /\ t.head = m.head /\ t.size = new
      /\ t.freed = m.freed /\ new \in Nodes
      /\ t.key[new] = k /\ t.prev[new] = n
      /\ \A x \in Nodes : x # new => t.key[x] = m.key[x] /\ t.prev[x] = m.prev[x]
      /\ \A x \in Nodes, r \in Side :
           t.child[r][x] = IF x = n /\ r = s THEN new ELSE m.child[r][x]
  <2>1. n # new  BY <1>1
  <2> HIDE DEF t
  <2> QED  BY <1>1, <2>1, HungFacts DEF t
<1> HIDE DEF t
<1>3. Recolored(t, a)  BY DEF IsHung, Recolored, t
<1>4. /\ a \in Memory /\ a.head = t.head /\ a.size = t.size /\ a.key = t.key
      /\ a.child = t.child /\ a.prev = t.prev /\ a.freed = t.freed
  BY <1>2, <1>3, RecoloredFacts
<1>5. m.size \in Nat  BY MapAssumption DEF Memory
<1>6. ASSUME NEW r \in Side PROVE m.child[r][new] = NULL
  BY <1>2, <1>5 DEF Fresh
<1>7. Fresh(a)
  <2> SUFFICES ASSUME NEW x \in Nodes, NEW r \in Side, x > a.size PROVE a.child[r][x] = NULL
    BY DEF Fresh
  <2>1. x > new /\ x > m.size /\ x # n
    <3>1. x \in Nat /\ x > new  BY <1>2, <1>4, MapAssumption DEF Nodes
    <3>2. n \in T /\ T \subseteq 1 .. m.size  BY DEF Holds, Shape, Frame
    <3>3. n <= m.size /\ n \in Nat  BY <1>5, <3>2
    <3> QED  BY <1>5, <3>1, <3>3
  <2> QED  BY <1>2, <1>4, <2>1 DEF Fresh
<1>8. AddsLeaf(m, T, n, s, new, k, a)
  <2>1. \A r \in Side : a.child[r][new] = NULL  BY <1>1, <1>2, <1>4, <1>6
  <2>2. \A x \in T : a.key[x] = m.key[x] /\ a.prev[x] = m.prev[x]  BY <1>1, <1>2, <1>4
  <2>3. \A x \in T, r \in Side : a.child[r][x] = IF x = n /\ r = s THEN new ELSE m.child[r][x]
    BY <1>1, <1>2, <1>4
  <2> QED  BY <1>2, <1>4, <2>1, <2>2, <2>3 DEF AddsLeaf
<1> QED  BY <1>2, <1>4, <1>7, <1>8

(* a is t with one child pointer set. *)
Points(t, r, x, c, a) ==
  /\ a \in Memory /\ a.head = t.head /\ a.size = t.size /\ a.key = t.key
  /\ a.freed = t.freed /\ a.prev = t.prev
  /\ \A y \in Nodes, w \in Side : a.child[w][y] = IF y = x /\ w = r THEN c ELSE t.child[w][y]

LEMMA PointFacts ==
  ASSUME NEW t \in Memory, NEW r \in Side, NEW x \in Nodes, NEW c \in 0 .. MaxNodes
  PROVE  Points(t, r, x, c, [t EXCEPT !.child[r][x] = c])
<1> DEFINE a == [t EXCEPT !.child[r][x] = c]
           C == [t.child EXCEPT ![r][x] = c]
<1>1. t.child \in [Side -> [Nodes -> 0 .. MaxNodes]]  BY DEF Memory
<1>2. /\ C \in [Side -> [Nodes -> 0 .. MaxNodes]]
      /\ \A y \in Nodes, w \in Side : C[w][y] = IF y = x /\ w = r THEN c ELSE t.child[w][y]
  BY <1>1
<1>3. a = [t EXCEPT !.child = C]  OBVIOUS
<1> HIDE DEF C, a
<1>4. /\ a \in Memory /\ a.head = t.head /\ a.size = t.size /\ a.key = t.key
      /\ a.freed = t.freed /\ a.prev = t.prev /\ a.child = C
  BY <1>2, <1>3 DEF Memory
<1> QED  BY <1>2, <1>4 DEF Points, a

(* a is t after Rotate. *)
Rotates(t, s, down, up, a) ==
  /\ a \in Memory /\ a.head = t.head /\ a.size = t.size /\ a.key = t.key /\ a.freed = t.freed
  /\ \A x \in Nodes, r \in Side :
       a.child[r][x] = IF x = up /\ r = s THEN down
                       ELSE IF x = down /\ r # s THEN t.child[s][up]
                       ELSE t.child[r][x]
  /\ \A x \in Nodes :
       a.prev[x] = IF x = up THEN t.prev[down] ELSE IF x = down THEN up ELSE t.prev[x]

LEMMA RotateFacts ==
  ASSUME NEW t \in Memory, NEW s \in Side, NEW down \in Nodes, NEW up \in Nodes, down # up
  PROVE  Rotates(t, s, down, up, Rotate(t, s, down, up))
<1> DEFINE a == Rotate(t, s, down, up)
           b == [t EXCEPT !.child[s][up] = down]
           c == [b EXCEPT !.child[Other(s)][down] = t.child[s][up]]
           P == [[t.prev EXCEPT ![down] = up] EXCEPT ![up] = t.prev[down]]
<1>1. /\ t.child \in [Side -> [Nodes -> 0 .. MaxNodes]] /\ t.prev \in [Nodes -> 0 .. MaxNodes]
      /\ Other(s) \in Side /\ Other(s) # s /\ \A r \in Side : r = s \/ r = Other(s)
      /\ \A x \in Nodes : x \in 0 .. MaxNodes
  BY Sides, MapAssumption DEF Memory, Nodes
<1>2. t.child[s][up] \in 0 .. MaxNodes /\ t.prev[down] \in 0 .. MaxNodes  BY <1>1
<1>3. a = [c EXCEPT !.prev = P]
  <2> DEFINE d == [c EXCEPT !.prev[down] = up]
  <2>1. a = [d EXCEPT !.prev[up] = t.prev[down]]  BY DEF Rotate
  <2>2. b \in [head : 0 .. MaxNodes, size : 0 .. MaxNodes, red : SUBSET Nodes, freed : SUBSET Nodes,
               key : [Nodes -> Nat], child : {b.child}, prev : {t.prev}]
    BY DEF Memory
  <2> HIDE DEF a, b
  <2>3. c \in [head : 0 .. MaxNodes, size : 0 .. MaxNodes, red : SUBSET Nodes, freed : SUBSET Nodes,
               key : [Nodes -> Nat], child : {c.child}, prev : {t.prev}]
    BY <2>2
  <2> HIDE DEF c
  <2> QED  BY <2>1, <2>3
<1>4. /\ P \in [Nodes -> 0 .. MaxNodes]
      /\ \A x \in Nodes :
           P[x] = IF x = up THEN t.prev[down] ELSE IF x = down THEN up ELSE t.prev[x]
  BY <1>1, <1>2
<1> HIDE DEF a
<1>5. Points(t, s, up, down, b)
  <2>1. down \in 0 .. MaxNodes  BY <1>1
  <2> QED  BY <2>1, PointFacts
<1> HIDE DEF b
<1>6. Points(b, Other(s), down, t.child[s][up], c)
  <2>1. b \in Memory  BY <1>5 DEF Points
  <2> QED  BY <1>1, <1>2, <2>1, PointFacts
<1> HIDE DEF c, P
<1>7. /\ a \in Memory /\ a.head = c.head /\ a.size = c.size /\ a.key = c.key /\ a.freed = c.freed
      /\ a.child = c.child /\ a.prev = P
  BY <1>3, <1>4, <1>6 DEF Memory, Points
<1>8. \A x \in Nodes, r \in Side :
        a.child[r][x] = IF x = up /\ r = s THEN down
                        ELSE IF x = down /\ r # s THEN t.child[s][up]
                        ELSE t.child[r][x]
  <2> SUFFICES ASSUME NEW x \in Nodes, NEW r \in Side
               PROVE  a.child[r][x] = IF x = up /\ r = s THEN down
                                      ELSE IF x = down /\ r # s THEN t.child[s][up]
                                      ELSE t.child[r][x]
    OBVIOUS
  <2>1. /\ c.child[r][x] = IF x = down /\ r = Other(s) THEN t.child[s][up] ELSE b.child[r][x]
        /\ b.child[r][x] = IF x = up /\ r = s THEN down ELSE t.child[r][x]
    BY <1>5, <1>6 DEF Points
  <2>2. a.child[r][x] = c.child[r][x]  BY <1>7
  <2>3. r = Other(s) <=> r # s  BY <1>1
  <2> QED  BY <2>1, <2>2, <2>3
<1>9. /\ a.head = t.head /\ a.size = t.size /\ a.key = t.key /\ a.freed = t.freed
  BY <1>5, <1>6, <1>7 DEF Points
<1> QED  BY <1>4, <1>7, <1>8, <1>9 DEF Rotates, a

(* n, a leaf, is the only child of p, which is a child of g. *)
OnlyLeaf(n, s, p, q, g) ==
  /\ \A r \in Side : m.child[r][n] = NULL
  /\ n = m.child[s][p] /\ m.child[Other(s)][p] = NULL /\ p = m.child[q][g]

LEMMA HungPivot ==
  ASSUME m \in Memory, m.size < MaxNodes, NEW k \in Nat, NEW T, NEW e \in Bounds, NEW B \in Nat,
         Holds(m, T, e, B), Fresh(m), NEW n \in T, NEW s \in Side,
         NEW p \in T, NEW g \in T, NEW q \in Side, OnlyLeaf(n, s, p, q, g),
         NEW b, IsHung(k, n, s, b)
  PROVE  LET a == Relink(Rotate(b, Other(s), p, n), n, s)
         IN
         /\ a \in Memory /\ a.freed = m.freed /\ Fresh(a)
         /\ Pivots(m, T, g, q, p, s, n, m.size + 1, k, a)
<1> DEFINE new == m.size + 1
           c == Rotate(b, Other(s), p, n)
           a == Relink(c, n, s)
<1> HIDE DEF a, c
<1>o. /\ \A r \in Side : m.child[r][n] = NULL
      /\ n = m.child[s][p] /\ m.child[Other(s)][p] = NULL /\ p = m.child[q][g]
  BY DEF OnlyLeaf
<1>0. /\ new \notin T /\ new \in Nodes /\ \A x \in T : x \in Nodes
      /\ p # new /\ n # new /\ g # new /\ p # NULL /\ n # NULL /\ g # NULL
      /\ p <= m.size /\ n <= m.size /\ g <= m.size /\ NULL \in 0 .. MaxNodes
  <2>1. T \subseteq 1 .. m.size /\ m.size \in 0 .. MaxNodes /\ MaxNodes \in Nat
    BY MapAssumption DEF Holds, Shape, Frame, Memory
  <2>2. 1 .. m.size \subseteq Nodes /\ new \notin 1 .. m.size /\ new \in Nodes  BY <2>1 DEF Nodes
  <2>3. p \in 1 .. m.size /\ n \in 1 .. m.size /\ g \in 1 .. m.size  BY <2>1
  <2>4. /\ p # NULL /\ n # NULL /\ g # NULL /\ NULL \in 0 .. MaxNodes
        /\ p <= m.size /\ n <= m.size /\ g <= m.size
    BY <2>1, <2>3 DEF NULL
  <2> QED  BY <2>1, <2>2, <2>3, <2>4
<1>1. /\ b \in Memory /\ b.freed = m.freed /\ Fresh(b) /\ AddsLeaf(m, T, n, s, new, k, b)
  BY HungLeaf
<1>2. /\ b.head = m.head /\ b.size = new
      /\ b.key[new] = k /\ b.prev[new] = n /\ \A r \in Side : b.child[r][new] = NULL
      /\ \A x \in T : b.key[x] = m.key[x] /\ b.prev[x] = m.prev[x]
      /\ \A x \in T, r \in Side : b.child[r][x] = IF x = n /\ r = s THEN new ELSE m.child[r][x]
  BY <1>1 DEF AddsLeaf
<1>h. Hangs(m, T, g, q, p) /\ Hangs(m, T, p, s, n)
  <2>1. p # NULL /\ n # NULL /\ p = m.child[q][g] /\ n = m.child[s][p]  BY <1>0, <1>o
  <2>2. Hangs(m, T, g, q, p)  BY <2>1, ParentIs
  <2>3. Hangs(m, T, p, s, n)  BY <2>1, ParentIs
  <2> QED  BY <2>2, <2>3
<1>3. p # g /\ n # p /\ m.prev[p] = g /\ m.prev[n] = p /\ m.child[Other(q)][g] # p
  BY <1>h DEF Hangs
<1>4. n # g  BY <1>0, <1>o
<1>5. p \in 0 .. MaxNodes /\ n \in 0 .. MaxNodes /\ g \in 0 .. MaxNodes /\ NULL \in 0 .. MaxNodes
  <2>1. p \in Nodes /\ n \in Nodes /\ g \in Nodes  BY <1>0
  <2> QED  BY <1>0, <2>1, MapAssumption DEF Nodes
<1>s. Other(s) \in Side /\ Other(s) # s /\ Other(Other(s)) = s  BY Sides
<1>6. /\ b.child[Other(s)][n] = NULL /\ b.prev[p] = g
  <2>1. m.child[Other(s)][n] = NULL  BY <1>o, <1>s
  <2>2. b.child[Other(s)][n] = m.child[Other(s)][n]  BY <1>2, <1>s
  <2>3. b.prev[p] = m.prev[p]  BY <1>2
  <2> QED  BY <1>3, <2>1, <2>2, <2>3
<1>8. /\ c \in Memory /\ c.head = b.head /\ c.size = b.size /\ c.key = b.key /\ c.freed = b.freed
      /\ c.prev[p] = n /\ c.prev[n] = g
      /\ \A x \in Nodes : x # p /\ x # n => c.prev[x] = b.prev[x]
      /\ \A x \in Nodes, r \in Side :
           c.child[r][x] = IF x = n /\ r = Other(s) THEN p
                           ELSE IF x = p /\ r = s THEN NULL ELSE b.child[r][x]
  <2>1. p \in Nodes /\ n \in Nodes /\ c = Rotate(b, Other(s), p, n)  BY <1>0 DEF c
  <2>r. Rotates(b, Other(s), p, n, c)  BY <1>1, <1>3, <1>s, <2>1, RotateFacts
  <2>2. /\ c \in Memory /\ c.head = b.head /\ c.size = b.size /\ c.key = b.key /\ c.freed = b.freed
        /\ \A x \in Nodes, r \in Side :
             c.child[r][x] = IF x = n /\ r = Other(s) THEN p
                             ELSE IF x = p /\ r # Other(s) THEN b.child[Other(s)][n]
                             ELSE b.child[r][x]
        /\ \A x \in Nodes :
             c.prev[x] = IF x = n THEN b.prev[p] ELSE IF x = p THEN n ELSE b.prev[x]
    BY <2>r DEF Rotates
  <2>3. \A r \in Side : r # Other(s) <=> r = s  BY Sides
  <2> QED  BY <1>3, <1>6, <2>1, <2>2, <2>3
<1>9. {side \in Side : c.child[side][g] = p} = {q}
  <2>1. \A r \in Side : c.child[r][g] = m.child[r][g]  BY <1>0, <1>2, <1>3, <1>4, <1>8
  <2>2. \A r \in Side : r = q \/ r = Other(q)  BY Sides
  <2> QED  BY <1>3, <1>o, <2>1, <2>2
<1>10. a = [c EXCEPT !.child[q][g] = n]
  <2>1. c.prev[n] = g /\ c.child[Other(s)][n] = p  BY <1>0, <1>3, <1>8, <1>s
  <2>2. a = Relink(c, n, s)  BY DEF a
  <2>3. (IF "right" \in {q} THEN "right" ELSE "left") = q  BY Sides
  <2> QED  BY <1>9, <2>1, <2>2, <2>3 DEF Relink
<1>11. /\ a \in Memory /\ a.head = c.head /\ a.size = c.size /\ a.key = c.key /\ a.freed = c.freed
       /\ a.prev = c.prev
       /\ \A x \in Nodes, r \in Side : a.child[r][x] = IF x = g /\ r = q THEN n ELSE c.child[r][x]
  <2>1. Points(c, q, g, n, a)  BY <1>0, <1>5, <1>8, <1>10, PointFacts
  <2> QED  BY <2>1 DEF Points
<1>13. Fresh(a)
  <2> SUFFICES ASSUME NEW x \in Nodes, NEW r \in Side, x > a.size PROVE a.child[r][x] = NULL
    BY DEF Fresh
  <2>1. x > b.size  BY <1>8, <1>11
  <2>2. b.child[r][x] = NULL  BY <1>1, <2>1 DEF Fresh
  <2>3. x # g /\ x # n /\ x # p
    <3>1. m.size \in Nat /\ x \in Nat  BY MapAssumption DEF Memory, Nodes
    <3>2. x > m.size + 1  BY <1>2, <2>1
    <3>3. g <= m.size /\ n <= m.size /\ p <= m.size /\ g \in Nat /\ n \in Nat /\ p \in Nat
      BY <1>0, MapAssumption DEF Nodes
    <3> QED  BY <3>1, <3>2, <3>3
  <2>4. a.child[r][x] = c.child[r][x]  BY <1>11, <2>3
  <2> QED  BY <1>8, <2>2, <2>3, <2>4
<1>14. Pivots(m, T, g, q, p, s, n, new, k, a)
  <2>1. \A r \in Side : a.child[r][new] = NULL
    BY <1>0, <1>2, <1>8, <1>11
  <2>2. \A x \in T : a.key[x] = m.key[x]  BY <1>2, <1>8, <1>11
  <2>3. \A x \in T : a.prev[x] = IF x = p THEN n ELSE IF x = n THEN g ELSE m.prev[x]
    BY <1>0, <1>2, <1>3, <1>8, <1>11
  <2>4. ASSUME NEW x \in T, NEW r \in Side
        PROVE  a.child[r][x] = IF x = n THEN (IF r = s THEN new ELSE p)
                               ELSE IF x = p THEN NULL
                               ELSE IF x = g /\ r = q THEN n
                               ELSE m.child[r][x]
    <3>r. r = s \/ r = Other(s)  BY Sides
    <3>1. CASE x = n  BY <1>0, <1>2, <1>3, <1>4, <1>8, <1>11, <1>s, <3>r, <3>1
    <3>2. CASE x = p
      <4>1. a.child[r][x] = c.child[r][p]  BY <1>0, <1>3, <1>11, <3>2
      <4>2. c.child[r][p] = NULL
        <5>1. c.child[r][p] = IF r = s THEN NULL ELSE b.child[r][p]  BY <1>0, <1>3, <1>8
        <5>2. b.child[r][p] = m.child[r][p]  BY <1>2, <1>3
        <5> QED  BY <1>o, <3>r, <5>1, <5>2
      <4> QED  BY <1>3, <3>2, <4>1, <4>2
    <3>3. CASE x # n /\ x # p  BY <1>0, <1>2, <1>8, <1>11, <3>3
    <3> QED  BY <3>1, <3>2, <3>3
  <2>5. new = m.size + 1 /\ a.head = m.head /\ a.size = new /\ a.key[new] = k /\ a.prev[new] = n
    BY <1>0, <1>2, <1>8, <1>11
  <2> QED  BY <1>o, <2>1, <2>2, <2>3, <2>4, <2>5 DEF Pivots
<1> QED  BY <1>1, <1>8, <1>11, <1>13, <1>14 DEF a, c

(* As long as no node is lost, Attach hangs up a leaf or turns one. *)
Attaches(T, n, s, k, a) ==
  \/ /\ AddsLeaf(m, T, n, s, m.size + 1, k, a)
     /\ n # m.head => \A r \in Side : m.child[r][m.prev[n]] # NULL
  \/ \E g \in T, q \in Side :
       /\ OnlyLeaf(n, s, m.prev[n], q, g)
       /\ Pivots(m, T, g, q, m.prev[n], s, n, m.size + 1, k, a)

LEMMA Attached ==
  ASSUME m \in Memory, m.size < MaxNodes, NEW k \in Nat, NEW T, NEW e \in Bounds, NEW B \in Nat,
         Holds(m, T, e, B), Fresh(m), NEW n \in T, NEW s \in Side,
         m.child[s][n] = NULL, ~LosesNodes(m, n, s),
         NEW a, a = Attach(Allocated(k), n, m.size + 1, s)
  PROVE  a \in Memory /\ a.freed = m.freed /\ Fresh(a) /\ Attaches(T, n, s, k, a)
<1> DEFINE t == Hung(k, n, s)
           new == m.size + 1
           p == m.prev[n]
<1>1. n \in Nodes /\ n # new /\ p \in T /\ p \in Nodes /\ p # new
  <2>1. T \subseteq 1 .. m.size /\ m.size \in 0 .. MaxNodes /\ MaxNodes \in Nat
    BY MapAssumption DEF Holds, Shape, Frame, Memory
  <2>2. 1 .. m.size \subseteq Nodes /\ new \notin 1 .. m.size  BY <2>1 DEF Nodes
  <2>3. p \in T  BY LinkedFacts
  <2> QED  BY <2>1, <2>2, <2>3
<1>2. /\ t \in Memory /\ t.head = m.head /\ t.size = new /\ t.red = m.red \cup {new}
      /\ t.freed = m.freed /\ new \in Nodes
      /\ t.key[new] = k /\ t.prev[new] = n
      /\ \A x \in Nodes : x # new => t.key[x] = m.key[x] /\ t.prev[x] = m.prev[x]
      /\ \A x \in Nodes, r \in Side :
           t.child[r][x] = IF x = n /\ r = s THEN new ELSE m.child[r][x]
  <2> HIDE DEF t
  <2> QED  BY <1>1, HungFacts DEF t
<1>3. t.prev[n] = p /\ (IsRoot(t, n) <=> IsRoot(m, n)) /\ (IsRoot(m, n) <=> n = m.head)
  <2>1. t.prev[n] = p  BY <1>1, <1>2
  <2>2. IsRoot(m, n) <=> n = m.head  BY LinkedFacts
  <2> QED  BY <2>1, <2>2 DEF IsRoot
<1>r. t.red \in SUBSET Nodes  BY <1>2 DEF Memory
<1> DEFINE u == Uncle(t, n, s)
<1>a. a = CASE IsRoot(t, n) -> t
            [] ~IsRoot(t, n) /\ u = NULL /\ Bent(t, n, s) ->
                 LET black   == IF s = "right" \/ n \in t.red THEN {new} ELSE {}
                     rotated == Rotate([t EXCEPT !.red = @ \ black], Other(s), n, new)
                 IN  Rotate(rotated, s, rotated.prev[new], new)
            [] ~IsRoot(t, n) /\ u = NULL /\ ~Bent(t, n, s) ->
                 Relink(Rotate([t EXCEPT !.red = @ \ {n}], Other(s), t.prev[n], n), n, s)
            [] ~IsRoot(t, n) /\ u # NULL ->
                 IF n \notin t.red THEN t
                 ELSE IF u \in t.red THEN [t EXCEPT !.red = (@ \ {n, u}) \cup {t.prev[n]}]
                 ELSE Rotate([t EXCEPT !.red = @ \ {n}], Other(s), n, new)
  BY DEF Attach, Hung
<1> HIDE DEF t
<1>4. ASSUME IsHung(k, n, s, a), n # m.head => \A r \in Side : m.child[r][p] # NULL
      PROVE  a \in Memory /\ a.freed = m.freed /\ Fresh(a) /\ Attaches(T, n, s, k, a)
  <2>1. a \in Memory /\ a.freed = m.freed /\ Fresh(a) /\ AddsLeaf(m, T, n, s, new, k, a)
    BY <1>4, HungLeaf
  <2> QED  BY <1>4, <2>1 DEF Attaches
<1>5. CASE IsRoot(m, n)
  <2>1. a = t  BY <1>3, <1>5, <1>a
  <2>2. a = [t EXCEPT !.red = t.red]  BY <1>2, <2>1 DEF Memory
  <2>3. IsHung(k, n, s, a)  BY <1>r, <2>2 DEF IsHung, t
  <2> QED  BY <1>3, <1>4, <1>5, <2>3
<1>6. CASE ~IsRoot(m, n)
  <2>0. n # m.head /\ p # n  BY <1>3, <1>6 DEF IsRoot
  <2>1. \A r \in Side : t.child[r][p] = m.child[r][p]  BY <1>1, <1>2, <2>0
  <2>2. (Bent(t, n, s) <=> Bent(m, n, s)) /\ u = Uncle(m, n, s)
    BY <1>3, <2>1, Sides DEF Bent, Uncle
  <2>3. PICK w \in Side : m.child[w][p] = n  BY <2>0, LinkedFacts
  <2>4. n # NULL /\ p # NULL /\ n \in Nodes
    <3>1. n \in Nodes  BY LinkedFacts
    <3> QED  BY <1>1, <3>1 DEF Nodes, NULL
  <2> HIDE DEF u, p
  <2>5. CASE u = NULL
    <3>1. ~Bent(m, n, s) /\ ~IsRoot(m, p) /\ m.child[Other(s)][n] = NULL
      BY <1>6, <2>2, <2>5 DEF LosesNodes, p
    <3>2. m.child[s][p] = n /\ m.child[Other(s)][p] = NULL
      BY <2>2, <2>5, <3>1 DEF Bent, Uncle, p
    <3>3. p # m.head
      <4>1. IsRoot(m, p) <=> p = m.head  BY <1>1, LinkedFacts
      <4> QED  BY <3>1, <4>1
    <3> DEFINE g == m.prev[p]
    <3>4. g \in T /\ \E q \in Side : m.child[q][g] = p  BY <1>1, <3>3, LinkedFacts
    <3>5. PICK q \in Side : m.child[q][g] = p  BY <3>4
    <3> HIDE DEF g
    <3>6. OnlyLeaf(n, s, p, q, g)
      <4>1. \A r \in Side : r = s \/ r = Other(s)  BY Sides
      <4> QED  BY <3>1, <3>2, <3>5, <4>1 DEF OnlyLeaf
    <3> DEFINE b == [t EXCEPT !.red = @ \ {n}]
    <3>7. a = Relink(Rotate(b, Other(s), p, n), n, s)
      <4>1. ~IsRoot(t, n) /\ ~Bent(t, n, s)  BY <1>3, <1>6, <2>2, <3>1
      <4> QED  BY <1>3, <1>a, <2>5, <4>1
    <3>8. IsHung(k, n, s, b)
      <4>1. t.red \ {n} \in SUBSET Nodes  BY <1>r
      <4>2. b = [Hung(k, n, s) EXCEPT !.red = t.red \ {n}]  BY DEF t
      <4> QED  BY <4>1, <4>2 DEF IsHung
    <3> HIDE DEF b
    <3>9. a \in Memory /\ a.freed = m.freed /\ Fresh(a) /\ Pivots(m, T, g, q, p, s, n, new, k, a)
      BY <1>1, <3>4, <3>6, <3>7, <3>8, HungPivot
    <3> QED  BY <3>4, <3>6, <3>9 DEF Attaches, p
  <2>6. CASE u # NULL
    <3>1. ~(n \in m.red /\ u \notin m.red)  BY <1>6, <2>2, <2>6 DEF LosesNodes
    <3>2. n \in t.red => n \in m.red  BY <1>1, <1>2
    <3>3. n \in t.red => u \in t.red  BY <1>2, <3>1, <3>2
    <3>4. \A r \in Side : m.child[r][p] # NULL
      <4>1. u = m.child[IF Bent(m, n, s) THEN s ELSE Other(s)][p]  BY <2>2 DEF Uncle, p
      <4>2. Bent(m, n, s) => w = Other(s)  BY <2>3, Sides DEF Bent, p
      <4>3. ~Bent(m, n, s) => m.child[s][p] = n  BY DEF Bent, p
      <4>4. \A r \in Side : r = s \/ r = Other(s)  BY Sides
      <4> QED  BY <2>3, <2>4, <2>6, <4>1, <4>2, <4>3, <4>4
    <3>5. a = IF n \notin t.red THEN t ELSE [t EXCEPT !.red = (@ \ {n, u}) \cup {t.prev[n]}]
      <4>1. ~IsRoot(t, n)  BY <1>3, <1>6
      <4> QED  BY <1>a, <2>6, <3>3, <4>1
    <3>6. IsHung(k, n, s, a)
      <4>1. CASE n \notin t.red
        <5>1. a = [t EXCEPT !.red = t.red]  BY <1>2, <3>5, <4>1 DEF Memory
        <5> QED  BY <1>r, <5>1 DEF IsHung, t
      <4>2. CASE n \in t.red
        <5>1. (t.red \ {n, u}) \cup {p} \in SUBSET Nodes  BY <1>1, <1>r
        <5>2. a = [t EXCEPT !.red = (t.red \ {n, u}) \cup {p}]  BY <1>3, <3>5, <4>2
        <5> QED  BY <5>1, <5>2 DEF IsHung, t
      <4> QED  BY <4>1, <4>2
    <3> QED  BY <1>4, <3>4, <3>6
  <2> QED  BY <2>5, <2>6
<1> QED  BY <1>5, <1>6

(* The way back up recolors only. *)
IsDone(path, a, f) ==
  f = [j \in 0 .. Len(path) - 1 |-> IF j = 0 THEN a ELSE Unwind(path[Len(path) - j], f[j - 1])]

LEMMA UnwoundAll ==
  ASSUME NEW a \in Memory, NEW path \in Seq(Nodes), path # << >>,
         \A i \in 1 .. Len(path) : a.prev[path[i]] \in Nodes
  PROVE  \A j \in 0 .. Len(path) - 1 : Recolored(a, (CHOOSE f : IsDone(path, a, f))[j])
<1> DEFINE N == Len(path) - 1
           R == {b \in Memory : Recolored(a, b)}
           step == [jx \in (1 .. N) \X R |-> Unwind(path[Len(path) - jx[1]], jx[2])]
<1>1. N \in Nat /\ Len(path) \in Nat /\ Len(path) = N + 1  OBVIOUS
<1>2. ASSUME NEW j \in 1 .. N, NEW b \in R PROVE Unwind(path[Len(path) - j], b) \in R
  <2>1. Len(path) - j \in 1 .. Len(path)  BY <1>1
  <2>2. path[Len(path) - j] \in Nodes /\ a.prev[path[Len(path) - j]] \in Nodes  BY <2>1
  <2>3. Recolored(a, Unwind(path[Len(path) - j], b))  BY <2>2, Unwound
  <2>4. Unwind(path[Len(path) - j], b) \in Memory  BY <2>3, RecoloredFacts
  <2> QED  BY <2>3, <2>4
<1>3. a \in R  BY RecoloredSelf
<1> HIDE DEF R, N
<1>4. step \in [(1 .. N) \X R -> R]  BY <1>2
<1>5. PICK f \in [0 .. N -> R] : Turns(N, a, step, f)
  <2> HIDE DEF step
  <2> QED  BY <1>1, <1>3, <1>4, LoopsExist
<1>6. ASSUME NEW j \in 0 .. N PROVE f[j] = IF j = 0 THEN a ELSE Unwind(path[Len(path) - j], f[j - 1])
  <2>1. f[j] = IF j = 0 THEN a ELSE step[<<j, f[j - 1]>>]
    <3> HIDE DEF step
    <3> QED  BY <1>5 DEF Turns
  <2>2. j # 0 => j \in 1 .. N /\ f[j - 1] \in R  BY <1>1
  <2>3. j # 0 => step[<<j, f[j - 1]>>] = Unwind(path[Len(path) - j], f[j - 1])  BY <2>2
  <2> QED  BY <2>1, <2>3
<1>7. IsDone(path, a, f)
  <2> DEFINE F == [j \in 0 .. N |-> IF j = 0 THEN a ELSE Unwind(path[Len(path) - j], f[j - 1])]
  <2>1. f = F  BY <1>6
  <2> QED  BY <2>1 DEF IsDone, N
<1> DEFINE g == CHOOSE h : IsDone(path, a, h)
<1>8. IsDone(path, a, g)  BY <1>7
<1> HIDE DEF g
<1>9. g[0] = a /\ \A j \in 1 .. N : g[j] = Unwind(path[Len(path) - j], g[j - 1])
  <2>1. \A j \in 0 .. N : g[j] = IF j = 0 THEN a ELSE Unwind(path[Len(path) - j], g[j - 1])
    BY <1>8 DEF IsDone, N
  <2>2. 0 \in 0 .. N /\ \A j \in 1 .. N : j \in 0 .. N /\ j # 0  BY <1>1
  <2> QED  BY <2>1, <2>2
<1> DEFINE S == {j \in 0 .. N : g[j] \in R}
<1>10. 0 \in S  BY <1>1, <1>3, <1>9
<1>11. ASSUME NEW j \in 1 .. N, j - 1 \in S PROVE j \in S  BY <1>1, <1>2, <1>9, <1>11
<1>12. 0 .. N \subseteq S
  <2> HIDE DEF S
  <2> QED  BY <1>1, <1>10, <1>11, Throughout
<1> QED  BY <1>12 DEF R, N, g
-----------------------------------------------------------------------------
(* The insertion below head as a whole.                                    *)

Turned(k) ==
  LET n == Last(Path(m, k))
  IN  Attach(Allocated(k), n, m.size + 1, SideOf(m, n, k))

WayBack(k) == CHOOSE f : IsDone(Path(m, k), Turned(k), f)

LEMMA InsertIs ==
  ASSUME NEW k, InsertBelowHead(k)
  PROVE  LET path == Path(m, k)
             n    == Last(path)
         IN  IF m.key[n] = k THEN UNCHANGED <<m, status, intact>>
             ELSE /\ m' = WayBack(k)[Len(path) - 1]
                  /\ status' = IF \E j \in 1 .. Len(path) - 1 :
                                    NullUncle(WayBack(k)[j - 1], path[Len(path) - j])
                               THEN "crash" ELSE "ok"
                  /\ intact' = (intact /\ ~LosesNodes(m, n, SideOf(m, n, k)))
BY DEF InsertBelowHead, WayBack, Turned, IsDone

(* The search for k passed p and ended at n, under the bounds e. *)
Ends(t, T, e, k, p, n) ==
  /\ p \in Seq(T) /\ p \in Seq(Nodes) /\ p # << >> /\ n = p[Len(p)] /\ n \in T
  /\ Between(e, n, k) /\ Stopped(t, k, n)
  /\ \A i \in 1 .. Len(p) - 1 : p[i] # n /\ \E s \in Side : t.child[s][p[i]] # NULL

LEMMA SearchEnds ==
  ASSUME NEW t \in Memory, NEW T, NEW e \in Bounds, NEW B \in Nat, Shape(t, T, e, B), NEW k \in Nat
  PROVE  \E f \in Bounds, C \in Nat :
           /\ Shape(t, T, f, C) /\ Wider(T, e, f)
           /\ Ends(t, T, f, k, Path(t, k), Last(Path(t, k)))
<1> DEFINE C == B + k + 1
           p == Path(t, k)
<1>2. C \in Nat /\ B <= C /\ k < C  OBVIOUS
<1> HIDE DEF C
<1>3. PICK f \in Bounds : Shape(t, T, f, C) /\ Wider(T, e, f)  BY <1>2, Raised
<1>4. Frame(t, T, f, C)  BY <1>3 DEF Shape
<1>5. Trail(t, T, f, k, p) /\ Stopped(t, k, Last(p))  BY <1>2, <1>4, PathFacts
<1> HIDE DEF p
<1>6. /\ p \in Seq(T) /\ p # << >>
      /\ \A i \in 1 .. Len(p) - 1 :
           /\ t.key[p[i]] # k /\ p[i + 1] # NULL
           /\ p[i + 1] = t.child[SideOf(t, p[i], k)][p[i]]
      /\ \A i \in 1 .. Len(p) : Between(f, p[i], k)
  BY <1>5 DEF Trail
<1>7. Last(p) = p[Len(p)] /\ Len(p) \in 1 .. Len(p) /\ \A i \in 1 .. Len(p) : p[i] \in T
  BY <1>6 DEF Last
<1>8. T \subseteq Nodes  BY <1>2, <1>4, FrameFacts
<1>9. p \in Seq(Nodes)  BY <1>6, <1>8
<1>10. ASSUME NEW i \in 1 .. Len(p) - 1
       PROVE  p[i] # Last(p) /\ \E s \in Side : t.child[s][p[i]] # NULL
  <2>1. i \in 1 .. Len(p)  BY <1>6
  <2>2. p[i] \in Nodes  BY <1>7, <1>8, <2>1
  <2>3. SideOf(t, p[i], k) \in Side  BY <2>2, SideFacts
  <2>4. ~Stopped(t, k, p[i])  BY <1>6 DEF Stopped
  <2> QED  BY <1>5, <1>6, <2>3, <2>4
<1>11. Ends(t, T, f, k, p, Last(p))  BY <1>5, <1>6, <1>7, <1>9, <1>10 DEF Ends
<1> QED  BY <1>2, <1>3, <1>11 DEF p

LEMMA Searched ==
  ASSUME NEW t \in Memory, NEW T, NEW e \in Bounds, NEW B \in Nat, Holds(t, T, e, B), NEW k \in Nat
  PROVE  \E f \in Bounds, C \in Nat :
           Holds(t, T, f, C) /\ Ends(t, T, f, k, Path(t, k), Last(Path(t, k)))
BY SearchEnds DEF Holds

(* A node without a sibling is a leaf. *)
Paired(t, T) ==
  \A x \in T, r \in Side :
    t.child[r][x] # NULL /\ t.child[Other(r)][x] = NULL =>
      \A w \in Side : t.child[w][t.child[r][x]] = NULL

Lone(t, c) == \A w \in Side : t.child[w][c] = NULL

LEMMA PairedIs ==
  ASSUME NEW t, NEW T, Paired(t, T), NEW x \in T, NEW r \in Side, NEW c, c = t.child[r][x],
         c # NULL, t.child[Other(r)][x] = NULL
  PROVE  Lone(t, c)
BY DEF Paired, Lone

LEMMA AddsLeafPaired ==
  ASSUME NEW t \in Memory, NEW T, NEW e \in Bounds, NEW B \in Nat, Holds(t, T, e, B),
         NEW n \in T, NEW s \in Side, NEW k, NEW new \in Nodes, NEW u, AddsLeaf(t, T, n, s, new, k, u),
         n # t.head => \A r \in Side : t.child[r][t.prev[n]] # NULL, Paired(t, T)
  PROVE  Paired(u, T \cup {new})
<1>u. /\ \A r \in Side : u.child[r][new] = NULL
      /\ \A x \in T, r \in Side : u.child[r][x] = IF x = n /\ r = s THEN new ELSE t.child[r][x]
  BY DEF AddsLeaf
<1>n. new # NULL /\ n # NULL
  <2>1. n \in Nodes  BY LinkedFacts
  <2> QED  BY <2>1 DEF Nodes, NULL
<1>1. ASSUME NEW x \in T \cup {new}, NEW r \in Side, NEW c, c = u.child[r][x],
             c # NULL, u.child[Other(r)][x] = NULL
      PROVE  Lone(u, c)
  <2>1. x \in T  BY <1>u, <1>1
  <2>2. CASE x = n /\ r = s  BY <1>u, <1>1, <2>1, <2>2 DEF Lone
  <2>3. CASE x = n /\ r # s
    <3>1. Other(r) = s  BY <2>3, Sides
    <3> QED  BY <1>n, <1>u, <1>1, <2>1, <2>3, <3>1
  <2>4. CASE x # n
    <3>1. Other(r) \in Side  BY Sides
    <3>2. c = t.child[r][x] /\ t.child[Other(r)][x] = NULL  BY <1>u, <1>1, <2>1, <2>4, <3>1
    <3>3. Lone(t, c)  BY <1>1, <2>1, <3>2, PairedIs
    <3>4. Hangs(t, T, x, r, c)  BY <1>1, <2>1, <3>2, ParentIs
    <3>5. c \in T /\ c # n  BY <3>1, <3>2, <3>4 DEF Hangs
    <3> QED  BY <1>u, <3>3, <3>5 DEF Lone
  <2> QED  BY <2>2, <2>3, <2>4
<1> QED  BY <1>1 DEF Paired, Lone

LEMMA PivotsPaired ==
  ASSUME NEW t \in Memory, NEW T, NEW e \in Bounds, NEW B \in Nat, Holds(t, T, e, B),
         NEW g \in T, NEW q \in Side, NEW p \in T, NEW s \in Side, NEW n \in T,
         NEW k, NEW new \in Nodes, NEW u, Pivots(t, T, g, q, p, s, n, new, k, u), Paired(t, T)
  PROVE  Paired(u, T \cup {new})
<1>t. p = t.child[q][g] /\ n = t.child[s][p] /\ t.child[Other(s)][p] = NULL
  BY DEF Pivots
<1>u. /\ \A r \in Side : u.child[r][new] = NULL
      /\ \A x \in T, r \in Side :
           u.child[r][x] = IF x = n THEN (IF r = s THEN new ELSE p)
                           ELSE IF x = p THEN NULL
                           ELSE IF x = g /\ r = q THEN n
                           ELSE t.child[r][x]
  BY DEF Pivots
<1>n. new # NULL /\ n # NULL /\ p # NULL
  <2>1. n \in Nodes /\ p \in Nodes  BY LinkedFacts
  <2> QED  BY <2>1 DEF Nodes, NULL
<1>h. t.prev[n] = p /\ t.prev[p] = g /\ n # p /\ g # p
  <2>1. Hangs(t, T, p, s, n)  BY <1>n, <1>t, ParentIs
  <2>2. Hangs(t, T, g, q, p)  BY <1>n, <1>t, ParentIs
  <2> QED  BY <2>1, <2>2 DEF Hangs
<1>1. ASSUME NEW x \in T \cup {new}, NEW r \in Side, NEW c, c = u.child[r][x],
             c # NULL, u.child[Other(r)][x] = NULL
      PROVE  Lone(u, c)
  <2>0. Other(r) \in Side /\ (r # s => Other(r) = s) /\ (r # q => Other(r) = q)  BY Sides
  <2>1. x \in T  BY <1>u, <1>1
  <2>2. x # n /\ x # p
    <3>1. x # p \/ x = n BY <1>u, <1>1, <2>1
    <3>2. x = n => u.child[Other(r)][x] # NULL  BY <1>n, <1>u, <2>0
    <3> QED  BY <1>1, <1>h, <3>1, <3>2
  <2>3. CASE x = g /\ r = q
    <3>1. t.child[Other(q)][g] = NULL
      <4>1. Other(q) # q  BY Sides
      <4> QED  BY <1>u, <1>1, <2>0, <2>1, <2>2, <2>3, <4>1
    <3>2. Lone(t, p)  BY <1>n, <1>t, <3>1, PairedIs
    <3> QED  BY <1>n, <1>t, <3>2 DEF Lone
  <2>4. CASE x = g /\ r # q  BY <1>n, <1>u, <1>1, <2>0, <2>1, <2>2, <2>4
  <2>5. CASE x # g
    <3>1. c = t.child[r][x] /\ t.child[Other(r)][x] = NULL  BY <1>u, <1>1, <2>0, <2>1, <2>2, <2>5
    <3>2. Lone(t, c)  BY <1>1, <2>1, <3>1, PairedIs
    <3>3. Hangs(t, T, x, r, c)  BY <1>1, <2>1, <3>1, ParentIs
    <3>4. c \in T /\ c # n /\ c # p  BY <1>h, <2>2, <2>5, <3>3 DEF Hangs
    <3>5. c # g  BY <1>n, <1>t, <3>2 DEF Lone
    <3> QED  BY <1>u, <3>2, <3>4, <3>5 DEF Lone
  <2> QED  BY <2>3, <2>4, <2>5
<1> QED  BY <1>1 DEF Paired, Lone

KeysOf(t, T) == {t.key[x] : x \in T}

(* u holds k and what t held. *)
Gains(t, T, k, u, B) ==
  \E f \in Bounds :
    LET U == T \cup {t.size + 1}
    IN  /\ Holds(u, U, f, B) /\ KeysOf(u, U) = KeysOf(t, T) \cup {k}
        /\ Paired(t, T) => Paired(u, U)

LEMMA Grown ==
  ASSUME m \in Memory, m.size < MaxNodes, NEW k \in Nat, NEW T, NEW e \in Bounds, NEW B \in Nat,
         Holds(m, T, e, B), Fresh(m), NEW n \in T, Between(e, n, k), Stopped(m, k, n), m.key[n] # k,
         NEW s, s = SideOf(m, n, k), ~LosesNodes(m, n, s),
         NEW a, a = Attach(Allocated(k), n, m.size + 1, s)
  PROVE  /\ a \in Memory /\ a.freed = m.freed /\ Fresh(a) /\ Gains(m, T, k, a, B)
         /\ \A x \in T : a.prev[x] \in Nodes
<1> DEFINE new == m.size + 1
           U == T \cup {new}
           p == m.prev[n]
<1>1. n \in Nodes /\ s \in Side /\ new \in Nodes /\ p \in T
  <2>1. n \in Nodes /\ p \in T  BY LinkedFacts
  <2>2. new \in Nodes  BY MapAssumption DEF Memory, Nodes
  <2> QED  BY <2>1, <2>2, SideFacts
<1>2. m.child[s][n] = NULL  BY DEF Stopped
<1>3. a \in Memory /\ a.freed = m.freed /\ Fresh(a) /\ Attaches(T, n, s, k, a)
  BY <1>1, <1>2, Attached
<1> HIDE DEF p
<1>k. ASSUME \A x \in T : a.key[x] = m.key[x], a.key[new] = k PROVE KeysOf(a, U) = KeysOf(m, T) \cup {k}
  BY <1>k DEF KeysOf
<1>p. \A x \in T : m.prev[x] \in Nodes /\ x \in Nodes
  <2>1. ASSUME NEW x \in T PROVE x \in Nodes  BY LinkedFacts
  <2>2. ASSUME NEW x \in T PROVE m.prev[x] \in T  BY LinkedFacts
  <2> QED  BY <2>1, <2>2
<1>4. CASE AddsLeaf(m, T, n, s, new, k, a) /\ (n # m.head => \A r \in Side : m.child[r][p] # NULL)
  <2>1. PICK f \in Bounds : Holds(a, U, f, B)  BY <1>1, <1>2, <1>3, <1>4, LeafAdded
  <2>2. Paired(m, T) => Paired(a, U)  BY <1>1, <1>4, AddsLeafPaired DEF p
  <2>3. (\A x \in T : a.key[x] = m.key[x] /\ a.prev[x] = m.prev[x]) /\ a.key[new] = k
    BY <1>4 DEF AddsLeaf
  <2>4. KeysOf(a, U) = KeysOf(m, T) \cup {k}  BY <1>k, <2>3
  <2>5. Gains(m, T, k, a, B)  BY <2>1, <2>2, <2>4 DEF Gains
  <2> QED  BY <1>3, <1>p, <2>3, <2>5
<1>5. ASSUME NEW g \in T, NEW q \in Side, Pivots(m, T, g, q, p, s, n, new, k, a)
      PROVE  Gains(m, T, k, a, B) /\ \A x \in T : a.prev[x] \in Nodes
  <2>1. PICK f \in Bounds : Holds(a, U, f, B)  BY <1>1, <1>3, <1>5, Pivoted
  <2>2. Paired(m, T) => Paired(a, U)  BY <1>1, <1>5, PivotsPaired
  <2>3. (\A x \in T : a.key[x] = m.key[x]) /\ a.key[new] = k
    BY <1>5 DEF Pivots
  <2>4. KeysOf(a, U) = KeysOf(m, T) \cup {k}  BY <1>k, <2>3
  <2>5. Gains(m, T, k, a, B)  BY <2>1, <2>2, <2>4 DEF Gains
  <2>6. \A x \in T : a.prev[x] = IF x = p THEN n ELSE IF x = n THEN g ELSE m.prev[x]
    BY <1>5 DEF Pivots
  <2>7. \A x \in T : a.prev[x] \in Nodes  BY <1>p, <2>6
  <2> QED  BY <2>5, <2>7
<1> QED  BY <1>3, <1>4, <1>5 DEF Attaches, p
-----------------------------------------------------------------------------
(* The map as long as no call was one of those that lose keys.             *)

InTree(t, ks) ==
  \E T \in SUBSET Nodes, e \in Bounds, B \in Nat :
    Holds(t, T, e, B) /\ ks = KeysOf(t, T) /\ (t.freed = {} => Paired(t, T))

(* t is a map of the keys ks. *)
IsMap(t, ks) ==
  /\ t \in Memory /\ Fresh(t)
  /\ IF t.head = NULL THEN ks = {} ELSE InTree(t, ks)

LEMMA HeadIsNode ==
  ASSUME NEW t, NEW ks, t \in Memory, InTree(t, ks)
  PROVE  t.head # NULL
<1>1. PICK T \in SUBSET Nodes, e \in Bounds, B \in Nat : Holds(t, T, e, B)  BY DEF InTree
<1>2. t.head \in T  BY <1>1 DEF Holds, Shape, Frame
<1> QED  BY <1>2 DEF Nodes, NULL

LEMMA IsMapRecolored ==
  ASSUME NEW t, NEW ks, IsMap(t, ks), t.head # NULL, NEW a, Recolored(t, a)
  PROVE  IsMap(a, ks)
<1>1. t \in Memory /\ Fresh(t) /\ InTree(t, ks)  BY DEF IsMap
<1>2. /\ a \in Memory /\ a.head = t.head /\ a.size = t.size /\ a.key = t.key
      /\ a.child = t.child /\ a.prev = t.prev /\ a.freed = t.freed
  BY <1>1, RecoloredFacts
<1>3. PICK T \in SUBSET Nodes, e \in Bounds, B \in Nat :
        Holds(t, T, e, B) /\ ks = KeysOf(t, T) /\ (t.freed = {} => Paired(t, T))
  BY <1>1 DEF InTree
<1>4. Holds(a, T, e, B)  BY <1>1, <1>3, HoldsRecolored
<1>5. ks = KeysOf(a, T) /\ (a.freed = {} => Paired(a, T))  BY <1>2, <1>3 DEF KeysOf, Paired
<1>6. InTree(a, ks)  BY <1>4, <1>5 DEF InTree
<1>7. Fresh(a)  BY <1>1, <1>2 DEF Fresh
<1> QED  BY <1>2, <1>6, <1>7 DEF IsMap

(* What a search in a map finds. *)
LEMMA Looked ==
  ASSUME NEW ks, IsMap(m, ks), m.head # NULL, NEW k \in Nat
  PROVE  LET n == Last(Path(m, k))
         IN  /\ n \in Nodes /\ (k \in ks <=> m.key[n] = k)
             /\ find(m, k) = IF m.key[n] = k THEN n ELSE NULL
<1> DEFINE n == Last(Path(m, k))
<1>1. m \in Memory /\ InTree(m, ks)  BY DEF IsMap
<1>2. PICK T \in SUBSET Nodes, e \in Bounds, B \in Nat : Holds(m, T, e, B) /\ ks = KeysOf(m, T)
  BY <1>1 DEF InTree
<1>3. PICK f \in Bounds, C \in Nat : Holds(m, T, f, C) /\ Ends(m, T, f, k, Path(m, k), n)
  BY <1>1, <1>2, Searched
<1> HIDE DEF n
<1>4. n \in T /\ Between(f, n, k) /\ Stopped(m, k, n)  BY <1>3 DEF Ends
<1>5. n \in Nodes /\ n # NULL  BY <1>2, <1>4 DEF Nodes, NULL
<1>6. ASSUME m.key[n] = k PROVE k \in ks  BY <1>2, <1>4, <1>6 DEF KeysOf
<1>7. ASSUME m.key[n] # k PROVE k \notin ks
  <2>1. \A z \in T : m.key[z] # k  BY <1>1, <1>3, <1>4, <1>7, NotThere DEF Holds
  <2> QED  BY <1>2, <2>1 DEF KeysOf
<1>8. find(m, k) = IF m.key[n] = k THEN n ELSE NULL  BY <1>5 DEF find, n
<1> QED  BY <1>5, <1>6, <1>7, <1>8 DEF n

(* The map's first node. *)
Begins(k, u) ==
  LET new == m.size + 1
  IN  /\ u \in Memory /\ u.head = new /\ u.size = new /\ u.child = m.child
      /\ u.key[new] = k /\ u.prev[new] = new

LEMMA BeginsMap ==
  ASSUME m \in Memory, Fresh(m), m.size < MaxNodes, NEW k \in Nat, NEW u, Begins(k, u)
  PROVE  IsMap(u, {k})
<1> DEFINE new == m.size + 1
           T == {new}
           B == k + 1
           e == [s \in Side |-> [x \in Nodes |-> IF s = "left" THEN -1 ELSE B]]
<1>1. new \in Nodes /\ m.size \in Nat /\ new # NULL  BY MapAssumption DEF Memory, Nodes, NULL
<1>2. /\ u \in Memory /\ u.head = new /\ u.size = new /\ u.child = m.child
      /\ u.key[new] = k /\ u.prev[new] = new
  BY DEF Begins
<1>3. \A r \in Side : u.child[r][new] = NULL  BY <1>1, <1>2 DEF Fresh
<1>4. Fresh(u)
  <2> SUFFICES ASSUME NEW x \in Nodes, NEW r \in Side, x > u.size PROVE u.child[r][x] = NULL  BY DEF Fresh
  <2>1. x > m.size  BY <1>1, <1>2, MapAssumption DEF Nodes
  <2> QED  BY <1>2, <2>1 DEF Fresh
<1>5. e \in Bounds /\ B \in Nat /\ T \in SUBSET Nodes  BY <1>1 DEF Bounds
<1>6. e["left"][new] = -1 /\ e["right"][new] = B  BY <1>1, Sides
<1> HIDE DEF e
<1>7. Frame(u, T, e, B)
  <2>1. T \subseteq 1 .. u.size /\ u.head \in T  BY <1>1, <1>2
  <2>2. e["left"][u.head] = -1 /\ e["right"][u.head] = B  BY <1>2, <1>6
  <2>3. Between(e, new, u.key[new]) /\ -1 <= e["left"][new] /\ e["right"][new] <= B
    BY <1>2, <1>6 DEF Between
  <2> QED  BY <1>3, <2>1, <2>2, <2>3 DEF Frame
<1>8. Holds(u, T, e, B)  BY <1>2, <1>3, <1>7 DEF Holds, Shape, Linked
<1>9. KeysOf(u, T) = {k}  BY <1>2 DEF KeysOf
<1>10. Paired(u, T)  BY <1>3 DEF Paired
<1>11. InTree(u, {k})  BY <1>5, <1>8, <1>9, <1>10 DEF InTree
<1> QED  BY <1>1, <1>2, <1>4, <1>11 DEF IsMap

LEMMA InsertBelowKeeps ==
  ASSUME NEW ks, IsMap(m, ks), m.head # NULL, m.size < MaxNodes, NEW k \in Nat,
         InsertBelowHead(k), intact'
  PROVE  IsMap(m', ks \cup {k})
<1> DEFINE p == Path(m, k)
           n == Last(p)
           s == SideOf(m, n, k)
           a == Turned(k)
<1>1. m \in Memory /\ Fresh(m) /\ InTree(m, ks)  BY DEF IsMap
<1>2. IF m.key[n] = k THEN UNCHANGED <<m, status, intact>>
      ELSE m' = WayBack(k)[Len(p) - 1] /\ intact' = (intact /\ ~LosesNodes(m, n, s))
  BY InsertIs
<1>3. CASE m.key[n] = k
  <2>1. k \in ks  BY <1>3, Looked
  <2>2. ks \cup {k} = ks /\ m' = m  BY <1>2, <1>3, <2>1
  <2> QED  BY <2>2
<1>4. CASE m.key[n] # k
  <2>1. PICK T \in SUBSET Nodes, e \in Bounds, B \in Nat :
          Holds(m, T, e, B) /\ ks = KeysOf(m, T) /\ (m.freed = {} => Paired(m, T))
    BY <1>1 DEF InTree
  <2>2. PICK f \in Bounds, C \in Nat : Holds(m, T, f, C) /\ Ends(m, T, f, k, p, n)
    BY <1>1, <2>1, Searched
  <2>3. ~LosesNodes(m, n, s)  BY <1>2, <1>4
  <2>4. m' = (CHOOSE g : IsDone(p, a, g))[Len(p) - 1]  BY <1>2, <1>4 DEF WayBack
  <2>5. a = Attach(Allocated(k), n, m.size + 1, s) /\ s = SideOf(m, n, k)  BY DEF Turned
  <2> HIDE DEF p, n, s, a
  <2>h. Holds(m, T, f, C) /\ n \in T /\ Between(f, n, k) /\ Stopped(m, k, n)  BY <2>2 DEF Ends
  <2>6. p \in Seq(T) /\ p \in Seq(Nodes) /\ p # << >>  BY <2>2 DEF Ends
  <2>7. /\ a \in Memory /\ a.freed = m.freed /\ Fresh(a) /\ Gains(m, T, k, a, C)
        /\ \A x \in T : a.prev[x] \in Nodes
    BY <1>1, <1>4, <2>3, <2>5, <2>h, Grown
  <2>8. m.size + 1 \in Nodes  BY <1>1, MapAssumption DEF Memory, Nodes
  <2>9. IsMap(a, ks \cup {k}) /\ a.head # NULL
    <3> DEFINE U == T \cup {m.size + 1}
    <3>1. PICK h \in Bounds : /\ Holds(a, U, h, C) /\ KeysOf(a, U) = KeysOf(m, T) \cup {k}
                              /\ Paired(m, T) => Paired(a, U)
      BY <2>7 DEF Gains
    <3>2. U \in SUBSET Nodes  BY <2>8
    <3>3. InTree(a, ks \cup {k})  BY <2>1, <2>7, <3>1, <3>2 DEF InTree
    <3>4. a.head # NULL  BY <2>7, <3>3, HeadIsNode
    <3> QED  BY <2>7, <3>3, <3>4 DEF IsMap
  <2>10. Recolored(a, m')
    <3>1. \A i \in 1 .. Len(p) : a.prev[p[i]] \in Nodes  BY <2>6, <2>7
    <3>2. Len(p) - 1 \in 0 .. Len(p) - 1  BY <2>6
    <3> QED  BY <2>4, <2>6, <2>7, <3>1, <3>2, UnwoundAll
  <2> QED  BY <2>9, <2>10, IsMapRecolored
<1> QED  BY <1>3, <1>4
-----------------------------------------------------------------------------
(* Erasure of one node, of a map none of whose keys were lost.             *)

IsOut(n, s, f) ==
  f = [j \in 0 .. MaxNodes |->
         IF j = 0 THEN n
         ELSE LET x == f[j - 1] IN IF m.child[s][x] = NULL THEN x ELSE m.child[s][x]]

LEMMA OutmostOfLeaf ==
  ASSUME NEW n, NEW s, m.child[s][n] = NULL
  PROVE  Outmost(n, s) = n
<1>0. MaxNodes \in Nat  BY MapAssumption
<1> DEFINE f == [j \in 0 .. MaxNodes |-> n]
           g == CHOOSE h : IsOut(n, s, h)
<1>1. IsOut(n, s, f)
  <2> DEFINE F == [j \in 0 .. MaxNodes |->
                     IF j = 0 THEN n
                     ELSE LET x == f[j - 1] IN IF m.child[s][x] = NULL THEN x ELSE m.child[s][x]]
  <2>1. ASSUME NEW j \in 0 .. MaxNodes PROVE F[j] = n
    <3>1. j # 0 => j - 1 \in 0 .. MaxNodes  BY <1>0
    <3>2. j # 0 => f[j - 1] = n  BY <3>1
    <3> QED  BY <3>2
  <2>2. F = f
    <3> HIDE DEF F
    <3>1. F = [j \in 0 .. MaxNodes |-> F[j]]  BY DEF F
    <3> QED  BY <2>1, <3>1
  <2> QED  BY <2>2 DEF IsOut
<1>2. IsOut(n, s, g)  BY <1>1
<1>3. Outmost(n, s) = g[MaxNodes]  BY DEF Outmost, IsOut
<1> HIDE DEF g, f
<1> DEFINE S == {j \in 0 .. MaxNodes : g[j] = n}
<1>4. 0 \in S  BY <1>0, <1>2 DEF IsOut
<1>5. ASSUME NEW j \in 1 .. MaxNodes, j - 1 \in S PROVE j \in S
  <2>1. j \in 0 .. MaxNodes /\ j # 0  BY <1>0
  <2>2. g[j] = LET x == g[j - 1] IN IF m.child[s][x] = NULL THEN x ELSE m.child[s][x]
    BY <1>2, <2>1 DEF IsOut
  <2>3. g[j] = n  BY <1>5, <2>2
  <2> QED  BY <2>1, <2>3
<1>6. 0 .. MaxNodes \subseteq S
  <2> HIDE DEF S
  <2> QED  BY <1>0, <1>4, <1>5, Throughout
<1>7. MaxNodes \in S  BY <1>0, <1>6
<1> QED  BY <1>3, <1>7

(* Erased takes out n, a red leaf. *)
LEMMA RedLeafErased ==
  ASSUME m \in Memory, NEW T, NEW e \in Bounds, NEW B \in Nat, Holds(m, T, e, B),
         NEW n \in T, ~IsRoot(m, n), RedLeaf(n)
  PROVE  /\ Erased(n) \in Memory /\ Erased(n).freed = m.freed \cup {n}
         /\ \E p \in T, s \in Side : DropsLeaf(m, T, p, s, n, Erased(n))
         /\ Fresh(m) => Fresh(Erased(n))
<1> DEFINE p == m.prev[n]
           held == {s \in Side : m.child[s][p] = n}
           s == IF "left" \in held THEN "left" ELSE "right"
           u == Erased(n)
<1>1. n \in Nodes /\ p \in T /\ p \in Nodes /\ n # m.head
  <2>1. n \in Nodes /\ p \in T /\ n # m.head  BY LinkedFacts
  <2>2. p \in Nodes  BY <2>1, LinkedFacts
  <2> QED  BY <2>1, <2>2
<1>2. \E r \in Side : m.child[r][p] = n  BY <1>1, LinkedFacts
<1>3. s \in Side /\ s \in held /\ held # {}  BY <1>2, Sides
<1>4. n \in m.red /\ Left(n) = NULL /\ Right(n) = NULL  BY DEF RedLeaf
<1>5. u = IF held = {} THEN Deleted(n) ELSE [Deleted(n) EXCEPT !.child[s][p] = Right(n)]
  <2>1. successor(n) = NULL  BY <1>4 DEF successor
  <2> QED  BY <1>4, <2>1 DEF Erased
<1>6. \A r \in Side : m.child[r][n] = NULL  BY <1>4, Sides DEF Left, Right
<1>7. n = m.child[s][p]  BY <1>3
<1> HIDE DEF s, held, u, p
<1>8. u = [[m EXCEPT !.freed = @ \cup {n}] EXCEPT !.child[s][p] = NULL]
  BY <1>3, <1>4, <1>5 DEF Deleted
<1>9. /\ u.head = m.head /\ u.size = m.size /\ u.key = m.key /\ u.prev = m.prev
      /\ u.freed = m.freed \cup {n} /\ u.red = m.red
      /\ u.child = [m.child EXCEPT ![s][p] = NULL]
  BY <1>8 DEF Memory
<1>10. u.child \in [Side -> [Nodes -> 0 .. MaxNodes]]
  <2>1. NULL \in 0 .. MaxNodes  BY MapAssumption DEF NULL
  <2> QED  BY <1>1, <1>3, <1>9, <2>1 DEF Memory
<1>11. u \in Memory
  <2>1. m.freed \cup {n} \in SUBSET Nodes  BY <1>1 DEF Memory
  <2> QED  BY <1>8, <1>9, <1>10, <2>1 DEF Memory
<1>12. \A y \in T, r \in Side : u.child[r][y] = IF y = p /\ r = s THEN NULL ELSE m.child[r][y]
  <2>1. ASSUME NEW y \in T PROVE y \in Nodes  BY LinkedFacts
  <2> QED  BY <1>1, <1>9, <2>1 DEF Memory
<1>13. DropsLeaf(m, T, p, s, n, u)  BY <1>6, <1>7, <1>9, <1>12 DEF DropsLeaf
<1>14. Fresh(m) => Fresh(u)
  <2>1. \A y \in Nodes, r \in Side : u.child[r][y] = NULL \/ u.child[r][y] = m.child[r][y]
    BY <1>9 DEF Memory
  <2> QED  BY <1>9, <2>1 DEF Fresh
<1> QED  BY <1>1, <1>3, <1>9, <1>11, <1>13, <1>14 DEF u

(* Erased moves the key of n's left child x, a red leaf, to n. *)
LEMMA BlackErased ==
  ASSUME m \in Memory, NEW T, NEW e \in Bounds, NEW B \in Nat, Holds(m, T, e, B),
         NEW n \in T, ~IsRoot(m, n), n \notin m.red, NEW x, x = Left(n), x # NULL, RedLeaf(x)
  PROVE  /\ Erased(n) \in Memory /\ Erased(n).freed = m.freed \cup {x}
         /\ x \in T /\ MovesUp(m, T, n, x, Erased(n))
         /\ Fresh(m) => Fresh(Erased(n))
<1> DEFINE u == Erased(n)
<1>1. n \in Nodes /\ x \in T /\ x \in Nodes /\ x = m.child["left"][n]
  <2>1. n \in Nodes /\ "left" \in Side /\ x = m.child["left"][n]  BY LinkedFacts, Sides DEF Left
  <2>2. Hangs(m, T, n, "left", x)  BY <2>1, ParentIs
  <2>3. x \in T  BY <2>2 DEF Hangs
  <2>4. x \in Nodes  BY <2>3, LinkedFacts
  <2> QED  BY <2>1, <2>3, <2>4
<1>2. x \in m.red /\ Left(x) = NULL /\ Right(x) = NULL  BY DEF RedLeaf
<1>3. successor(n) = x
  <2>1. Outmost(x, "right") = x  BY <1>2, OutmostOfLeaf DEF Right
  <2> QED  BY <2>1 DEF successor
<1>4. u = Replaced(n, x, "left")  BY <1>2, <1>3 DEF Erased
<1> HIDE DEF u
<1>5. u = [m EXCEPT !.key[n] = m.key[x], !.child["left"][n] = NULL, !.freed = @ \cup {x}]
  BY <1>2, <1>4 DEF Replaced
<1>6. /\ u.head = m.head /\ u.size = m.size /\ u.prev = m.prev /\ u.red = m.red
      /\ u.freed = m.freed \cup {x} /\ u.key = [m.key EXCEPT ![n] = m.key[x]]
      /\ u.child = [m.child EXCEPT !["left"][n] = NULL]
  BY <1>5 DEF Memory
<1>7. u.child \in [Side -> [Nodes -> 0 .. MaxNodes]] /\ u.key \in [Nodes -> Nat]
  <2>1. NULL \in 0 .. MaxNodes  BY MapAssumption DEF NULL
  <2> QED  BY <1>1, <1>6, <2>1, Sides DEF Memory
<1>8. u \in Memory
  <2>1. m.freed \cup {x} \in SUBSET Nodes  BY <1>1 DEF Memory
  <2> QED  BY <1>5, <1>6, <1>7, <2>1 DEF Memory
<1>9. ASSUME NEW y \in T PROVE y \in Nodes  BY LinkedFacts
<1>10. /\ \A y \in T : u.key[y] = IF y = n THEN m.key[x] ELSE m.key[y]
       /\ \A y \in T, r \in Side : u.child[r][y] = IF y = n /\ r = "left" THEN NULL ELSE m.child[r][y]
  BY <1>1, <1>6, <1>9, Sides DEF Memory
<1>11. \A r \in Side : m.child[r][x] = NULL  BY <1>2, Sides DEF Left, Right
<1>12. MovesUp(m, T, n, x, u)  BY <1>1, <1>6, <1>10, <1>11 DEF MovesUp
<1>13. Fresh(m) => Fresh(u)
  <2>1. \A y \in Nodes, r \in Side : u.child[r][y] = NULL \/ u.child[r][y] = m.child[r][y]
    BY <1>6, Sides DEF Memory
  <2> QED  BY <1>6, <2>1 DEF Fresh
<1> QED  BY <1>1, <1>6, <1>8, <1>12, <1>13 DEF u

LEMMA ErasedKeeps ==
  ASSUME NEW ks, IsMap(m, ks), m.head # NULL, NEW n \in Nodes, NEW k \in Nat,
         n = Last(Path(m, k)), m.key[n] = k, Erasable(n)
  PROVE  IsMap(Erased(n), ks \ {k})
<1> DEFINE u == Erased(n)
<1>1. m \in Memory /\ Fresh(m) /\ InTree(m, ks)  BY DEF IsMap
<1>2. PICK T \in SUBSET Nodes, e \in Bounds, B \in Nat : Holds(m, T, e, B) /\ ks = KeysOf(m, T)
  BY <1>1 DEF InTree
<1>3. n \in T
  <2>1. PICK f \in Bounds, C \in Nat : Ends(m, T, f, k, Path(m, k), n)
    BY <1>1, <1>2, Searched
  <2> QED  BY <2>1 DEF Ends
<1>4. ASSUME NEW y \in T, NEW z \in T, m.key[y] = m.key[z] PROVE y = z
  BY <1>1, <1>2, <1>4, KeysDiffer DEF Holds
<1>5. ASSUME u \in Memory, InTree(u, ks \ {k}), Fresh(u)
      PROVE  IsMap(u, ks \ {k})
  <2> HIDE DEF u
  <2>1. u.head # NULL  BY <1>5, HeadIsNode
  <2> QED  BY <1>5, <2>1 DEF IsMap
<1>s. \A x : T \ {x} \in SUBSET Nodes  OBVIOUS
<1>6. CASE RedLeaf(n)
  <2>1. /\ u \in Memory /\ u.freed = m.freed \cup {n} /\ Fresh(u)
        /\ \E p \in T, s \in Side : DropsLeaf(m, T, p, s, n, u)
    BY <1>1, <1>2, <1>3, <1>6, RedLeafErased DEF Erasable
  <2> HIDE DEF u
  <2>2. PICK p \in T, s \in Side : DropsLeaf(m, T, p, s, n, u)  BY <2>1
  <2>3. Holds(u, T \ {n}, e, B)  BY <1>1, <1>2, <1>3, <2>1, <2>2, LeafDropped
  <2>4. u.key = m.key  BY <2>2 DEF DropsLeaf
  <2>5. KeysOf(u, T \ {n}) = ks \ {k}
    <3>1. \A y \in T : m.key[y] = k <=> y = n  BY <1>3, <1>4
    <3> QED  BY <1>2, <1>3, <2>4, <3>1 DEF KeysOf
  <2>6. u.freed # {}  BY <2>1
  <2>7. InTree(u, ks \ {k})  BY <1>s, <2>3, <2>5, <2>6 DEF InTree
  <2> QED  BY <1>5, <2>1, <2>7 DEF u
<1>7. CASE ~RedLeaf(n)
  <2> DEFINE x == Left(n)
  <2>1. ~IsRoot(m, n) /\ n \notin m.red /\ x # NULL /\ RedLeaf(x)  BY <1>7 DEF Erasable
  <2>2. /\ u \in Memory /\ u.freed = m.freed \cup {x}
        /\ x \in T /\ MovesUp(m, T, n, x, u) /\ Fresh(u)
    BY <1>1, <1>2, <1>3, <2>1, BlackErased
  <2>3. u.freed # {}  BY <2>2
  <2> HIDE DEF u, x
  <2>4. PICK f \in Bounds : Holds(u, T \ {x}, f, B)  BY <1>1, <1>2, <1>3, <2>2, LeafMovedUp
  <2>5. /\ \A y \in T : u.key[y] = IF y = n THEN m.key[x] ELSE m.key[y]
    BY <2>2 DEF MovesUp
  <2>6. x # n
    <3>1. x = m.child["left"][n]  BY DEF x, Left
    <3>2. Hangs(m, T, n, "left", x)  BY <1>1, <1>2, <1>3, <2>1, <3>1, Sides, ParentIs
    <3> QED  BY <3>2 DEF Hangs
  <2>7. KeysOf(u, T \ {x}) = ks \ {k}
    <3>1. \A y \in T : m.key[y] = k <=> y = n  BY <1>3, <1>4
    <3>2. ASSUME NEW y \in T \ {x} PROVE u.key[y] \in ks \ {k}
      <4>1. CASE y = n
        <5>1. u.key[y] = m.key[x] /\ m.key[x] # k  BY <2>2, <2>5, <2>6, <3>1, <4>1
        <5> QED  BY <1>2, <2>2, <5>1 DEF KeysOf
      <4>2. CASE y # n
        <5>1. u.key[y] = m.key[y] /\ m.key[y] # k  BY <2>5, <3>1, <4>2
        <5> QED  BY <1>2, <5>1 DEF KeysOf
      <4> QED  BY <4>1, <4>2
    <3>3. ASSUME NEW j \in ks \ {k} PROVE \E y \in T \ {x} : u.key[y] = j
      <4>1. PICK y \in T : m.key[y] = j  BY <1>2 DEF KeysOf
      <4>2. y # n  BY <3>1, <4>1
      <4>3. CASE y = x  BY <1>3, <2>5, <2>6, <4>1, <4>3
      <4>4. CASE y # x  BY <2>5, <4>1, <4>2, <4>4
      <4> QED  BY <4>3, <4>4
    <3> QED  BY <3>2, <3>3 DEF KeysOf
  <2>8. InTree(u, ks \ {k})  BY <1>s, <2>3, <2>4, <2>7 DEF InTree
  <2> QED  BY <1>5, <2>2, <2>8 DEF u
<1> QED  BY <1>6, <1>7
-----------------------------------------------------------------------------
(* The invariant: while no keys were lost, the map holds those asked for.  *)

MapInv == status = "ok" /\ intact => IsMap(m, keys)

LEMMA MapInvInit ==
  ASSUME Init
  PROVE  MapInv
<1>1. MaxNodes \in Nat  BY MapAssumption
<1>2. /\ m.head = NULL /\ m.child = [s \in Side |-> [n \in Nodes |-> NULL]] /\ keys = {}
  BY DEF Init
<1>3. m \in Memory  BY <1>1 DEF Init, Memory, NULL
<1>4. Fresh(m)  BY <1>2 DEF Fresh
<1> QED  BY <1>2, <1>3, <1>4 DEF MapInv, IsMap

LEMMA InsertKeeps ==
  ASSUME MapInv, NEW k \in Keys, insert(k) \/ index(k)
  PROVE  MapInv'
<1> SUFFICES ASSUME intact' PROVE IsMap(m', keys')  BY DEF MapInv
<1>1. /\ status = "ok" /\ m.size < MaxNodes /\ Asked(keys \cup {k})
  BY DEF insert, index
<1>2. keys' = keys \cup {k}  BY <1>1 DEF Asked
<1>3. k \in Nat  BY MapAssumption
<1>4. CASE m.head # NULL /\ InsertBelowHead(k)
  <2>1. intact  BY <1>4, InsertIs
  <2>2. IsMap(m, keys)  BY <1>1, <2>1 DEF MapInv
  <2> QED  BY <1>1, <1>2, <1>3, <1>4, <2>2, InsertBelowKeeps
<1>5. CASE m.head # NULL /\ UNCHANGED <<m, status, intact>> /\ find(m, k) # NULL
  <2>1. IsMap(m, keys)  BY <1>1, <1>5 DEF MapInv
  <2>2. k \in keys  BY <1>3, <1>5, <2>1, Looked
  <2>3. keys' = keys /\ m' = m  BY <1>2, <1>5, <2>2
  <2> QED  BY <2>1, <2>3
<1>6. CASE m.head = NULL
  <2>1. intact /\ \E R \in SUBSET Nodes :
          m' = [Allocated(k) EXCEPT !.head = m.size + 1, !.prev[m.size + 1] = m.size + 1, !.red = R]
    <3>1. intact /\ m \in Memory
      <4>1. intact  BY <1>6 DEF insert, index
      <4> QED  BY <1>1, <4>1 DEF MapInv, IsMap
    <3>2. m.red \in SUBSET Nodes /\ m.red \cup {m.size + 1} \in SUBSET Nodes
      BY <1>1, <3>1, MapAssumption DEF Memory, Nodes
    <3>3. CASE insert(k)
      <4>1. m' = [Allocated(k) EXCEPT !.head = m.size + 1, !.prev[m.size + 1] = m.size + 1]
        BY <1>6, <3>3 DEF insert
      <4>2. m' = [Allocated(k) EXCEPT !.head = m.size + 1, !.prev[m.size + 1] = m.size + 1,
                                      !.red = m.red]
        BY <3>1, <4>1 DEF Allocated, Memory
      <4> QED  BY <3>1, <3>2, <4>2
    <3>4. CASE index(k)
      <4>1. m' = [Allocated(k) EXCEPT !.head = m.size + 1, !.prev[m.size + 1] = m.size + 1,
                                      !.red = m.red \cup {m.size + 1}]
        BY <1>6, <3>4 DEF index, Allocated
      <4> QED  BY <3>1, <3>2, <4>1
    <3> QED  BY <3>3, <3>4
  <2>2. IsMap(m, keys)  BY <1>1, <2>1 DEF MapInv
  <2>3. m \in Memory /\ Fresh(m) /\ keys = {}  BY <1>6, <2>2 DEF IsMap
  <2>4. PICK R \in SUBSET Nodes :
          m' = [Allocated(k) EXCEPT !.head = m.size + 1, !.prev[m.size + 1] = m.size + 1, !.red = R]
    BY <2>1
  <2>5. Begins(k, m')
    <3>1. m.size + 1 \in Nodes /\ m.size + 1 \in 0 .. MaxNodes
      BY <1>1, <2>3, MapAssumption DEF Memory, Nodes
    <3> QED  BY <1>3, <2>3, <2>4, <3>1 DEF Begins, Allocated, Memory
  <2>6. IsMap(m', {k})  BY <1>1, <1>3, <2>3, <2>5, BeginsMap
  <2> QED  BY <1>2, <2>3, <2>6
<1> QED  BY <1>4, <1>5, <1>6 DEF insert, index

LEMMA EraseKeeps ==
  ASSUME MapInv, NEW k \in Keys, erase(k)
  PROVE  MapInv'
<1> SUFFICES ASSUME status' = "ok", intact' PROVE IsMap(m', keys')  BY DEF MapInv
<1> DEFINE n == find(m, k)
<1>1. status = "ok" /\ keys' = keys \ {k} /\ k \in Nat /\ m.head # NULL /\ intact
  BY MapAssumption DEF erase, Asked
<1>2. IsMap(m, keys)  BY <1>1 DEF MapInv
<1>3. CASE n = NULL
  <2>1. m' = m  BY <1>1, <1>3 DEF erase
  <2>2. k \notin keys
    <3>1. Last(Path(m, k)) # NULL  BY <1>1, <1>2, Looked DEF Nodes, NULL
    <3> QED  BY <1>1, <1>2, <1>3, <3>1, Looked
  <2> QED  BY <1>1, <1>2, <2>1, <2>2
<1>4. CASE n # NULL
  <2>1. m' = Erased(n) /\ Erasable(n)  BY <1>1, <1>4 DEF erase
  <2>2. n = Last(Path(m, k)) /\ m.key[n] = k /\ n \in Nodes  BY <1>1, <1>2, <1>4, Looked
  <2> HIDE DEF n
  <2>3. IsMap(Erased(n), keys \ {k})  BY <1>1, <1>2, <2>1, <2>2, ErasedKeeps
  <2> QED  BY <1>1, <2>1, <2>3
<1> QED  BY <1>3, <1>4

(* Through any calls, MapInv holds. *)
THEOREM MapIsKept == Spec => []MapInv
<1>1. Init => MapInv  BY MapInvInit
<1>2. MapInv /\ [Next]_vars => MapInv'
  <2> SUFFICES ASSUME MapInv, [Next]_vars PROVE MapInv'  OBVIOUS
  <2>1. CASE UNCHANGED vars  BY <2>1 DEF vars, MapInv
  <2>2. CASE Next  BY <2>2, InsertKeeps, EraseKeeps DEF Next
  <2> QED  BY <2>1, <2>2
<1> QED  BY <1>1, <1>2, PTL DEF Spec

(* As long as no call was one of those that lose keys, the keys of the     *)
(* nodes that head leads to are those asked for, and parents are right.    *)
THEOREM MapHoldsItsKeys == Spec => []HoldsItsKeys
<1>1. MapInv => HoldsItsKeys
  <2> SUFFICES ASSUME IsMap(m, keys)
               PROVE  /\ {m.key[n] : n \in Tree} = keys
                      /\ \A n \in Tree, s \in Side :
                           m.child[s][n] # NULL => m.prev[m.child[s][n]] = n
    BY DEF MapInv, HoldsItsKeys
  <2>1. m \in Memory  BY DEF IsMap
  <2>2. CASE m.head = NULL
    <3>1. Tree = {}  BY <2>1, <2>2, BelowFacts DEF Tree
    <3> QED  BY <2>2, <3>1 DEF IsMap
  <2>3. CASE m.head # NULL
    <3>1. InTree(m, keys)  BY <2>3 DEF IsMap
    <3>2. PICK T \in SUBSET Nodes, e \in Bounds, B \in Nat : Holds(m, T, e, B) /\ keys = KeysOf(m, T)
      BY <3>1 DEF InTree
    <3>3. Tree = T  BY <2>1, <3>2, TreeIsT DEF Holds
    <3> QED  BY <3>2, <3>3 DEF KeysOf, Holds, Linked
  <2> QED  BY <2>2, <2>3
<1> QED  BY <1>1, MapIsKept, PTL
-----------------------------------------------------------------------------
(* The uncles on the way back.                                             *)

Full(t, y) == \A r \in Side : t.child[r][y] # NULL

(* Below a node with two children on the way to n, there are two still. *)
Spares(T, n, a) ==
  /\ a \in Memory /\ a.head = m.head
  /\ \A x \in T :
       /\ a.prev[x] \in Nodes
       /\ x # n /\ x # m.head /\ Full(m, m.prev[x]) => Full(a, a.prev[x])

LEMMA ParentFull ==
  ASSUME NEW t \in Memory, NEW T, NEW e \in Bounds, NEW B \in Nat, Holds(t, T, e, B), Paired(t, T),
         NEW x \in T, x # t.head, NEW w \in Side, t.child[w][x] # NULL
  PROVE  Full(t, t.prev[x])
<1>1. x \in Nodes /\ t.prev[x] \in T  BY LinkedFacts
<1>2. PICK s \in Side : t.child[s][t.prev[x]] = x  BY LinkedFacts
<1>3. x # NULL  BY <1>1 DEF Nodes, NULL
<1>4. t.child[Other(s)][t.prev[x]] # NULL
  <2> SUFFICES ASSUME t.child[Other(s)][t.prev[x]] = NULL PROVE FALSE  OBVIOUS
  <2>1. Lone(t, x)  BY <1>1, <1>2, <1>3, PairedIs
  <2> QED  BY <2>1 DEF Lone
<1> QED  BY <1>2, <1>3, <1>4, Sides DEF Full

LEMMA SparedWhenKept ==
  ASSUME m \in Memory, m.size < MaxNodes, NEW k \in Nat, NEW T, NEW e \in Bounds, NEW B \in Nat,
         Holds(m, T, e, B), NEW n \in T, NEW s \in Side, m.child[s][n] = NULL,
         NEW a, a \in Memory, Attaches(T, n, s, k, a)
  PROVE  Spares(T, n, a)
<1> DEFINE new == m.size + 1
           p == m.prev[n]
<1>1. \A x \in T : x \in Nodes /\ m.prev[x] \in T /\ m.prev[x] \in Nodes /\ x # NULL
  <2>1. ASSUME NEW x \in T PROVE x \in Nodes /\ m.prev[x] \in T  BY LinkedFacts
  <2> QED  BY <2>1 DEF Nodes, NULL
<1>2. new \in Nodes /\ new # NULL
  <2>1. m.size \in Nat /\ MaxNodes \in Nat  BY MapAssumption DEF Memory
  <2> QED  BY <2>1 DEF Nodes, NULL
<1>3. CASE AddsLeaf(m, T, n, s, new, k, a)
  <2>1. /\ a.head = m.head /\ \A x \in T : a.prev[x] = m.prev[x]
        /\ \A x \in T, r \in Side : a.child[r][x] = IF x = n /\ r = s THEN new ELSE m.child[r][x]
    BY <1>3 DEF AddsLeaf
  <2>2. ASSUME NEW y \in T, Full(m, y) PROVE Full(a, y)  BY <1>2, <2>1, <2>2 DEF Full
  <2> QED  BY <1>1, <2>1, <2>2 DEF Spares
<1>4. ASSUME NEW g \in T, NEW q \in Side, Pivots(m, T, g, q, p, s, n, new, k, a)
      PROVE  Spares(T, n, a)
  <2> HIDE DEF new, p
  <2>1. /\ a.head = m.head
        /\ \A x \in T : a.prev[x] = IF x = p THEN n ELSE IF x = n THEN g ELSE m.prev[x]
        /\ \A x \in T, r \in Side :
             a.child[r][x] = IF x = n THEN (IF r = s THEN new ELSE p)
                             ELSE IF x = p THEN NULL
                             ELSE IF x = g /\ r = q THEN n
                             ELSE m.child[r][x]
    BY <1>4 DEF Pivots
  <2>2. p \in T /\ ~Full(m, n) /\ ~Full(m, p)
    <3>1. m.child[Other(s)][p] = NULL /\ p \in T  BY <1>1, <1>4 DEF Pivots, p
    <3>2. Other(s) \in Side  BY Sides
    <3> QED  BY <3>1, <3>2 DEF Full
  <2>3. Full(a, n)  BY <1>1, <1>2, <2>1, <2>2 DEF Full
  <2>4. ASSUME NEW y \in T, Full(m, y) PROVE Full(a, y)
    <3>1. y # n /\ y # p  BY <2>2, <2>4
    <3> QED  BY <1>1, <2>1, <2>4, <3>1 DEF Full
  <2> QED  BY <1>1, <2>1, <2>3, <2>4 DEF Spares
<1> QED  BY <1>3, <1>4 DEF Attaches, p

LEMMA SparedWhenLost ==
  ASSUME m \in Memory, m.size < MaxNodes, NEW k \in Nat, NEW T, NEW e \in Bounds, NEW B \in Nat,
         Holds(m, T, e, B), Fresh(m), Paired(m, T), NEW n \in T, NEW s \in Side, m.child[s][n] = NULL,
         LosesNodes(m, n, s), NEW a, a = Attach(Allocated(k), n, m.size + 1, s)
  PROVE  Spares(T, n, a)
<1> DEFINE t == Hung(k, n, s)
           new == m.size + 1
           p == m.prev[n]
           u == Uncle(m, n, s)
<1>1. \A x \in T : x \in Nodes /\ m.prev[x] \in T /\ m.prev[x] \in Nodes /\ x # NULL
  <2>1. ASSUME NEW x \in T PROVE x \in Nodes /\ m.prev[x] \in T  BY LinkedFacts
  <2> QED  BY <2>1 DEF Nodes, NULL
<1>2. new \in Nodes /\ new # NULL /\ \A x \in T : x # new
  <2>1. T \subseteq 1 .. m.size /\ m.size \in Nat /\ MaxNodes \in Nat
    BY MapAssumption DEF Holds, Shape, Frame, Memory
  <2> QED  BY <2>1 DEF Nodes, NULL
<1>3. /\ t \in Memory /\ t.head = m.head /\ t.size = new /\ t.red = m.red \cup {new}
      /\ t.freed = m.freed /\ t.key[new] = k /\ t.prev[new] = n
      /\ \A x \in Nodes : x # new => t.key[x] = m.key[x] /\ t.prev[x] = m.prev[x]
      /\ \A x \in Nodes, r \in Side :
           t.child[r][x] = IF x = n /\ r = s THEN new ELSE m.child[r][x]
  <2>1. n \in Nodes /\ n # new  BY <1>1, <1>2
  <2> HIDE DEF t
  <2> QED  BY <2>1, HungFacts DEF t
<1>4. ~IsRoot(m, n) /\ n # m.head /\ p # n /\ p \in T /\ p \in Nodes /\ p # new /\ n \in Nodes /\ n # new
  <2>1. ~IsRoot(m, n)  BY DEF LosesNodes
  <2>2. n # m.head  BY <2>1, LinkedFacts
  <2> QED  BY <1>1, <1>2, <2>1, <2>2 DEF IsRoot
<1>5. t.prev[n] = p /\ ~IsRoot(t, n)  BY <1>3, <1>4 DEF IsRoot
<1>6. (Bent(t, n, s) <=> Bent(m, n, s)) /\ Uncle(t, n, s) = u
  <2>1. \A r \in Side : t.child[r][p] = m.child[r][p]  BY <1>3, <1>4
  <2> QED  BY <1>5, <2>1, Sides DEF Bent, Uncle
<1>7. m.child[s][new] = NULL /\ m.child[Other(s)][new] = NULL
  <2>1. new > m.size  BY MapAssumption DEF Memory
  <2> QED  BY <1>2, <2>1, Sides DEF Fresh
<1>s. /\ Other(s) \in Side /\ Other(s) # s /\ Other(Other(s)) = s
      /\ \A r \in Side : r = s \/ r = Other(s)
  BY Sides
<1>a. a = CASE IsRoot(t, n) -> t
            [] ~IsRoot(t, n) /\ Uncle(t, n, s) = NULL /\ Bent(t, n, s) ->
                 LET black   == IF s = "right" \/ n \in t.red THEN {new} ELSE {}
                     rotated == Rotate([t EXCEPT !.red = @ \ black], Other(s), n, new)
                 IN  Rotate(rotated, s, rotated.prev[new], new)
            [] ~IsRoot(t, n) /\ Uncle(t, n, s) = NULL /\ ~Bent(t, n, s) ->
                 Relink(Rotate([t EXCEPT !.red = @ \ {n}], Other(s), t.prev[n], n), n, s)
            [] ~IsRoot(t, n) /\ Uncle(t, n, s) # NULL ->
                 IF n \notin t.red THEN t
                 ELSE IF Uncle(t, n, s) \in t.red
                      THEN [t EXCEPT !.red = (@ \ {n, Uncle(t, n, s)}) \cup {t.prev[n]}]
                 ELSE Rotate([t EXCEPT !.red = @ \ {n}], Other(s), n, new)
  BY DEF Attach, Hung
<1> HIDE DEF t, new, p, u
<1>c. ASSUME NEW R, R \in SUBSET Nodes, NEW b, b = [t EXCEPT !.red = R]
      PROVE  b \in Memory /\ b.head = m.head /\ b.child = t.child /\ b.prev = t.prev
  <2>1. Recolored(t, b)  BY <1>c DEF Recolored
  <2> QED  BY <1>3, <2>1, RecoloredFacts
<1>r. t.red \in SUBSET Nodes  BY <1>3 DEF Memory
<1>f. ~Full(m, n)  BY DEF Full
<1>8. CASE u # NULL
  <2>1. n \in m.red /\ u \notin m.red  BY <1>8 DEF LosesNodes, u
  <2>2. u \in T
    <3>1. u \in {m.child[r][p] : r \in Side}  BY <1>s DEF Uncle, u, p
    <3> QED  BY <1>4, <1>8, <3>1 DEF Holds, Shape, Frame
  <2>3. n \in t.red /\ u \notin t.red  BY <1>2, <1>3, <2>1, <2>2
  <2> DEFINE b == [t EXCEPT !.red = @ \ {n}]
  <2>4. a = Rotate(b, Other(s), n, new)  BY <1>5, <1>6, <1>8, <1>a, <2>3
  <2>5. b \in Memory /\ b.head = m.head /\ b.child = t.child /\ b.prev = t.prev
    <3>1. t.red \ {n} \in SUBSET Nodes  BY <1>r
    <3> QED  BY <1>c, <3>1
  <2> HIDE DEF b
  <2>r. Rotates(b, Other(s), n, new, a)  BY <1>2, <1>4, <1>s, <2>4, <2>5, RotateFacts
  <2>6. /\ a \in Memory /\ a.head = b.head
        /\ \A x \in Nodes, r \in Side :
             a.child[r][x] = IF x = new /\ r = Other(s) THEN n
                             ELSE IF x = n /\ r # Other(s) THEN b.child[Other(s)][new]
                             ELSE b.child[r][x]
        /\ \A x \in Nodes :
             a.prev[x] = IF x = new THEN b.prev[n] ELSE IF x = n THEN new ELSE b.prev[x]
    BY <2>r DEF Rotates
  <2>7. ASSUME NEW y \in T, Full(m, y) PROVE Full(a, y)
    <3>1. y # n /\ y # new /\ y \in Nodes  BY <1>1, <1>2, <1>f, <2>7
    <3>2. \A r \in Side : a.child[r][y] = m.child[r][y]  BY <1>3, <2>5, <2>6, <3>1
    <3> QED  BY <2>7, <3>2 DEF Full
  <2>8. ASSUME NEW x \in T PROVE a.prev[x] = IF x = n THEN new ELSE m.prev[x]
    BY <1>1, <1>2, <1>3, <2>5, <2>6
  <2> QED  BY <1>1, <1>2, <2>5, <2>6, <2>7, <2>8 DEF Spares
<1>9. CASE u = NULL
  <2>1. ~Full(m, p)
    <3>1. u = m.child[s][p] \/ u = m.child[Other(s)][p]  BY DEF Uncle, u, p
    <3> QED  BY <1>9, <1>s, <3>1 DEF Full
  <2>2. \A w \in Side : m.child[w][n] = NULL
    BY <1>4, <2>1, ParentFull DEF p
  <2>3. CASE Bent(m, n, s)
    <3> DEFINE black == IF s = "right" \/ n \in t.red THEN {new} ELSE {}
               b == [t EXCEPT !.red = @ \ black]
               c == Rotate(b, Other(s), n, new)
    <3>1. a = Rotate(c, s, c.prev[new], new)  BY <1>5, <1>6, <1>9, <1>a, <2>3
    <3>2. b \in Memory /\ b.head = m.head /\ b.child = t.child /\ b.prev = t.prev
      <4> HIDE DEF black
      <4>1. t.red \ black \in SUBSET Nodes  BY <1>r
      <4> QED  BY <1>c, <4>1
    <3> HIDE DEF b, black
    <3>r. Rotates(b, Other(s), n, new, c)  BY <1>2, <1>4, <1>s, <3>2, RotateFacts
    <3>3. /\ c \in Memory /\ c.head = b.head
          /\ \A x \in Nodes, r \in Side :
               c.child[r][x] = IF x = new /\ r = Other(s) THEN n
                               ELSE IF x = n /\ r # Other(s) THEN b.child[Other(s)][new]
                               ELSE b.child[r][x]
          /\ \A x \in Nodes :
               c.prev[x] = IF x = new THEN b.prev[n] ELSE IF x = n THEN new ELSE b.prev[x]
      BY <3>r DEF Rotates
    <3> HIDE DEF c
    <3>4. c.prev[new] = p  BY <1>2, <1>5, <3>2, <3>3
    <3>5. a = Rotate(c, s, p, new)  BY <3>1, <3>4
    <3>t. Rotates(c, s, p, new, a)  BY <1>2, <1>4, <3>3, <3>5, RotateFacts
    <3>6. /\ a \in Memory /\ a.head = c.head
          /\ \A x \in Nodes, r \in Side :
               a.child[r][x] = IF x = new /\ r = s THEN p
                               ELSE IF x = p /\ r # s THEN c.child[s][new]
                               ELSE c.child[r][x]
          /\ \A x \in Nodes :
               a.prev[x] = IF x = new THEN c.prev[p] ELSE IF x = p THEN new ELSE c.prev[x]
      BY <3>t DEF Rotates
    <3>7. ASSUME NEW y \in T, Full(m, y) PROVE Full(a, y)
      <4>1. y # n /\ y # new /\ y # p /\ y \in Nodes  BY <1>1, <1>2, <1>f, <2>1, <3>7
      <4>2. \A r \in Side : a.child[r][y] = m.child[r][y]  BY <1>3, <3>2, <3>3, <3>6, <4>1
      <4> QED  BY <3>7, <4>2 DEF Full
    <3>8. Full(a, new)
      <4>1. a.child[s][new] = p  BY <1>2, <3>6
      <4>2. a.child[Other(s)][new] = n  BY <1>2, <1>4, <1>s, <3>3, <3>6
      <4> QED  BY <1>1, <1>4, <1>s, <4>1, <4>2 DEF Full
    <3>9. ASSUME NEW x \in T PROVE a.prev[x] = IF x = n \/ x = p THEN new ELSE m.prev[x]
      BY <1>1, <1>2, <1>3, <1>4, <3>2, <3>3, <3>6
    <3> QED  BY <1>1, <1>2, <3>2, <3>3, <3>6, <3>7, <3>8, <3>9 DEF Spares
  <2>4. CASE ~Bent(m, n, s)
    <3>0. IsRoot(m, p) /\ p = m.head
      <4>1. IsRoot(m, p)  BY <1>9, <1>s, <2>2, <2>4 DEF LosesNodes, u, p
      <4> QED  BY <1>4, <4>1, LinkedFacts
    <3> DEFINE b == [t EXCEPT !.red = @ \ {n}]
               c == Rotate(b, Other(s), p, n)
    <3>1. a = Relink(c, n, s)  BY <1>5, <1>6, <1>9, <1>a, <2>4
    <3>2. b \in Memory /\ b.head = m.head /\ b.child = t.child /\ b.prev = t.prev
      <4>1. t.red \ {n} \in SUBSET Nodes  BY <1>r
      <4> QED  BY <1>c, <4>1
    <3> HIDE DEF b
    <3>r. Rotates(b, Other(s), p, n, c)  BY <1>4, <1>s, <3>2, RotateFacts
    <3>3. /\ c \in Memory /\ c.head = b.head
          /\ \A x \in Nodes, r \in Side :
               c.child[r][x] = IF x = n /\ r = Other(s) THEN p
                               ELSE IF x = p /\ r # Other(s) THEN b.child[Other(s)][n]
                               ELSE b.child[r][x]
          /\ \A x \in Nodes :
               c.prev[x] = IF x = n THEN b.prev[p] ELSE IF x = p THEN n ELSE b.prev[x]
      BY <3>r DEF Rotates
    <3> HIDE DEF c
    <3>4. c.prev[n] = p  BY <1>3, <1>4, <3>0, <3>2, <3>3 DEF IsRoot
    <3>5. \/ a = c
          \/ \E r \in Side : a = [c EXCEPT !.child[r][p] = n]
      BY <3>1, <3>4, Sides DEF Relink
    <3>6. /\ a \in Memory /\ a.head = c.head /\ a.prev = c.prev
          /\ \A x \in Nodes, r \in Side : x # p => a.child[r][x] = c.child[r][x]
      <4>1. CASE a = c  BY <3>3, <4>1
      <4>2. ASSUME NEW r \in Side, a = [c EXCEPT !.child[r][p] = n]
            PROVE  /\ a \in Memory /\ a.head = c.head /\ a.prev = c.prev
                   /\ \A x \in Nodes, w \in Side : x # p => a.child[w][x] = c.child[w][x]
        <5>1. n \in 0 .. MaxNodes  BY <1>4, MapAssumption DEF Nodes
        <5>2. Points(c, r, p, n, a)  BY <1>4, <3>3, <4>2, <5>1, PointFacts
        <5> QED  BY <5>2 DEF Points
      <4> QED  BY <3>5, <4>1, <4>2
    <3>7. ASSUME NEW y \in T, Full(m, y) PROVE Full(a, y)
      <4>1. y # n /\ y # new /\ y # p /\ y \in Nodes  BY <1>1, <1>2, <1>f, <2>1, <3>7
      <4>2. \A r \in Side : a.child[r][y] = m.child[r][y]  BY <1>3, <3>2, <3>3, <3>6, <4>1
      <4> QED  BY <3>7, <4>2 DEF Full
    <3>8. ASSUME NEW x \in T PROVE a.prev[x] = IF x = n THEN p ELSE IF x = p THEN n ELSE m.prev[x]
      BY <1>1, <1>2, <1>3, <1>4, <3>2, <3>3, <3>4, <3>6
    <3> QED  BY <1>1, <1>4, <3>0, <3>2, <3>3, <3>6, <3>7, <3>8 DEF Spares
  <2> QED  BY <2>3, <2>4
<1> QED  BY <1>8, <1>9

(* Whatever Attach made of the map, the loop back finds no NULL uncle. *)
LEMMA NoNullUncle ==
  ASSUME m \in Memory, NEW T, NEW e \in Bounds, NEW B \in Nat, Holds(m, T, e, B), Paired(m, T),
         NEW n \in T, NEW a, Spares(T, n, a), NEW b, Recolored(a, b),
         NEW x \in T, x # n, NEW w \in Side, m.child[w][x] # NULL
  PROVE  ~NullUncle(b, x)
<1>1. a \in Memory /\ a.head = m.head
      /\ (x # m.head /\ Full(m, m.prev[x]) => Full(a, a.prev[x]))
  BY DEF Spares
<1>2. b.head = a.head /\ b.child = a.child /\ b.prev = a.prev  BY <1>1, RecoloredFacts
<1> SUFFICES ASSUME NullUncle(b, x) PROVE FALSE  OBVIOUS
<1>3. x # m.head /\ \E s \in Side : a.child[Other(s)][a.prev[x]] = NULL  BY <1>1, <1>2 DEF NullUncle
<1>4. Full(m, m.prev[x])  BY <1>3, ParentFull
<1>5. Full(a, a.prev[x])  BY <1>1, <1>3, <1>4
<1> QED  BY <1>3, <1>5, Sides DEF Full

LEMMA InsertBelowIsSafe ==
  ASSUME NEW ks, IsMap(m, ks), m.head # NULL, m.freed = {}, m.size < MaxNodes, NEW k \in Nat,
         InsertBelowHead(k), status = "ok"
  PROVE  status' = "ok"
<1> DEFINE p == Path(m, k)
           n == Last(p)
           s == SideOf(m, n, k)
           a == Turned(k)
           done == WayBack(k)
<1>1. m \in Memory /\ Fresh(m) /\ InTree(m, ks)  BY DEF IsMap
<1>2. IF m.key[n] = k THEN UNCHANGED <<m, status, intact>>
      ELSE status' = IF \E j \in 1 .. Len(p) - 1 : NullUncle(done[j - 1], p[Len(p) - j])
                     THEN "crash" ELSE "ok"
  BY InsertIs
<1>3. CASE m.key[n] = k  BY <1>2, <1>3
<1>4. CASE m.key[n] # k
  <2>1. PICK T \in SUBSET Nodes, e \in Bounds, B \in Nat : Holds(m, T, e, B) /\ Paired(m, T)
    BY <1>1 DEF InTree
  <2>2. PICK f \in Bounds, C \in Nat : Holds(m, T, f, C) /\ Ends(m, T, f, k, p, n)
    BY <1>1, <2>1, Searched
  <2>4. done = CHOOSE g : IsDone(p, a, g)  BY DEF WayBack
  <2>5. a = Attach(Allocated(k), n, m.size + 1, s) /\ s = SideOf(m, n, k)  BY DEF Turned
  <2> HIDE DEF p, n, s, a, done
  <2>h. Holds(m, T, f, C) /\ n \in T /\ Between(f, n, k) /\ Stopped(m, k, n)  BY <2>2 DEF Ends
  <2>6. /\ p \in Seq(T) /\ p \in Seq(Nodes) /\ p # << >>
        /\ \A i \in 1 .. Len(p) - 1 : p[i] # n /\ \E w \in Side : m.child[w][p[i]] # NULL
    BY <2>2 DEF Ends
  <2>7. s \in Side /\ m.child[s][n] = NULL
    <3>1. n \in Nodes  BY <2>h
    <3> QED  BY <1>1, <1>4, <2>5, <2>h, <3>1, SideFacts DEF Stopped
  <2>8. Spares(T, n, a)
    <3>1. CASE LosesNodes(m, n, s)  BY <1>1, <2>1, <2>5, <2>7, <2>h, <3>1, SparedWhenLost
    <3>2. CASE ~LosesNodes(m, n, s)
      <4>1. a \in Memory /\ Attaches(T, n, s, k, a)
        BY <1>1, <2>5, <2>7, <2>h, <3>2, Attached
      <4> QED  BY <1>1, <2>7, <2>h, <4>1, SparedWhenKept
    <3> QED  BY <3>1, <3>2
  <2>9. \A j \in 0 .. Len(p) - 1 : Recolored(a, done[j])
    <3>1. a \in Memory /\ \A x \in T : a.prev[x] \in Nodes  BY <2>8 DEF Spares
    <3>2. \A i \in 1 .. Len(p) : a.prev[p[i]] \in Nodes  BY <2>6, <3>1
    <3> QED  BY <2>4, <2>6, <3>1, <3>2, UnwoundAll
  <2>10. ASSUME NEW j \in 1 .. Len(p) - 1 PROVE ~NullUncle(done[j - 1], p[Len(p) - j])
    <3> DEFINE i == Len(p) - j
    <3>1. i \in 1 .. Len(p) - 1 /\ i \in 1 .. Len(p) /\ j - 1 \in 0 .. Len(p) - 1  BY <2>6
    <3>2. Recolored(a, done[j - 1])  BY <2>9, <3>1
    <3> HIDE DEF i
    <3>3. p[i] \in T /\ p[i] # n /\ \E w \in Side : m.child[w][p[i]] # NULL  BY <2>6, <3>1
    <3>4. PICK w \in Side : m.child[w][p[i]] # NULL  BY <3>3
    <3>5. ~NullUncle(done[j - 1], p[i])  BY <1>1, <2>1, <2>8, <2>h, <3>2, <3>3, <3>4, NoNullUncle
    <3> QED  BY <3>5 DEF i
  <2> QED  BY <1>2, <1>4, <2>10
<1> QED  BY <1>3, <1>4

(* As long as no keys were lost and nothing was erased, insert and         *)
(* operator[] do not crash: no uncle on their way back is NULL.            *)
THEOREM InsertIsSafe == Spec => InsertNeverCrashes
<1>1. MapInv /\ [Next]_vars => (intact /\ m.freed = {} => \A k \in Keys : insert(k) \/ index(k) => status' = "ok")
  <2> SUFFICES ASSUME MapInv, intact, m.freed = {}, NEW k \in Keys, insert(k) \/ index(k)
               PROVE  status' = "ok"
    OBVIOUS
  <2>1. status = "ok" /\ m.size < MaxNodes  BY DEF insert, index
  <2>2. IsMap(m, keys) /\ k \in Nat  BY <2>1, MapAssumption DEF MapInv
  <2>3. CASE m.head # NULL /\ InsertBelowHead(k)  BY <2>1, <2>2, <2>3, InsertBelowIsSafe
  <2>4. CASE UNCHANGED status  BY <2>1, <2>4
  <2> QED  BY <2>3, <2>4 DEF insert, index
<1> QED  BY <1>1, MapIsKept, PTL DEF Spec, InsertNeverCrashes
-----------------------------------------------------------------------------
(* The iterator.  A walk over nodes that makes w larger until it is in E   *)
(* is in E after MaxNodes steps: no node is passed twice.                  *)
Walks(f, w, E) ==
  \A j \in 1 .. MaxNodes : IF f[j - 1] \in E THEN f[j] \in E ELSE w[f[j - 1]] < w[f[j]]

LEMMA WalkEnds ==
  ASSUME NEW f \in [0 .. MaxNodes -> Nodes], NEW w \in [Nodes -> Int], NEW E, Walks(f, w, E)
  PROVE  f[MaxNodes] \in E
<1>0. MaxNodes \in Nat  BY MapAssumption
<1> SUFFICES ASSUME f[MaxNodes] \notin E PROVE FALSE  OBVIOUS
<1>1. ASSUME NEW i \in 0 .. MaxNodes PROVE f[i] \notin E
  <2> DEFINE S == {j \in 0 .. MaxNodes : i <= j /\ f[i] \in E => f[j] \in E}
  <2>1. 0 \in S  BY <1>0
  <2>2. ASSUME NEW j \in 1 .. MaxNodes, j - 1 \in S PROVE j \in S
    <3>1. CASE i <= j - 1  BY <1>0, <2>2, <3>1 DEF Walks
    <3>2. CASE ~(i <= j - 1)
      <4>1. i <= j => i = j  BY <3>2
      <4> QED  BY <1>0, <4>1
    <3> QED  BY <3>1, <3>2
  <2>3. 0 .. MaxNodes \subseteq S
    <3> HIDE DEF S
    <3> QED  BY <1>0, <2>1, <2>2, Throughout
  <2>4. MaxNodes \in S  BY <1>0, <2>3
  <2> QED  BY <1>0, <2>4
<1>2. ASSUME NEW j \in 1 .. MaxNodes PROVE w[f[j - 1]] < w[f[j]] /\ j - 1 \in 0 .. MaxNodes
  BY <1>0, <1>1 DEF Walks
<1>3. ASSUME NEW i \in 0 .. MaxNodes, NEW k \in 0 .. MaxNodes, i < k PROVE w[f[i]] < w[f[k]]
  <2> DEFINE S == {j \in 0 .. MaxNodes : i < j => w[f[i]] < w[f[j]]}
  <2>0. \A j \in 0 .. MaxNodes : w[f[j]] \in Int  OBVIOUS
  <2>1. 0 \in S  BY <1>0
  <2>2. ASSUME NEW j \in 1 .. MaxNodes, j - 1 \in S PROVE j \in S
    <3>1. w[f[j - 1]] < w[f[j]] /\ j - 1 \in 0 .. MaxNodes /\ j \in 0 .. MaxNodes  BY <1>0, <1>2
    <3>2. CASE i < j - 1  BY <2>0, <2>2, <3>1, <3>2
    <3>3. CASE ~(i < j - 1)
      <4>1. i < j => i = j - 1  BY <3>3
      <4> QED  BY <3>1, <4>1
    <3> QED  BY <3>2, <3>3
  <2>3. 0 .. MaxNodes \subseteq S
    <3> HIDE DEF S
    <3> QED  BY <1>0, <2>1, <2>2, Throughout
  <2>4. k \in S  BY <2>3
  <2> QED  BY <1>3, <2>4
<1>4. ASSUME NEW i \in 0 .. MaxNodes, NEW k \in 0 .. MaxNodes, f[i] = f[k] PROVE i = k
  <2>1. w[f[i]] \in Int /\ w[f[k]] \in Int  OBVIOUS
  <2>2. ~(i < k) /\ ~(k < i)  BY <1>3, <1>4, <2>1
  <2> QED  BY <2>2
<1>5. f \in Injection(0 .. MaxNodes, Nodes)  BY <1>4 DEF Injection, IsInjective
<1>6. IsFiniteSet(Nodes) /\ Cardinality(Nodes) = MaxNodes  BY <1>0, FS_Interval DEF Nodes
<1>7. Cardinality(0 .. MaxNodes) = MaxNodes + 1  BY <1>0, FS_Interval
<1>8. Cardinality(0 .. MaxNodes) <= Cardinality(Nodes)  BY <1>5, <1>6, FS_Injection
<1> QED  BY <1>0, <1>6, <1>7, <1>8

(* f is the walk over T that step makes from a. *)
IsWalked(a, step, f) ==
  \A j \in 0 .. MaxNodes : f[j] = IF j = 0 THEN a ELSE step[f[j - 1]]

LEMMA WalkExists ==
  ASSUME NEW T, NEW a \in T, NEW step \in [T -> T]
  PROVE  \E f \in [0 .. MaxNodes -> T] : IsWalked(a, step, f)
<1> DEFINE turn == [jx \in (1 .. MaxNodes) \X T |-> step[jx[2]]]
<1>0. MaxNodes \in Nat  BY MapAssumption
<1>1. turn \in [(1 .. MaxNodes) \X T -> T]  OBVIOUS
<1>2. PICK f \in [0 .. MaxNodes -> T] : Turns(MaxNodes, a, turn, f)
  <2> HIDE DEF turn
  <2> QED  BY <1>0, <1>1, LoopsExist
<1>3. ASSUME NEW j \in 0 .. MaxNodes PROVE f[j] = IF j = 0 THEN a ELSE step[f[j - 1]]
  <2>1. f[j] = IF j = 0 THEN a ELSE turn[<<j, f[j - 1]>>]
    <3> HIDE DEF turn
    <3> QED  BY <1>2 DEF Turns
  <2>2. j # 0 => j \in 1 .. MaxNodes /\ f[j - 1] \in T  BY <1>0
  <2>3. j # 0 => turn[<<j, f[j - 1]>>] = step[f[j - 1]]  BY <2>2
  <2> QED  BY <2>1, <2>3
<1> QED  BY <1>3 DEF IsWalked

(* Outmost's loop from n in a tree. *)
LEMMA OutExists ==
  ASSUME m \in Memory, NEW T, NEW e \in Bounds, NEW B \in Nat, Frame(m, T, e, B),
         NEW n \in T, NEW s \in Side
  PROVE  \E f \in [0 .. MaxNodes -> T] : IsOut(n, s, f) /\ Outmost(n, s) = f[MaxNodes]
<1>0. MaxNodes \in Nat  BY MapAssumption
<1> DEFINE Out(x) == IF m.child[s][x] = NULL THEN x ELSE m.child[s][x]
           step == [x \in T |-> Out(x)]
<1>1. step \in [T -> T]  BY DEF Frame
<1>2. PICK f \in [0 .. MaxNodes -> T] : IsWalked(n, step, f)
  <2> HIDE DEF step
  <2> QED  BY <1>1, WalkExists
<1>3. ASSUME NEW j \in 0 .. MaxNodes PROVE f[j] = IF j = 0 THEN n ELSE Out(f[j - 1])
  <2>1. j # 0 => f[j - 1] \in T  BY <1>0
  <2> QED  BY <1>2, <2>1 DEF IsWalked
<1>4. IsOut(n, s, f)
  <2> DEFINE F == [j \in 0 .. MaxNodes |-> IF j = 0 THEN n ELSE Out(f[j - 1])]
  <2>1. f = F  BY <1>3
  <2> QED  BY <2>1 DEF IsOut
<1>5. IsOut(n, s, CHOOSE g : IsOut(n, s, g))  BY <1>4
<1>6. Outmost(n, s) = (CHOOSE g : IsOut(n, s, g))[MaxNodes]  BY DEF Outmost, IsOut
<1>7. ASSUME NEW g, IsOut(n, s, g) PROVE g = f
  <2> DEFINE S == {j \in 0 .. MaxNodes : g[j] = f[j]}
  <2>1. ASSUME NEW j \in 0 .. MaxNodes PROVE g[j] = IF j = 0 THEN n ELSE Out(g[j - 1])
    BY <1>7 DEF IsOut
  <2> HIDE DEF Out
  <2>2. 0 \in S  BY <1>0, <1>3, <2>1
  <2>3. ASSUME NEW j \in 1 .. MaxNodes, j - 1 \in S PROVE j \in S
    <3>1. j \in 0 .. MaxNodes /\ j # 0 /\ g[j - 1] = f[j - 1]  BY <2>3
    <3> QED  BY <1>3, <2>1, <3>1
  <2>4. 0 .. MaxNodes \subseteq S
    <3> HIDE DEF S
    <3> QED  BY <1>0, <2>2, <2>3, Throughout
  <2>5. g = [j \in 0 .. MaxNodes |-> g[j]]  BY <1>7 DEF IsOut
  <2> QED  BY <2>4, <2>5
<1>8. (CHOOSE g : IsOut(n, s, g)) = f  BY <1>5, <1>7
<1> QED  BY <1>4, <1>6, <1>8

(* r is the first node of the part of the tree below n. *)
IsFirst(T, e, n, r) ==
  /\ r \in T /\ m.child["left"][r] = NULL
  /\ e["left"][r] = e["left"][n] /\ e["right"][r] <= e["right"][n]

LEMMA BeginIsFirst ==
  ASSUME m \in Memory, NEW T, NEW e \in Bounds, NEW B \in Nat, Frame(m, T, e, B), NEW n \in T
  PROVE  IsFirst(T, e, n, begin(n))
<1>0. MaxNodes \in Nat  BY MapAssumption
<1>s. "left" \in Side  BY Sides
<1>d. ASSUME NEW x \in T
      PROVE  /\ x \in Nodes /\ m.key[x] \in Nat /\ e["left"][x] \in Int /\ e["right"][x] \in Int
             /\ e["left"][x] < m.key[x] /\ m.key[x] < e["right"][x]
  BY FrameFacts
<1>e. ASSUME NEW x \in T, m.child["left"][x] # NULL
      PROVE  /\ m.child["left"][x] \in T
             /\ e["left"][m.child["left"][x]] = e["left"][x]
             /\ e["right"][m.child["left"][x]] = m.key[x]
  <2> DEFINE c == m.child["left"][x]
  <2>1. c = m.child["left"][x] /\ c # NULL  BY <1>e
  <2> HIDE DEF c
  <2>2. ChildIs(m, T, e, x, "left", c)  BY <1>s, <2>1, ChildBounds
  <2> QED  BY <2>1, <2>2 DEF ChildIs
<1>1. PICK f \in [0 .. MaxNodes -> T] : IsOut(n, "left", f) /\ Outmost(n, "left") = f[MaxNodes]
  BY <1>s, OutExists
<1>2. f[0] = n  BY <1>0, <1>1 DEF IsOut
<1>3. ASSUME NEW j \in 1 .. MaxNodes
      PROVE  /\ f[j - 1] \in T /\ f[j] \in T /\ j \in 0 .. MaxNodes
             /\ f[j] = IF m.child["left"][f[j - 1]] = NULL THEN f[j - 1] ELSE m.child["left"][f[j - 1]]
  <2>1. j \in 0 .. MaxNodes /\ j # 0 /\ j - 1 \in 0 .. MaxNodes  BY <1>0
  <2> QED  BY <1>1, <2>1 DEF IsOut
<1> DEFINE S == {j \in 0 .. MaxNodes : e["left"][f[j]] = e["left"][n] /\ e["right"][f[j]] <= e["right"][n]}
           w == [x \in Nodes |-> -(e["right"][x])]
           E == {x \in T : m.child["left"][x] = NULL}
<1>4. MaxNodes \in S
  <2>1. 0 \in S  BY <1>0, <1>2, <1>d
  <2>2. ASSUME NEW j \in 1 .. MaxNodes, j - 1 \in S PROVE j \in S
    <3>1. e["left"][f[j - 1]] = e["left"][n] /\ e["right"][f[j - 1]] <= e["right"][n]  BY <2>2
    <3>2. e["left"][f[j]] = e["left"][n] /\ e["right"][f[j]] <= e["right"][f[j - 1]]
      <4> HIDE DEF S
      <4>1. CASE m.child["left"][f[j - 1]] = NULL  BY <1>3, <1>d, <3>1, <4>1
      <4>2. CASE m.child["left"][f[j - 1]] # NULL
        <5>1. e["right"][f[j]] = m.key[f[j - 1]] /\ e["left"][f[j]] = e["left"][f[j - 1]]
          BY <1>3, <1>e, <4>2
        <5> QED  BY <1>3, <1>d, <3>1, <5>1
      <4> QED  BY <4>1, <4>2
    <3> QED  BY <1>3, <1>d, <3>1, <3>2
  <2>3. 0 .. MaxNodes \subseteq S
    <3> HIDE DEF S
    <3> QED  BY <1>0, <2>1, <2>2, Throughout
  <2> QED  BY <1>0, <2>3
<1>5. f[MaxNodes] \in E
  <2>1. f \in [0 .. MaxNodes -> Nodes]
    <3>1. \A j \in 0 .. MaxNodes : f[j] \in Nodes  BY <1>d
    <3> QED  BY <3>1
  <2>2. w \in [Nodes -> Int]  BY Sides DEF Bounds
  <2>3. \A x \in T : w[x] = -(e["right"][x])  BY <1>d
  <2>4. ASSUME NEW j \in 1 .. MaxNodes
        PROVE  IF f[j - 1] \in E THEN f[j] \in E ELSE w[f[j - 1]] < w[f[j]]
    <3> HIDE DEF w
    <3>1. CASE m.child["left"][f[j - 1]] = NULL  BY <1>3, <3>1
    <3>2. CASE m.child["left"][f[j - 1]] # NULL
      <4>1. e["right"][f[j]] < e["right"][f[j - 1]]
        <5>1. e["right"][f[j]] = m.key[f[j - 1]]  BY <1>3, <1>e, <3>2
        <5> QED  BY <1>3, <1>d, <5>1
      <4> QED  BY <1>3, <1>d, <2>3, <3>2, <4>1
    <3> QED  BY <3>1, <3>2
  <2> HIDE DEF w, E
  <2>5. Walks(f, w, E)  BY <2>4 DEF Walks
  <2> QED  BY <2>1, <2>2, <2>5, WalkEnds
<1> QED  BY <1>0, <1>1, <1>4, <1>5 DEF IsFirst, begin
-----------------------------------------------------------------------------
(* The next node in the order of keys.                                     *)

(* Between a node and its bound on a side without child there is no key. *)
LEMMA NoneBetween ==
  ASSUME m \in Memory, NEW T, NEW e \in Bounds, NEW B \in Nat, Shape(m, T, e, B),
         NEW n \in T, NEW y \in T
  PROVE  /\ m.child["right"][n] = NULL => ~(m.key[n] < m.key[y] /\ m.key[y] < e["right"][n])
         /\ m.child["left"][n] = NULL => ~(e["left"][n] < m.key[y] /\ m.key[y] < m.key[n])
<1>0. Frame(m, T, e, B)  BY DEF Shape
<1> DEFINE k == m.key[y]
<1>1. /\ n \in Nodes /\ e["left"][n] \in Int /\ e["right"][n] \in Int /\ m.key[n] \in Nat
      /\ e["left"][n] < m.key[n] /\ m.key[n] < e["right"][n]
  BY <1>0, FrameFacts
<1>2. k \in Nat  BY <1>0, FrameFacts
<1>3. m.key[y] = k  OBVIOUS
<1> HIDE DEF k
<1>4. /\ m.key[n] < k => SideOf(m, n, k) = "right"
      /\ m.key[n] >= k => SideOf(m, n, k) = "left"
  BY <1>1, <1>2, SideFacts
<1>5. ~(Between(e, n, k) /\ Stopped(m, k, n) /\ m.key[n] # k)  BY <1>2, <1>3, NotThere
<1>6. CASE m.key[n] < k /\ k < e["right"][n] /\ m.child["right"][n] = NULL
  <2>1. Between(e, n, k)  BY <1>1, <1>2, <1>6 DEF Between
  <2> QED  BY <1>1, <1>2, <1>4, <1>5, <1>6, <2>1 DEF Stopped
<1>7. CASE e["left"][n] < k /\ k < m.key[n] /\ m.child["left"][n] = NULL
  <2>1. Between(e, n, k)  BY <1>1, <1>2, <1>7 DEF Between
  <2> QED  BY <1>1, <1>2, <1>4, <1>5, <1>7, <2>1 DEF Stopped
<1> QED  BY <1>3, <1>6, <1>7

(* A node whose key is between a's bounds is below a. *)
LEMMA BelowIf ==
  ASSUME m \in Memory, NEW T, NEW e \in Bounds, NEW B \in Nat, Shape(m, T, e, B),
         NEW a \in T, NEW y \in T, Between(e, a, m.key[y])
  PROVE  y \in Below(a)
<1>0. Frame(m, T, e, B)  BY DEF Shape
<1>a. /\ a \in Nodes /\ a # NULL /\ m.key[a] \in Nat /\ e["left"][a] \in Int /\ e["right"][a] \in Int
      /\ e["left"][a] < m.key[a] /\ m.key[a] < e["right"][a]
      /\ -1 <= e["left"][a] /\ e["right"][a] <= B
  BY <1>0, FrameFacts
<1>b. a \in Below(a) /\ Closed(Below(a))  BY <1>a, BelowFacts
<1> DEFINE S == {z \in T : Between(e, a, m.key[z]) => z \in Below(a)}
<1>1. m.head \in S
  <2>1. m.head \in T /\ e["left"][m.head] = -1 /\ e["right"][m.head] = B  BY <1>0 DEF Frame
  <2>2. /\ m.key[m.head] \in Nat
        /\ -1 < m.key[m.head] /\ m.key[m.head] < B
    <3>1. /\ m.key[m.head] \in Nat
          /\ e["left"][m.head] < m.key[m.head] /\ m.key[m.head] < e["right"][m.head]
      <4> DEFINE h == m.head
      <4>1. h \in T  BY <2>1
      <4> HIDE DEF h
      <4>2. m.key[h] \in Nat /\ e["left"][h] < m.key[h] /\ m.key[h] < e["right"][h]
        BY <1>0, <4>1, FrameFacts
      <4> QED  BY <4>2 DEF h
    <3> QED  BY <2>1, <3>1
  <2> SUFFICES ASSUME Between(e, a, m.key[m.head]) PROVE m.head = a  BY <1>b, <2>1
  <2>3. Related(m, e, a, m.head)  BY <2>1, Nested
  <2>4. ~Under(m, e, a, m.head)  BY <1>a, <2>1 DEF Under, Inside
  <2>5. ~Under(m, e, m.head, a)  BY <1>a, <2>1, <2>2 DEF Under, Inside, Between
  <2>6. ~Apart(e, a, m.head)  BY <1>a, <2>1, <2>2 DEF Apart, Between
  <2> QED  BY <2>3, <2>4, <2>5, <2>6 DEF Related
<1>2. ASSUME NEW x \in T, NEW s \in Side, x \in S, NEW c, c = m.child[s][x], c # NULL PROVE c \in S
  <2>0. ChildIs(m, T, e, x, s, c)  BY <1>0, <1>2, ChildBounds
  <2>1. /\ c \in T
        /\ s = "left" => e["left"][c] = e["left"][x] /\ e["right"][c] = m.key[x]
        /\ s = "right" => e["right"][c] = e["right"][x] /\ e["left"][c] = m.key[x]
        /\ Inside(m, e, s, x, c)
    BY <2>0 DEF ChildIs
  <2>2. /\ e["left"][x] \in Int /\ e["right"][x] \in Int /\ m.key[x] \in Nat
        /\ e["left"][x] < m.key[x] /\ m.key[x] < e["right"][x]
    BY <1>0, FrameFacts
  <2>3. /\ e["left"][c] \in Int /\ e["right"][c] \in Int /\ m.key[c] \in Nat
        /\ e["left"][c] < m.key[c] /\ m.key[c] < e["right"][c]
    BY <1>0, <2>1, FrameFacts
  <2>s. s = "left" \/ s = "right"  BY Sides
  <2> SUFFICES ASSUME Between(e, a, m.key[c]) PROVE c \in Below(a)  BY <2>1
  <2>4. e["left"][a] < m.key[c] /\ m.key[c] < e["right"][a]  BY DEF Between
  <2>5. CASE x \in Below(a)  BY <1>2, <1>b, <2>5 DEF Closed
  <2>6. CASE x \notin Below(a)
    <3>1. ~Between(e, a, m.key[x])  BY <1>2, <2>6
    <3>2. x # a /\ ~Under(m, e, a, x)
      <4>1. x # a  BY <1>a, <3>1 DEF Between
      <4>2. ~Under(m, e, a, x)  BY <1>a, <2>2, <3>1 DEF Under, Inside, Between
      <4> QED  BY <4>1, <4>2
    <3>3. Related(m, e, a, x)  BY Nested
    <3>4. ~Apart(e, a, x)  BY <1>a, <2>1, <2>2, <2>3, <2>4, <2>s DEF Apart
    <3>5. Under(m, e, x, a)  BY <3>2, <3>3, <3>4 DEF Related
    <3>6. Inside(m, e, s, x, a)  BY <1>a, <2>1, <2>2, <2>3, <2>4, <2>s, <3>5 DEF Under, Inside
    <3>7. \A z \in T : Related(m, e, x, z)  BY Nested
    <3>8. a = c \/ Under(m, e, c, a)  BY <1>2, <3>6, <3>7, Entry
    <3>9. ~Under(m, e, c, a)  BY <1>a, <2>3, <2>4 DEF Under, Inside
    <3> QED  BY <1>b, <3>8, <3>9
  <2> QED  BY <2>5, <2>6
<1> HIDE DEF S
<1>3. T \subseteq S  BY <1>1, <1>2, TreeInduction
<1>4. y \in S  BY <1>3
<1> QED  BY <1>4 DEF S
-----------------------------------------------------------------------------
(* The loops of operator++ that walk up.                                   *)

Halts(x, s) == Bends(x, s) \/ IsRoot(m, m.prev[m.prev[x]])

IsClimb(n, s, f) ==
  f = [j \in 0 .. MaxNodes |->
         IF j = 0 THEN n
         ELSE LET x == f[j - 1]
              IN  IF Bends(x, s) \/ IsRoot(m, m.prev[m.prev[x]]) THEN x ELSE m.prev[x]]

(* What Climb returns when its loop ends at x. *)
Risen(x, s) ==
  CASE s = "left" -> m.prev[x]
    [] s = "right" /\ Bends(x, s) -> m.prev[m.prev[x]]
    [] s = "right" /\ ~Bends(x, s) -> NULL

LEMMA ClimbExists ==
  ASSUME m \in Memory, NEW T, NEW e \in Bounds, NEW B \in Nat, Holds(m, T, e, B),
         NEW n \in T, NEW s
  PROVE  \E f \in [0 .. MaxNodes -> T] : IsClimb(n, s, f) /\ Climb(n, s) = Risen(f[MaxNodes], s)
<1>0. MaxNodes \in Nat  BY MapAssumption
<1> DEFINE Up(x) == IF Halts(x, s) THEN x ELSE m.prev[x]
           step == [x \in T |-> Up(x)]
<1>1. step \in [T -> T]
  <2>1. ASSUME NEW x \in T PROVE m.prev[x] \in T  BY LinkedFacts
  <2> QED  BY <2>1
<1>2. PICK f \in [0 .. MaxNodes -> T] : IsWalked(n, step, f)
  <2> HIDE DEF step
  <2> QED  BY <1>1, WalkExists
<1>3. ASSUME NEW j \in 0 .. MaxNodes PROVE f[j] = IF j = 0 THEN n ELSE Up(f[j - 1])
  <2>1. j # 0 => f[j - 1] \in T  BY <1>0
  <2> HIDE DEF Up
  <2> QED  BY <1>2, <2>1 DEF IsWalked
<1>4. IsClimb(n, s, f)
  <2> DEFINE F == [j \in 0 .. MaxNodes |-> IF j = 0 THEN n ELSE Up(f[j - 1])]
  <2>1. f = F
    <3> HIDE DEF Up
    <3> QED  BY <1>3
  <2> QED  BY <2>1 DEF IsClimb, Halts
<1>5. IsClimb(n, s, CHOOSE g : IsClimb(n, s, g))  BY <1>4
<1>6. Climb(n, s) = Risen((CHOOSE g : IsClimb(n, s, g))[MaxNodes], s)
  BY DEF Climb, IsClimb, Risen
<1>7. ASSUME NEW g, IsClimb(n, s, g) PROVE g = f
  <2> DEFINE S == {j \in 0 .. MaxNodes : g[j] = f[j]}
  <2>1. ASSUME NEW j \in 0 .. MaxNodes PROVE g[j] = IF j = 0 THEN n ELSE Up(g[j - 1])
    BY <1>7 DEF IsClimb, Halts
  <2> HIDE DEF Up
  <2>2. 0 \in S  BY <1>0, <1>3, <2>1
  <2>3. ASSUME NEW j \in 1 .. MaxNodes, j - 1 \in S PROVE j \in S
    <3>1. j \in 0 .. MaxNodes /\ j # 0 /\ g[j - 1] = f[j - 1]  BY <2>3
    <3> QED  BY <1>3, <2>1, <3>1
  <2>4. 0 .. MaxNodes \subseteq S
    <3> HIDE DEF S
    <3> QED  BY <1>0, <2>2, <2>3, Throughout
  <2>5. g = [j \in 0 .. MaxNodes |-> g[j]]  BY <1>7 DEF IsClimb
  <2> QED  BY <2>4, <2>5
<1>8. (CHOOSE g : IsClimb(n, s, g)) = f  BY <1>5, <1>7
<1> QED  BY <1>4, <1>6, <1>8

(* x hangs on side s of a node other than head. *)
OnSide(T, s, x) ==
  x \in T /\ x # m.head /\ m.prev[x] # m.head /\ m.child[s][m.prev[x]] = x

(* The bounds of x are within those of y, and the same on side s. *)
Widens(e, s, x, y) ==
  e[s][y] = e[s][x] /\ e["left"][y] <= e["left"][x] /\ e["right"][x] <= e["right"][y]

LEMMA ClimbStep ==
  ASSUME m \in Memory, NEW T, NEW e \in Bounds, NEW B \in Nat, Holds(m, T, e, B), NEW s \in Side,
         NEW x, OnSide(T, s, x), ~Halts(x, s), NEW y, y = m.prev[x]
  PROVE  OnSide(T, s, y) /\ Widens(e, s, x, y) /\ Wide(e, x) < Wide(e, y) /\ m.child[s][y] # NULL
<1>0. Frame(m, T, e, B)  BY DEF Holds, Shape
<1>l. ASSUME NEW z \in T, z # m.head
      PROVE  m.prev[z] \in T /\ \E r \in Side : m.child[r][m.prev[z]] = z
  BY <1>l, LinkedFacts
<1>f. ASSUME NEW z \in T
      PROVE  /\ e["left"][z] \in Int /\ e["right"][z] \in Int /\ m.key[z] \in Nat
             /\ e["left"][z] < m.key[z] /\ m.key[z] < e["right"][z]
  BY <1>0, FrameFacts
<1>1. x \in T /\ x # m.head /\ y # m.head /\ m.child[s][y] = x  BY DEF OnSide
<1>2. x \in Nodes /\ x # NULL /\ y \in T
  <2>1. x \in Nodes /\ m.prev[x] \in T  BY <1>1, LinkedFacts
  <2> QED  BY <2>1 DEF Nodes, NULL
<1>3. ~Bends(x, s) /\ ~IsRoot(m, m.prev[y])  BY DEF Halts
<1>4. m.prev[y] \in T /\ \E r \in Side : m.child[r][m.prev[y]] = y
  BY <1>1, <1>2, <1>l
<1>5. m.prev[y] # m.head  BY <1>3, <1>4, LinkedFacts
<1>6. m.child[Other(s)][m.prev[y]] # y  BY <1>3 DEF Bends
<1>7. m.child[s][m.prev[y]] = y
  <2>1. \A r \in Side : r = s \/ r = Other(s)  BY Sides
  <2> QED  BY <1>4, <1>6, <2>1
<1>8. OnSide(T, s, y)  BY <1>1, <1>2, <1>5, <1>7 DEF OnSide
<1>9. ChildIs(m, T, e, y, s, x)  BY <1>0, <1>1, <1>2, ChildBounds
<1>10. /\ e["left"][y] \in Int /\ e["right"][y] \in Int /\ m.key[y] \in Nat
       /\ e["left"][y] < m.key[y] /\ m.key[y] < e["right"][y]
  BY <1>2, <1>f
<1>11. s = "left" \/ s = "right"  BY Sides
<1>12. Widens(e, s, x, y)  BY <1>9, <1>10, <1>11 DEF ChildIs, Widens
<1>13. Wide(e, x) < Wide(e, y)  BY <1>9, <1>10, <1>11 DEF ChildIs, Wide
<1> QED  BY <1>1, <1>2, <1>8, <1>12, <1>13

(* The walk up from n on side s ends at x. *)
Climbed(T, e, s, n, x) ==
  OnSide(T, s, x) /\ Halts(x, s) /\ Widens(e, s, n, x) /\ (x # n => m.child[s][x] # NULL)

LEMMA ClimbEnds ==
  ASSUME m \in Memory, NEW T, NEW e \in Bounds, NEW B \in Nat, Holds(m, T, e, B), NEW s \in Side,
         NEW n \in T, OnSide(T, s, n)
  PROVE  \E x \in T : Climbed(T, e, s, n, x) /\ Climb(n, s) = Risen(x, s)
<1>0. MaxNodes \in Nat  BY MapAssumption
<1>1. PICK f \in [0 .. MaxNodes -> T] : IsClimb(n, s, f) /\ Climb(n, s) = Risen(f[MaxNodes], s)
  BY ClimbExists
<1>2. f[0] = n  BY <1>0, <1>1 DEF IsClimb
<1>3. ASSUME NEW j \in 1 .. MaxNodes
      PROVE  /\ f[j - 1] \in T /\ f[j] \in T /\ j \in 0 .. MaxNodes
             /\ f[j] = IF Halts(f[j - 1], s) THEN f[j - 1] ELSE m.prev[f[j - 1]]
  <2>1. j \in 0 .. MaxNodes /\ j # 0 /\ j - 1 \in 0 .. MaxNodes  BY <1>0
  <2> QED  BY <1>1, <2>1 DEF IsClimb, Halts
<1>d. ASSUME NEW x \in T PROVE x \in Nodes /\ e["left"][x] \in Int /\ e["right"][x] \in Int
  <2>1. Frame(m, T, e, B)  BY DEF Holds, Shape
  <2> QED  BY <2>1, FrameFacts
<1> DEFINE Good(x) == OnSide(T, s, x) /\ Widens(e, s, n, x) /\ (x # n => m.child[s][x] # NULL)
           S == {j \in 0 .. MaxNodes : Good(f[j])}
           w == [x \in Nodes |-> Wide(e, x)]
           E == {x \in T : Halts(x, s)}
<1>4. 0 .. MaxNodes \subseteq S
  <2>1. 0 \in S
    <3>1. Widens(e, s, n, n)  BY <1>d DEF Widens
    <3> QED  BY <1>0, <1>2, <3>1
  <2>2. ASSUME NEW j \in 1 .. MaxNodes, j - 1 \in S PROVE j \in S
    <3> DEFINE x == f[j - 1]
    <3>1. Good(x) /\ x \in T  BY <1>3, <2>2
    <3>2. CASE Halts(x, s)  BY <1>3, <3>1, <3>2
    <3>3. CASE ~Halts(x, s)
      <4> DEFINE y == m.prev[x]
      <4>1. f[j] = y  BY <1>3, <3>3
      <4>2. y = m.prev[x] /\ y \in T  BY <1>3, <4>1
      <4> HIDE DEF x, y
      <4>3. OnSide(T, s, y) /\ Widens(e, s, x, y) /\ m.child[s][y] # NULL
        BY <3>1, <3>3, <4>2, ClimbStep
      <4>4. Widens(e, s, n, y)
        <5>1. Widens(e, s, n, x)  BY <3>1
        <5> QED  BY <1>d, <3>1, <4>2, <4>3, <5>1 DEF Widens
      <4>5. Good(f[j])  BY <4>1, <4>3, <4>4
      <4> QED  BY <1>3, <4>5
    <3> QED  BY <3>2, <3>3
  <2> HIDE DEF S
  <2> QED  BY <1>0, <2>1, <2>2, Throughout
<1>5. f[MaxNodes] \in E
  <2>1. f \in [0 .. MaxNodes -> Nodes]
    <3>1. \A j \in 0 .. MaxNodes : f[j] \in Nodes  BY <1>d
    <3> QED  BY <3>1
  <2>2. w \in [Nodes -> Int]  BY Sides DEF Bounds, Wide
  <2>3. \A x \in T : w[x] = Wide(e, x)  BY <1>d
  <2>4. ASSUME NEW j \in 1 .. MaxNodes
        PROVE  IF f[j - 1] \in E THEN f[j] \in E ELSE w[f[j - 1]] < w[f[j]]
    <3> HIDE DEF w
    <3>1. CASE Halts(f[j - 1], s)  BY <1>3, <3>1
    <3>2. CASE ~Halts(f[j - 1], s)
      <4>1. f[j] = m.prev[f[j - 1]] /\ f[j - 1] \notin E  BY <1>3, <3>2
      <4>2. OnSide(T, s, f[j - 1])  BY <1>0, <1>4
      <4>3. Wide(e, f[j - 1]) < Wide(e, f[j])  BY <3>2, <4>1, <4>2, ClimbStep
      <4> QED  BY <1>3, <2>3, <4>1, <4>3
    <3> QED  BY <3>1, <3>2
  <2> HIDE DEF w, E
  <2>5. Walks(f, w, E)  BY <2>4 DEF Walks
  <2> QED  BY <2>1, <2>2, <2>5, WalkEnds
<1>6. MaxNodes \in S /\ f[MaxNodes] \in T  BY <1>0, <1>4
<1>7. Climbed(T, e, s, n, f[MaxNodes])  BY <1>5, <1>6 DEF Climbed
<1> QED  BY <1>1, <1>6, <1>7

(* y is in a part that operator++ leaves out. *)
Skipped(T, y) == \E a \in T : LeftRun(a) /\ y \in Below(a)

(* r comes next after n: what is between them is left out. *)
Follows(T, n, r) ==
  /\ r # NULL => r \in T /\ m.key[n] < m.key[r]
  /\ \A y \in T : m.key[n] < m.key[y] /\ (r # NULL => m.key[y] < m.key[r]) => Skipped(T, y)

(* operator++ walks up from a left child. *)
LEMMA LeftClimb ==
  ASSUME m \in Memory, NEW T, NEW e \in Bounds, NEW B \in Nat, Holds(m, T, e, B),
         NEW n \in T, m.child["right"][n] = NULL, OnSide(T, "left", n)
  PROVE  Follows(T, n, Climb(n, "left"))
<1>0. Shape(m, T, e, B) /\ Frame(m, T, e, B)  BY DEF Holds, Shape
<1>s. "left" \in Side /\ "left" # "right"  BY Sides
<1>f. ASSUME NEW z \in T
      PROVE  /\ e["left"][z] \in Int /\ e["right"][z] \in Int /\ m.key[z] \in Nat
             /\ e["left"][z] < m.key[z] /\ m.key[z] < e["right"][z]
             /\ z \in Nodes /\ z # NULL /\ m.prev[z] \in T /\ (IsRoot(m, z) <=> z = m.head)
  <2>1. z \in Nodes /\ m.prev[z] \in T /\ (IsRoot(m, z) <=> z = m.head)  BY LinkedFacts
  <2>2. z # NULL  BY <2>1 DEF Nodes, NULL
  <2> QED  BY <1>0, <2>1, <2>2, FrameFacts
<1>1. PICK x \in T : Climbed(T, e, "left", n, x) /\ Climb(n, "left") = Risen(x, "left")
  BY <1>s, ClimbEnds
<1>2. /\ x # m.head /\ m.prev[x] # m.head /\ m.child["left"][m.prev[x]] = x
      /\ e["left"][x] <= e["left"][n] /\ e["right"][n] <= e["right"][x]
      /\ x # n => m.child["left"][x] # NULL
  BY <1>1 DEF Climbed, OnSide, Widens
<1> DEFINE r == m.prev[x]
<1>3. Climb(n, "left") = r  BY <1>1 DEF Risen
<1>4. r \in T /\ r # NULL /\ ~IsRoot(m, r)  BY <1>2, <1>f
<1>5. e["right"][x] = m.key[r]
  <2>1. x \in T /\ r \in T /\ m.child["left"][r] = x /\ x # NULL  BY <1>2, <1>4, <1>f
  <2> HIDE DEF r
  <2>2. ChildIs(m, T, e, r, "left", x)  BY <1>0, <1>s, <2>1, ChildBounds
  <2> QED  BY <2>2 DEF ChildIs
<1>6. m.key[n] < m.key[r]  BY <1>2, <1>4, <1>5, <1>f
<1>7. ASSUME NEW y \in T, m.key[n] < m.key[y], m.key[y] < m.key[r] PROVE Skipped(T, y)
  <2>1. CASE x = n
    <3>1. ~(m.key[n] < m.key[y] /\ m.key[y] < e["right"][n])  BY <1>0, NoneBetween
    <3> QED  BY <1>5, <1>7, <2>1, <3>1
  <2>2. CASE x # n
    <3>1. Between(e, x, m.key[y])  BY <1>2, <1>5, <1>7, <1>f DEF Between
    <3>2. y \in Below(x)  BY <1>0, <3>1, BelowIf
    <3>3. LeftRun(x)  BY <1>2, <1>4, <2>2 DEF LeftRun, Left
    <3> QED  BY <3>2, <3>3 DEF Skipped
  <2> QED  BY <2>1, <2>2
<1> HIDE DEF r
<1> QED  BY <1>3, <1>4, <1>6, <1>7 DEF Follows

(* operator++ walks up from a right child. *)
LEMMA RightClimb ==
  ASSUME m \in Memory, NEW T, NEW e \in Bounds, NEW B \in Nat, Holds(m, T, e, B),
         NEW n \in T, m.child["right"][n] = NULL, OnSide(T, "right", n)
  PROVE  Follows(T, n, Climb(n, "right"))
<1>0. Shape(m, T, e, B) /\ Frame(m, T, e, B)  BY DEF Holds, Shape
<1>s. "left" \in Side /\ "right" \in Side /\ "left" # "right" /\ Other("right") = "left"
      /\ \A s \in Side : s = "left" \/ s = "right"
  BY Sides
<1>f. ASSUME NEW z \in T
      PROVE  /\ e["left"][z] \in Int /\ e["right"][z] \in Int /\ m.key[z] \in Nat
             /\ e["left"][z] < m.key[z] /\ m.key[z] < e["right"][z] /\ e["right"][z] <= B
  BY <1>0, FrameFacts
<1>l. ASSUME NEW z \in T
      PROVE  /\ z \in Nodes /\ z # NULL /\ m.prev[z] \in T /\ (IsRoot(m, z) <=> z = m.head)
             /\ z # m.head => \E s \in Side : m.child[s][m.prev[z]] = z
  <2>1. /\ z \in Nodes /\ m.prev[z] \in T /\ (IsRoot(m, z) <=> z = m.head)
        /\ z # m.head => \E s \in Side : m.child[s][m.prev[z]] = z
    BY LinkedFacts
  <2>2. z # NULL  BY <2>1 DEF Nodes, NULL
  <2> QED  BY <2>1, <2>2
<1>1. PICK x \in T : Climbed(T, e, "right", n, x) /\ Climb(n, "right") = Risen(x, "right")
  BY <1>s, ClimbEnds
<1>2. /\ x # m.head /\ m.prev[x] # m.head /\ m.child["right"][m.prev[x]] = x
      /\ e["right"][x] = e["right"][n] /\ Halts(x, "right")
  BY <1>1 DEF Climbed, OnSide, Widens
<1> DEFINE p == m.prev[x]
           g == m.prev[p]
<1>3. p \in T /\ p # NULL /\ g \in T /\ g # NULL /\ x # NULL /\ (IsRoot(m, g) <=> g = m.head)
  BY <1>l
<1>c. ASSUME NEW y \in T, NEW s \in Side, m.child[s][m.prev[y]] = y
      PROVE  e["right"][y] = IF s = "right" THEN e["right"][m.prev[y]] ELSE m.key[m.prev[y]]
  <2> DEFINE z == m.prev[y]
  <2>1. z \in T /\ y = m.child[s][z] /\ y # NULL  BY <1>c, <1>l
  <2> HIDE DEF z
  <2>2. ChildIs(m, T, e, z, s, y)  BY <1>0, <2>1, ChildBounds
  <2>3. e["right"][y] = IF s = "right" THEN e["right"][z] ELSE m.key[z]  BY <1>s, <2>2 DEF ChildIs
  <2> QED  BY <2>3 DEF z
<1>4. e["right"][n] = e["right"][p]  BY <1>2, <1>c, <1>s
<1>5. Bends(x, "right") <=> m.child["left"][g] = p  BY <1>s DEF Bends
<1>6. \A y \in T : ~(m.key[n] < m.key[y] /\ m.key[y] < e["right"][n])  BY <1>0, NoneBetween
<1>7. CASE Bends(x, "right")
  <2>1. Climb(n, "right") = g  BY <1>1, <1>7, <1>s DEF Risen
  <2>2. e["right"][p] = m.key[g]  BY <1>3, <1>5, <1>7, <1>c, <1>s
  <2>3. m.key[n] < m.key[g]  BY <1>4, <1>f, <2>2
  <2> HIDE DEF p, g
  <2> QED  BY <1>3, <1>4, <1>6, <2>1, <2>2, <2>3 DEF Follows
<1>8. CASE ~Bends(x, "right")
  <2>1. Climb(n, "right") = NULL  BY <1>1, <1>8, <1>s DEF Risen
  <2>2. g = m.head  BY <1>2, <1>3, <1>8 DEF Halts
  <2>3. m.child["right"][g] = p  BY <1>2, <1>3, <1>5, <1>8, <1>l, <1>s
  <2>4. e["right"][p] = e["right"][g]  BY <1>3, <1>c, <1>s, <2>3
  <2>5. e["right"][n] = B  BY <1>0, <1>4, <2>2, <2>4 DEF Frame
  <2>6. ASSUME NEW y \in T PROVE m.key[y] < e["right"][n]  BY <1>f, <2>5
  <2> QED  BY <1>6, <2>1, <2>6 DEF Follows
<1> QED  BY <1>7, <1>8

LEMMA AfterFollows ==
  ASSUME m \in Memory, NEW T, NEW e \in Bounds, NEW B \in Nat, Holds(m, T, e, B), NEW n \in T
  PROVE  Follows(T, n, After(n))
<1>0. Shape(m, T, e, B) /\ Frame(m, T, e, B)  BY DEF Holds, Shape
<1>s. "left" \in Side /\ "right" \in Side /\ "left" # "right"
      /\ \A s \in Side : s = "left" \/ s = "right"
  BY Sides
<1>f. ASSUME NEW z \in T
      PROVE  /\ e["left"][z] \in Int /\ e["right"][z] \in Int /\ m.key[z] \in Nat
             /\ e["left"][z] < m.key[z] /\ m.key[z] < e["right"][z] /\ e["right"][z] <= B
  BY <1>0, FrameFacts
<1>l. ASSUME NEW z \in T
      PROVE  /\ z \in Nodes /\ z # NULL /\ m.prev[z] \in T /\ (IsRoot(m, z) <=> z = m.head)
             /\ z # m.head => \E s \in Side : m.child[s][m.prev[z]] = z
  <2>1. /\ z \in Nodes /\ m.prev[z] \in T /\ (IsRoot(m, z) <=> z = m.head)
        /\ z # m.head => \E s \in Side : m.child[s][m.prev[z]] = z
    BY LinkedFacts
  <2>2. z # NULL  BY <2>1 DEF Nodes, NULL
  <2> QED  BY <2>1, <2>2
<1> DEFINE p == m.prev[n]
<1>h. m.head \in T /\ e["right"][m.head] = B  BY <1>0 DEF Frame
<1>1. CASE m.child["right"][n] # NULL
  <2> DEFINE c == m.child["right"][n]
             r == begin(c)
  <2>1. c = m.child["right"][n] /\ c # NULL /\ After(n) = r  BY <1>1 DEF After, Right
  <2> HIDE DEF c
  <2>2. ChildIs(m, T, e, n, "right", c)  BY <1>0, <1>s, <2>1, ChildBounds
  <2>3. c \in T /\ e["left"][c] = m.key[n]  BY <1>s, <2>2 DEF ChildIs
  <2>4. IsFirst(T, e, c, r)  BY <1>0, <2>3, BeginIsFirst
  <2> HIDE DEF r
  <2>5. r \in T /\ m.child["left"][r] = NULL /\ e["left"][r] = m.key[n]  BY <2>3, <2>4 DEF IsFirst
  <2>6. \A y \in T : ~(e["left"][r] < m.key[y] /\ m.key[y] < m.key[r])  BY <1>0, <2>5, NoneBetween
  <2>7. m.key[n] < m.key[r] /\ r # NULL  BY <1>f, <1>l, <2>5
  <2> QED  BY <2>1, <2>5, <2>6, <2>7 DEF Follows
<1>2. ASSUME m.child["right"][n] = NULL, e["right"][n] = B, After(n) = NULL PROVE Follows(T, n, After(n))
  <2>1. ASSUME NEW y \in T PROVE ~(m.key[n] < m.key[y])
    <3>1. ~(m.key[n] < m.key[y] /\ m.key[y] < e["right"][n])  BY <1>0, <1>2, NoneBetween
    <3>2. m.key[y] < B  BY <1>f, <1>h
    <3> QED  BY <1>2, <3>1, <3>2
  <2> QED  BY <1>2, <2>1 DEF Follows
<1>3. CASE m.child["right"][n] = NULL /\ n = m.head
  <2>1. After(n) = NULL  BY <1>3, <1>l DEF After, Right
  <2> QED  BY <1>2, <1>3, <1>h, <2>1
<1>4. CASE m.child["right"][n] = NULL /\ n # m.head
  <2>1. p \in T /\ p # NULL /\ ~IsRoot(m, n) /\ (IsRoot(m, p) <=> p = m.head)  BY <1>4, <1>l
  <2>2. n # NULL  BY <1>l
  <2>3. PICK s \in Side : m.child[s][p] = n  BY <1>4, <1>l
  <2>a. After(n) = IF IsRoot(m, p) THEN (IF n = Right(p) THEN NULL ELSE p)
                   ELSE Climb(n, IF n = Left(p) THEN "left" ELSE "right")
    BY <1>4, <2>1 DEF After, Right
  <2>p. p = m.prev[n]  OBVIOUS
  <2> HIDE DEF p
  <2>4. CASE p = m.head
    <3>1. CASE n = Right(p)
      <4>1. n = m.child["right"][p]  BY <3>1 DEF Right
      <4>2. ChildIs(m, T, e, p, "right", n)  BY <1>0, <1>s, <2>1, <2>2, <4>1, ChildBounds
      <4>3. e["right"][n] = B  BY <1>h, <1>s, <2>4, <4>2 DEF ChildIs
      <4>4. After(n) = NULL  BY <2>1, <2>4, <2>a, <3>1
      <4> QED  BY <1>2, <1>4, <4>3, <4>4
    <3>2. CASE n # Right(p)
      <4>1. n = m.child["left"][p]  BY <1>s, <2>3, <3>2 DEF Right
      <4>2. ChildIs(m, T, e, p, "left", n)  BY <1>0, <1>s, <2>1, <2>2, <4>1, ChildBounds
      <4>3. e["right"][n] = m.key[p]  BY <1>s, <4>2 DEF ChildIs
      <4>4. After(n) = p  BY <2>1, <2>4, <2>a, <3>2
      <4>5. \A y \in T : ~(m.key[n] < m.key[y] /\ m.key[y] < e["right"][n])
        BY <1>0, <1>4, NoneBetween
      <4>6. m.key[n] < m.key[p]  BY <1>f, <4>3
      <4> QED  BY <2>1, <4>3, <4>4, <4>5, <4>6 DEF Follows
    <3> QED  BY <3>1, <3>2
  <2>5. CASE p # m.head
    <3>1. CASE n = Left(p)
      <4>1. OnSide(T, "left", n)  BY <1>4, <2>5, <2>p, <3>1 DEF OnSide, Left
      <4>2. After(n) = Climb(n, "left")  BY <2>1, <2>5, <2>a, <3>1
      <4>3. m.child["right"][n] = NULL  BY <1>4
      <4>4. Follows(T, n, Climb(n, "left"))  BY <4>1, <4>3, LeftClimb
      <4> QED  BY <4>2, <4>4
    <3>2. CASE n # Left(p)
      <4>1. OnSide(T, "right", n)  BY <1>4, <1>s, <2>3, <2>5, <2>p, <3>2 DEF OnSide, Left
      <4>2. After(n) = Climb(n, "right")  BY <2>1, <2>5, <2>a, <3>2
      <4>3. m.child["right"][n] = NULL  BY <1>4
      <4>4. Follows(T, n, Climb(n, "right"))  BY <4>1, <4>3, RightClimb
      <4> QED  BY <4>2, <4>4
    <3> QED  BY <3>1, <3>2
  <2> QED  BY <2>4, <2>5
<1> QED  BY <1>1, <1>3, <1>4
-----------------------------------------------------------------------------
(* print_map.                                                              *)

IsPrinted(f) ==
  f = [j \in 0 .. MaxNodes |->
         IF j = 0 THEN <<begin(m.head)>>
         ELSE LET out == f[j - 1]
                  n   == After(Last(out))
              IN  IF n = NULL THEN out ELSE Append(out, n)]

LEMMA PrintedExists ==
  ASSUME m \in Memory, NEW T, NEW e \in Bounds, NEW B \in Nat, Holds(m, T, e, B)
  PROVE  \E f : IsPrinted(f) /\ print_map = f[MaxNodes]
<1> DEFINE R == {p \in Seq(T) : p # << >>}
           a == <<begin(m.head)>>
           On(p) == LET n == After(Last(p)) IN IF n = NULL THEN p ELSE Append(p, n)
           step == [p \in R |-> On(p)]
<1>0. MaxNodes \in Nat  BY MapAssumption
<1>1. ASSUME NEW p \in R PROVE On(p) \in R
  <2> DEFINE n == After(p[Len(p)])
  <2>1. Len(p) \in 1 .. Len(p)  OBVIOUS
  <2>2. p[Len(p)] \in T  BY <2>1
  <2>3. n # NULL => n \in T  BY <2>2, AfterFollows DEF Follows
  <2>4. On(p) = IF n = NULL THEN p ELSE Append(p, n)  BY DEF Last
  <2> HIDE DEF n, On
  <2>5. n # NULL => Append(p, n) \in R  BY <2>3
  <2> QED  BY <2>4, <2>5
<1>2. a \in R
  <2>1. Frame(m, T, e, B) /\ m.head \in T  BY DEF Holds, Shape, Frame
  <2>2. begin(m.head) \in T  BY <2>1, BeginIsFirst DEF IsFirst
  <2> QED  BY <2>2
<1>3. step \in [R -> R]
  <2> HIDE DEF R, On
  <2> QED  BY <1>1
<1>4. PICK f \in [0 .. MaxNodes -> R] : IsWalked(a, step, f)
  <2> HIDE DEF R, a, step
  <2> QED  BY <1>2, <1>3, WalkExists
<1>5. ASSUME NEW j \in 0 .. MaxNodes PROVE f[j] = IF j = 0 THEN a ELSE On(f[j - 1])
  <2>1. j # 0 => f[j - 1] \in R
    <3>1. j # 0 => j - 1 \in 0 .. MaxNodes  BY <1>0
    <3> HIDE DEF R
    <3> QED  BY <3>1
  <2>2. f[j] = IF j = 0 THEN a ELSE step[f[j - 1]]
    <3> HIDE DEF R, a, step
    <3> QED  BY <1>4 DEF IsWalked
  <2> HIDE DEF R, a, On
  <2> QED  BY <2>1, <2>2
<1>6. IsPrinted(f)
  <2> DEFINE F == [j \in 0 .. MaxNodes |-> IF j = 0 THEN a ELSE On(f[j - 1])]
  <2>1. f = F
    <3> HIDE DEF R, a, On
    <3> QED  BY <1>5
  <2> QED  BY <2>1 DEF IsPrinted
<1>7. IsPrinted(CHOOSE g : IsPrinted(g))  BY <1>6
<1>8. print_map = (CHOOSE g : IsPrinted(g))[MaxNodes]  BY DEF print_map, IsPrinted
<1> QED  BY <1>7, <1>8

(* p starts at the first node, and each of its nodes is the next one's     *)
(* predecessor for operator++.                                             *)
Lists(T, p) ==
  /\ p \in Seq(T) /\ p # << >> /\ p[1] = begin(m.head)
  /\ \A i \in 1 .. Len(p) - 1 : p[i + 1] = After(p[i]) /\ p[i + 1] # NULL

(* print_map ends. *)
LEMMA PrintEnds ==
  ASSUME m \in Memory, NEW T, NEW e \in Bounds, NEW B \in Nat, Holds(m, T, e, B)
  PROVE  Lists(T, print_map) /\ After(Last(print_map)) = NULL
<1>0. MaxNodes \in Nat  BY MapAssumption
<1>a. ASSUME NEW n \in T PROVE Follows(T, n, After(n))  BY AfterFollows
<1>b. ASSUME NEW n \in T PROVE n \in Nodes /\ m.key[n] \in Int
  <2>1. n \in Nodes  BY LinkedFacts
  <2>2. m.key \in [Nodes -> Nat]  BY DEF Memory
  <2> QED  BY <2>1, <2>2
<1>c. begin(m.head) \in T
  <2>1. Frame(m, T, e, B) /\ m.head \in T  BY DEF Holds, Shape, Frame
  <2> QED  BY <2>1, BeginIsFirst DEF IsFirst
<1>1. PICK f : IsPrinted(f) /\ print_map = f[MaxNodes]  BY PrintedExists
<1>2. f[0] = <<begin(m.head)>>
  <2>1. 0 \in 0 .. MaxNodes  BY <1>0
  <2> QED  BY <1>1, <2>1 DEF IsPrinted
<1>3. ASSUME NEW j \in 1 .. MaxNodes
      PROVE  f[j] = LET n == After(Last(f[j - 1])) IN IF n = NULL THEN f[j - 1] ELSE Append(f[j - 1], n)
  <2>1. j \in 0 .. MaxNodes /\ j # 0  BY <1>0
  <2> QED  BY <1>1, <2>1 DEF IsPrinted
<1> DEFINE Done(p) == After(Last(p)) = NULL
           S == {j \in 0 .. MaxNodes : Lists(T, f[j]) /\ (Done(f[j]) \/ Len(f[j]) = j + 1)}
<1>4. 0 \in S
  <2> DEFINE p == <<begin(m.head)>>
  <2>1. Len(p) = 1 /\ p[1] = begin(m.head) /\ p \in Seq(T) /\ p # << >>  BY <1>c
  <2>2. 1 .. Len(p) - 1 = {}  BY <2>1
  <2>3. f[0] = p  BY <1>2
  <2> HIDE DEF p
  <2>4. Lists(T, p)  BY <2>1, <2>2 DEF Lists
  <2> QED  BY <1>0, <2>1, <2>3, <2>4
<1>5. ASSUME NEW j \in 1 .. MaxNodes, j - 1 \in S PROVE j \in S
  <2> DEFINE p == f[j - 1]
             c == After(Last(p))
  <2>1. Lists(T, p) /\ (c = NULL \/ Len(p) = j)  BY <1>0, <1>5
  <2>2. f[j] = IF c = NULL THEN p ELSE Append(p, c)  BY <1>3
  <2>3. j \in 0 .. MaxNodes  BY <1>0
  <2>4. CASE c = NULL
    <3>1. f[j] = p /\ Done(p)  BY <2>2, <2>4
    <3> HIDE DEF p, Done
    <3> QED  BY <2>1, <2>3, <3>1
  <2>5. CASE c # NULL
    <3> DEFINE q == Append(p, c)
    <3>1. f[j] = q /\ Len(p) = j  BY <2>1, <2>2, <2>5
    <3>2. c = After(Last(p))  OBVIOUS
    <3> HIDE DEF p, c
    <3>3. p \in Seq(T) /\ p # << >> /\ p[1] = begin(m.head)  BY <2>1 DEF Lists
    <3>4. Len(p) \in 1 .. Len(p) /\ Last(p) = p[Len(p)]  BY <3>3 DEF Last
    <3>5. Last(p) \in T  BY <3>3, <3>4
    <3>6. c \in T  BY <1>a, <2>5, <3>2, <3>5 DEF Follows
    <3>7. q \in Seq(T) /\ Len(q) = Len(p) + 1 /\ q[Len(p) + 1] = c /\ \A i \in 1 .. Len(p) : q[i] = p[i]
      BY <3>3, <3>6
    <3> HIDE DEF q
    <3>8. q[1] = begin(m.head) /\ q # << >>  BY <3>3, <3>4, <3>7
    <3>9. ASSUME NEW i \in 1 .. Len(q) - 1 PROVE q[i + 1] = After(q[i]) /\ q[i + 1] # NULL
      <4>1. i \in 1 .. Len(p) /\ q[i] = p[i]  BY <3>4, <3>7
      <4>2. CASE i = Len(p)  BY <2>5, <3>2, <3>4, <3>7, <4>1, <4>2
      <4>3. CASE i # Len(p)
        <5>1. i \in 1 .. Len(p) - 1 /\ i + 1 \in 1 .. Len(p)  BY <3>4, <4>1, <4>3
        <5>2. q[i + 1] = p[i + 1]  BY <3>7, <5>1
        <5> QED  BY <2>1, <4>1, <5>1, <5>2 DEF Lists
      <4> QED  BY <4>2, <4>3
    <3>10. Lists(T, q)  BY <3>7, <3>8, <3>9 DEF Lists
    <3> QED  BY <2>3, <3>1, <3>7, <3>10
  <2> QED  BY <2>4, <2>5
<1>6. MaxNodes \in S
  <2>1. 0 .. MaxNodes \subseteq S
    <3> HIDE DEF S
    <3> QED  BY <1>0, <1>4, <1>5, Throughout
  <2> QED  BY <1>0, <2>1
<1>7. Lists(T, print_map) /\ (Done(print_map) \/ Len(print_map) = MaxNodes + 1)  BY <1>1, <1>6
<1>8. Len(print_map) # MaxNodes + 1
  <2> SUFFICES ASSUME Len(print_map) = MaxNodes + 1 PROVE FALSE  OBVIOUS
  <2> DEFINE p == print_map
             h == [j \in 0 .. MaxNodes |-> p[j + 1]]
             w == [x \in Nodes |-> m.key[x]]
  <2>1. p \in Seq(T) /\ Len(p) = MaxNodes + 1
        /\ \A i \in 1 .. Len(p) - 1 : p[i + 1] = After(p[i]) /\ p[i + 1] # NULL
    BY <1>7 DEF Lists
  <2> HIDE DEF p
  <2>2. \A i \in 1 .. MaxNodes + 1 : p[i] \in T  BY <2>1
  <2>3. h \in [0 .. MaxNodes -> Nodes]
    <3>1. \A j \in 0 .. MaxNodes : j + 1 \in 1 .. MaxNodes + 1  BY <1>0
    <3>2. \A j \in 0 .. MaxNodes : p[j + 1] \in Nodes  BY <1>b, <2>2, <3>1
    <3> QED  BY <3>2
  <2>4. w \in [Nodes -> Int]
    <3>1. m.key \in [Nodes -> Nat]  BY DEF Memory
    <3> QED  BY <3>1
  <2>5. ASSUME NEW j \in 1 .. MaxNodes PROVE w[h[j - 1]] < w[h[j]]
    <3>1. h[j - 1] = p[j] /\ h[j] = p[j + 1]  BY <1>0
    <3>2. j \in 1 .. MaxNodes + 1 /\ j + 1 \in 1 .. MaxNodes + 1 /\ j \in 1 .. Len(p) - 1  BY <1>0, <2>1
    <3>3. p[j] \in T /\ p[j + 1] \in T /\ p[j + 1] = After(p[j]) /\ p[j + 1] # NULL  BY <2>1, <2>2, <3>2
    <3>4. m.key[p[j]] < m.key[p[j + 1]]  BY <1>a, <3>3 DEF Follows
    <3>5. \A x \in T : w[x] = m.key[x]  BY <1>b
    <3> QED  BY <3>1, <3>3, <3>4, <3>5
  <2> HIDE DEF h, w
  <2>6. Walks(h, w, {})  BY <2>5 DEF Walks
  <2>7. h[MaxNodes] \in {}  BY <2>3, <2>4, <2>6, WalkEnds
  <2> QED  BY <2>7
<1> QED  BY <1>7, <1>8

(* Keys come in ascending order, and only skipped nodes do not come. *)
Prints(T, p) ==
  /\ \A j \in 2 .. Len(p) : m.key[p[j - 1]] < m.key[p[j]]
  /\ \A y \in T : (\E j \in DOMAIN p : p[j] = y) \/ Skipped(T, y)

LEMMA PrintedIs ==
  ASSUME m \in Memory, NEW T, NEW e \in Bounds, NEW B \in Nat, Holds(m, T, e, B)
  PROVE  Prints(T, print_map)
<1>0. Shape(m, T, e, B) /\ Frame(m, T, e, B)  BY DEF Holds, Shape
<1>a. ASSUME NEW n \in T PROVE Follows(T, n, After(n))  BY AfterFollows
<1>b. ASSUME NEW n \in T PROVE n \in Nodes /\ m.key[n] \in Nat /\ -1 < m.key[n]
  <2>1. n \in Nodes  BY LinkedFacts
  <2>2. m.key \in [Nodes -> Nat]  BY DEF Memory
  <2>3. m.key[n] \in Nat  BY <2>1, <2>2
  <2> QED  BY <2>1, <2>3
<1> DEFINE p == print_map
<1>1. Lists(T, p) /\ After(Last(p)) = NULL  BY PrintEnds
<1> HIDE DEF p
<1>2. p \in Seq(T) /\ p # << >> /\ p[1] = begin(m.head) /\ Len(p) \in Nat /\ Len(p) >= 1
      /\ DOMAIN p = 1 .. Len(p) /\ \A i \in 1 .. Len(p) : p[i] \in T
  BY <1>1 DEF Lists
<1>3. ASSUME NEW i \in 1 .. Len(p) - 1
      PROVE  /\ i \in 1 .. Len(p) /\ i + 1 \in 1 .. Len(p)
             /\ p[i + 1] = After(p[i]) /\ p[i + 1] # NULL /\ m.key[p[i]] < m.key[p[i + 1]]
  <2>1. i \in 1 .. Len(p) /\ i + 1 \in 1 .. Len(p)  BY <1>2
  <2>2. p[i + 1] = After(p[i]) /\ p[i + 1] # NULL  BY <1>1 DEF Lists
  <2>3. m.key[p[i]] < m.key[p[i + 1]]  BY <1>2, <1>a, <2>1, <2>2 DEF Follows
  <2> QED  BY <2>1, <2>2, <2>3
<1>4. ASSUME NEW j \in 2 .. Len(p) PROVE m.key[p[j - 1]] < m.key[p[j]]
  <2>1. j - 1 \in 1 .. Len(p) - 1 /\ (j - 1) + 1 = j  BY <1>2
  <2> QED  BY <1>3, <2>1
<1>5. ASSUME NEW y \in T, \A j \in 1 .. Len(p) : p[j] # y PROVE Skipped(T, y)
  <2>1. \A j \in 1 .. Len(p) : m.key[p[j]] # m.key[y]
    <3>1. ASSUME NEW j \in 1 .. Len(p), m.key[p[j]] = m.key[y] PROVE FALSE
      <4>1. p[j] \in T  BY <1>2
      <4>2. p[j] = y  BY <1>0, <3>1, <4>1, KeysDiffer
      <4> QED  BY <1>5, <4>2
    <3> QED  BY <3>1
  <2>2. m.key[p[1]] < m.key[y]
    <3> DEFINE r == p[1]
    <3>1. m.head \in T /\ e["left"][m.head] = -1  BY <1>0 DEF Frame
    <3>2. IsFirst(T, e, m.head, r)  BY <1>0, <1>2, <3>1, BeginIsFirst
    <3>3. r \in T /\ m.child["left"][r] = NULL /\ e["left"][r] = -1  BY <3>1, <3>2 DEF IsFirst
    <3>4. m.key[r] # m.key[y]  BY <1>2, <2>1
    <3> HIDE DEF r
    <3>5. ~(e["left"][r] < m.key[y] /\ m.key[y] < m.key[r])  BY <1>0, <3>3, NoneBetween
    <3>6. m.key[r] < m.key[y]  BY <1>b, <3>3, <3>4, <3>5
    <3> QED  BY <3>6 DEF r
  <2> DEFINE I == {Len(p) - j : j \in {j \in 1 .. Len(p) : m.key[p[j]] < m.key[y]}}
  <2>3. I \subseteq Nat /\ I # {}  BY <1>2, <2>2
  <2>4. PICK v \in I : \A u \in I : v <= u  BY <2>3, FirstExists
  <2>5. PICK j \in 1 .. Len(p) : m.key[p[j]] < m.key[y] /\ v = Len(p) - j  BY <2>4
  <2>6. Follows(T, p[j], After(p[j])) /\ p[j] \in T  BY <1>2, <1>a
  <2>7. CASE j = Len(p)
    <3>1. After(p[j]) = NULL  BY <1>1, <2>7 DEF Last
    <3> QED  BY <2>5, <2>6, <3>1 DEF Follows
  <2>8. CASE j # Len(p)
    <3>1. j \in 1 .. Len(p) - 1
      <4>1. Len(p) \in Nat  BY <1>2
      <4> QED  BY <2>8, <4>1
    <3>2. j + 1 \in 1 .. Len(p) /\ p[j + 1] = After(p[j]) /\ p[j + 1] \in T  BY <1>2, <1>3, <3>1
    <3>3. ~(m.key[p[j + 1]] < m.key[y])
      <4> SUFFICES ASSUME m.key[p[j + 1]] < m.key[y] PROVE FALSE  OBVIOUS
      <4>1. Len(p) - (j + 1) \in I  BY <3>2
      <4>2. v <= Len(p) - (j + 1)  BY <2>4, <4>1
      <4> QED  BY <1>2, <2>5, <4>2
    <3>4. m.key[y] < m.key[p[j + 1]]  BY <1>b, <2>1, <3>2, <3>3
    <3> QED  BY <2>5, <2>6, <3>2, <3>4 DEF Follows
  <2> QED  BY <2>7, <2>8
<1>6. Prints(T, p)  BY <1>2, <1>4, <1>5 DEF Prints
<1> QED  BY <1>6 DEF p

(* As long as no keys were lost, print_map ends, prints keys in ascending  *)
(* order, and leaves out only what is below two left children in a row.    *)
THEOREM PrintIsInOrder == Spec => []PrintsInOrder
<1>1. MapInv => PrintsInOrder
  <2> SUFFICES ASSUME IsMap(m, keys), m.head # NULL
               PROVE  /\ \A j \in 2 .. Len(print_map) : m.key[print_map[j - 1]] < m.key[print_map[j]]
                      /\ \A n \in Tree : \/ \E j \in DOMAIN print_map : print_map[j] = n
                                         \/ \E a \in Tree : LeftRun(a) /\ n \in Below(a)
    BY DEF MapInv, PrintsInOrder
  <2>1. m \in Memory /\ InTree(m, keys)  BY DEF IsMap
  <2>2. PICK T \in SUBSET Nodes, e \in Bounds, B \in Nat : Holds(m, T, e, B)
    BY <2>1 DEF InTree
  <2>3. Tree = T  BY <2>1, <2>2, TreeIsT DEF Holds
  <2>4. Prints(T, print_map)  BY <2>1, <2>2, PrintedIs
  <2> QED  BY <2>3, <2>4 DEF Prints, Skipped
<1> QED  BY <1>1, MapIsKept, PTL
=============================================================================
