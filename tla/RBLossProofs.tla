---------------------------- MODULE RBLossProofs -----------------------------
(***************************************************************************)
(* Proofs about the map after keys were lost, for every set of keys and    *)
(* every number of nodes: whatever rotations that forget a parent and      *)
(* erasures leave behind, what head leads to is a search tree.             *)
(***************************************************************************)
EXTENDS RBMapProofs
-----------------------------------------------------------------------------
(* What is left of a tree.                                                 *)

(* Nodes that nothing points to any more may be left out. *)
LEMMA Reachable ==
  ASSUME NEW t \in Memory, NEW T, NEW e \in Bounds, NEW B \in Nat, Frame(t, T, e, B)
  PROVE  \E U \in SUBSET T : Shape(t, U, e, B)
<1> DEFINE Rooted(V) == t.head \in V /\ \A x \in V, s \in Side :
                          t.child[s][x] # NULL => t.child[s][x] \in V
           U == {x \in T : \A V \in SUBSET T : Rooted(V) => x \in V}
<1>1. Rooted(T)  BY DEF Frame
<1>2. Rooted(U)
  <2>1. t.head \in U  BY DEF Frame
  <2>2. ASSUME NEW x \in U, NEW s \in Side, NEW c, c = t.child[s][x], c # NULL PROVE c \in U
    <3>1. c \in T  BY <1>1, <2>2
    <3>2. ASSUME NEW V \in SUBSET T, Rooted(V) PROVE c \in V
      <4>1. x \in V  BY <3>2
      <4> QED  BY <2>2, <3>2, <4>1
    <3> HIDE DEF Rooted
    <3> QED  BY <3>1, <3>2
  <2> QED  BY <2>1, <2>2
<1>3. U \in SUBSET T /\ \A V \in SUBSET T : Rooted(V) => U \subseteq V  OBVIOUS
<1> HIDE DEF U
<1>4. Frame(t, U, e, B)  BY <1>2, <1>3 DEF Frame
<1>5. ASSUME NEW y \in U, y # t.head PROVE \E x \in U, s \in Side : t.child[s][x] = y
  <2> SUFFICES ASSUME \A x \in U, s \in Side : t.child[s][x] # y PROVE FALSE  OBVIOUS
  <2> DEFINE V == U \ {y}
  <2>1. Rooted(V)  BY <1>2, <1>5
  <2>2. V \in SUBSET T  BY <1>3
  <2> HIDE DEF Rooted
  <2>3. U \subseteq V  BY <1>3, <2>1, <2>2
  <2> QED  BY <2>3
<1> QED  BY <1>3, <1>4, <1>5 DEF Shape

(* c is x's child on side r, and no other node's. *)
Only(t, T, x, r, c) ==
  /\ c \in T /\ c # x /\ c # t.head
  /\ \A y \in T, w \in Side : t.child[w][y] = c => y = x /\ w = r

LEMMA OneParent ==
  ASSUME NEW t \in Memory, NEW T, NEW e \in Bounds, NEW B \in Nat, Shape(t, T, e, B),
         NEW x \in T, NEW r \in Side, NEW c, c # NULL, t.child[r][x] = c
  PROVE  Only(t, T, x, r, c)
<1>0. Frame(t, T, e, B)  BY DEF Shape
<1>1. ASSUME NEW y \in T, NEW w \in Side, t.child[w][y] = c
      PROVE  /\ c \in T
             /\ w = "left" => e["left"][c] = e["left"][y] /\ e["right"][c] = t.key[y]
             /\ w = "right" => e["right"][c] = e["right"][y] /\ e["left"][c] = t.key[y]
             /\ e["left"][y] \in Int /\ e["right"][y] \in Int /\ t.key[y] \in Nat
             /\ e["left"][y] < t.key[y] /\ t.key[y] < e["right"][y]
             /\ -1 <= e["left"][y] /\ e["right"][y] <= B
  <2>1. ChildIs(t, T, e, y, w, c)  BY <1>0, <1>1, ChildBounds
  <2>2. /\ e["left"][y] \in Int /\ e["right"][y] \in Int /\ t.key[y] \in Nat
        /\ e["left"][y] < t.key[y] /\ t.key[y] < e["right"][y]
        /\ -1 <= e["left"][y] /\ e["right"][y] <= B
    BY <1>0, FrameFacts
  <2> QED  BY <2>1, <2>2 DEF ChildIs
<1>2. c \in T /\ c # x
  <2>1. c \in T  BY <1>1
  <2> QED  BY <1>1, <2>1, Sides
<1>3. c # t.head  BY <1>0, <1>1, Sides DEF Frame
<1>4. ASSUME NEW y \in T, NEW w \in Side, t.child[w][y] = c PROVE y = x /\ w = r
  <2>1. CASE w = r
    <3>1. t.key[x] = t.key[y]  BY <1>1, <1>4, <2>1, Sides
    <3> QED  BY <2>1, <3>1, KeysDiffer
  <2>2. CASE w # r
    <3>1. Related(t, e, x, y)  BY Nested
    <3>x. /\ e["left"][x] \in Int /\ e["right"][x] \in Int /\ t.key[x] \in Nat
          /\ e["left"][x] < t.key[x] /\ t.key[x] < e["right"][x]
      BY <1>1
    <3>y. /\ e["left"][y] \in Int /\ e["right"][y] \in Int /\ t.key[y] \in Nat
          /\ e["left"][y] < t.key[y] /\ t.key[y] < e["right"][y]
      BY <1>1, <1>4
    <3>2. \/ e["left"][x] = t.key[y] /\ e["right"][y] = t.key[x]
          \/ e["left"][y] = t.key[x] /\ e["right"][x] = t.key[y]
      <4>1. \/ r = "left" /\ w = "right"
            \/ r = "right" /\ w = "left"
        BY <2>2, Sides
      <4> QED  BY <1>1, <1>4, <4>1
    <3>3. x # y  BY <3>2, <3>x
    <3>4. ~Under(t, e, x, y) /\ ~Under(t, e, y, x)  BY <3>2, <3>x, <3>y DEF Under, Inside
    <3>5. ~Apart(e, x, y)  BY <3>2, <3>x, <3>y DEF Apart
    <3> QED  BY <3>1, <3>3, <3>4, <3>5 DEF Related
  <2> QED  BY <2>1, <2>2
<1> QED  BY <1>2, <1>3, <1>4 DEF Only
-----------------------------------------------------------------------------
(* Parent pointers.                                                        *)

(* No pointer leads to a deleted node, or to one not given out. *)
Sane(t) ==
  /\ t \in Memory /\ Fresh(t) /\ t.freed \subseteq 1 .. t.size
  /\ \A x \in 1 .. t.size :
       t.prev[x] \in 1 .. t.size /\ \A s \in Side : t.child[s][x] \in 0 .. t.size
  /\ \A x \in (1 .. t.size) \ t.freed :
       t.prev[x] \notin t.freed /\ \A s \in Side : t.child[s][x] \notin t.freed

NoChild(t, q, x) == \A s \in Side : t.child[s][q] # x

(* q, which x.prev points to, is in the tree T, or insert does not rotate  *)
(* x above it.                                                             *)
Sound(t, T, x, q) == q \in T \/ NoChild(t, q, x) \/ Full(t, q)

(* Or it does, and then q, which is not in T, comes below x, where its key *)
(* belongs.                                                                *)
Hook(t, T, e, x, q) ==
  \E s \in Side :
    /\ t.child[s][q] = x /\ t.child[Other(s)][q] = NULL /\ t.child[Other(s)][x] = NULL
    /\ Between(e, x, t.key[q])
    /\ IF s = "left" THEN t.key[x] < t.key[q] ELSE t.key[q] < t.key[x]
    /\ t.prev[q] # x /\ NoChild(t, t.prev[q], q) /\ Sound(t, T, x, t.prev[q])

(* T is a search tree below head, whose parent pointers may be wrong. *)
Loose(t, T, e, B) ==
  /\ Shape(t, T, e, B) /\ T \cap t.freed = {}
  /\ \A x \in T : Sound(t, T, x, t.prev[x]) \/ Hook(t, T, e, x, t.prev[x])

(* From t and T to a and U, a node x keeps its parent, its bounds and its  *)
(* key, but for what does not matter to Hook.                              *)
Stays(t, T, e, a, f, x) ==
  /\ x \in T /\ a.prev[x] = t.prev[x]
  /\ \A s \in Side : t.child[s][x] = NULL => a.child[s][x] = NULL
  /\ f["left"][x] <= e["left"][x] /\ e["right"][x] <= f["right"][x]
  /\ t.child["right"][x] = NULL => a.key[x] <= t.key[x]
  /\ t.child["left"][x] = NULL => t.key[x] <= a.key[x]

(* What became of a node q outside U. *)
Kept(t, T, a, q) ==
  /\ q \notin T /\ a.key[q] = t.key[q] /\ a.prev[q] = t.prev[q]
  /\ \A s \in Side : a.child[s][q] = t.child[s][q]
  /\ \A g \in 1 .. t.size : NoChild(t, g, q) => NoChild(a, g, q)

Harmless(t, T, a, U, q) ==
  q \in a.freed \/ (\A x \in U : Sound(a, U, x, q)) \/ Kept(t, T, a, q)

LEMMA Carried ==
  ASSUME NEW t, Sane(t), NEW a, Sane(a), NEW T, NEW e \in Bounds, NEW B \in Nat, Loose(t, T, e, B),
         NEW U, NEW f \in Bounds, NEW C \in Nat, Shape(a, U, f, C), U \cap a.freed = {},
         t.size <= a.size,
         \A q \in (1 .. t.size) \ U : Harmless(t, T, a, U, q),
         \A x \in U : \/ Stays(t, T, e, a, f, x)
                      \/ Sound(a, U, x, a.prev[x])
                      \/ Hook(a, U, f, x, a.prev[x])
  PROVE  Loose(a, U, f, C)
<1>0. t \in Memory /\ a \in Memory /\ Shape(t, T, e, B) /\ Frame(t, T, e, B) /\ Frame(a, U, f, C)
  BY DEF Loose, Sane, Shape
<1>n. t.size \in Nat /\ a.size \in Nat /\ a.size <= MaxNodes
  BY <1>0, MapAssumption DEF Memory
<1> SUFFICES ASSUME NEW x \in U, Stays(t, T, e, a, f, x)
             PROVE  Sound(a, U, x, a.prev[x]) \/ Hook(a, U, f, x, a.prev[x])
  BY DEF Loose
<1> DEFINE q == t.prev[x]
<1>1. /\ x \in T /\ a.prev[x] = q
      /\ \A s \in Side : t.child[s][x] = NULL => a.child[s][x] = NULL
      /\ f["left"][x] <= e["left"][x] /\ e["right"][x] <= f["right"][x]
      /\ t.child["right"][x] = NULL => a.key[x] <= t.key[x]
      /\ t.child["left"][x] = NULL => t.key[x] <= a.key[x]
  BY DEF Stays
<1>2. x \in 1 .. t.size /\ x \in Nodes /\ x \notin a.freed /\ x \in 1 .. a.size
  <2>1. T \subseteq 1 .. t.size /\ U \subseteq 1 .. a.size  BY <1>0 DEF Frame
  <2>2. x \in 1 .. t.size /\ x \in 1 .. a.size  BY <1>1, <2>1
  <2> QED  BY <1>n, <2>2, MapAssumption DEF Nodes
<1>k. t.key \in [Nodes -> Nat] /\ a.key \in [Nodes -> Nat] /\ 1 .. t.size \subseteq Nodes
  BY <1>0, <1>n, MapAssumption DEF Memory, Nodes
<1>3. q \in 1 .. t.size /\ t.prev[q] \in 1 .. t.size  BY <1>2 DEF Sane
<1>4. q \notin a.freed /\ q \in 1 .. a.size  BY <1>1, <1>2, <1>3, <1>n DEF Sane
<1>q. q = t.prev[x]  OBVIOUS
<1> HIDE DEF q
<1>5. CASE q \in U \/ \A z \in U : Sound(a, U, z, q)  BY <1>1, <1>5 DEF Sound
<1>6. CASE q \notin U /\ Kept(t, T, a, q)
  <2>1. /\ q \notin T /\ a.key[q] = t.key[q] /\ a.prev[q] = t.prev[q]
        /\ \A s \in Side : a.child[s][q] = t.child[s][q]
        /\ \A g \in 1 .. t.size : NoChild(t, g, q) => NoChild(a, g, q)
    BY <1>6 DEF Kept
  <2>2. CASE Sound(t, T, x, q)
    <3>1. Sound(a, U, x, q)  BY <2>1, <2>2 DEF Sound, NoChild, Full
    <3> QED  BY <1>1, <3>1
  <2>3. CASE Hook(t, T, e, x, q)
    <3> DEFINE g == t.prev[q]
    <3>1. PICK s \in Side :
            /\ t.child[s][q] = x /\ t.child[Other(s)][q] = NULL /\ t.child[Other(s)][x] = NULL
            /\ Between(e, x, t.key[q])
            /\ IF s = "left" THEN t.key[x] < t.key[q] ELSE t.key[q] < t.key[x]
            /\ g # x /\ NoChild(t, g, q) /\ Sound(t, T, x, g)
      BY <2>3 DEF Hook
    <3>g. g \in 1 .. t.size /\ g = a.prev[q]  BY <1>3, <2>1
    <3>2. g \notin a.freed  BY <1>4, <3>g DEF Sane
    <3> HIDE DEF g
    <3>3. Other(s) \in Side  BY Sides
    <3>4. a.child[s][q] = x /\ a.child[Other(s)][q] = NULL /\ a.child[Other(s)][x] = NULL
      BY <1>1, <2>1, <3>1, <3>3
    <3>5. Between(f, x, a.key[q])
      <4>1. /\ e["left"][x] \in Int /\ e["right"][x] \in Int
            /\ f["left"][x] \in Int /\ f["right"][x] \in Int
        BY <1>2, Sides DEF Bounds
      <4>2. t.key[q] \in Nat  BY <1>3, <1>k
      <4> QED  BY <1>1, <2>1, <3>1, <4>1, <4>2 DEF Between
    <3>6. IF s = "left" THEN a.key[x] < a.key[q] ELSE a.key[q] < a.key[x]
      <4>1. t.key[x] \in Nat /\ a.key[x] \in Nat /\ t.key[q] \in Nat
        BY <1>2, <1>3, <1>k
      <4> QED  BY <1>1, <2>1, <3>1, <4>1, Sides
    <3>7. Sound(a, U, x, g)
      <4>1. CASE g \in U \/ \A z \in U : Sound(a, U, z, g)  BY <4>1 DEF Sound
      <4>2. CASE g \notin U /\ Kept(t, T, a, g)
        BY <3>1, <4>2 DEF Sound, NoChild, Full, Kept
      <4> QED  BY <3>2, <3>g, <4>1, <4>2 DEF Harmless
    <3>8. NoChild(a, g, q)  BY <2>1, <3>1, <3>g
    <3>9. Hook(a, U, f, x, q)  BY <3>1, <3>4, <3>5, <3>6, <3>7, <3>8, <3>g DEF Hook
    <3> QED  BY <1>1, <3>9
  <2> QED  BY <1>1, <1>q, <2>2, <2>3 DEF Loose
<1> QED  BY <1>3, <1>4, <1>5, <1>6 DEF Harmless
-----------------------------------------------------------------------------
(* What a call does to the tree.                                           *)

(* u is t with n, p's child on side s, in the place of p, g's child on q.  *)
Swings(t, T, g, q, p, s, n, u) ==
  /\ p = t.child[q][g] /\ n = t.child[s][p] /\ u.head = t.head /\ t.size <= u.size
  /\ \A x \in T : u.key[x] = t.key[x]
  /\ \A x \in T, r \in Side :
       u.child[r][x] = IF x = n /\ r = Other(s) THEN p
                       ELSE IF x = p /\ r = s THEN t.child[Other(s)][n]
                       ELSE IF x = g /\ r = q THEN n
                       ELSE t.child[r][x]

LEMMA Swung ==
  ASSUME NEW t \in Memory, NEW T, NEW e \in Bounds, NEW B \in Nat, Shape(t, T, e, B),
         NEW g \in T, NEW q \in Side, NEW p \in T, NEW s \in Side, NEW n \in T,
         NEW u \in Memory, Swings(t, T, g, q, p, s, n, u)
  PROVE  \E f \in Bounds : Shape(u, T, f, B) /\ Wider(T \ {n, p}, e, f)
<1>0. Frame(t, T, e, B)  BY DEF Shape
<1>u. /\ p = t.child[q][g] /\ n = t.child[s][p] /\ u.head = t.head /\ t.size <= u.size
      /\ \A x \in T : u.key[x] = t.key[x]
  BY DEF Swings
<1>n. \A x \in T : x \in Nodes /\ x # NULL  BY <1>0, FrameFacts
<1>1. /\ p # g /\ p # t.head /\ \A y \in T, w \in Side : t.child[w][y] = p => y = g /\ w = q
      /\ n # p /\ n # t.head /\ \A y \in T, w \in Side : t.child[w][y] = n => y = p /\ w = s
  <2>1. p # NULL /\ n # NULL /\ t.child[q][g] = p /\ t.child[s][p] = n  BY <1>n, <1>u
  <2>2. Only(t, T, g, q, p)  BY <2>1, OneParent
  <2>3. Only(t, T, p, s, n)  BY <2>1, OneParent
  <2> QED  BY <2>2, <2>3 DEF Only
<1>4. ChildIs(t, T, e, g, q, p) /\ ChildIs(t, T, e, p, s, n)
  <2>1. p # NULL /\ n # NULL /\ p = t.child[q][g] /\ n = t.child[s][p]  BY <1>n, <1>u
  <2>2. ChildIs(t, T, e, g, q, p)  BY <1>0, <2>1, ChildBounds
  <2>3. ChildIs(t, T, e, p, s, n)  BY <1>0, <2>1, ChildBounds
  <2> QED  BY <2>2, <2>3
<1>5. /\ s = "left" => e["left"][n] = e["left"][p] /\ e["right"][n] = t.key[p]
      /\ s = "right" => e["right"][n] = e["right"][p] /\ e["left"][n] = t.key[p]
  BY <1>4 DEF ChildIs
<1>6. /\ t.key[n] \in Nat /\ e["left"][n] \in Int /\ e["right"][n] \in Int
      /\ e["left"][n] < t.key[n] /\ t.key[n] < e["right"][n]
      /\ -1 <= e["left"][n] /\ e["right"][n] <= B
  BY <1>0, FrameFacts
<1>7. /\ t.key[p] \in Nat /\ e["left"][p] \in Int /\ e["right"][p] \in Int
      /\ e["left"][p] < t.key[p] /\ t.key[p] < e["right"][p]
      /\ -1 <= e["left"][p] /\ e["right"][p] <= B
  BY <1>0, FrameFacts
<1>i. e["left"][g] <= e["left"][p] /\ e["right"][p] <= e["right"][g]
  BY <1>4 DEF ChildIs, Inside
<1>2. n # g  BY <1>5, <1>6, <1>7, <1>i, Sides
<1>s. /\ s = "left" \/ s = "right"
      /\ \A r \in Side : r = "left" \/ r = "right"
      /\ "left" \in Side /\ "right" \in Side /\ "left" # "right" /\ Other(s) \in Side /\ Other(s) # s
      /\ \A r \in Side : r = s \/ r = Other(s)
  BY Sides
<1>c. /\ \A r \in Side : u.child[r][n] = IF r = s THEN t.child[s][n] ELSE p
      /\ \A r \in Side : u.child[r][p] = IF r = s THEN t.child[Other(s)][n] ELSE t.child[r][p]
      /\ \A x \in T, r \in Side :
           x # n /\ x # p => u.child[r][x] = IF x = g /\ r = q THEN n ELSE t.child[r][x]
  <2>1. \A x \in T, r \in Side :
          u.child[r][x] = IF x = n /\ r = Other(s) THEN p
                          ELSE IF x = p /\ r = s THEN t.child[Other(s)][n]
                          ELSE IF x = g /\ r = q THEN n
                          ELSE t.child[r][x]
    BY DEF Swings
  <2>2. n # p /\ n # g /\ p # g  BY <1>1, <1>2
  <2>3. \A r \in Side : u.child[r][n] = IF r = s THEN t.child[s][n] ELSE p  BY <1>s, <2>1, <2>2
  <2>4. \A r \in Side : u.child[r][p] = IF r = s THEN t.child[Other(s)][n] ELSE t.child[r][p]
    BY <2>1, <2>2
  <2> QED  BY <2>1, <2>3, <2>4
<1> DEFINE f == [r \in Side |-> [x \in Nodes |->
                  IF x = n THEN e[r][p] ELSE IF x = p /\ r = s THEN t.key[n] ELSE e[r][x]]]
<1>8. f \in Bounds
  <2> SUFFICES ASSUME NEW r \in Side, NEW x \in Nodes PROVE f[r][x] \in Int  BY DEF Bounds
  <2>1. e[r][x] \in Int /\ e[r][p] \in Int /\ t.key[n] \in Int  BY <1>6, <1>n DEF Bounds
  <2> QED  BY <2>1
<1>10. \A x \in T : x # p /\ x # n => f["left"][x] = e["left"][x] /\ f["right"][x] = e["right"][x]
  BY <1>s, <1>n
<1>12. /\ f["left"][p] = IF s = "left" THEN t.key[n] ELSE e["left"][p]
       /\ f["right"][p] = IF s = "right" THEN t.key[n] ELSE e["right"][p]
  BY <1>1, <1>s, <1>n
<1>13. f["left"][n] = e["left"][p] /\ f["right"][n] = e["right"][p]
  BY <1>s, <1>n
<1> HIDE DEF f
<1>14. Frame(u, T, f, B)
  <2>1. T \subseteq 1 .. u.size /\ u.head \in T
    <3>1. T \subseteq 1 .. t.size /\ t.head \in T /\ t.size \in Nat /\ u.size \in Nat
      BY <1>0, MapAssumption DEF Frame, Memory
    <3> QED  BY <1>u, <3>1
  <2>a. t.head \in T /\ e["left"][t.head] = -1 /\ e["right"][t.head] = B /\ u.head = t.head
    BY <1>0, <1>u DEF Frame
  <2>2. f["left"][u.head] = -1 /\ f["right"][u.head] = B
    BY <1>1, <1>10, <2>a
  <2>3. ASSUME NEW x \in T PROVE Between(f, x, u.key[x]) /\ -1 <= f["left"][x] /\ f["right"][x] <= B
    <3>1. CASE x # p /\ x # n
      <4>1. Between(e, x, t.key[x]) /\ -1 <= e["left"][x] /\ e["right"][x] <= B  BY <1>0, <3>1 DEF Frame
      <4> QED  BY <1>10, <1>u, <3>1, <4>1 DEF Between
    <3>3. CASE x = p
      <4>1. u.key[x] = t.key[p]  BY <1>u, <3>3
      <4> QED  BY <1>5, <1>6, <1>7, <1>s, <1>12, <3>3, <4>1 DEF Between
    <3>4. CASE x = n
      <4>1. u.key[x] = t.key[n]  BY <1>u, <3>4
      <4> QED  BY <1>5, <1>6, <1>7, <1>s, <1>13, <3>4, <4>1 DEF Between
    <3> QED  BY <3>1, <3>3, <3>4
  <2>4. ASSUME NEW x \in T, NEW r \in Side, NEW c, c = u.child[r][x], c # NULL
        PROVE  c \in T /\ f[r][c] = f[r][x] /\ f[Other(r)][c] = u.key[x]
    <3>r. r = "left" \/ r = "right"  BY <1>s
    <3>k. u.key[x] = t.key[x]  BY <1>u
    <3>h. ASSUME NEW y \in T, NEW w \in Side, t.child[w][y] = c
          PROVE  /\ c \in T
                 /\ w = "left" => e["left"][c] = e["left"][y] /\ e["right"][c] = t.key[y]
                 /\ w = "right" => e["right"][c] = e["right"][y] /\ e["left"][c] = t.key[y]
      <4>1. ChildIs(t, T, e, y, w, c)  BY <1>0, <2>4, <3>h, ChildBounds
      <4> QED  BY <4>1 DEF ChildIs
    <3>o. c # n /\ c # p => (f["left"][c] = e["left"][c] /\ f["right"][c] = e["right"][c]) \/ c \notin T
      BY <1>10
    <3>2. CASE x = n /\ r = s
      <4>1. t.child[s][n] = c  BY <1>c, <2>4, <3>2
      <4>2. c # n /\ c # p  BY <1>1, <1>2, <4>1
      <4> QED  BY <1>5, <1>10, <1>13, <1>s, <3>2, <3>h, <3>k, <4>1, <4>2, Sides
    <3>3. CASE x = n /\ r # s
      <4>1. c = p  BY <1>c, <2>4, <3>3
      <4> QED  BY <1>s, <1>12, <1>13, <3>3, <3>r, <3>k, <4>1, Sides
    <3>4. CASE x = p /\ r = s
      <4>1. t.child[Other(s)][n] = c  BY <1>c, <2>4, <3>4
      <4>2. c # n /\ c # p  BY <1>1, <1>2, <1>s, <4>1
      <4>3. /\ c \in T
            /\ s = "right" => e["left"][c] = e["left"][n] /\ e["right"][c] = t.key[n]
            /\ s = "left" => e["right"][c] = e["right"][n] /\ e["left"][c] = t.key[n]
        BY <1>s, <3>h, <4>1, Sides
      <4> QED  BY <1>5, <1>10, <1>12, <1>s, <3>4, <3>k, <4>2, <4>3, Sides
    <3>5. CASE x = p /\ r # s
      <4>1. t.child[r][p] = c  BY <1>c, <2>4, <3>5
      <4>2. c # n /\ c # p  BY <1>1, <3>5, <4>1
      <4> QED  BY <1>10, <1>12, <1>s, <3>5, <3>h, <3>k, <3>r, <4>1, <4>2, Sides
    <3>6. CASE x = g /\ r = q
      <4>1. c = n  BY <1>1, <1>2, <1>c, <2>4, <3>6
      <4>2. f["left"][g] = e["left"][g] /\ f["right"][g] = e["right"][g]  BY <1>1, <1>2, <1>10
      <4>3. /\ r = "left" => e["left"][p] = e["left"][g] /\ e["right"][p] = t.key[g]
            /\ r = "right" => e["right"][p] = e["right"][g] /\ e["left"][p] = t.key[g]
        BY <1>4, <3>6 DEF ChildIs
      <4> QED  BY <1>13, <3>6, <3>r, <3>k, <4>1, <4>2, <4>3, Sides
    <3>7. CASE x # n /\ x # p /\ ~(x = g /\ r = q)
      <4>1. t.child[r][x] = c  BY <1>c, <2>4, <3>7
      <4>2. c # n /\ c # p  BY <1>1, <3>7, <4>1
      <4> QED  BY <1>10, <3>7, <3>h, <3>k, <3>r, <4>1, <4>2, Sides
    <3> QED  BY <3>2, <3>3, <3>4, <3>5, <3>6, <3>7
  <2> QED  BY <2>1, <2>2, <2>3, <2>4 DEF Frame
<1>15. ASSUME NEW y \in T, y # u.head PROVE \E x \in T, r \in Side : u.child[r][x] = y
  <2>1. CASE y = p  BY <1>c, <1>s, <2>1
  <2>2. CASE y = n  BY <1>1, <1>2, <1>c, <2>2
  <2>3. CASE y # p /\ y # n
    <3>1. PICK x \in T, r \in Side : t.child[r][x] = y  BY <1>15, <1>u DEF Shape
    <3>2. CASE x = n /\ r = Other(s)
      <4>1. u.child[s][p] = y  BY <1>c, <3>1, <3>2
      <4> QED  BY <4>1
    <3>3. CASE ~(x = n /\ r = Other(s))
      <4>1. ~(x = p /\ r = s) /\ ~(x = g /\ r = q)  BY <1>u, <2>3, <3>1
      <4>2. u.child[r][x] = y  BY <1>c, <1>s, <3>1, <3>3, <4>1
      <4> QED  BY <4>2
    <3> QED  BY <3>2, <3>3
  <2> QED  BY <2>1, <2>2, <2>3
<1>16. ASSUME NEW x \in T \ {n, p}
       PROVE  f["left"][x] <= e["left"][x] /\ e["right"][x] <= f["right"][x]
  <2>1. e["left"][x] \in Int /\ e["right"][x] \in Int  BY <1>0, FrameFacts
  <2> QED  BY <1>10, <2>1
<1> QED  BY <1>8, <1>14, <1>15, <1>16 DEF Shape, Wider

(* u is t without n, which had no child on side w; its other child is in   *)
(* its place.                                                              *)
Splices(t, T, n, w, u) ==
  /\ n # t.head /\ t.child[w][n] = NULL /\ u.head = t.head /\ t.size <= u.size
  /\ \A y \in T \ {n} : u.key[y] = t.key[y]
  /\ \A y \in T \ {n}, r \in Side :
       u.child[r][y] = IF t.child[r][y] = n THEN t.child[Other(w)][n] ELSE t.child[r][y]

LEMMA Spliced ==
  ASSUME NEW t \in Memory, NEW T, NEW e \in Bounds, NEW B \in Nat, Shape(t, T, e, B),
         NEW n \in T, NEW w \in Side, NEW u \in Memory, Splices(t, T, n, w, u)
  PROVE  \E f \in Bounds : Shape(u, T \ {n}, f, B) /\ Wider(T \ {n}, e, f)
<1>0. Frame(t, T, e, B)  BY DEF Shape
<1>u. /\ n # t.head /\ t.child[w][n] = NULL /\ u.head = t.head /\ t.size <= u.size
      /\ \A y \in T \ {n} : u.key[y] = t.key[y]
      /\ \A y \in T \ {n}, r \in Side :
           u.child[r][y] = IF t.child[r][y] = n THEN t.child[Other(w)][n] ELSE t.child[r][y]
  BY DEF Splices
<1> DEFINE U == T \ {n}
           f == [r \in Side |-> [x \in Nodes |->
                  IF r = w /\ e[r][x] = t.key[n] THEN e[r][n] ELSE e[r][x]]]
<1>n. \A x \in T : x \in Nodes /\ x # NULL  BY <1>0, FrameFacts
<1>s. /\ w = "left" \/ w = "right"
      /\ \A r \in Side : r = "left" \/ r = "right"
      /\ "left" \in Side /\ "right" \in Side /\ "left" # "right" /\ Other(w) \in Side /\ Other(w) # w
      /\ \A r \in Side : r = w \/ r = Other(w)
  BY Sides
<1>1. /\ t.key[n] \in Nat /\ e["left"][n] \in Int /\ e["right"][n] \in Int
      /\ e["left"][n] < t.key[n] /\ t.key[n] < e["right"][n]
      /\ -1 <= e["left"][n] /\ e["right"][n] <= B
  BY <1>0, FrameFacts
<1>2. f \in Bounds  BY <1>1, <1>n DEF Bounds
<1>3. ASSUME NEW x \in T
      PROVE  /\ f["left"][x] = IF w = "left" /\ e["left"][x] = t.key[n] THEN e["left"][n] ELSE e["left"][x]
             /\ f["right"][x] = IF w = "right" /\ e["right"][x] = t.key[n] THEN e["right"][n] ELSE e["right"][x]
  <2>1. x \in Nodes  BY <1>n
  <2> QED  BY <1>s, <2>1
<1> HIDE DEF f
<1>4. ASSUME NEW x \in T
      PROVE  /\ t.key[x] \in Nat /\ e["left"][x] \in Int /\ e["right"][x] \in Int
             /\ e["left"][x] < t.key[x] /\ t.key[x] < e["right"][x]
             /\ -1 <= e["left"][x] /\ e["right"][x] <= B
             /\ f["left"][x] <= e["left"][x] /\ e["right"][x] <= f["right"][x]
             /\ -1 <= f["left"][x] /\ f["right"][x] <= B
  <2>1. /\ t.key[x] \in Nat /\ e["left"][x] \in Int /\ e["right"][x] \in Int
        /\ e["left"][x] < t.key[x] /\ t.key[x] < e["right"][x]
        /\ -1 <= e["left"][x] /\ e["right"][x] <= B
    BY <1>0, FrameFacts
  <2> QED  BY <1>1, <1>3, <2>1
<1>5. ASSUME NEW x \in U PROVE t.key[x] # t.key[n]  BY KeysDiffer
<1>h. ASSUME NEW x \in T, NEW r \in Side, NEW c, t.child[r][x] = c, c # NULL
      PROVE  /\ c \in T /\ c # x
             /\ r = "left" => e["left"][c] = e["left"][x] /\ e["right"][c] = t.key[x]
             /\ r = "right" => e["right"][c] = e["right"][x] /\ e["left"][c] = t.key[x]
  <2>1. ChildIs(t, T, e, x, r, c)  BY <1>0, <1>h, ChildBounds
  <2>2. Only(t, T, x, r, c)  BY <1>h, OneParent
  <2> QED  BY <2>1, <2>2 DEF ChildIs, Only
<1>6. Frame(u, U, f, B)
  <2>1. U \subseteq 1 .. u.size /\ u.head \in U
    <3>1. T \subseteq 1 .. t.size /\ t.head \in T /\ t.size \in Nat /\ u.size \in Nat
      BY <1>0, MapAssumption DEF Frame, Memory
    <3> QED  BY <1>u, <3>1
  <2>a. t.head \in T /\ e["left"][t.head] = -1 /\ e["right"][t.head] = B /\ u.head = t.head
    BY <1>0, <1>u DEF Frame
  <2>2. f["left"][u.head] = -1 /\ f["right"][u.head] = B  BY <1>1, <1>3, <2>a
  <2>3. ASSUME NEW x \in U PROVE Between(f, x, u.key[x]) /\ -1 <= f["left"][x] /\ f["right"][x] <= B
    <3>1. f["left"][x] \in Int /\ f["right"][x] \in Int  BY <1>2, <1>n, <1>s DEF Bounds
    <3> QED  BY <1>4, <1>u, <3>1 DEF Between
  <2>4. ASSUME NEW x \in U, NEW r \in Side, NEW c, c = u.child[r][x], c # NULL
        PROVE  c \in U /\ f[r][c] = f[r][x] /\ f[Other(r)][c] = u.key[x]
    <3>k. u.key[x] = t.key[x]  BY <1>u
    <3>r. r = "left" \/ r = "right"  BY <1>s
    <3>1. CASE t.child[r][x] = n
      <4>1. t.child[Other(w)][n] = c  BY <1>u, <2>4, <3>1
      <4>2. /\ c \in U
            /\ w = "right" => e["left"][c] = e["left"][n] /\ e["right"][c] = t.key[n]
            /\ w = "left" => e["right"][c] = e["right"][n] /\ e["left"][c] = t.key[n]
        BY <1>h, <1>s, <2>4, <4>1, Sides
      <4>3. /\ r = "left" => e["left"][n] = e["left"][x] /\ e["right"][n] = t.key[x]
            /\ r = "right" => e["right"][n] = e["right"][x] /\ e["left"][n] = t.key[x]
        BY <1>h, <1>n, <3>1
      <4>4. f["left"][c] = e["left"][n] /\ f["right"][c] = e["right"][n]
        BY <1>1, <1>3, <1>s, <4>2
      <4>5. /\ r = "left" => f["left"][x] = e["left"][x]
            /\ r = "right" => f["right"][x] = e["right"][x]
        BY <1>1, <1>3, <1>s, <4>3
      <4> QED  BY <3>k, <3>r, <4>2, <4>3, <4>4, <4>5, Sides
    <3>2. CASE t.child[r][x] # n
      <4>1. t.child[r][x] = c  BY <1>u, <2>4, <3>2
      <4>2. /\ c \in U
            /\ r = "left" => e["left"][c] = e["left"][x] /\ e["right"][c] = t.key[x]
            /\ r = "right" => e["right"][c] = e["right"][x] /\ e["left"][c] = t.key[x]
        BY <1>h, <2>4, <3>2, <4>1
      <4> QED  BY <1>3, <1>5, <3>k, <3>r, <4>2, Sides
    <3> QED  BY <3>1, <3>2
  <2> QED  BY <2>1, <2>2, <2>3, <2>4 DEF Frame
<1>7. ASSUME NEW y \in U, y # u.head PROVE \E x \in U, r \in Side : u.child[r][x] = y
  <2>1. PICK x \in T, r \in Side : t.child[r][x] = y  BY <1>7, <1>u DEF Shape
  <2>2. CASE x # n
    <3>1. u.child[r][x] = y  BY <1>u, <2>1, <2>2
    <3> QED  BY <2>2, <3>1
  <2>3. CASE x = n
    <3>1. r = Other(w)  BY <1>n, <1>s, <1>u, <2>1, <2>3
    <3>2. PICK z \in T, q \in Side : t.child[q][z] = n  BY <1>u DEF Shape
    <3>3. z # n  BY <1>h, <1>n, <3>2
    <3>4. u.child[q][z] = y  BY <1>u, <2>1, <2>3, <3>1, <3>2, <3>3
    <3> QED  BY <3>3, <3>4
  <2> QED  BY <2>2, <2>3
<1>8. Wider(U, e, f)  BY <1>4 DEF Wider
<1> QED  BY <1>2, <1>6, <1>7, <1>8 DEF Shape

(* u is t with n's left child x, which had no right one, out of the tree   *)
(* and its key in n; its left child is in its place.                       *)
MovesKeyUp(t, T, n, x, u) ==
  /\ x = t.child["left"][n] /\ t.child["right"][x] = NULL /\ u.head = t.head /\ u.size = t.size
  /\ \A y \in T \ {x} : u.key[y] = IF y = n THEN t.key[x] ELSE t.key[y]
  /\ \A y \in T \ {x}, r \in Side :
       u.child[r][y] = IF y = n /\ r = "left" THEN t.child["left"][x] ELSE t.child[r][y]

LEMMA KeyMovedUp ==
  ASSUME NEW t \in Memory, NEW T, NEW e \in Bounds, NEW B \in Nat, Shape(t, T, e, B),
         NEW n \in T, NEW x \in T, NEW u \in Memory, MovesKeyUp(t, T, n, x, u)
  PROVE  /\ t.key[x] < t.key[n]
         /\ \E f \in Bounds : Shape(u, T \ {x}, f, B) /\ Wider(T \ {x}, e, f)
<1>0. Frame(t, T, e, B)  BY DEF Shape
<1>u. /\ t.child["left"][n] = x /\ t.child["right"][x] = NULL /\ u.head = t.head /\ u.size = t.size
      /\ \A y \in T \ {x} : u.key[y] = IF y = n THEN t.key[x] ELSE t.key[y]
      /\ \A y \in T \ {x}, r \in Side :
           u.child[r][y] = IF y = n /\ r = "left" THEN t.child["left"][x] ELSE t.child[r][y]
  BY DEF MovesKeyUp
<1> DEFINE U == T \ {x}
           f == [r \in Side |-> [y \in Nodes |->
                  IF r = "left" /\ e["left"][y] = t.key[n] THEN t.key[x] ELSE e[r][y]]]
<1>n. \A y \in T : y \in Nodes /\ y # NULL  BY <1>0, FrameFacts
<1>s. /\ \A r \in Side : r = "left" \/ r = "right"
      /\ "left" \in Side /\ "right" \in Side /\ "left" # "right"
  BY Sides
<1>1. ASSUME NEW y \in T
      PROVE  /\ t.key[y] \in Nat /\ e["left"][y] \in Int /\ e["right"][y] \in Int
             /\ e["left"][y] < t.key[y] /\ t.key[y] < e["right"][y]
             /\ -1 <= e["left"][y] /\ e["right"][y] <= B
  BY <1>0, FrameFacts
<1>h. ASSUME NEW y \in T, NEW r \in Side, NEW c, t.child[r][y] = c, c # NULL
      PROVE  /\ c \in T /\ c # y
             /\ r = "left" => e["left"][c] = e["left"][y] /\ e["right"][c] = t.key[y]
             /\ r = "right" => e["right"][c] = e["right"][y] /\ e["left"][c] = t.key[y]
  <2>1. ChildIs(t, T, e, y, r, c)  BY <1>0, <1>h, ChildBounds
  <2>2. Only(t, T, y, r, c)  BY <1>h, OneParent
  <2> QED  BY <2>1, <2>2 DEF ChildIs, Only
<1>2. /\ x # n /\ e["left"][x] = e["left"][n] /\ e["right"][x] = t.key[n]
      /\ t.key[x] < t.key[n] /\ e["left"][n] < t.key[x]
  <2>1. x # n /\ e["left"][x] = e["left"][n] /\ e["right"][x] = t.key[n]
    BY <1>h, <1>n, <1>s, <1>u
  <2> QED  BY <1>1, <2>1
<1>o. Only(t, T, n, "left", x)  BY <1>n, <1>s, <1>u, OneParent
<1>3. f \in Bounds
  <2>1. t.key[x] \in Int  BY <1>1
  <2> QED  BY <2>1 DEF Bounds
<1>4. ASSUME NEW y \in T
      PROVE  /\ f["left"][y] = IF e["left"][y] = t.key[n] THEN t.key[x] ELSE e["left"][y]
             /\ f["right"][y] = e["right"][y]
  <2>1. y \in Nodes  BY <1>n
  <2> QED  BY <1>s, <2>1
<1> HIDE DEF f
<1>5. ASSUME NEW y \in T, t.key[y] = t.key[n] PROVE y = n  BY <1>5, KeysDiffer
<1>6. Frame(u, U, f, B)
  <2>1. U \subseteq 1 .. u.size /\ u.head \in U
    <3>1. T \subseteq 1 .. t.size /\ t.head \in T  BY <1>0 DEF Frame
    <3>2. t.head # x  BY <1>o DEF Only
    <3> QED  BY <1>u, <3>1, <3>2
  <2>a. t.head \in T /\ e["left"][t.head] = -1 /\ e["right"][t.head] = B /\ u.head = t.head
    BY <1>0, <1>u DEF Frame
  <2>2. f["left"][u.head] = -1 /\ f["right"][u.head] = B  BY <1>1, <1>4, <2>a
  <2>3. ASSUME NEW y \in U PROVE Between(f, y, u.key[y]) /\ -1 <= f["left"][y] /\ f["right"][y] <= B
    <3>1. CASE y = n
      <4>1. u.key[y] = t.key[x] /\ f["left"][y] = e["left"][n]  BY <1>1, <1>4, <1>u, <3>1
      <4> QED  BY <1>1, <1>2, <1>4, <3>1, <4>1 DEF Between
    <3>2. CASE y # n
      <4>1. u.key[y] = t.key[y]  BY <1>u, <3>2
      <4> QED  BY <1>1, <1>2, <1>4, <4>1 DEF Between
    <3> QED  BY <3>1, <3>2
  <2>4. ASSUME NEW y \in U, NEW r \in Side, NEW c, c = u.child[r][y], c # NULL
        PROVE  c \in U /\ f[r][c] = f[r][y] /\ f[Other(r)][c] = u.key[y]
    <3>r. r = "left" \/ r = "right"  BY <1>s
    <3>1. CASE y = n /\ r = "left"
      <4>1. t.child["left"][x] = c  BY <1>u, <2>4, <3>1
      <4>2. c \in U /\ e["left"][c] = e["left"][x] /\ e["right"][c] = t.key[x]
        BY <1>h, <1>s, <2>4, <4>1
      <4>3. u.key[y] = t.key[x]  BY <1>u, <3>1
      <4> QED  BY <1>2, <1>4, <3>1, <4>2, <4>3, Sides
    <3>2. CASE y = n /\ r = "right"
      <4>1. t.child["right"][n] = c  BY <1>s, <1>u, <2>4, <3>2
      <4>2. c \in T /\ e["right"][c] = e["right"][n] /\ e["left"][c] = t.key[n]
        BY <1>h, <1>s, <2>4, <4>1
      <4>3. c # x  BY <1>o, <1>s, <4>1 DEF Only
      <4>4. u.key[y] = t.key[x]  BY <1>u, <3>2
      <4> QED  BY <1>4, <3>2, <4>2, <4>3, <4>4, Sides
    <3>3. CASE y # n
      <4>1. t.child[r][y] = c /\ u.key[y] = t.key[y]  BY <1>u, <2>4, <3>3
      <4>2. /\ c \in T
            /\ r = "left" => e["left"][c] = e["left"][y] /\ e["right"][c] = t.key[y]
            /\ r = "right" => e["right"][c] = e["right"][y] /\ e["left"][c] = t.key[y]
        BY <1>h, <2>4, <4>1
      <4>3. c # x  BY <1>o, <3>3, <4>1 DEF Only
      <4>4. t.key[y] # t.key[n]  BY <1>5, <3>3
      <4> QED  BY <1>4, <3>r, <4>1, <4>2, <4>3, <4>4, Sides
    <3> QED  BY <3>1, <3>2, <3>3, <3>r
  <2> QED  BY <2>1, <2>2, <2>3, <2>4 DEF Frame
<1>7. ASSUME NEW y \in U, y # u.head PROVE \E z \in U, r \in Side : u.child[r][z] = y
  <2>1. PICK z \in T, r \in Side : t.child[r][z] = y  BY <1>7, <1>u DEF Shape
  <2>2. CASE z = x
    <3>1. r = "left"  BY <1>n, <1>s, <1>u, <2>1, <2>2
    <3>2. u.child["left"][n] = y  BY <1>2, <1>s, <1>u, <2>1, <2>2, <3>1
    <3> QED  BY <1>2, <1>s, <3>2
  <2>3. CASE z # x
    <3>1. ~(z = n /\ r = "left")  BY <1>u, <2>1
    <3>2. u.child[r][z] = y  BY <1>u, <2>1, <2>3, <3>1
    <3> QED  BY <2>3, <3>2
  <2> QED  BY <2>2, <2>3
<1>8. Wider(U, e, f)  BY <1>1, <1>2, <1>4 DEF Wider
<1> QED  BY <1>2, <1>3, <1>6, <1>7, <1>8 DEF Shape
-----------------------------------------------------------------------------
(* Rotations of nodes in use.                                              *)

InUse(t, x) == x \in 1 .. t.size /\ x \notin t.freed

LEMMA SaneFacts ==
  ASSUME NEW t, Sane(t), NEW x, InUse(t, x)
  PROVE  /\ x \in Nodes /\ x # NULL /\ x \in Nat /\ x <= t.size /\ t.key[x] \in Nat
         /\ InUse(t, t.prev[x])
         /\ \A s \in Side : t.child[s][x] # NULL => InUse(t, t.child[s][x])
         /\ t \in Memory /\ t.size \in Nat /\ t.size <= MaxNodes
<1>1. t \in Memory /\ x \in 1 .. t.size /\ x \notin t.freed  BY DEF Sane, InUse
<1>2. t.size \in Nat /\ t.size <= MaxNodes /\ MaxNodes \in Nat  BY <1>1, MapAssumption DEF Memory
<1>3. x \in Nodes /\ x # NULL /\ x \in Nat /\ x <= t.size  BY <1>1, <1>2 DEF Nodes, NULL
<1>4. t.key[x] \in Nat  BY <1>1, <1>3 DEF Memory
<1>5. InUse(t, t.prev[x])  BY <1>1 DEF Sane, InUse
<1>6. ASSUME NEW s \in Side, t.child[s][x] # NULL PROVE InUse(t, t.child[s][x])
  <2>1. t.child[s][x] \in 0 .. t.size /\ t.child[s][x] \notin t.freed  BY <1>1 DEF Sane
  <2>2. t.child[s][x] \in 1 .. t.size  BY <1>2, <1>6, <2>1 DEF NULL
  <2> QED  BY <2>1, <2>2 DEF InUse
<1> QED  BY <1>1, <1>2, <1>3, <1>4, <1>5, <1>6

LEMMA NullIsFree ==
  ASSUME NEW t, Sane(t)
  PROVE  NULL \notin t.freed /\ NULL \in 0 .. t.size
<1>1. t.size \in Nat /\ t.freed \subseteq 1 .. t.size  BY MapAssumption DEF Sane, Memory
<1> QED  BY <1>1 DEF NULL

LEMMA RotateSane ==
  ASSUME NEW t, Sane(t), NEW s \in Side, NEW down, InUse(t, down), NEW up, InUse(t, up), down # up
  PROVE  /\ Rotates(t, s, down, up, Rotate(t, s, down, up)) /\ Sane(Rotate(t, s, down, up))
<1> DEFINE a == Rotate(t, s, down, up)
<1>1. t \in Memory /\ down \in Nodes /\ up \in Nodes /\ t.size \in Nat  BY SaneFacts
<1>2. Rotates(t, s, down, up, a)  BY <1>1, RotateFacts
<1> HIDE DEF a
<1>3. /\ a \in Memory /\ a.size = t.size /\ a.freed = t.freed
      /\ \A x \in Nodes, r \in Side :
           a.child[r][x] = IF x = up /\ r = s THEN down
                           ELSE IF x = down /\ r # s THEN t.child[s][up]
                           ELSE t.child[r][x]
      /\ \A x \in Nodes :
           a.prev[x] = IF x = up THEN t.prev[down] ELSE IF x = down THEN up ELSE t.prev[x]
  BY <1>2 DEF Rotates
<1>4. Fresh(a)
  <2> SUFFICES ASSUME NEW x \in Nodes, NEW r \in Side, x > a.size PROVE a.child[r][x] = NULL
    BY DEF Fresh
  <2>1. x # up /\ x # down
    <3>1. up <= t.size /\ down <= t.size /\ up \in Nat /\ down \in Nat  BY SaneFacts
    <3> QED  BY <1>1, <1>3, <3>1
  <2>2. t.child[r][x] = NULL  BY <1>3 DEF Sane, Fresh
  <2> QED  BY <1>3, <2>1, <2>2
<1>5. 1 .. t.size \subseteq Nodes /\ up \in 0 .. t.size /\ down \in 0 .. t.size
  <2>1. t.size \in Nat /\ t.size <= MaxNodes /\ up \in 1 .. t.size /\ down \in 1 .. t.size
    BY SaneFacts DEF InUse
  <2> QED  BY <2>1, MapAssumption DEF Nodes
<1>6. InUse(t, t.prev[down]) /\ t.child[s][up] \in 0 .. t.size /\ t.child[s][up] \notin t.freed
  <2>1. InUse(t, t.prev[down])  BY SaneFacts
  <2> QED  BY <2>1 DEF Sane, InUse
<1>7. ASSUME NEW x \in 1 .. t.size
      PROVE  a.prev[x] \in 1 .. t.size /\ \A r \in Side : a.child[r][x] \in 0 .. t.size
  <2>1. t.prev[x] \in 1 .. t.size /\ \A r \in Side : t.child[r][x] \in 0 .. t.size  BY DEF Sane
  <2> QED  BY <1>3, <1>5, <1>6, <2>1 DEF InUse
<1>8. ASSUME NEW x \in (1 .. t.size) \ t.freed
      PROVE  a.prev[x] \notin t.freed /\ \A r \in Side : a.child[r][x] \notin t.freed
  <2>1. t.prev[x] \notin t.freed /\ \A r \in Side : t.child[r][x] \notin t.freed  BY DEF Sane
  <2> QED  BY <1>3, <1>5, <1>6, <2>1 DEF InUse
<1>9. t.freed \subseteq 1 .. t.size  BY DEF Sane
<1>10. Sane(a)  BY <1>3, <1>4, <1>7, <1>8, <1>9 DEF Sane
<1> QED  BY <1>2, <1>10 DEF a

(* Relink points the child of n's parent that down is to n, if there is one. *)
Relinks(t, n, s, a) ==
  LET p    == t.prev[n]
      down == t.child[Other(s)][n]
  IN  IF NoChild(t, p, down) THEN a = t
      ELSE \E q \in Side : t.child[q][p] = down /\ Points(t, q, p, n, a)

LEMMA RelinkFacts ==
  ASSUME NEW t, Sane(t), NEW s \in Side, NEW n, InUse(t, n)
  PROVE  Relinks(t, n, s, Relink(t, n, s)) /\ Sane(Relink(t, n, s))
<1> DEFINE a == Relink(t, n, s)
           p == t.prev[n]
           down == t.child[Other(s)][n]
           held == {side \in Side : t.child[side][p] = down}
           q == IF "right" \in held THEN "right" ELSE "left"
<1>1. InUse(t, p)  BY SaneFacts
<1>2. /\ t \in Memory /\ p \in Nodes /\ n \in Nodes /\ t.size \in Nat /\ p <= t.size /\ p \in Nat
      /\ t.size <= MaxNodes
  BY <1>1, SaneFacts
<1>3. a = IF held = {} THEN t ELSE [t EXCEPT !.child[q][p] = n]  BY DEF Relink
<1>4. held = {} <=> NoChild(t, p, down)  BY DEF NoChild
<1>5. held # {} => q \in held  BY Sides
<1> HIDE DEF a, q
<1>6. CASE held = {}  BY <1>3, <1>4, <1>6 DEF Relinks, a
<1>7. CASE held # {}
  <2>1. q \in Side /\ t.child[q][p] = down  BY <1>5, <1>7
  <2>2. Points(t, q, p, n, a)
    <3>1. n \in 0 .. MaxNodes  BY <1>2, MapAssumption DEF Nodes
    <3> QED  BY <1>2, <1>3, <1>7, <2>1, <3>1, PointFacts
  <2>3. Relinks(t, n, s, a)  BY <1>4, <1>7, <2>1, <2>2 DEF Relinks
  <2> HIDE DEF p, held
  <2>4. /\ a \in Memory /\ a.size = t.size /\ a.freed = t.freed /\ a.prev = t.prev
        /\ \A y \in Nodes, w \in Side : a.child[w][y] = IF y = p /\ w = q THEN n ELSE t.child[w][y]
    BY <2>2 DEF Points
  <2>5. Fresh(a)
    <3> SUFFICES ASSUME NEW x \in Nodes, NEW r \in Side, x > a.size PROVE a.child[r][x] = NULL
      BY DEF Fresh
    <3>1. x # p /\ t.child[r][x] = NULL  BY <1>2, <2>4 DEF Sane, Fresh
    <3> QED  BY <2>4, <3>1
  <2>6. 1 .. t.size \subseteq Nodes /\ n \in 0 .. t.size /\ n \notin t.freed
    <3>1. n \in 1 .. t.size /\ n \notin t.freed  BY DEF InUse
    <3> QED  BY <1>2, <3>1, MapAssumption DEF Nodes
  <2>7. ASSUME NEW x \in 1 .. t.size
        PROVE  a.prev[x] \in 1 .. t.size /\ \A r \in Side : a.child[r][x] \in 0 .. t.size
    <3>1. t.prev[x] \in 1 .. t.size /\ \A r \in Side : t.child[r][x] \in 0 .. t.size  BY DEF Sane
    <3> QED  BY <2>4, <2>6, <3>1
  <2>8. ASSUME NEW x \in (1 .. t.size) \ t.freed
        PROVE  a.prev[x] \notin t.freed /\ \A r \in Side : a.child[r][x] \notin t.freed
    <3>1. t.prev[x] \notin t.freed /\ \A r \in Side : t.child[r][x] \notin t.freed  BY DEF Sane
    <3> QED  BY <2>4, <2>6, <3>1
  <2>9. t.freed \subseteq 1 .. t.size  BY DEF Sane
  <2>10. Sane(a)  BY <2>4, <2>5, <2>7, <2>8, <2>9 DEF Sane
  <2> QED  BY <2>3, <2>10 DEF a
<1> QED  BY <1>6, <1>7

(* b is m with the new node hung below n on side s. *)
Grows(n, s, k, b) ==
  /\ b.head = m.head /\ b.size = m.size + 1 /\ b.freed = m.freed
  /\ b.key[m.size + 1] = k /\ b.prev[m.size + 1] = n /\ \A r \in Side : b.child[r][m.size + 1] = NULL
  /\ \A x \in 1 .. m.size : b.key[x] = m.key[x] /\ b.prev[x] = m.prev[x]
  /\ \A x \in 1 .. m.size, r \in Side :
       b.child[r][x] = IF x = n /\ r = s THEN m.size + 1 ELSE m.child[r][x]

LEMMA GrownIs ==
  ASSUME Sane(m), m.size < MaxNodes, NEW k \in Nat, NEW n, InUse(m, n), NEW s \in Side,
         NEW b, IsHung(k, n, s, b)
  PROVE  Sane(b) /\ Grows(n, s, k, b) /\ InUse(b, m.size + 1)
<1> DEFINE t == Hung(k, n, s)
           new == m.size + 1
<1>0. m \in Memory /\ n \in Nodes /\ n # new /\ m.size \in Nat /\ n \in 1 .. m.size /\ n \notin m.freed
  <2>1. m \in Memory /\ n \in Nodes /\ m.size \in Nat /\ n \in Nat /\ n <= m.size  BY SaneFacts
  <2> QED  BY <2>1 DEF InUse
<1>1. /\ t \in Memory /\ t.head = m.head /\ t.size = new /\ t.freed = m.freed /\ new \in Nodes
      /\ t.key[new] = k /\ t.prev[new] = n
      /\ \A x \in Nodes : x # new => t.key[x] = m.key[x] /\ t.prev[x] = m.prev[x]
      /\ \A x \in Nodes, r \in Side :
           t.child[r][x] = IF x = n /\ r = s THEN new ELSE m.child[r][x]
  <2> HIDE DEF t
  <2> QED  BY <1>0, HungFacts DEF t
<1>2. Recolored(t, b)
  <2> HIDE DEF t
  <2> QED  BY DEF IsHung, Recolored, t
<1> HIDE DEF t
<1>3. /\ b \in Memory /\ b.head = t.head /\ b.size = t.size /\ b.key = t.key
      /\ b.child = t.child /\ b.prev = t.prev /\ b.freed = t.freed
  BY <1>1, <1>2, RecoloredFacts
<1>4. 1 .. m.size \subseteq Nodes /\ new \notin 1 .. m.size /\ 1 .. new = (1 .. m.size) \cup {new}
      /\ \A x \in 0 .. m.size : x \in 0 .. new
  BY <1>0, MapAssumption DEF Nodes
<1>5. ASSUME NEW r \in Side PROVE b.child[r][new] = NULL
  <2>1. m.child[r][new] = NULL
    <3>1. new > m.size  BY <1>0
    <3> QED  BY <1>1, <3>1 DEF Sane, Fresh
  <2> QED  BY <1>0, <1>1, <1>3, <2>1
<1>6. Grows(n, s, k, b)  BY <1>1, <1>3, <1>4, <1>5 DEF Grows
<1>7. Fresh(b)
  <2> SUFFICES ASSUME NEW x \in Nodes, NEW r \in Side, x > b.size PROVE b.child[r][x] = NULL
    BY DEF Fresh
  <2>1. x > new /\ x > m.size /\ x # n  BY <1>0, <1>1, <1>3, MapAssumption DEF Nodes
  <2>2. m.child[r][x] = NULL  BY <2>1 DEF Sane, Fresh
  <2> QED  BY <1>1, <1>3, <2>1, <2>2
<1>8. ASSUME NEW x \in 1 .. b.size
      PROVE  /\ b.prev[x] \in 1 .. b.size /\ \A r \in Side : b.child[r][x] \in 0 .. b.size
             /\ x \notin b.freed => b.prev[x] \notin b.freed /\ \A r \in Side : b.child[r][x] \notin b.freed
  <2>1. new \notin m.freed /\ new \in 0 .. new /\ NULL \notin m.freed /\ NULL \in 0 .. new
    <3>1. m.freed \subseteq 1 .. m.size  BY DEF Sane
    <3> QED  BY <1>0, <1>4, <3>1 DEF NULL
  <2>2. CASE x = new  BY <1>0, <1>1, <1>3, <1>4, <1>5, <2>1, <2>2
  <2>3. CASE x \in 1 .. m.size
    <3>1. /\ m.prev[x] \in 1 .. m.size /\ \A r \in Side : m.child[r][x] \in 0 .. m.size
          /\ x \notin m.freed => m.prev[x] \notin m.freed /\ \A r \in Side : m.child[r][x] \notin m.freed
      BY <2>3 DEF Sane
    <3>2. b.prev[x] = m.prev[x] /\ \A r \in Side : b.child[r][x] = IF x = n /\ r = s THEN new ELSE m.child[r][x]
      BY <1>6, <2>3 DEF Grows
    <3> QED  BY <1>1, <1>3, <1>4, <2>1, <3>1, <3>2
  <2> QED  BY <1>1, <1>3, <1>4, <2>2, <2>3
<1>9. b.freed \subseteq 1 .. b.size /\ new \notin b.freed /\ new \in 1 .. b.size
  <2>1. m.freed \subseteq 1 .. m.size  BY DEF Sane
  <2> QED  BY <1>1, <1>3, <1>4, <2>1
<1> QED  BY <1>3, <1>6, <1>7, <1>8, <1>9 DEF Sane, InUse
-----------------------------------------------------------------------------
(* The search, and where it ends.                                          *)

LEMMA SameShape ==
  ASSUME NEW t \in Memory, NEW T, NEW e \in Bounds, NEW B \in Nat, Shape(t, T, e, B), NEW a \in Memory,
         a.head = t.head, t.size <= a.size,
         \A x \in T : a.key[x] = t.key[x] /\ \A r \in Side : a.child[r][x] = t.child[r][x]
  PROVE  Shape(a, T, e, B)
<1>1. t.size \in Nat /\ a.size \in Nat  BY MapAssumption DEF Memory
<1>2. 1 .. t.size \subseteq 1 .. a.size  BY <1>1
<1>3. Frame(a, T, e, B)
  <2>1. Frame(t, T, e, B)  BY DEF Shape
  <2>2. T \subseteq 1 .. a.size /\ a.head \in T /\ e["left"][a.head] = -1 /\ e["right"][a.head] = B
    BY <1>2, <2>1 DEF Frame
  <2>3. \A x \in T : Between(e, x, a.key[x]) /\ -1 <= e["left"][x] /\ e["right"][x] <= B
    BY <2>1 DEF Frame
  <2>4. \A x \in T, s \in Side : a.child[s][x] # NULL =>
          a.child[s][x] \in T /\ e[s][a.child[s][x]] = e[s][x] /\ e[Other(s)][a.child[s][x]] = a.key[x]
    BY <2>1 DEF Frame
  <2> QED  BY <2>2, <2>3, <2>4 DEF Frame
<1>4. \A y \in T : y # a.head => \E x \in T, s \in Side : a.child[s][x] = y
  BY DEF Shape
<1> QED  BY <1>3, <1>4 DEF Shape

LEMMA WiderAgain ==
  ASSUME NEW t \in Memory, NEW T, NEW e \in Bounds, NEW B \in Nat, Frame(t, T, e, B),
         NEW f \in Bounds, NEW h \in Bounds, NEW U, U \subseteq T, Wider(T, e, f), Wider(U, f, h)
  PROVE  Wider(U, e, h)
<1> SUFFICES ASSUME NEW x \in U PROVE h["left"][x] <= e["left"][x] /\ e["right"][x] <= h["right"][x]
  BY DEF Wider
<1>1. x \in Nodes  BY FrameFacts
<1>2. /\ e["left"][x] \in Int /\ e["right"][x] \in Int /\ f["left"][x] \in Int /\ f["right"][x] \in Int
      /\ h["left"][x] \in Int /\ h["right"][x] \in Int
  BY <1>1, Sides DEF Bounds
<1>3. /\ f["left"][x] <= e["left"][x] /\ e["right"][x] <= f["right"][x]
      /\ h["left"][x] <= f["left"][x] /\ f["right"][x] <= h["right"][x]
  BY DEF Wider
<1> QED  BY <1>2, <1>3

(* A search for k in t ended at n of T, without k. *)
Place(t, T, e, B, k, n, s) ==
  /\ Loose(t, T, e, B) /\ n \in T /\ k \in Nat /\ Between(e, n, k) /\ t.key[n] # k
  /\ s = SideOf(t, n, k) /\ t.child[s][n] = NULL

LEMMA Seeks ==
  ASSUME NEW t, Sane(t), NEW T, NEW e \in Bounds, NEW B \in Nat, Loose(t, T, e, B), NEW k \in Nat
  PROVE  \E f \in Bounds, C \in Nat :
           Loose(t, T, f, C) /\ Ends(t, T, f, k, Path(t, k), Last(Path(t, k)))
<1> DEFINE p == Path(t, k)
           n == Last(p)
<1>1. t \in Memory /\ Shape(t, T, e, B) /\ T \cap t.freed = {}  BY DEF Sane, Loose
<1>2. PICK f \in Bounds, C \in Nat : Shape(t, T, f, C) /\ Wider(T, e, f) /\ Ends(t, T, f, k, p, n)
  BY <1>1, SearchEnds
<1> HIDE DEF p, n
<1>3. T \subseteq Nodes /\ t.key \in [Nodes -> Nat] /\ t.size \in Nat
  <2>1. \A x \in T : x \in Nodes  BY <1>1, FrameFacts DEF Shape
  <2> QED  BY <1>1, <2>1, MapAssumption DEF Memory
<1>4. ASSUME NEW q \in (1 .. t.size) \ T PROVE Harmless(t, T, t, T, q)  BY <1>4 DEF Harmless, Kept
<1>5. ASSUME NEW x \in T PROVE Stays(t, T, e, t, f, x)
  <2>1. t.key[x] \in Nat  BY <1>3
  <2> QED  BY <1>2, <2>1 DEF Stays, Wider
<1>6. t.size <= t.size  BY <1>3
<1>7. Loose(t, T, f, C)  BY <1>1, <1>2, <1>4, <1>5, <1>6, Carried
<1> QED  BY <1>2, <1>7 DEF p, n

(* t's head leads to a search tree, as far as anyone can tell. *)
Searchable(t) ==
  Sane(t) /\ \E T \in SUBSET Nodes, e \in Bounds, B \in Nat : Loose(t, T, e, B)

LEMMA SearchableIf ==
  ASSUME NEW t, Sane(t), NEW T, NEW e \in Bounds, NEW B \in Nat, Loose(t, T, e, B)
  PROVE  Searchable(t)
<1>1. t \in Memory /\ Frame(t, T, e, B)  BY DEF Sane, Loose, Shape
<1>2. T \in SUBSET Nodes  BY <1>1, FrameFacts
<1> QED  BY <1>2 DEF Searchable

LEMMA SearchableRecolored ==
  ASSUME NEW t, Searchable(t), NEW a, Recolored(t, a)
  PROVE  Searchable(a)
<1>0. t \in Memory  BY DEF Searchable, Sane
<1>1. /\ a \in Memory /\ a.head = t.head /\ a.size = t.size /\ a.key = t.key
      /\ a.child = t.child /\ a.prev = t.prev /\ a.freed = t.freed
  BY <1>0, RecoloredFacts
<1>2. Sane(a)  BY <1>1 DEF Searchable, Sane, Fresh
<1>3. PICK T \in SUBSET Nodes, e \in Bounds, B \in Nat : Loose(t, T, e, B)  BY DEF Searchable
<1>4. Shape(a, T, e, B)  BY <1>1, <1>3 DEF Loose, Shape, Frame
<1>5. ASSUME NEW x \in T PROVE Sound(a, T, x, a.prev[x]) \/ Hook(a, T, e, x, a.prev[x])
  <2>1. CASE Sound(t, T, x, t.prev[x])  BY <1>1, <2>1 DEF Sound, NoChild, Full
  <2>2. CASE Hook(t, T, e, x, t.prev[x])  BY <1>1, <2>2 DEF Hook, Sound, NoChild, Full
  <2> QED  BY <1>3, <2>1, <2>2 DEF Loose
<1>6. Loose(a, T, e, B)  BY <1>1, <1>3, <1>4, <1>5 DEF Loose
<1> QED  BY <1>2, <1>6, SearchableIf
-----------------------------------------------------------------------------
(* Insertion below head.                                                   *)

LEMMA PlaceFacts ==
  ASSUME Sane(m), m.size < MaxNodes, NEW T, NEW e \in Bounds, NEW B \in Nat, NEW k, NEW n, NEW s,
         Place(m, T, e, B, k, n, s)
  PROVE  /\ m \in Memory /\ m.size \in Nat /\ m.size + 1 \in Nodes /\ m.size + 1 \notin 1 .. m.size
         /\ m.size + 1 # NULL /\ m.size + 1 \notin m.freed /\ NULL \notin T /\ NULL \notin 1 .. m.size
         /\ 1 .. m.size \subseteq Nodes /\ T \subseteq 1 .. m.size /\ T \subseteq Nodes /\ T \cap m.freed = {}
         /\ Shape(m, T, e, B) /\ Frame(m, T, e, B) /\ k \in Nat /\ s \in Side /\ InUse(m, n)
         /\ n \in T /\ InUse(m, m.prev[n]) /\ InUse(m, m.prev[m.prev[n]])
<1>1. m \in Memory /\ m.freed \subseteq 1 .. m.size /\ Shape(m, T, e, B) /\ Frame(m, T, e, B)
      /\ k \in Nat /\ n \in T /\ T \cap m.freed = {}
  BY DEF Place, Loose, Sane, Shape
<1>2. MaxNodes \in Nat /\ m.size \in Nat /\ T \subseteq 1 .. m.size  BY <1>1, MapAssumption DEF Memory, Frame
<1>3. /\ m.size + 1 \in Nodes /\ m.size + 1 \notin 1 .. m.size /\ m.size + 1 # NULL
      /\ NULL \notin 1 .. m.size /\ 1 .. m.size \subseteq Nodes
  BY <1>2 DEF Nodes, NULL
<1>4. InUse(m, n)  BY <1>1, <1>2 DEF InUse
<1>5. InUse(m, m.prev[n])  BY <1>4, SaneFacts
<1>6. InUse(m, m.prev[m.prev[n]])  BY <1>5, SaneFacts
<1>7. s \in Side
  <2>1. n \in Nodes  BY <1>4, SaneFacts
  <2> QED  BY <1>1, <2>1, SideFacts DEF Place
<1> QED  BY <1>1, <1>2, <1>3, <1>4, <1>5, <1>6, <1>7

(* The new node stays where it was hung. *)
LEMMA LossLeaf ==
  ASSUME Sane(m), m.size < MaxNodes, NEW T, NEW e \in Bounds, NEW B \in Nat, NEW k, NEW n, NEW s,
         Place(m, T, e, B, k, n, s), Sound(m, T, n, m.prev[n]), NEW b, IsHung(k, n, s, b)
  PROVE  Searchable(b)
<1> DEFINE new == m.size + 1
           U == T \cup {new}
<1>1. /\ m \in Memory /\ m.size \in Nat /\ new \in Nodes /\ new \notin 1 .. m.size
      /\ new # NULL /\ new \notin m.freed /\ NULL \notin T /\ NULL \notin 1 .. m.size
      /\ 1 .. m.size \subseteq Nodes /\ T \subseteq 1 .. m.size /\ T \subseteq Nodes /\ T \cap m.freed = {}
      /\ Shape(m, T, e, B) /\ k \in Nat /\ s \in Side /\ InUse(m, n)
      /\ n \in T /\ InUse(m, m.prev[n])
  BY PlaceFacts
<1>2. Sane(b) /\ Grows(n, s, k, b)  BY <1>1, GrownIs
<1>3. /\ b.head = m.head /\ b.size = new /\ b.freed = m.freed
      /\ b.key[new] = k /\ b.prev[new] = n /\ \A r \in Side : b.child[r][new] = NULL
      /\ \A x \in 1 .. m.size : b.key[x] = m.key[x] /\ b.prev[x] = m.prev[x]
      /\ \A x \in 1 .. m.size, r \in Side :
           b.child[r][x] = IF x = n /\ r = s THEN new ELSE m.child[r][x]
  BY <1>2 DEF Grows
<1>4. b \in Memory  BY <1>2 DEF Sane
<1>5. Loose(m, T, e, B) /\ Between(e, n, k) /\ m.key[n] # k /\ s = SideOf(m, n, k) /\ m.child[s][n] = NULL
  BY DEF Place
<1>6. GetsLeaf(m, T, n, s, new, k, b)
  <2>1. new \notin T /\ new \in 1 .. b.size /\ m.size <= b.size  BY <1>1, <1>3
  <2> QED  BY <1>1, <1>3, <2>1 DEF GetsLeaf
<1> HIDE DEF new
<1>7. PICK f \in Bounds : Shape(b, U, f, B) /\ Wider(T, e, f)  BY <1>1, <1>4, <1>5, <1>6, LeafShape
<1>p. m.prev[n] \in 1 .. m.size  BY <1>1 DEF InUse
<1>8. Sound(b, U, n, b.prev[n])
  <2>1. b.prev[n] = m.prev[n]  BY <1>1, <1>3
  <2>2. \A r \in Side : b.child[r][m.prev[n]] = m.child[r][m.prev[n]] \/ b.child[r][m.prev[n]] = new
    BY <1>3, <1>p
  <2>3. n # new  BY <1>1
  <2> QED  BY <1>1, <2>1, <2>2, <2>3 DEF Sound, NoChild, Full
<1>9. ASSUME NEW x \in U
      PROVE  Stays(m, T, e, b, f, x) \/ Sound(b, U, x, b.prev[x]) \/ Hook(b, U, f, x, b.prev[x])
  <2>1. CASE x = n  BY <1>8, <2>1
  <2>2. CASE x = new  BY <1>1, <1>3, <2>2 DEF Sound
  <2>3. CASE x \in T /\ x # n
    <3>1. /\ b.prev[x] = m.prev[x] /\ b.key[x] = m.key[x] /\ m.key[x] \in Nat
          /\ \A r \in Side : b.child[r][x] = m.child[r][x]
      BY <1>1, <1>3, <2>3 DEF Memory
    <3> QED  BY <1>7, <2>3, <3>1 DEF Stays, Wider
  <2> QED  BY <2>1, <2>2, <2>3
<1>10. ASSUME NEW q \in (1 .. m.size) \ U PROVE Harmless(m, T, b, U, q)
  <2>1. /\ q # n /\ q # new /\ q \notin T /\ b.prev[q] = m.prev[q] /\ b.key[q] = m.key[q]
        /\ \A r \in Side : b.child[r][q] = m.child[r][q]
    BY <1>1, <1>3
  <2>2. ASSUME NEW y \in 1 .. m.size, NoChild(m, y, q) PROVE NoChild(b, y, q)
    BY <1>3, <2>1, <2>2 DEF NoChild
  <2> QED  BY <2>1, <2>2 DEF Harmless, Kept
<1>11. U \cap b.freed = {}  BY <1>1, <1>3
<1>12. m.size <= b.size  BY <1>1, <1>3 DEF new
<1>13. Loose(b, U, f, B)  BY <1>2, <1>5, <1>7, <1>9, <1>10, <1>11, <1>12, Carried
<1> QED  BY <1>2, <1>13, SearchableIf

(* Where the uncle is not NULL, n's parent does not come below n. *)
LEMMA HookNull ==
  ASSUME NEW t, NEW T, NEW e, NEW n, NEW s \in Side, n # NULL,
         Hook(t, T, e, n, t.prev[n])
  PROVE  /\ Uncle(t, n, s) = NULL
         /\ ~Bent(t, n, s) =>
              /\ t.child[Other(s)][n] = NULL /\ Between(e, n, t.key[t.prev[n]])
              /\ IF s = "left" THEN t.key[n] < t.key[t.prev[n]] ELSE t.key[t.prev[n]] < t.key[n]
              /\ t.prev[t.prev[n]] # n /\ NoChild(t, t.prev[t.prev[n]], t.prev[n])
              /\ Sound(t, T, n, t.prev[t.prev[n]])
<1> DEFINE p == t.prev[n]
<1>1. PICK r \in Side :
        /\ t.child[r][p] = n /\ t.child[Other(r)][p] = NULL /\ t.child[Other(r)][n] = NULL
        /\ Between(e, n, t.key[p])
        /\ IF r = "left" THEN t.key[n] < t.key[p] ELSE t.key[p] < t.key[n]
        /\ t.prev[p] # n /\ NoChild(t, t.prev[p], p) /\ Sound(t, T, n, t.prev[p])
  BY DEF Hook
<1> HIDE DEF p
<1>2. CASE r = s
  <2>1. ~Bent(t, n, s)  BY <1>1, <1>2 DEF Bent, p
  <2>2. Uncle(t, n, s) = t.child[Other(s)][p]  BY <2>1 DEF Uncle, p
  <2> QED  BY <1>1, <1>2, <2>2 DEF p
<1>3. CASE r # s
  <2>1. s = Other(r)  BY <1>3, Sides
  <2>2. Bent(t, n, s)  BY <1>1, <2>1 DEF Bent, p
  <2>3. Uncle(t, n, s) = t.child[s][p]  BY <2>2 DEF Uncle, p
  <2> QED  BY <1>1, <2>1, <2>2, <2>3
<1> QED  BY <1>2, <1>3

(* c is m with the new node above n, which it does not hang from. *)
Tops(n, s, k, c) ==
  /\ c.head = m.head /\ c.size = m.size + 1 /\ c.freed = m.freed
  /\ c.key[m.size + 1] = k /\ c.prev[m.size + 1] = m.prev[n]
  /\ c.child[s][m.size + 1] = NULL /\ c.child[Other(s)][m.size + 1] = n
  /\ \A x \in 1 .. m.size : c.key[x] = m.key[x] /\ c.prev[x] = IF x = n THEN m.size + 1 ELSE m.prev[x]
  /\ \A x \in 1 .. m.size, r \in Side : c.child[r][x] = m.child[r][x]

LEMMA RotatedOnce ==
  ASSUME Sane(m), m.size < MaxNodes, NEW T, NEW e \in Bounds, NEW B \in Nat, NEW k, NEW n, NEW s,
         Place(m, T, e, B, k, n, s), NEW b, IsHung(k, n, s, b)
  PROVE  LET c == Rotate(b, Other(s), n, m.size + 1)
         IN  Sane(c) /\ Tops(n, s, k, c)
<1> DEFINE new == m.size + 1
           c == Rotate(b, Other(s), n, new)
<1>1. /\ m \in Memory /\ m.size \in Nat /\ new \in Nodes /\ new \notin 1 .. m.size
      /\ 1 .. m.size \subseteq Nodes /\ k \in Nat /\ s \in Side /\ InUse(m, n) /\ n \in 1 .. m.size
  BY PlaceFacts DEF InUse
<1>2. Sane(b) /\ Grows(n, s, k, b) /\ InUse(b, new)  BY <1>1, GrownIs
<1>3. /\ b.head = m.head /\ b.size = new /\ b.freed = m.freed
      /\ b.key[new] = k /\ b.prev[new] = n /\ \A r \in Side : b.child[r][new] = NULL
      /\ \A x \in 1 .. m.size : b.key[x] = m.key[x] /\ b.prev[x] = m.prev[x]
      /\ \A x \in 1 .. m.size, r \in Side :
           b.child[r][x] = IF x = n /\ r = s THEN new ELSE m.child[r][x]
  BY <1>2 DEF Grows
<1>4. InUse(b, n) /\ n # new /\ Other(s) \in Side
  <2>1. n \in 1 .. new  BY <1>1
  <2> QED  BY <1>1, <1>3, <2>1, Sides DEF InUse
<1> HIDE DEF new
<1>5. Rotates(b, Other(s), n, new, c) /\ Sane(c)  BY <1>2, <1>4, RotateSane
<1> HIDE DEF c
<1>6. /\ c.head = b.head /\ c.size = b.size /\ c.key = b.key /\ c.freed = b.freed
      /\ \A x \in Nodes, r \in Side :
           c.child[r][x] = IF x = new /\ r = Other(s) THEN n
                           ELSE IF x = n /\ r # Other(s) THEN b.child[Other(s)][new]
                           ELSE b.child[r][x]
      /\ \A x \in Nodes :
           c.prev[x] = IF x = new THEN b.prev[n] ELSE IF x = n THEN new ELSE b.prev[x]
  BY <1>5 DEF Rotates
<1>7. m.child[s][n] = NULL /\ \A r \in Side : r # Other(s) <=> r = s  BY <1>1, Sides DEF Place
<1>8. ASSUME NEW x \in 1 .. m.size, NEW r \in Side PROVE c.child[r][x] = m.child[r][x]
  <2>1. x \in Nodes /\ x # new  BY <1>1
  <2> QED  BY <1>3, <1>4, <1>6, <1>7, <2>1
<1>9. ASSUME NEW x \in 1 .. m.size
      PROVE  c.key[x] = m.key[x] /\ c.prev[x] = IF x = n THEN new ELSE m.prev[x]
  <2>1. x \in Nodes /\ x # new  BY <1>1
  <2> QED  BY <1>3, <1>6, <2>1
<1>10. c.key[new] = k /\ c.prev[new] = m.prev[n] /\ c.child[s][new] = NULL /\ c.child[Other(s)][new] = n
  BY <1>1, <1>3, <1>4, <1>6, <1>7
<1>11. Tops(n, s, k, c)  BY <1>3, <1>6, <1>8, <1>9, <1>10 DEF Tops, new
<1> QED  BY <1>5, <1>11 DEF c, new

(* The new node is turned above n, and nothing points to it but n. *)
LEMMA LossTopped ==
  ASSUME Sane(m), m.size < MaxNodes, NEW T, NEW e \in Bounds, NEW B \in Nat, NEW k, NEW n, NEW s,
         Place(m, T, e, B, k, n, s), Sound(m, T, n, m.prev[n]), ~IsRoot(m, n),
         NEW c, Sane(c), Tops(n, s, k, c)
  PROVE  Searchable(c)
<1> DEFINE new == m.size + 1
           p == m.prev[n]
<1>1. /\ m \in Memory /\ m.size \in Nat /\ new \in Nodes /\ new \notin 1 .. m.size
      /\ new # NULL /\ new \notin m.freed /\ NULL \notin T /\ NULL \notin 1 .. m.size
      /\ 1 .. m.size \subseteq Nodes /\ T \subseteq 1 .. m.size /\ T \subseteq Nodes /\ T \cap m.freed = {}
      /\ Shape(m, T, e, B) /\ Frame(m, T, e, B) /\ k \in Nat /\ s \in Side
      /\ n \in T /\ p \in 1 .. m.size
  BY PlaceFacts DEF InUse
<1>2. /\ c.head = m.head /\ c.size = new /\ c.freed = m.freed
      /\ c.key[new] = k /\ c.prev[new] = p
      /\ c.child[s][new] = NULL /\ c.child[Other(s)][new] = n
      /\ \A x \in 1 .. m.size : c.key[x] = m.key[x] /\ c.prev[x] = IF x = n THEN new ELSE m.prev[x]
      /\ \A x \in 1 .. m.size, r \in Side : c.child[r][x] = m.child[r][x]
  BY DEF Tops
<1>3. c \in Memory /\ m.size <= c.size  BY <1>1, <1>2 DEF Sane
<1>4. Loose(m, T, e, B) /\ Between(e, n, k) /\ m.key[n] # k /\ s = SideOf(m, n, k) /\ m.child[s][n] = NULL
  BY DEF Place
<1>k. m.key \in [Nodes -> Nat]  BY <1>1 DEF Memory
<1>b. e \in [Side -> [Nodes -> Int]]  BY DEF Bounds
<1> HIDE DEF new
<1>5. Shape(c, T, e, B)  BY <1>1, <1>2, <1>3, SameShape
<1>6. p # n  BY DEF IsRoot
<1>7. Sound(c, T, n, p)  BY <1>1, <1>2 DEF Sound, NoChild, Full
<1> HIDE DEF p
<1>8. Hook(c, T, e, n, new)
  <2>1. Other(s) \in Side /\ Other(Other(s)) = s  BY <1>1, Sides
  <2>2. c.child[s][n] = NULL  BY <1>1, <1>2, <1>4
  <2>3. IF Other(s) = "left" THEN m.key[n] < k ELSE k < m.key[n]
    <3>1. n \in Nodes /\ m.key[n] \in Nat  BY <1>1, <1>k
    <3>2. /\ m.key[n] < k => s = "right"
          /\ m.key[n] >= k => s = "left"
      BY <1>1, <1>4, <3>1, SideFacts
    <3> QED  BY <1>1, <1>4, <3>1, <3>2, Sides
  <2>4. NoChild(c, p, new)
    <3> SUFFICES ASSUME NEW r \in Side, c.child[r][p] = new PROVE FALSE  BY DEF NoChild
    <3>1. m.child[r][p] = new  BY <1>1, <1>2
    <3>2. m.child[r][p] \in 0 .. m.size  BY <1>1 DEF Sane
    <3> QED  BY <1>1, <3>1, <3>2 DEF NULL
  <2>5. c.key[n] = m.key[n] /\ c.key[new] = k /\ c.prev[new] = p  BY <1>1, <1>2
  <2>6. Between(e, n, k) /\ c.child[Other(s)][new] = n /\ c.child[s][new] = NULL  BY <1>2, <1>4
  <2> QED  BY <1>6, <1>7, <2>1, <2>2, <2>3, <2>4, <2>5, <2>6 DEF Hook
<1>9. ASSUME NEW x \in T
      PROVE  Stays(m, T, e, c, e, x) \/ Sound(c, T, x, c.prev[x]) \/ Hook(c, T, e, x, c.prev[x])
  <2>1. CASE x = n
    <3>1. c.prev[n] = new  BY <1>1, <1>2
    <3> QED  BY <1>8, <2>1, <3>1
  <2>2. CASE x # n
    <3>1. x \in Nodes /\ x \in 1 .. m.size  BY <1>1
    <3>2. /\ c.prev[x] = m.prev[x] /\ c.key[x] = m.key[x] /\ m.key[x] \in Nat
          /\ \A r \in Side : c.child[r][x] = m.child[r][x]
      BY <1>2, <1>k, <2>2, <3>1
    <3>3. e["left"][x] \in Int /\ e["right"][x] \in Int  BY <1>b, <3>1, Sides
    <3> QED  BY <3>2, <3>3 DEF Stays
  <2> QED  BY <2>1, <2>2
<1>10. ASSUME NEW q \in (1 .. m.size) \ T PROVE Harmless(m, T, c, T, q)
  <2>1. /\ q # n /\ q \notin T /\ c.prev[q] = m.prev[q] /\ c.key[q] = m.key[q]
        /\ \A r \in Side : c.child[r][q] = m.child[r][q]
    BY <1>1, <1>2
  <2>2. ASSUME NEW y \in 1 .. m.size, NoChild(m, y, q) PROVE NoChild(c, y, q)
    BY <1>2, <2>2 DEF NoChild
  <2> QED  BY <2>1, <2>2 DEF Harmless, Kept
<1>11. T \cap c.freed = {}  BY <1>1, <1>2
<1>12. Loose(c, T, e, B)  BY <1>3, <1>4, <1>5, <1>9, <1>10, <1>11, Carried
<1> QED  BY <1>12, SearchableIf

(* The new node is turned above p, too, and no parent is told: what is     *)
(* below p is lost, n included.                                            *)
LEMMA LossBent ==
  ASSUME Sane(m), m.size < MaxNodes, NEW T, NEW e \in Bounds, NEW B \in Nat, NEW k, NEW n, NEW s,
         Place(m, T, e, B, k, n, s), ~IsRoot(m, n), Uncle(m, n, s) = NULL, Bent(m, n, s),
         NEW c, Sane(c), Tops(n, s, k, c)
  PROVE  Searchable(Rotate(c, s, m.prev[n], m.size + 1))
<1> DEFINE new == m.size + 1
           p == m.prev[n]
           a == Rotate(c, s, p, new)
<1>1. /\ m \in Memory /\ m.size \in Nat /\ new \in Nodes /\ new \notin 1 .. m.size
      /\ new # NULL /\ new \notin m.freed /\ NULL \notin T /\ NULL \notin 1 .. m.size
      /\ 1 .. m.size \subseteq Nodes /\ T \subseteq 1 .. m.size /\ T \subseteq Nodes /\ T \cap m.freed = {}
      /\ Shape(m, T, e, B) /\ Frame(m, T, e, B) /\ s \in Side
      /\ n \in T /\ p \in 1 .. m.size /\ p \notin m.freed
  BY PlaceFacts DEF InUse
<1>2. /\ c.head = m.head /\ c.size = new /\ c.freed = m.freed
      /\ c.key[new] = k /\ c.prev[new] = p
      /\ c.child[s][new] = NULL /\ c.child[Other(s)][new] = n
      /\ \A x \in 1 .. m.size : c.key[x] = m.key[x] /\ c.prev[x] = IF x = n THEN new ELSE m.prev[x]
      /\ \A x \in 1 .. m.size, r \in Side : c.child[r][x] = m.child[r][x]
  BY DEF Tops
<1>3. p # n  BY DEF IsRoot
<1>4. m.child[s][p] = NULL  BY DEF Uncle
<1>5. Loose(m, T, e, B)  BY DEF Place
<1>6. InUse(c, p) /\ InUse(c, new) /\ p # new
  <2>1. p \in 1 .. new /\ new \in 1 .. new  BY <1>1
  <2> QED  BY <1>1, <1>2, <2>1 DEF InUse
<1> HIDE DEF new, p
<1>7. Rotates(c, s, p, new, a) /\ Sane(a)  BY <1>1, <1>6, RotateSane
<1> HIDE DEF a
<1>8. /\ a \in Memory /\ a.head = m.head /\ a.size = new /\ a.freed = m.freed
      /\ \A x \in 1 .. m.size : a.key[x] = m.key[x]
  <2>1. a \in Memory /\ a.head = c.head /\ a.size = c.size /\ a.key = c.key /\ a.freed = c.freed
    BY <1>7 DEF Rotates
  <2> QED  BY <1>2, <2>1
<1>9. /\ a.prev[n] = new /\ a.prev[p] = new
      /\ \A x \in 1 .. m.size : x # n /\ x # p => a.prev[x] = m.prev[x]
  <2>1. \A x \in Nodes : a.prev[x] = IF x = new THEN c.prev[p] ELSE IF x = p THEN new ELSE c.prev[x]
    BY <1>7 DEF Rotates
  <2> QED  BY <1>1, <1>2, <1>3, <1>6, <2>1
<1>10. /\ \A r \in Side : a.child[r][new] # NULL
       /\ \A r \in Side : a.child[r][p] = NULL
       /\ \A x \in 1 .. m.size, r \in Side : x # p => a.child[r][x] = m.child[r][x]
  <2>1. \A x \in Nodes, r \in Side :
          a.child[r][x] = IF x = new /\ r = s THEN p
                          ELSE IF x = p /\ r # s THEN c.child[s][new]
                          ELSE c.child[r][x]
    BY <1>7 DEF Rotates
  <2>2. p # NULL /\ n # NULL /\ \A r \in Side : r = s \/ r = Other(s)  BY <1>1, Sides
  <2>3. a.child[s][new] = p /\ a.child[Other(s)][new] = n  BY <1>1, <1>2, <1>6, <2>1, Sides
  <2>4. \A r \in Side : a.child[r][p] = NULL  BY <1>1, <1>2, <1>4, <1>6, <2>1
  <2>5. \A x \in 1 .. m.size, r \in Side : x # p => a.child[r][x] = m.child[r][x]
    BY <1>1, <1>2, <2>1
  <2> QED  BY <2>2, <2>3, <2>4, <2>5
<1>11. \A x \in 1 .. m.size, r \in Side : a.child[r][x] = m.child[r][x] \/ a.child[r][x] = NULL
  BY <1>10
<1>12. Frame(a, T, e, B)
  <2>1. T \subseteq 1 .. a.size /\ m.size <= a.size  BY <1>1, <1>8 DEF new
  <2> QED  BY <1>1, <1>8, <1>11, <2>1 DEF Frame
<1>13. PICK U \in SUBSET T : Shape(a, U, e, B)  BY <1>8, <1>12, Reachable
<1>b. e \in [Side -> [Nodes -> Int]] /\ m.key \in [Nodes -> Nat]  BY <1>1 DEF Bounds, Memory
<1>14. Full(a, new)  BY <1>10 DEF Full
<1>15. ASSUME NEW x \in U
       PROVE  Stays(m, T, e, a, e, x) \/ Sound(a, U, x, a.prev[x]) \/ Hook(a, U, e, x, a.prev[x])
  <2>1. CASE x = n \/ x = p  BY <1>9, <1>14, <2>1 DEF Sound
  <2>2. CASE x # n /\ x # p
    <3>1. x \in T /\ x \in Nodes /\ x \in 1 .. m.size  BY <1>1
    <3>2. /\ a.prev[x] = m.prev[x] /\ a.key[x] = m.key[x] /\ m.key[x] \in Nat
          /\ \A r \in Side : a.child[r][x] = m.child[r][x]
      BY <1>8, <1>9, <1>10, <1>b, <2>2, <3>1
    <3>3. e["left"][x] \in Int /\ e["right"][x] \in Int  BY <1>b, <3>1, Sides
    <3> QED  BY <3>1, <3>2, <3>3 DEF Stays
  <2> QED  BY <2>1, <2>2
<1>16. ASSUME NEW q \in (1 .. m.size) \ U PROVE Harmless(m, T, a, U, q)
  <2>1. CASE q \in T
    <3>1. ASSUME NEW x \in U PROVE NoChild(a, q, x)
      <4> SUFFICES ASSUME NEW r \in Side, a.child[r][q] = x PROVE FALSE  BY DEF NoChild
      <4>1. x # NULL /\ m.child[r][q] = x  BY <1>1, <1>11
      <4>2. Only(m, T, q, r, x)  BY <1>1, <2>1, <4>1, OneParent
      <4>3. x # a.head  BY <1>8, <4>2 DEF Only
      <4>4. PICK y \in U, w \in Side : a.child[w][y] = x  BY <1>13, <4>3 DEF Shape
      <4>5. y \in T /\ m.child[w][y] = x  BY <1>1, <1>11, <4>1, <4>4
      <4>6. y = q  BY <4>2, <4>5 DEF Only
      <4> QED  BY <4>4, <4>6
    <3> QED  BY <3>1 DEF Harmless, Sound
  <2>2. CASE q = p
    <3>1. ASSUME NEW x \in U PROVE NoChild(a, q, x)  BY <1>1, <1>10, <2>2 DEF NoChild
    <3> QED  BY <3>1 DEF Harmless, Sound
  <2>3. CASE q \notin T /\ q # p
    <3>1. /\ q # n /\ a.prev[q] = m.prev[q] /\ a.key[q] = m.key[q]
          /\ \A r \in Side : a.child[r][q] = m.child[r][q]
      BY <1>1, <1>8, <1>9, <1>10, <2>3
    <3>2. q # NULL  BY <1>1
    <3>3. ASSUME NEW y \in 1 .. m.size, NoChild(m, y, q) PROVE NoChild(a, y, q)
      BY <1>11, <3>2, <3>3 DEF NoChild
    <3> QED  BY <2>3, <3>1, <3>3 DEF Harmless, Kept
  <2> QED  BY <2>1, <2>2, <2>3
<1>17. U \cap a.freed = {} /\ m.size <= a.size
  <2>1. m.size <= new  BY <1>1 DEF new
  <2> QED  BY <1>1, <1>8, <2>1
<1>18. Loose(a, U, e, B)  BY <1>5, <1>7, <1>13, <1>15, <1>16, <1>17, Carried
<1>19. Searchable(a)  BY <1>7, <1>18, SearchableIf
<1> QED  BY <1>19 DEF a, p, new

(* c is m with the new node below n and n above p, which it hung from;     *)
(* n's parent is g, which does not know.                                   *)
Lifts(n, s, k, c) ==
  LET p == m.prev[n]
      g == m.prev[p]
  IN  /\ c.head = m.head /\ c.size = m.size + 1 /\ c.freed = m.freed
      /\ c.key[m.size + 1] = k /\ c.prev[m.size + 1] = n /\ \A r \in Side : c.child[r][m.size + 1] = NULL
      /\ c.prev[n] = g /\ c.prev[p] = n
      /\ c.child[s][n] = m.size + 1 /\ c.child[Other(s)][n] = p
      /\ c.child[s][p] = m.child[Other(s)][n] /\ c.child[Other(s)][p] = NULL
      /\ \A x \in 1 .. m.size : c.key[x] = m.key[x]
      /\ \A x \in 1 .. m.size : x # n /\ x # p => c.prev[x] = m.prev[x]
      /\ \A x \in 1 .. m.size, r \in Side : x # n /\ x # p => c.child[r][x] = m.child[r][x]

LEMMA RotatedUp ==
  ASSUME Sane(m), m.size < MaxNodes, NEW T, NEW e \in Bounds, NEW B \in Nat, NEW k, NEW n, NEW s,
         Place(m, T, e, B, k, n, s), ~IsRoot(m, n), Uncle(m, n, s) = NULL, ~Bent(m, n, s),
         NEW b, IsHung(k, n, s, b)
  PROVE  LET c == Rotate(b, Other(s), m.prev[n], n)
         IN  Sane(c) /\ Lifts(n, s, k, c) /\ InUse(c, n)
<1> DEFINE new == m.size + 1
           p == m.prev[n]
           g == m.prev[p]
           c == Rotate(b, Other(s), p, n)
<1>1. /\ m \in Memory /\ m.size \in Nat /\ new \in Nodes /\ new \notin 1 .. m.size
      /\ 1 .. m.size \subseteq Nodes /\ k \in Nat /\ s \in Side /\ InUse(m, n) /\ n \in 1 .. m.size
      /\ p \in 1 .. m.size /\ n \notin m.freed /\ p \notin m.freed
  BY PlaceFacts DEF InUse
<1>2. Sane(b) /\ Grows(n, s, k, b) /\ InUse(b, new)  BY <1>1, GrownIs
<1>3. /\ b.head = m.head /\ b.size = new /\ b.freed = m.freed
      /\ b.key[new] = k /\ b.prev[new] = n /\ \A r \in Side : b.child[r][new] = NULL
      /\ \A x \in 1 .. m.size : b.key[x] = m.key[x] /\ b.prev[x] = m.prev[x]
      /\ \A x \in 1 .. m.size, r \in Side :
           b.child[r][x] = IF x = n /\ r = s THEN new ELSE m.child[r][x]
  BY <1>2 DEF Grows
<1>4. n # new /\ p # new /\ p # n /\ Other(s) \in Side  BY <1>1, Sides DEF IsRoot
<1>5. InUse(b, n) /\ InUse(b, p)
  <2>1. n \in 1 .. new /\ p \in 1 .. new  BY <1>1
  <2> QED  BY <1>1, <1>3, <2>1 DEF InUse
<1>6. m.child[s][p] = n /\ m.child[Other(s)][p] = NULL /\ m.child[s][n] = NULL
  BY DEF Bent, Uncle, Place
<1>g. b.prev[p] = g  BY <1>1, <1>3
<1> HIDE DEF new, p, g
<1>7. Rotates(b, Other(s), p, n, c) /\ Sane(c)  BY <1>2, <1>4, <1>5, RotateSane
<1> HIDE DEF c
<1>8. /\ c.head = b.head /\ c.size = b.size /\ c.key = b.key /\ c.freed = b.freed
      /\ \A x \in Nodes, r \in Side :
           c.child[r][x] = IF x = n /\ r = Other(s) THEN p
                           ELSE IF x = p /\ r # Other(s) THEN b.child[Other(s)][n]
                           ELSE b.child[r][x]
      /\ \A x \in Nodes :
           c.prev[x] = IF x = n THEN b.prev[p] ELSE IF x = p THEN n ELSE b.prev[x]
  BY <1>7 DEF Rotates
<1>9. Other(s) # s /\ \A r \in Side : r # Other(s) <=> r = s  BY <1>1, Sides
<1>10. c.prev[n] = g /\ c.prev[p] = n /\ c.prev[new] = n /\ \A r \in Side : c.child[r][new] = NULL
  BY <1>1, <1>3, <1>4, <1>8, <1>g
<1>11. /\ c.child[s][n] = new /\ c.child[Other(s)][n] = p
       /\ c.child[s][p] = m.child[Other(s)][n] /\ c.child[Other(s)][p] = NULL
  BY <1>1, <1>3, <1>4, <1>6, <1>8, <1>9
<1>12. ASSUME NEW x \in 1 .. m.size, x # n, x # p
       PROVE  c.prev[x] = m.prev[x] /\ \A r \in Side : c.child[r][x] = m.child[r][x]
  BY <1>1, <1>3, <1>8, <1>12
<1>13. \A x \in 1 .. m.size : c.key[x] = m.key[x]  BY <1>3, <1>8
<1>14. Lifts(n, s, k, c)  BY <1>3, <1>8, <1>10, <1>11, <1>12, <1>13 DEF Lifts, new, p, g
<1>15. InUse(c, n)  BY <1>5, <1>8 DEF InUse
<1> QED  BY <1>7, <1>14, <1>15 DEF c, p

(* p comes below n. *)
LEMMA LossHooked ==
  ASSUME Sane(m), m.size < MaxNodes, NEW T, NEW e \in Bounds, NEW B \in Nat, NEW k, NEW n, NEW s,
         Place(m, T, e, B, k, n, s), ~IsRoot(m, n), Uncle(m, n, s) = NULL, ~Bent(m, n, s),
         m.prev[n] \notin T, NEW b, IsHung(k, n, s, b), NEW c, Sane(c), Lifts(n, s, k, c)
  PROVE  Searchable(c) /\ NoChild(c, c.prev[n], c.child[Other(s)][n])
<1> DEFINE new == m.size + 1
           p == m.prev[n]
           g == m.prev[p]
           T1 == T \cup {new}
           U == T1 \cup {p}
<1>1. /\ m \in Memory /\ m.size \in Nat /\ new \in Nodes /\ new \notin 1 .. m.size
      /\ new # NULL /\ new \notin m.freed /\ NULL \notin T /\ NULL \notin 1 .. m.size
      /\ 1 .. m.size \subseteq Nodes /\ T \subseteq 1 .. m.size /\ T \subseteq Nodes /\ T \cap m.freed = {}
      /\ Shape(m, T, e, B) /\ Frame(m, T, e, B) /\ k \in Nat /\ s \in Side /\ InUse(m, n)
      /\ n \in T /\ p \in 1 .. m.size /\ p \notin m.freed /\ g \in 1 .. m.size
  BY PlaceFacts DEF InUse
<1>2. Loose(m, T, e, B) /\ Between(e, n, k) /\ m.key[n] # k /\ s = SideOf(m, n, k)
  BY DEF Place
<1>3. p # n /\ m.child[s][p] = n /\ m.child[Other(s)][p] = NULL /\ m.child[s][n] = NULL
  BY DEF IsRoot, Bent, Uncle, Place
<1>4. /\ m.child[Other(s)][n] = NULL /\ Between(e, n, m.key[p])
      /\ IF s = "left" THEN m.key[n] < m.key[p] ELSE m.key[p] < m.key[n]
      /\ g # n /\ NoChild(m, g, p) /\ Sound(m, T, n, g)
  <2>1. ~Sound(m, T, n, p)
    <3>1. ~NoChild(m, p, n)  BY <1>1, <1>3 DEF NoChild
    <3>2. ~Full(m, p)
      <4>1. Other(s) \in Side  BY <1>1, Sides
      <4> QED  BY <1>3, <4>1 DEF Full
    <3> QED  BY <3>1, <3>2 DEF Sound
  <2>2. Hook(m, T, e, n, p)  BY <1>1, <1>2, <2>1 DEF Loose
  <2>3. n # NULL  BY <1>1
  <2> QED  BY <1>1, <2>2, <2>3, HookNull
<1>5. Sane(b) /\ Grows(n, s, k, b)  BY <1>1, GrownIs
<1>6. /\ b.head = m.head /\ b.size = new /\ b.freed = m.freed
      /\ b.key[new] = k /\ b.prev[new] = n /\ \A r \in Side : b.child[r][new] = NULL
      /\ \A x \in 1 .. m.size : b.key[x] = m.key[x] /\ b.prev[x] = m.prev[x]
      /\ \A x \in 1 .. m.size, r \in Side :
           b.child[r][x] = IF x = n /\ r = s THEN new ELSE m.child[r][x]
  BY <1>5 DEF Grows
<1>7. GetsLeaf(m, T, n, s, new, k, b)
  <2>1. new \notin T /\ new \in 1 .. b.size /\ m.size <= b.size  BY <1>1, <1>6
  <2> QED  BY <1>1, <1>6, <2>1 DEF GetsLeaf
<1>m. b \in Memory /\ c \in Memory  BY <1>5 DEF Sane
<1>8. /\ c.head = m.head /\ c.size = new /\ c.freed = m.freed
      /\ c.key[new] = k /\ c.prev[new] = n /\ \A r \in Side : c.child[r][new] = NULL
      /\ c.prev[n] = g /\ c.prev[p] = n
      /\ c.child[s][n] = new /\ c.child[Other(s)][n] = p
      /\ c.child[s][p] = NULL /\ c.child[Other(s)][p] = NULL
      /\ \A x \in 1 .. m.size : c.key[x] = m.key[x]
      /\ \A x \in 1 .. m.size : x # n /\ x # p => c.prev[x] = m.prev[x]
      /\ \A x \in 1 .. m.size, r \in Side : x # n /\ x # p => c.child[r][x] = m.child[r][x]
  BY <1>4 DEF Lifts
<1>z. m.size <= new /\ p \in 1 .. new /\ new <= new  BY <1>1
<1>9. PICK f1 \in Bounds : Shape(b, T1, f1, B) /\ Wider(T, e, f1)
  <2> HIDE DEF new
  <2> QED  BY <1>1, <1>2, <1>3, <1>7, <1>m, LeafShape
<1>s. Other(s) \in Side /\ Other(s) # s /\ \A r \in Side : r = s \/ r = Other(s)  BY <1>1, Sides
<1>k. m.key \in [Nodes -> Nat] /\ e \in [Side -> [Nodes -> Int]] /\ f1 \in [Side -> [Nodes -> Int]]
  BY <1>1 DEF Memory, Bounds
<1> HIDE DEF new, p, g
<1>n. n \in Nodes /\ p \in Nodes /\ g \in Nodes /\ n \in 1 .. m.size  BY <1>1
<1>10. PICK f \in Bounds : Shape(c, U, f, B) /\ Wider(T1, f1, f)
  <2>1. GetsLeaf(b, T1, n, Other(s), p, m.key[p], c)
    <3>1. p \notin T1 /\ p \in 1 .. c.size /\ b.size <= c.size  BY <1>1, <1>6, <1>8, <1>z DEF p
    <3>2. c.key[p] = m.key[p] /\ \A r \in Side : c.child[r][p] = NULL  BY <1>1, <1>8, <1>s
    <3>3. \A x \in T1 : c.key[x] = b.key[x]  BY <1>1, <1>6, <1>8
    <3>4. ASSUME NEW x \in T1, NEW r \in Side
          PROVE  c.child[r][x] = IF x = n /\ r = Other(s) THEN p ELSE b.child[r][x]
      <4>1. CASE x = new  BY <1>1, <1>6, <1>8, <4>1
      <4>2. CASE x = n  BY <1>6, <1>8, <1>n, <1>s, <4>2
      <4>3. CASE x # n /\ x # new
        <5>1. x # p /\ x \in 1 .. m.size  BY <1>1, <4>3 DEF p
        <5> QED  BY <1>6, <1>8, <4>3, <5>1
      <4> QED  BY <4>1, <4>2, <4>3
    <3> QED  BY <1>6, <1>8, <3>1, <3>2, <3>3, <3>4 DEF GetsLeaf
  <2>2. m.key[p] \in Nat /\ m.key[n] \in Nat /\ b.key[n] = m.key[n]  BY <1>6, <1>k, <1>n
  <2>3. Between(f1, n, m.key[p])
    <3>1. /\ e["left"][n] \in Int /\ e["right"][n] \in Int
          /\ f1["left"][n] \in Int /\ f1["right"][n] \in Int
      BY <1>k, <1>n, Sides
    <3> QED  BY <1>1, <1>4, <1>9, <2>2, <3>1 DEF Between, Wider
  <2>4. b.key[n] # m.key[p] /\ Other(s) = SideOf(b, n, m.key[p])
    <3>1. /\ b.key[n] < m.key[p] => SideOf(b, n, m.key[p]) = "right"
          /\ b.key[n] >= m.key[p] => SideOf(b, n, m.key[p]) = "left"
      BY <1>m, <1>n, <2>2, SideFacts
    <3> QED  BY <1>1, <1>4, <2>2, <3>1, Sides
  <2>5. b.child[Other(s)][n] = NULL  BY <1>4, <1>6, <1>n, <1>s
  <2>6. n \in T1  BY <1>1
  <2> HIDE DEF T1
  <2> QED  BY <1>9, <1>m, <1>n, <2>1, <2>2, <2>3, <2>4, <2>5, <2>6, LeafShape
<1>11. Wider(T, e, f)
  <2>1. Frame(m, T, e, B) /\ Wider(T, f1, f)  BY <1>1, <1>10 DEF Wider
  <2> QED  BY <1>1, <1>9, <2>1, WiderAgain
<1>12. ASSUME NEW x \in U
       PROVE  Stays(m, T, e, c, f, x) \/ Sound(c, U, x, c.prev[x]) \/ Hook(c, U, f, x, c.prev[x])
  <2>1. CASE x = n
    <3>1. Sound(c, U, n, g)
      <4>1. CASE g = p  BY <4>1 DEF Sound
      <4>2. CASE g # p
        <5>1. \A r \in Side : c.child[r][g] = m.child[r][g]  BY <1>1, <1>4, <1>8, <4>2
        <5> QED  BY <1>4, <5>1 DEF Sound, NoChild, Full
      <4> QED  BY <4>1, <4>2
    <3> QED  BY <1>8, <2>1, <3>1
  <2>2. CASE x = new \/ x = p
    <3>1. c.prev[x] = n /\ n \in U  BY <1>1, <1>8, <2>2
    <3> QED  BY <3>1 DEF Sound
  <2>3. CASE x \in T /\ x # n
    <3>1. x \in Nodes /\ x \in 1 .. m.size /\ x # p  BY <1>1, <2>3 DEF p
    <3>2. /\ c.prev[x] = m.prev[x] /\ c.key[x] = m.key[x] /\ m.key[x] \in Nat
          /\ \A r \in Side : c.child[r][x] = m.child[r][x]
      BY <1>8, <1>k, <2>3, <3>1
    <3> QED  BY <1>11, <2>3, <3>2 DEF Stays, Wider
  <2> QED  BY <2>1, <2>2, <2>3
<1>13. ASSUME NEW q \in (1 .. m.size) \ U PROVE Harmless(m, T, c, U, q)
  <2>1. /\ q # n /\ q # p /\ q # new /\ q # NULL /\ q \notin T
        /\ c.prev[q] = m.prev[q] /\ c.key[q] = m.key[q]
        /\ \A r \in Side : c.child[r][q] = m.child[r][q]
    BY <1>1, <1>8
  <2>2. ASSUME NEW y \in 1 .. m.size, NoChild(m, y, q) PROVE NoChild(c, y, q)
    <3>1. CASE y # n /\ y # p  BY <1>8, <2>2, <3>1 DEF NoChild
    <3>2. CASE y = n \/ y = p  BY <1>8, <1>s, <2>1, <3>2 DEF NoChild
    <3> QED  BY <3>1, <3>2
  <2> QED  BY <2>1, <2>2 DEF Harmless, Kept
<1>14. U \cap c.freed = {} /\ m.size <= c.size  BY <1>1, <1>8, <1>z
<1>15. Loose(c, U, f, B)  BY <1>2, <1>10, <1>12, <1>13, <1>14, Carried
<1>16. NoChild(c, g, p)
  <2>1. CASE g = p  BY <1>1, <1>8, <1>s, <2>1 DEF NoChild
  <2>2. CASE g # p  BY <1>1, <1>4, <1>8, <2>2 DEF NoChild
  <2> QED  BY <2>1, <2>2
<1> QED  BY <1>8, <1>15, <1>16, SearchableIf

(* No node is its grandparent. *)
LEMMA NoCycle ==
  ASSUME NEW t \in Memory, NEW T, NEW e \in Bounds, NEW B \in Nat, Shape(t, T, e, B),
         NEW g \in T, NEW q \in Side, NEW p, t.child[q][g] = p, p # NULL,
         NEW s \in Side, NEW n, t.child[s][p] = n, n # NULL
  PROVE  n # g
<1>0. Frame(t, T, e, B)  BY DEF Shape
<1>1. ChildIs(t, T, e, g, q, p)  BY <1>0, ChildBounds
<1>2. p \in T  BY <1>1 DEF ChildIs
<1>3. ChildIs(t, T, e, p, s, n)  BY <1>0, <1>2, ChildBounds
<1>4. /\ t.key[p] \in Nat /\ e["left"][p] \in Int /\ e["right"][p] \in Int
      /\ e["left"][p] < t.key[p] /\ t.key[p] < e["right"][p]
  <2>1. \A x \in T : /\ t.key[x] \in Nat /\ e["left"][x] \in Int /\ e["right"][x] \in Int
                    /\ e["left"][x] < t.key[x] /\ t.key[x] < e["right"][x]
    BY <1>0, FrameFacts
  <2> QED  BY <1>2, <2>1
<1>5. e["left"][g] \in Int /\ e["right"][g] \in Int  BY <1>0, FrameFacts
<1>6. /\ e["left"][g] <= e["left"][p] /\ e["right"][p] <= e["right"][g]
      /\ s = "left" => e["left"][n] = e["left"][p] /\ e["right"][n] = t.key[p]
      /\ s = "right" => e["right"][n] = e["right"][p] /\ e["left"][n] = t.key[p]
  BY <1>1, <1>3 DEF ChildIs, Inside
<1>7. s = "left" \/ s = "right"  BY Sides
<1> QED  BY <1>4, <1>5, <1>6, <1>7

(* p's parent in the tree is told that n took p's place. *)
LEMMA LossSwung ==
  ASSUME Sane(m), m.size < MaxNodes, NEW T, NEW e \in Bounds, NEW B \in Nat, NEW k, NEW n, NEW s,
         Place(m, T, e, B, k, n, s), ~IsRoot(m, n), Uncle(m, n, s) = NULL, ~Bent(m, n, s),
         m.prev[n] \in T, NEW b, IsHung(k, n, s, b), NEW c, Sane(c), Lifts(n, s, k, c),
         m.prev[m.prev[n]] \in T, NEW q \in Side, m.child[q][m.prev[m.prev[n]]] = m.prev[n],
         NEW a, Sane(a), Relinks(c, n, s, a)
  PROVE  Searchable(a)
<1> DEFINE new == m.size + 1
           p == m.prev[n]
           g == m.prev[p]
           U == T \cup {new}
           c0 == m.child[Other(s)][n]
<1>1. /\ m \in Memory /\ m.size \in Nat /\ new \in Nodes /\ new \notin 1 .. m.size
      /\ new # NULL /\ new \notin m.freed /\ NULL \notin T /\ NULL \notin 1 .. m.size
      /\ 1 .. m.size \subseteq Nodes /\ T \subseteq 1 .. m.size /\ T \subseteq Nodes /\ T \cap m.freed = {}
      /\ Shape(m, T, e, B) /\ Frame(m, T, e, B) /\ k \in Nat /\ s \in Side /\ InUse(m, n)
      /\ n \in T /\ p \in T /\ g \in T
  BY PlaceFacts
<1>2. Loose(m, T, e, B) /\ Between(e, n, k) /\ m.key[n] # k /\ s = SideOf(m, n, k)
  BY DEF Place
<1>3. p # n /\ m.child[s][p] = n /\ m.child[Other(s)][p] = NULL /\ m.child[s][n] = NULL
  BY DEF IsRoot, Bent, Uncle, Place
<1>4. Only(m, T, g, q, p) /\ Only(m, T, p, s, n) /\ n # g
  <2>1. p # NULL /\ n # NULL /\ m.child[q][g] = p  BY <1>1
  <2> HIDE DEF p, g
  <2>2. Only(m, T, g, q, p)  BY <1>1, <2>1, OneParent
  <2>3. Only(m, T, p, s, n)  BY <1>1, <1>3, <2>1, OneParent
  <2>4. n # g  BY <1>1, <1>3, <2>1, NoCycle
  <2> QED  BY <2>2, <2>3, <2>4
<1>5. Sane(b) /\ Grows(n, s, k, b)  BY <1>1, GrownIs
<1>6. /\ b.head = m.head /\ b.size = new /\ b.freed = m.freed
      /\ b.key[new] = k /\ b.prev[new] = n /\ \A r \in Side : b.child[r][new] = NULL
      /\ \A x \in 1 .. m.size : b.key[x] = m.key[x] /\ b.prev[x] = m.prev[x]
      /\ \A x \in 1 .. m.size, r \in Side :
           b.child[r][x] = IF x = n /\ r = s THEN new ELSE m.child[r][x]
  BY <1>5 DEF Grows
<1>7. GetsLeaf(m, T, n, s, new, k, b)
  <2>1. new \notin T /\ new \in 1 .. b.size /\ m.size <= b.size  BY <1>1, <1>6
  <2> QED  BY <1>1, <1>6, <2>1 DEF GetsLeaf
<1>m. b \in Memory /\ c \in Memory  BY <1>5 DEF Sane
<1>8. /\ c.head = m.head /\ c.size = new /\ c.freed = m.freed
      /\ c.key[new] = k /\ c.prev[new] = n /\ \A r \in Side : c.child[r][new] = NULL
      /\ c.prev[n] = g /\ c.prev[p] = n
      /\ c.child[s][n] = new /\ c.child[Other(s)][n] = p
      /\ c.child[s][p] = c0 /\ c.child[Other(s)][p] = NULL
      /\ \A x \in 1 .. m.size : c.key[x] = m.key[x]
      /\ \A x \in 1 .. m.size : x # n /\ x # p => c.prev[x] = m.prev[x]
      /\ \A x \in 1 .. m.size, r \in Side : x # n /\ x # p => c.child[r][x] = m.child[r][x]
  BY DEF Lifts
<1>z. m.size <= new /\ new <= new /\ new \in 1 .. new  BY <1>1
<1>g. m.child[q][g] = p  OBVIOUS
<1>9. PICK f1 \in Bounds : Shape(b, U, f1, B) /\ Wider(T, e, f1)
  <2> HIDE DEF new
  <2> QED  BY <1>1, <1>2, <1>3, <1>7, <1>m, LeafShape
<1>s. Other(s) \in Side /\ Other(s) # s /\ \A r \in Side : r = s \/ r = Other(s)  BY <1>1, Sides
<1>k. m.key \in [Nodes -> Nat] /\ e \in [Side -> [Nodes -> Int]]
  BY <1>1 DEF Memory, Bounds
<1>c. c0 = NULL \/ c0 \in T  BY <1>1, <1>s DEF Frame
<1> HIDE DEF new, p, g, c0
<1>o. /\ p # g /\ \A y \in T, w \in Side : m.child[w][y] = p => y = g /\ w = q
      /\ \A y \in T, w \in Side : m.child[w][y] = n => y = p /\ w = s
  BY <1>4 DEF Only
<1>n. n \in 1 .. m.size /\ p \in 1 .. m.size /\ g \in 1 .. m.size  BY <1>1
<1>10. Points(c, q, g, n, a)
  <2>1. \A r \in Side : c.child[r][g] = m.child[r][g]  BY <1>4, <1>8, <1>n, <1>o
  <2>2. ~NoChild(c, g, p)  BY <1>g, <2>1 DEF NoChild
  <2>3. PICK w \in Side : c.child[w][g] = p /\ Points(c, w, g, n, a)
    BY <1>8, <2>2 DEF Relinks
  <2>4. w = q  BY <1>1, <1>o, <2>1, <2>3
  <2> QED  BY <2>3, <2>4
<1>11. /\ a \in Memory /\ a.head = m.head /\ a.size = new /\ a.freed = m.freed
       /\ a.key = c.key /\ a.prev = c.prev
       /\ \A y \in Nodes, w \in Side : a.child[w][y] = IF y = g /\ w = q THEN n ELSE c.child[w][y]
  BY <1>8, <1>10 DEF Points
<1>12. PICK f \in Bounds : Shape(a, U, f, B) /\ Wider(U \ {n, p}, f1, f)
  <2>1. Swings(b, U, g, q, p, s, n, a)
    <3>1. p = b.child[q][g] /\ n = b.child[s][p]
      <4>1. b.child[q][g] = m.child[q][g]  BY <1>4, <1>6, <1>n
      <4>2. b.child[s][p] = m.child[s][p]  BY <1>1, <1>3, <1>6, <1>n
      <4> QED  BY <1>3, <1>g, <4>1, <4>2
    <3>2. b.size <= a.size /\ a.head = b.head  BY <1>6, <1>11, <1>z
    <3>3. ASSUME NEW x \in U PROVE a.key[x] = b.key[x]  BY <1>1, <1>6, <1>8, <1>11
    <3>4. ASSUME NEW x \in U, NEW r \in Side
          PROVE  a.child[r][x] = IF x = n /\ r = Other(s) THEN p
                                 ELSE IF x = p /\ r = s THEN b.child[Other(s)][n]
                                 ELSE IF x = g /\ r = q THEN n
                                 ELSE b.child[r][x]
      <4>1. CASE x = new
        <5>1. x \in Nodes /\ x # n /\ x # p /\ x # g  BY <1>1, <4>1
        <5> QED  BY <1>6, <1>8, <1>11, <4>1, <5>1
      <4>2. CASE x = n
        <5>1. a.child[r][x] = c.child[r][x]  BY <1>1, <1>4, <1>11, <4>2
        <5>2. CASE r = s  BY <1>3, <1>6, <1>8, <1>n, <1>s, <1>4, <4>2, <5>1, <5>2
        <5>3. CASE r = Other(s)  BY <1>8, <4>2, <5>1, <5>3
        <5> QED  BY <1>s, <5>2, <5>3
      <4>3. CASE x = p
        <5>1. a.child[r][x] = c.child[r][x] /\ x # n /\ x # g  BY <1>1, <1>3, <1>11, <1>o, <4>3
        <5>2. b.child[Other(s)][n] = c0  BY <1>6, <1>n, <1>s DEF c0
        <5>3. CASE r = s  BY <1>8, <4>3, <5>1, <5>2, <5>3
        <5>4. CASE r = Other(s)
          <6>1. b.child[r][x] = NULL  BY <1>3, <1>6, <1>n, <4>3, <5>1, <5>4
          <6> QED  BY <1>8, <1>s, <4>3, <5>1, <5>4, <6>1
        <5> QED  BY <1>s, <5>3, <5>4
      <4>4. CASE x # n /\ x # p /\ x # new
        <5>1. x \in 1 .. m.size /\ x \in Nodes  BY <1>1, <4>4
        <5>2. c.child[r][x] = m.child[r][x] /\ b.child[r][x] = m.child[r][x]
          BY <1>6, <1>8, <4>4, <5>1
        <5> QED  BY <1>11, <4>4, <5>1, <5>2
      <4> QED  BY <4>1, <4>2, <4>3, <4>4
    <3> QED  BY <3>1, <3>2, <3>3, <3>4 DEF Swings
  <2>2. g \in U /\ p \in U /\ n \in U  BY <1>1
  <2> HIDE DEF U
  <2> QED  BY <1>1, <1>9, <1>11, <1>m, <2>1, <2>2, Swung
<1>13. Wider(T \ {n, p}, e, f)
  <2>1. Frame(m, T, e, B) /\ Wider(T \ {n, p}, f1, f)  BY <1>1, <1>12 DEF Wider
  <2>2. T \ {n, p} \subseteq T  OBVIOUS
  <2> QED  BY <1>1, <1>9, <2>1, <2>2, WiderAgain
<1>14. ASSUME NEW x \in U
       PROVE  Stays(m, T, e, a, f, x) \/ Sound(a, U, x, a.prev[x]) \/ Hook(a, U, f, x, a.prev[x])
  <2>1. CASE x = n \/ x = p \/ x = new
    <3>1. a.prev[x] \in U  BY <1>1, <1>8, <1>11, <2>1
    <3> QED  BY <3>1 DEF Sound
  <2>2. CASE x \in T \ {n, p}
    <3>1. x \in Nodes /\ x \in 1 .. m.size /\ x # n /\ x # p /\ x \in T  BY <1>1, <2>2
    <3>2. /\ a.prev[x] = m.prev[x] /\ a.key[x] = m.key[x] /\ m.key[x] \in Nat
      BY <1>8, <1>11, <1>k, <3>1
    <3>3. ASSUME NEW r \in Side, m.child[r][x] = NULL PROVE a.child[r][x] = NULL
      <4>1. c.child[r][x] = NULL  BY <1>8, <3>1, <3>3
      <4>2. p # NULL  BY <1>1
      <4>3. ~(x = g /\ r = q)  BY <1>g, <3>3, <4>2
      <4> QED  BY <1>11, <3>1, <4>1, <4>3
    <3> QED  BY <1>13, <2>2, <3>1, <3>2, <3>3 DEF Stays, Wider
  <2> QED  BY <2>1, <2>2
<1>15. ASSUME NEW y \in (1 .. m.size) \ U PROVE Harmless(m, T, a, U, y)
  <2>1. /\ y # n /\ y # p /\ y # g /\ y # new /\ y # NULL /\ y \notin T /\ y \in Nodes
        /\ a.prev[y] = m.prev[y] /\ a.key[y] = m.key[y]
        /\ \A r \in Side : a.child[r][y] = m.child[r][y]
    BY <1>1, <1>8, <1>11
  <2>2. ASSUME NEW z \in 1 .. m.size, NoChild(m, z, y) PROVE NoChild(a, z, y)
    <3> SUFFICES ASSUME NEW r \in Side, a.child[r][z] = y PROVE FALSE  BY DEF NoChild
    <3>1. c.child[r][z] = y  BY <1>1, <1>11, <2>1
    <3>2. z # n /\ z # p
      <4>1. y # c0  BY <1>c, <2>1
      <4> QED  BY <1>8, <1>s, <2>1, <3>1, <4>1
    <3> QED  BY <1>8, <2>2, <3>1, <3>2 DEF NoChild
  <2> QED  BY <2>1, <2>2 DEF Harmless, Kept
<1>16. U \cap a.freed = {} /\ m.size <= a.size  BY <1>1, <1>11, <1>z
<1>17. Loose(a, U, f, B)  BY <1>2, <1>12, <1>14, <1>15, <1>16, Carried
<1> QED  BY <1>17, SearchableIf

(* p's parent in the tree is not told: n is lost, and p takes n's other    *)
(* child.                                                                  *)
LEMMA LossSpliced ==
  ASSUME Sane(m), m.size < MaxNodes, NEW T, NEW e \in Bounds, NEW B \in Nat, NEW k, NEW n, NEW s,
         Place(m, T, e, B, k, n, s), ~IsRoot(m, n), Uncle(m, n, s) = NULL, ~Bent(m, n, s),
         m.prev[n] \in T, NEW c, Sane(c), Lifts(n, s, k, c),
         m.prev[m.prev[n]] \in T => NoChild(m, m.prev[m.prev[n]], m.prev[n]),
         NEW a, Sane(a), Relinks(c, n, s, a)
  PROVE  Searchable(a)
<1> DEFINE new == m.size + 1
           p == m.prev[n]
           g == m.prev[p]
           U == T \ {n}
           c0 == m.child[Other(s)][n]
<1>1. /\ m \in Memory /\ m.size \in Nat /\ new \in Nodes /\ new \notin 1 .. m.size
      /\ new # NULL /\ new \notin m.freed /\ NULL \notin T /\ NULL \notin 1 .. m.size
      /\ 1 .. m.size \subseteq Nodes /\ T \subseteq 1 .. m.size /\ T \subseteq Nodes /\ T \cap m.freed = {}
      /\ Shape(m, T, e, B) /\ Frame(m, T, e, B) /\ k \in Nat /\ s \in Side
      /\ n \in T /\ p \in T /\ g \in 1 .. m.size
  BY PlaceFacts DEF InUse
<1>2. Loose(m, T, e, B)  BY DEF Place
<1>3. p # n /\ m.child[s][p] = n /\ m.child[Other(s)][p] = NULL /\ m.child[s][n] = NULL
  BY DEF IsRoot, Bent, Uncle, Place
<1>s. Other(s) \in Side /\ Other(s) # s /\ \A r \in Side : r = s \/ r = Other(s)  BY <1>1, Sides
<1>4. Only(m, T, p, s, n) /\ c0 # p
  <2>1. p # NULL /\ n # NULL  BY <1>1
  <2> HIDE DEF p
  <2>2. Only(m, T, p, s, n)  BY <1>1, <1>3, <2>1, OneParent
  <2>3. ASSUME m.child[Other(s)][n] = p PROVE FALSE
    <3>1. n # n  BY <1>1, <1>3, <1>s, <2>1, <2>3, NoCycle
    <3> QED  BY <3>1
  <2> QED  BY <2>2, <2>3
<1>8. /\ c.head = m.head /\ c.size = new /\ c.freed = m.freed
      /\ c.key[new] = k /\ c.prev[new] = n /\ \A r \in Side : c.child[r][new] = NULL
      /\ c.prev[n] = g /\ c.prev[p] = n
      /\ c.child[s][n] = new /\ c.child[Other(s)][n] = p
      /\ c.child[s][p] = c0 /\ c.child[Other(s)][p] = NULL
      /\ \A x \in 1 .. m.size : c.key[x] = m.key[x]
      /\ \A x \in 1 .. m.size : x # n /\ x # p => c.prev[x] = m.prev[x]
      /\ \A x \in 1 .. m.size, r \in Side : x # n /\ x # p => c.child[r][x] = m.child[r][x]
  BY DEF Lifts
<1>z. m.size <= new  BY <1>1
<1>g. g \in T => NoChild(m, g, p)  OBVIOUS
<1>k. m.key \in [Nodes -> Nat]  BY <1>1 DEF Memory
<1>c. c0 = NULL \/ c0 \in T  BY <1>1, <1>s DEF Frame
<1> HIDE DEF new, p, g
<1>o. /\ n # m.head /\ \A y \in T, w \in Side : m.child[w][y] = n => y = p /\ w = s
      /\ c0 # p
  BY <1>4 DEF Only
<1>n. n \in 1 .. m.size /\ p \in 1 .. m.size  BY <1>1
<1>11. /\ a \in Memory /\ a.head = m.head /\ a.size = new /\ a.freed = m.freed
       /\ a.key = c.key /\ a.prev = c.prev
       /\ \A y \in Nodes, w \in Side : \/ a.child[w][y] = c.child[w][y]
                                       \/ y = g /\ c.child[w][y] = p /\ a.child[w][y] = n
  <2>0. c \in Memory  BY DEF Sane
  <2>1. CASE NoChild(c, g, p)
    <3>1. a = c  BY <1>8, <2>1 DEF Relinks
    <3> QED  BY <1>8, <2>0, <3>1
  <2>2. CASE ~NoChild(c, g, p)
    <3>1. PICK w \in Side : c.child[w][g] = p /\ Points(c, w, g, n, a)
      BY <1>8, <2>2 DEF Relinks
    <3> QED  BY <1>8, <3>1 DEF Points
  <2> QED  BY <2>1, <2>2
<1>m. \A x \in 1 .. m.size, r \in Side : m.child[r][x] \in 0 .. m.size  BY DEF Sane
<1>5. ASSUME NEW y \in U, NEW r \in Side PROVE a.child[r][y] = c.child[r][y]
  <2> SUFFICES ASSUME y = g, c.child[r][y] = p PROVE FALSE
    <3>1. y \in Nodes  BY <1>1
    <3> QED  BY <1>11, <3>1
  <2>1. y \in T /\ y # n /\ y \in 1 .. m.size  BY <1>1
  <2>2. CASE y = p
    <3>1. p # NULL  BY <1>1
    <3> QED  BY <1>8, <1>s, <1>o, <2>2, <3>1
  <2>3. CASE y # p
    <3>1. m.child[r][g] = p  BY <1>8, <2>1, <2>3
    <3> QED  BY <1>g, <2>1, <3>1 DEF NoChild
  <2> QED  BY <2>2, <2>3
<1>12. PICK f \in Bounds : Shape(a, U, f, B) /\ Wider(U, e, f)
  <2>1. Splices(m, T, n, s, a)
    <3>1. ASSUME NEW y \in U PROVE a.key[y] = m.key[y]  BY <1>1, <1>8, <1>11
    <3>2. ASSUME NEW y \in U, NEW r \in Side
          PROVE  a.child[r][y] = IF m.child[r][y] = n THEN m.child[Other(s)][n] ELSE m.child[r][y]
      <4>1. y \in T /\ y # n /\ y \in 1 .. m.size /\ a.child[r][y] = c.child[r][y]  BY <1>1, <1>5
      <4>2. CASE y = p
        <5>1. CASE r = s  BY <1>3, <1>8, <4>1, <4>2, <5>1
        <5>2. CASE r = Other(s)
          <6>1. n # NULL  BY <1>1
          <6> QED  BY <1>3, <1>8, <4>1, <4>2, <5>2, <6>1
        <5> QED  BY <1>s, <5>1, <5>2
      <4>3. CASE y # p
        <5>1. m.child[r][y] # n  BY <1>o, <4>1, <4>3
        <5> QED  BY <1>8, <4>1, <4>3, <5>1
      <4> QED  BY <4>2, <4>3
    <3>3. m.size <= a.size  BY <1>11, <1>z
    <3> QED  BY <1>3, <1>11, <1>o, <3>1, <3>2, <3>3 DEF Splices
  <2> QED  BY <1>1, <1>11, <2>1, Spliced
<1>13. Full(a, n)
  <2>1. new # NULL /\ p # NULL /\ n # NULL  BY <1>1
  <2>2. \A r \in Side : a.child[r][n] = c.child[r][n] \/ a.child[r][n] = n  BY <1>1, <1>11
  <2>3. \A r \in Side : c.child[r][n] # NULL  BY <1>8, <1>s, <2>1
  <2> QED  BY <2>1, <2>2, <2>3 DEF Full
<1>14. ASSUME NEW x \in U
       PROVE  Stays(m, T, e, a, f, x) \/ Sound(a, U, x, a.prev[x]) \/ Hook(a, U, f, x, a.prev[x])
  <2>1. CASE x = p  BY <1>8, <1>11, <1>13, <2>1 DEF Sound
  <2>2. CASE x # p
    <3>1. x \in Nodes /\ x \in 1 .. m.size /\ x # n /\ x \in T  BY <1>1
    <3>2. /\ a.prev[x] = m.prev[x] /\ a.key[x] = m.key[x] /\ m.key[x] \in Nat
          /\ \A r \in Side : a.child[r][x] = m.child[r][x]
      BY <1>5, <1>8, <1>11, <1>k, <2>2, <3>1
    <3> QED  BY <1>12, <3>1, <3>2 DEF Stays, Wider
  <2> QED  BY <2>1, <2>2
<1>15. ASSUME NEW y \in (1 .. m.size) \ U PROVE Harmless(m, T, a, U, y)
  <2>1. CASE y = n  BY <1>13, <2>1 DEF Harmless, Sound
  <2>2. CASE y # n
    <3>1. /\ y # p /\ y # new /\ y # NULL /\ y \notin T /\ y \in Nodes
          /\ a.prev[y] = m.prev[y] /\ a.key[y] = m.key[y]
          /\ \A r \in Side : c.child[r][y] = m.child[r][y]
      BY <1>1, <1>8, <1>11, <2>2
    <3>2. CASE \A r \in Side : a.child[r][y] = c.child[r][y]
      <4>2. ASSUME NEW z \in 1 .. m.size, NoChild(m, z, y) PROVE NoChild(a, z, y)
        <5> SUFFICES ASSUME NEW r \in Side, a.child[r][z] = y PROVE FALSE  BY DEF NoChild
        <5>1. c.child[r][z] = y  BY <1>1, <1>11, <2>2
        <5>2. z # n /\ z # p
          <6>1. y # c0  BY <1>c, <3>1
          <6> QED  BY <1>8, <1>s, <3>1, <5>1, <6>1
        <5> QED  BY <1>8, <4>2, <5>1, <5>2 DEF NoChild
      <4> QED  BY <3>1, <3>2, <4>2 DEF Harmless, Kept
    <3>3. CASE ~(\A r \in Side : a.child[r][y] = c.child[r][y])
      <4>1. PICK r \in Side : a.child[r][y] = n  BY <1>11, <3>1, <3>3
      <4>2. ASSUME NEW x \in U PROVE Sound(a, U, x, y)
        <5>1. x # n /\ x # NULL /\ n # NULL  BY <1>1
        <5>2. CASE a.child[Other(r)][y] = NULL
          <6>1. NoChild(a, y, x)
            <7>1. \A w \in Side : w = r \/ w = Other(r)  BY Sides
            <7> QED  BY <4>1, <5>1, <5>2, <7>1 DEF NoChild
          <6> QED  BY <6>1 DEF Sound
        <5>3. CASE a.child[Other(r)][y] # NULL
          <6>1. \A w \in Side : w = r \/ w = Other(r)  BY Sides
          <6>2. Full(a, y)  BY <4>1, <5>1, <5>3, <6>1 DEF Full
          <6> QED  BY <6>2 DEF Sound
        <5> QED  BY <5>2, <5>3
      <4> QED  BY <4>2 DEF Harmless
    <3> QED  BY <3>2, <3>3
  <2> QED  BY <2>1, <2>2
<1>16. U \cap a.freed = {} /\ m.size <= a.size  BY <1>1, <1>11, <1>z
<1>17. Loose(a, U, f, B)  BY <1>2, <1>12, <1>14, <1>15, <1>16, Carried
<1> QED  BY <1>17, SearchableIf

(* Wherever p is, n's rotation above it leaves a search tree. *)
LEMMA LossLifted ==
  ASSUME Sane(m), m.size < MaxNodes, NEW T, NEW e \in Bounds, NEW B \in Nat, NEW k, NEW n, NEW s,
         Place(m, T, e, B, k, n, s), ~IsRoot(m, n), Uncle(m, n, s) = NULL, ~Bent(m, n, s),
         NEW b, IsHung(k, n, s, b)
  PROVE  Searchable(Relink(Rotate(b, Other(s), m.prev[n], n), n, s))
<1> DEFINE p == m.prev[n]
           g == m.prev[p]
           c == Rotate(b, Other(s), p, n)
           a == Relink(c, n, s)
<1>1. s \in Side  BY PlaceFacts
<1>2. Sane(c) /\ Lifts(n, s, k, c) /\ InUse(c, n)  BY RotatedUp
<1> HIDE DEF c
<1>3. Relinks(c, n, s, a) /\ Sane(a)  BY <1>1, <1>2, RelinkFacts
<1> HIDE DEF a
<1>4. CASE p \notin T
  <2>1. Searchable(c) /\ NoChild(c, c.prev[n], c.child[Other(s)][n])  BY <1>2, <1>4, LossHooked
  <2>2. a = c  BY <1>3, <2>1 DEF Relinks
  <2> QED  BY <2>1, <2>2 DEF a, c
<1>5. CASE p \in T /\ g \in T /\ ~NoChild(m, g, p)
  <2>1. PICK q \in Side : m.child[q][g] = p  BY <1>5 DEF NoChild
  <2>2. Searchable(a)  BY <1>2, <1>3, <1>5, <2>1, LossSwung
  <2> QED  BY <2>2 DEF a, c
<1>6. CASE p \in T /\ (g \in T => NoChild(m, g, p))
  <2>1. Searchable(a)  BY <1>2, <1>3, <1>6, LossSpliced
  <2> QED  BY <2>1 DEF a, c
<1> QED  BY <1>4, <1>5, <1>6

(* The branches of Attach. *)
AttachCases(n, s, k, a) ==
  LET new == m.size + 1
      p   == m.prev[n]
  IN  \/ IsHung(k, n, s, a) /\ (IsRoot(m, n) \/ Uncle(m, n, s) # NULL)
      \/ /\ ~IsRoot(m, n) /\ Uncle(m, n, s) # NULL
         /\ \E b : IsHung(k, n, s, b) /\ a = Rotate(b, Other(s), n, new)
      \/ /\ ~IsRoot(m, n) /\ Uncle(m, n, s) = NULL /\ Bent(m, n, s)
         /\ \E b : IsHung(k, n, s, b) /\ LET c == Rotate(b, Other(s), n, new)
                                         IN  a = Rotate(c, s, c.prev[new], new)
      \/ /\ ~IsRoot(m, n) /\ Uncle(m, n, s) = NULL /\ ~Bent(m, n, s)
         /\ \E b : IsHung(k, n, s, b) /\ a = Relink(Rotate(b, Other(s), p, n), n, s)

LEMMA AttachIs ==
  ASSUME m \in Memory, m.size < MaxNodes, NEW k \in Nat, NEW n, InUse(m, n), n \in Nodes,
         m.prev[n] \in 1 .. m.size, 1 .. m.size \subseteq Nodes, NEW s \in Side,
         NEW a, a = Attach(Allocated(k), n, m.size + 1, s)
  PROVE  AttachCases(n, s, k, a)
<1> DEFINE t == Hung(k, n, s)
           new == m.size + 1
           p == m.prev[n]
<1>1. m.size \in Nat /\ n # new /\ p \in Nodes /\ p # new
  <2>1. m.size \in Nat /\ n \in 1 .. m.size  BY MapAssumption DEF Memory, InUse
  <2>2. new \notin 1 .. m.size  BY <2>1
  <2> QED  BY <2>1, <2>2
<1>2. /\ t \in Memory /\ t.red = m.red \cup {new} /\ new \in Nodes
      /\ \A x \in Nodes : x # new => t.prev[x] = m.prev[x]
      /\ \A x \in Nodes, r \in Side :
           t.child[r][x] = IF x = n /\ r = s THEN new ELSE m.child[r][x]
  <2> HIDE DEF t
  <2> QED  BY <1>1, HungFacts DEF t
<1>3. t.prev[n] = p /\ (IsRoot(t, n) <=> IsRoot(m, n))  BY <1>1, <1>2 DEF IsRoot
<1>r. t.red \in SUBSET Nodes  BY <1>2 DEF Memory
<1> DEFINE u == Uncle(t, n, s)
<1>a. a = CASE IsRoot(t, n) -> t
            [] ~IsRoot(t, n) /\ u = NULL /\ Bent(t, n, s) ->
                 LET black   == IF s = "right" \/ n \in t.red THEN {new} ELSE {}
                     rotated == Rotate([t EXCEPT !.red = @ \ black], Other(s), n, new)
                 IN  Rotate(rotated, s, rotated.prev[new], new)
            [] ~IsRoot(t, n) /\ u = NULL /\ ~Bent(t, n, s) ->
                 Relink(Rotate([t EXCEPT !.red = @ \ {n}], Other(s), t.prev[n], n), n, s)
            [] ~IsRoot(t, n) /\ u # NULL ->
                 IF n \notin t.red THEN t
                 ELSE IF u \in t.red THEN [t EXCEPT !.red = (@ \ {n, u}) \cup {t.prev[n]}]
                 ELSE Rotate([t EXCEPT !.red = @ \ {n}], Other(s), n, new)
  BY DEF Attach, Hung
<1> HIDE DEF t
<1>h. ASSUME NEW R, R \in SUBSET Nodes PROVE IsHung(k, n, s, [t EXCEPT !.red = R])
  BY <1>h DEF IsHung, t
<1>t. IsHung(k, n, s, t)
  <2>1. t = [t EXCEPT !.red = t.red]  BY <1>2 DEF Memory
  <2> QED  BY <1>h, <1>r, <2>1
<1>5. CASE IsRoot(m, n)
  <2>1. a = t  BY <1>3, <1>5, <1>a
  <2> QED  BY <1>5, <1>t, <2>1 DEF AttachCases
<1>6. CASE ~IsRoot(m, n)
  <2>0. ~IsRoot(t, n) /\ p # n  BY <1>3, <1>6 DEF IsRoot
  <2>1. \A r \in Side : t.child[r][p] = m.child[r][p]  BY <1>1, <1>2, <2>0
  <2>2. (Bent(t, n, s) <=> Bent(m, n, s)) /\ u = Uncle(m, n, s)
    BY <1>3, <2>1, Sides DEF Bent, Uncle
  <2> HIDE DEF u
  <2>3. CASE u = NULL /\ Bent(t, n, s)
    <3> DEFINE black == IF s = "right" \/ n \in t.red THEN {new} ELSE {}
               b == [t EXCEPT !.red = @ \ black]
               c == Rotate(b, Other(s), n, new)
    <3>1. a = Rotate(c, s, c.prev[new], new)  BY <1>a, <2>0, <2>3
    <3>2. t.red \ black \in SUBSET Nodes  BY <1>r
    <3> HIDE DEF black
    <3>3. IsHung(k, n, s, b)  BY <1>h, <3>2
    <3> HIDE DEF b
    <3> QED  BY <1>6, <2>2, <2>3, <3>1, <3>3 DEF AttachCases
  <2>4. CASE u = NULL /\ ~Bent(t, n, s)
    <3> DEFINE b == [t EXCEPT !.red = @ \ {n}]
    <3>1. a = Relink(Rotate(b, Other(s), p, n), n, s)  BY <1>3, <1>a, <2>0, <2>4
    <3>2. t.red \ {n} \in SUBSET Nodes  BY <1>r
    <3>3. IsHung(k, n, s, b)  BY <1>h, <3>2
    <3> HIDE DEF b, p
    <3> QED  BY <1>6, <2>2, <2>4, <3>1, <3>3 DEF AttachCases, p
  <2>5. CASE u # NULL
    <3>1. a = IF n \notin t.red THEN t
              ELSE IF u \in t.red THEN [t EXCEPT !.red = (@ \ {n, u}) \cup {p}]
              ELSE Rotate([t EXCEPT !.red = @ \ {n}], Other(s), n, new)
      BY <1>3, <1>a, <2>0, <2>5
    <3>2. CASE n \notin t.red  BY <1>t, <2>2, <2>5, <3>1, <3>2 DEF AttachCases
    <3>3. CASE n \in t.red /\ u \in t.red
      <4>1. (t.red \ {n, u}) \cup {p} \in SUBSET Nodes  BY <1>1, <1>r
      <4>2. IsHung(k, n, s, a)  BY <1>h, <3>1, <3>3, <4>1
      <4> QED  BY <2>2, <2>5, <4>2 DEF AttachCases
    <3>4. CASE n \in t.red /\ u \notin t.red
      <4> DEFINE b == [t EXCEPT !.red = @ \ {n}]
      <4>1. a = Rotate(b, Other(s), n, new)  BY <3>1, <3>4
      <4>2. t.red \ {n} \in SUBSET Nodes  BY <1>r
      <4>3. IsHung(k, n, s, b)  BY <1>h, <4>2
      <4> HIDE DEF b
      <4> QED  BY <1>6, <2>2, <2>5, <4>1, <4>3 DEF AttachCases
    <3> QED  BY <3>2, <3>3, <3>4
  <2> QED  BY <2>3, <2>4, <2>5
<1> QED  BY <1>5, <1>6

LEMMA AttachedSearchable ==
  ASSUME Sane(m), m.size < MaxNodes, NEW T, NEW e \in Bounds, NEW B \in Nat, NEW k, NEW n, NEW s,
         Place(m, T, e, B, k, n, s), NEW a, a = Attach(Allocated(k), n, m.size + 1, s)
  PROVE  Searchable(a) /\ a.size = m.size + 1
<1> DEFINE new == m.size + 1
           p == m.prev[n]
<1>1. /\ m \in Memory /\ 1 .. m.size \subseteq Nodes /\ k \in Nat /\ s \in Side /\ InUse(m, n)
      /\ n \in T /\ n \in Nodes /\ p \in 1 .. m.size /\ n # NULL
  <2>1. /\ m \in Memory /\ 1 .. m.size \subseteq Nodes /\ k \in Nat /\ s \in Side /\ InUse(m, n)
        /\ n \in T /\ InUse(m, p)
    BY PlaceFacts
  <2>2. n \in Nodes /\ n # NULL  BY <2>1, SaneFacts
  <2> QED  BY <2>1, <2>2 DEF InUse
<1>2. AttachCases(n, s, k, a)
  <2> HIDE DEF p
  <2>1. m.prev[n] \in 1 .. m.size  BY <1>1 DEF p
  <2> QED  BY <1>1, <2>1, AttachIs
<1>3. IsRoot(m, n) \/ Uncle(m, n, s) # NULL => Sound(m, T, n, p)
  <2>1. CASE IsRoot(m, n)  BY <1>1, <2>1 DEF IsRoot, Sound
  <2>2. CASE Uncle(m, n, s) # NULL
    <3>1. ~Hook(m, T, e, n, p)  BY <1>1, <2>2, HookNull
    <3> QED  BY <1>1, <3>1 DEF Place, Loose
  <2> QED  BY <2>1, <2>2
<1> HIDE DEF p
<1>4. CASE IsHung(k, n, s, a) /\ (IsRoot(m, n) \/ Uncle(m, n, s) # NULL)
  <2>1. Searchable(a)  BY <1>3, <1>4, LossLeaf DEF p
  <2>2. a.size = m.size + 1  BY <1>1, <1>4, GrownIs DEF Grows
  <2> QED  BY <2>1, <2>2
<1>5. ASSUME ~IsRoot(m, n), Uncle(m, n, s) # NULL, NEW b, IsHung(k, n, s, b),
             a = Rotate(b, Other(s), n, new)
      PROVE  Searchable(a) /\ a.size = m.size + 1
  <2> DEFINE c == Rotate(b, Other(s), n, new)
  <2>1. Sane(c) /\ Tops(n, s, k, c)  BY <1>5, RotatedOnce
  <2>2. a = c  BY <1>5
  <2> HIDE DEF c
  <2>3. Searchable(c)  BY <1>3, <1>5, <2>1, LossTopped DEF p
  <2> QED  BY <2>1, <2>2, <2>3 DEF Tops
<1>6. ASSUME ~IsRoot(m, n), Uncle(m, n, s) = NULL, Bent(m, n, s), NEW b, IsHung(k, n, s, b),
             LET c == Rotate(b, Other(s), n, new) IN a = Rotate(c, s, c.prev[new], new)
      PROVE  Searchable(a) /\ a.size = m.size + 1
  <2> DEFINE c == Rotate(b, Other(s), n, new)
  <2>1. Sane(c) /\ Tops(n, s, k, c)  BY <1>6, RotatedOnce
  <2>2. a = Rotate(c, s, c.prev[new], new)  BY <1>6
  <2> HIDE DEF c
  <2>3. c.prev[new] = p  BY <2>1 DEF Tops, p
  <2>4. Searchable(Rotate(c, s, p, new))  BY <1>6, <2>1, LossBent DEF p
  <2>5. Rotates(c, s, p, new, Rotate(c, s, p, new))
    <3>1. c \in Memory /\ m.size \in Nat /\ m.size + 1 \in Nodes /\ new \notin 1 .. m.size
      BY <2>1, PlaceFacts DEF Sane
    <3>2. p \in 1 .. m.size  BY <1>1 DEF p
    <3> HIDE DEF new
    <3>3. p \in Nodes /\ p # new  BY <1>1, <3>1, <3>2
    <3>4. new \in Nodes  BY <3>1 DEF new
    <3> QED  BY <1>1, <3>1, <3>3, <3>4, RotateFacts
  <2>6. Rotate(c, s, p, new).size = c.size  BY <2>5 DEF Rotates
  <2> QED  BY <2>1, <2>2, <2>3, <2>4, <2>6 DEF Tops
<1>7. ASSUME ~IsRoot(m, n), Uncle(m, n, s) = NULL, ~Bent(m, n, s), NEW b, IsHung(k, n, s, b),
             a = Relink(Rotate(b, Other(s), p, n), n, s)
      PROVE  Searchable(a) /\ a.size = m.size + 1
  <2> DEFINE c == Rotate(b, Other(s), p, n)
  <2>1. Searchable(Relink(c, n, s))  BY <1>7, LossLifted DEF p
  <2>2. Sane(c) /\ Lifts(n, s, k, c) /\ InUse(c, n)  BY <1>7, RotatedUp DEF p
  <2>3. a = Relink(c, n, s)  BY <1>7
  <2> HIDE DEF c
  <2>4. c.size = m.size + 1  BY <2>2 DEF Lifts
  <2>5. Relinks(c, n, s, a)  BY <1>1, <2>2, <2>3, RelinkFacts
  <2>6. a.size = c.size  BY <2>5 DEF Relinks, Points
  <2> QED  BY <2>1, <2>3, <2>4, <2>6
<1> QED  BY <1>2, <1>4, <1>5, <1>6, <1>7 DEF AttachCases, p

LEMMA InsertStaysSearchable ==
  ASSUME Searchable(m), m.size < MaxNodes, NEW k \in Nat, InsertBelowHead(k)
  PROVE  Searchable(m')
<1> DEFINE path == Path(m, k)
           n == Last(path)
           s == SideOf(m, n, k)
           a == Turned(k)
<1>1. Sane(m) /\ m \in Memory  BY DEF Searchable, Sane
<1>2. IF m.key[n] = k THEN UNCHANGED <<m, status, intact>>
      ELSE m' = WayBack(k)[Len(path) - 1]
  BY InsertIs
<1>3. CASE m.key[n] = k  BY <1>2, <1>3
<1>4. CASE m.key[n] # k
  <2>1. PICK T0 \in SUBSET Nodes, e0 \in Bounds, B0 \in Nat : Loose(m, T0, e0, B0)  BY DEF Searchable
  <2>2. PICK e \in Bounds, B \in Nat : Loose(m, T0, e, B) /\ Ends(m, T0, e, k, path, n)
    BY <1>1, <2>1, Seeks
  <2>3. m' = (CHOOSE g : IsDone(path, a, g))[Len(path) - 1]  BY <1>2, <1>4 DEF WayBack
  <2>4. a = Attach(Allocated(k), n, m.size + 1, s) /\ s = SideOf(m, n, k)  BY DEF Turned
  <2> HIDE DEF path, n, s, a
  <2>5. /\ path \in Seq(T0) /\ path \in Seq(Nodes) /\ path # << >> /\ n \in T0
        /\ Between(e, n, k) /\ Stopped(m, k, n)
    BY <2>2 DEF Ends
  <2>6. Place(m, T0, e, B, k, n, s)  BY <1>4, <2>2, <2>4, <2>5 DEF Place, Stopped
  <2>7. Searchable(a) /\ a.size = m.size + 1  BY <1>1, <2>4, <2>6, AttachedSearchable
  <2>8. a \in Memory /\ \A x \in 1 .. m.size : a.prev[x] \in Nodes
    <3>1. Sane(a) /\ a \in Memory /\ m.size \in Nat  BY <1>1, <2>7, MapAssumption DEF Searchable, Sane, Memory
    <3>2. a.size <= MaxNodes  BY <3>1, MapAssumption DEF Memory
    <3>3. \A x \in 1 .. m.size : x \in 1 .. a.size  BY <2>7, <3>1
    <3>4. \A x \in 1 .. a.size : x \in Nodes  BY <2>7, <3>1, <3>2, MapAssumption DEF Nodes
    <3> QED  BY <3>1, <3>3, <3>4 DEF Sane
  <2>9. T0 \subseteq 1 .. m.size  BY <2>2 DEF Loose, Shape, Frame
  <2>10. Recolored(a, m')
    <3>0. \A i \in 1 .. Len(path) : path[i] \in T0  BY <2>5
    <3>1. \A i \in 1 .. Len(path) : a.prev[path[i]] \in Nodes  BY <2>8, <2>9, <3>0
    <3>2. Len(path) - 1 \in 0 .. Len(path) - 1  BY <2>5
    <3> QED  BY <2>3, <2>5, <2>8, <3>1, <3>2, UnwoundAll
  <2> QED  BY <2>7, <2>10, SearchableRecolored
<1> QED  BY <1>3, <1>4

(* The first node, and nothing else, is a search tree. *)
LEMMA FirstSearchable ==
  ASSUME Sane(m), m.size = 0, 0 < MaxNodes, NEW k \in Nat, NEW u, Begins(k, u), u.freed = m.freed
  PROVE  Searchable(u)
<1> DEFINE new == m.size + 1
           T == {new}
           B == k + 1
           e == [s \in Side |-> [x \in Nodes |-> IF s = "left" THEN -1 ELSE B]]
<1>1. m \in Memory /\ new = 1 /\ 1 \in Nodes /\ 1 # NULL /\ m.freed = {} /\ Fresh(m)
  <2>1. m \in Memory /\ m.freed \subseteq 1 .. m.size /\ Fresh(m)  BY DEF Sane
  <2> QED  BY <2>1, MapAssumption DEF Nodes, NULL
<1>2. /\ u \in Memory /\ u.head = 1 /\ u.size = 1 /\ u.child = m.child /\ u.freed = {}
      /\ u.key[1] = k /\ u.prev[1] = 1
  BY <1>1 DEF Begins
<1>3. \A r \in Side : u.child[r][1] = NULL  BY <1>1, <1>2 DEF Fresh
<1>4. Fresh(u)
  <2> SUFFICES ASSUME NEW x \in Nodes, NEW r \in Side, x > u.size PROVE u.child[r][x] = NULL  BY DEF Fresh
  <2>1. x > m.size  BY <1>1, <1>2, MapAssumption DEF Nodes
  <2> QED  BY <1>1, <1>2, <2>1 DEF Fresh
<1>5. Sane(u)
  <2>1. \A x \in 1 .. u.size : x = 1  BY <1>2
  <2>2. 1 \in 1 .. u.size /\ 0 \in 0 .. u.size  BY <1>2
  <2> QED  BY <1>2, <1>3, <1>4, <2>1, <2>2 DEF Sane, NULL
<1>6. e \in Bounds /\ B \in Nat  BY DEF Bounds
<1>7. e["left"][1] = -1 /\ e["right"][1] = B  BY <1>1, Sides
<1> HIDE DEF e
<1>8. Frame(u, T, e, B)
  <2>1. T \subseteq 1 .. u.size /\ u.head \in T  BY <1>1, <1>2
  <2>2. e["left"][u.head] = -1 /\ e["right"][u.head] = B  BY <1>2, <1>7
  <2>3. Between(e, 1, u.key[1]) /\ -1 <= e["left"][1] /\ e["right"][1] <= B
    BY <1>2, <1>7 DEF Between
  <2> QED  BY <1>1, <1>3, <2>1, <2>2, <2>3 DEF Frame
<1>9. Loose(u, T, e, B)
  <2>1. Shape(u, T, e, B)  BY <1>1, <1>2, <1>8 DEF Shape
  <2>2. \A x \in T : Sound(u, T, x, u.prev[x])  BY <1>1, <1>2 DEF Sound
  <2> QED  BY <1>2, <2>1, <2>2 DEF Loose
<1> QED  BY <1>5, <1>6, <1>9, SearchableIf
-----------------------------------------------------------------------------
(* Erasure.                                                                *)

(* r is the last node of the part of the tree below n. *)
IsLast(T, e, n, r) ==
  /\ r \in T /\ m.child["right"][r] = NULL
  /\ e["right"][r] = e["right"][n] /\ e["left"][n] <= e["left"][r]

LEMMA OutmostIsLast ==
  ASSUME m \in Memory, NEW T, NEW e \in Bounds, NEW B \in Nat, Frame(m, T, e, B), NEW n \in T
  PROVE  IsLast(T, e, n, Outmost(n, "right"))
<1>0. MaxNodes \in Nat  BY MapAssumption
<1>s. "right" \in Side  BY Sides
<1>d. ASSUME NEW x \in T
      PROVE  /\ x \in Nodes /\ m.key[x] \in Nat /\ e["left"][x] \in Int /\ e["right"][x] \in Int
             /\ e["left"][x] < m.key[x] /\ m.key[x] < e["right"][x]
  BY FrameFacts
<1>e. ASSUME NEW x \in T, m.child["right"][x] # NULL
      PROVE  /\ m.child["right"][x] \in T
             /\ e["right"][m.child["right"][x]] = e["right"][x]
             /\ e["left"][m.child["right"][x]] = m.key[x]
  <2> DEFINE c == m.child["right"][x]
  <2>1. c = m.child["right"][x] /\ c # NULL  BY <1>e
  <2> HIDE DEF c
  <2>2. ChildIs(m, T, e, x, "right", c)  BY <1>s, <2>1, ChildBounds
  <2> QED  BY <2>1, <2>2 DEF ChildIs
<1>1. PICK f \in [0 .. MaxNodes -> T] : IsOut(n, "right", f) /\ Outmost(n, "right") = f[MaxNodes]
  BY <1>s, OutExists
<1>2. f[0] = n  BY <1>0, <1>1 DEF IsOut
<1>3. ASSUME NEW j \in 1 .. MaxNodes
      PROVE  /\ f[j - 1] \in T /\ f[j] \in T /\ j \in 0 .. MaxNodes
             /\ f[j] = IF m.child["right"][f[j - 1]] = NULL THEN f[j - 1] ELSE m.child["right"][f[j - 1]]
  <2>1. j \in 0 .. MaxNodes /\ j # 0 /\ j - 1 \in 0 .. MaxNodes  BY <1>0
  <2> QED  BY <1>1, <2>1 DEF IsOut
<1> DEFINE S == {j \in 0 .. MaxNodes : e["right"][f[j]] = e["right"][n] /\ e["left"][n] <= e["left"][f[j]]}
           E == {x \in T : m.child["right"][x] = NULL}
<1>4. MaxNodes \in S
  <2>1. 0 \in S  BY <1>0, <1>2, <1>d
  <2>2. ASSUME NEW j \in 1 .. MaxNodes, j - 1 \in S PROVE j \in S
    <3>1. e["right"][f[j - 1]] = e["right"][n] /\ e["left"][n] <= e["left"][f[j - 1]]  BY <2>2
    <3>2. e["right"][f[j]] = e["right"][n] /\ e["left"][f[j - 1]] <= e["left"][f[j]]
      <4> HIDE DEF S
      <4>1. CASE m.child["right"][f[j - 1]] = NULL  BY <1>3, <1>d, <3>1, <4>1
      <4>2. CASE m.child["right"][f[j - 1]] # NULL
        <5>1. e["left"][f[j]] = m.key[f[j - 1]] /\ e["right"][f[j]] = e["right"][f[j - 1]]
          BY <1>3, <1>e, <4>2
        <5> QED  BY <1>3, <1>d, <3>1, <5>1
      <4> QED  BY <4>1, <4>2
    <3> QED  BY <1>3, <1>d, <3>1, <3>2
  <2>3. 0 .. MaxNodes \subseteq S
    <3> HIDE DEF S
    <3> QED  BY <1>0, <2>1, <2>2, Throughout
  <2> QED  BY <1>0, <2>3
<1>5. f[MaxNodes] \in E
  <2>1. f \in [0 .. MaxNodes -> Nodes]
    <3>1. \A j \in 0 .. MaxNodes : f[j] \in Nodes  BY <1>d
    <3> QED  BY <3>1
  <2>2. e["left"] \in [Nodes -> Int]  BY Sides DEF Bounds
  <2>4. ASSUME NEW j \in 1 .. MaxNodes
        PROVE  IF f[j - 1] \in E THEN f[j] \in E ELSE e["left"][f[j - 1]] < e["left"][f[j]]
    <3>1. CASE m.child["right"][f[j - 1]] = NULL  BY <1>3, <3>1
    <3>2. CASE m.child["right"][f[j - 1]] # NULL
      <4>1. e["left"][f[j]] = m.key[f[j - 1]]  BY <1>3, <1>e, <3>2
      <4> QED  BY <1>3, <1>d, <3>2, <4>1
    <3> QED  BY <3>1, <3>2
  <2> HIDE DEF E
  <2>5. Walks(f, e["left"], E)  BY <2>4 DEF Walks
  <2> QED  BY <2>1, <2>2, <2>5, WalkEnds
<1> QED  BY <1>0, <1>1, <1>4, <1>5 DEF IsLast

(* a is m after a call that deleted x and left no pointer to it. *)
Erases(x, a) ==
  /\ a \in Memory /\ a.head = m.head /\ a.size = m.size /\ a.freed = m.freed \cup {x}
  /\ ~Dangling(a) /\ x \in 1 .. m.size
  /\ \A y \in Nodes : a.prev[y] = m.prev[y] \/ a.prev[y] \in 1 .. m.size
  /\ \A y \in Nodes, r \in Side :
       a.child[r][y] = m.child[r][y] \/ (y \in 1 .. m.size /\ a.child[r][y] \in 0 .. m.size)

LEMMA ErasesSane ==
  ASSUME Sane(m), NEW x, NEW a, Erases(x, a)
  PROVE  Sane(a)
<1>1. /\ m \in Memory /\ a \in Memory /\ a.size = m.size /\ a.freed = m.freed \cup {x}
      /\ x \in 1 .. m.size /\ m.freed \subseteq 1 .. m.size /\ ~Dangling(a)
  BY DEF Erases, Sane
<1>2. m.size \in Nat /\ m.size <= MaxNodes /\ MaxNodes \in Nat  BY <1>1, MapAssumption DEF Memory
<1>3. 1 .. m.size \subseteq Nodes  BY <1>2 DEF Nodes
<1>4. Fresh(a)
  <2> SUFFICES ASSUME NEW y \in Nodes, NEW r \in Side, y > a.size PROVE a.child[r][y] = NULL  BY DEF Fresh
  <2>1. y \notin 1 .. m.size /\ y > m.size  BY <1>1, <1>2
  <2>2. m.child[r][y] = NULL  BY <2>1 DEF Sane, Fresh
  <2> QED  BY <2>1, <2>2 DEF Erases
<1>5. ASSUME NEW y \in 1 .. a.size
      PROVE  a.prev[y] \in 1 .. a.size /\ \A s \in Side : a.child[s][y] \in 0 .. a.size
  <2>1. y \in Nodes /\ y \in 1 .. m.size  BY <1>1, <1>3
  <2>2. m.prev[y] \in 1 .. m.size /\ \A s \in Side : m.child[s][y] \in 0 .. m.size
    BY <2>1 DEF Sane
  <2> QED  BY <1>1, <2>1, <2>2 DEF Erases
<1>6. ASSUME NEW y \in (1 .. a.size) \ a.freed
      PROVE  a.prev[y] \notin a.freed /\ \A s \in Side : a.child[s][y] \notin a.freed
  BY <1>1, Sides DEF Dangling
<1> QED  BY <1>1, <1>4, <1>5, <1>6 DEF Sane

(* The node the deleted one hung on was pointed elsewhere. *)
LEMMA Misses ==
  ASSUME Sane(m), NEW T, NEW e \in Bounds, NEW B \in Nat, Loose(m, T, e, B), NEW x \in T,
         NEW a, Erases(x, a)
  PROVE  \E z \in T, r \in Side : Only(m, T, z, r, x) /\ m.child[r][z] = x /\ a.child[r][z] # x
<1>1. /\ m \in Memory /\ a.head = m.head /\ a.size = m.size /\ a.freed = m.freed \cup {x}
      /\ ~Dangling(a) /\ Shape(m, T, e, B) /\ Frame(m, T, e, B) /\ T \cap m.freed = {}
      /\ T \subseteq 1 .. m.size
  BY DEF Erases, Sane, Loose, Shape, Frame
<1>2. x # m.head  BY <1>1 DEF Dangling
<1>3. PICK z \in T, r \in Side : m.child[r][z] = x  BY <1>1, <1>2 DEF Shape
<1>4. x # NULL
  <2>1. x \in 1 .. m.size /\ m.size \in Nat  BY <1>1, MapAssumption DEF Memory
  <2> QED  BY <2>1 DEF NULL
<1>5. Only(m, T, z, r, x)  BY <1>1, <1>3, <1>4, OneParent
<1>6. z \in (1 .. a.size) \ a.freed  BY <1>1, <1>5 DEF Only
<1>7. a.child[r][z] \notin a.freed  BY <1>1, <1>6, Sides DEF Dangling
<1> QED  BY <1>1, <1>3, <1>5, <1>7

(* a is m without n, whose right child is in its place below p. *)
Unhangs(n, p, s, a) ==
  /\ a.key = m.key /\ a.prev = m.prev
  /\ \A y \in Nodes, r \in Side :
       a.child[r][y] = IF y = p /\ r = s THEN m.child["right"][n] ELSE m.child[r][y]

LEMMA LossUnhung ==
  ASSUME Sane(m), NEW T, NEW e \in Bounds, NEW B \in Nat, Loose(m, T, e, B),
         NEW n \in T, NEW p, NEW s \in Side, NEW a, Erases(n, a), Unhangs(n, p, s, a),
         m.child["left"][n] = NULL
  PROVE  Searchable(a)
<1> DEFINE U == T \ {n}
<1>1. /\ m \in Memory /\ Shape(m, T, e, B) /\ Frame(m, T, e, B) /\ T \cap m.freed = {}
      /\ T \subseteq 1 .. m.size /\ a \in Memory /\ a.head = m.head /\ a.size = m.size
      /\ a.freed = m.freed \cup {n} /\ Sane(a)
  BY ErasesSane DEF Sane, Loose, Shape, Frame, Erases
<1>2. a.key = m.key /\ a.prev = m.prev  BY DEF Unhangs
<1>3. ASSUME NEW y \in Nodes, NEW r \in Side
      PROVE  a.child[r][y] = IF y = p /\ r = s THEN m.child["right"][n] ELSE m.child[r][y]
  BY DEF Unhangs
<1>4. m.size \in Nat /\ 1 .. m.size \subseteq Nodes /\ NULL \notin 1 .. m.size /\ T \subseteq Nodes
  <2>1. m.size \in Nat /\ m.size <= MaxNodes /\ MaxNodes \in Nat  BY <1>1, MapAssumption DEF Memory
  <2> QED  BY <1>1, <2>1 DEF Nodes, NULL
<1>5. Only(m, T, p, s, n) /\ m.child[s][p] = n /\ p \in T
  <2>1. PICK z \in T, r \in Side : Only(m, T, z, r, n) /\ m.child[r][z] = n /\ a.child[r][z] # n
    BY Misses
  <2>2. z = p /\ r = s  BY <1>3, <1>4, <2>1
  <2> QED  BY <2>1, <2>2
<1>6. n # p /\ n # m.head /\ \A y \in T, r \in Side : m.child[r][y] = n => y = p /\ r = s
  BY <1>5 DEF Only
<1>7. Splices(m, T, n, "left", a)
  <2>1. \A y \in U, r \in Side :
          a.child[r][y] = IF m.child[r][y] = n THEN m.child[Other("left")][n] ELSE m.child[r][y]
    BY <1>3, <1>4, <1>5, <1>6, Sides
  <2> QED  BY <1>1, <1>2, <1>4, <1>6, <2>1 DEF Splices
<1>8. PICK f \in Bounds : Shape(a, U, f, B) /\ Wider(U, e, f)
  BY <1>1, <1>7, Sides, Spliced
<1>9. m.child["right"][n] \in T \cup {NULL}
  BY <1>1, Sides DEF Frame
<1> HIDE DEF U
<1>u. \A x \in U : x \in T /\ x # n  BY DEF U
<1>10. ASSUME NEW q \in (1 .. m.size) \ U PROVE Harmless(m, T, a, U, q)
  <2>1. CASE q = n  BY <1>1, <2>1 DEF Harmless
  <2>2. CASE q # n
    <3>1. q \notin T /\ q \in Nodes /\ q # NULL /\ q # p  BY <1>4, <1>5, <2>2 DEF U
    <3>2. \A r \in Side : a.child[r][q] = m.child[r][q]  BY <1>3, <3>1
    <3>3. ASSUME NEW g \in 1 .. m.size, NoChild(m, g, q) PROVE NoChild(a, g, q)
      <4>1. g \in Nodes  BY <1>4
      <4> QED  BY <1>3, <1>9, <3>1, <3>3, <4>1 DEF NoChild
    <3> QED  BY <1>2, <3>1, <3>2, <3>3 DEF Harmless, Kept
  <2> QED  BY <2>1, <2>2
<1>11. ASSUME NEW x \in U PROVE Stays(m, T, e, a, f, x)
  <2>1. x \in T /\ x \in Nodes /\ m.key[x] \in Nat  BY <1>1, <1>4, <1>u DEF Memory
  <2>2. ASSUME NEW r \in Side, m.child[r][x] = NULL PROVE a.child[r][x] = NULL
    <3>1. n # NULL  BY <1>1, <1>4
    <3> QED  BY <1>3, <1>5, <2>1, <2>2, <3>1
  <2> QED  BY <1>2, <1>8, <2>1, <2>2 DEF Stays, Wider
<1>12. U \cap a.freed = {} /\ m.size <= a.size  BY <1>1, <1>4 DEF U
<1>13. Loose(a, U, f, B)  BY <1>1, <1>8, <1>10, <1>11, <1>12, Carried
<1> QED  BY <1>1, <1>13, SearchableIf

(* a is m with u's key in n, and u's left child in the place of n's left.  *)
Merges(n, u, s, a) ==
  /\ \A y \in Nodes : a.key[y] = IF y = n THEN m.key[u] ELSE m.key[y]
  /\ \A y \in Nodes, r \in Side :
       a.child[r][y] = IF y = n /\ r = s THEN m.child["left"][u] ELSE m.child[r][y]
  /\ \A y \in Nodes : \/ a.prev[y] = m.prev[y]
                      \/ y = m.child["left"][u] /\ a.prev[y] = n

LEMMA LossMerged ==
  ASSUME Sane(m), NEW T, NEW e \in Bounds, NEW B \in Nat, Loose(m, T, e, B),
         NEW n \in T, NEW u \in T, NEW a, Erases(u, a), Merges(n, u, "left", a),
         m.child["right"][u] = NULL
  PROVE  Searchable(a)
<1> DEFINE U == T \ {u}
           c == m.child["left"][u]
<1>1. /\ m \in Memory /\ Shape(m, T, e, B) /\ Frame(m, T, e, B) /\ T \cap m.freed = {}
      /\ T \subseteq 1 .. m.size /\ a \in Memory /\ a.head = m.head /\ a.size = m.size
      /\ a.freed = m.freed \cup {u} /\ Sane(a)
  BY ErasesSane DEF Sane, Loose, Shape, Frame, Erases
<1>2. m.size \in Nat /\ 1 .. m.size \subseteq Nodes /\ NULL \notin 1 .. m.size /\ T \subseteq Nodes
  <2>1. m.size \in Nat /\ m.size <= MaxNodes /\ MaxNodes \in Nat  BY <1>1, MapAssumption DEF Memory
  <2> QED  BY <1>1, <2>1 DEF Nodes, NULL
<1>c. c \in T \cup {NULL}  BY <1>1, Sides DEF Frame
<1>3. /\ \A y \in Nodes : a.key[y] = IF y = n THEN m.key[u] ELSE m.key[y]
      /\ \A y \in Nodes, r \in Side :
           a.child[r][y] = IF y = n /\ r = "left" THEN c ELSE m.child[r][y]
      /\ \A y \in Nodes : a.prev[y] = m.prev[y] \/ (y = c /\ a.prev[y] = n)
  BY DEF Merges
<1>4. c = m.child["left"][u]  OBVIOUS
<1> HIDE DEF c
<1>5. m.child["left"][n] = u /\ n # u
  <2>1. PICK z \in T, r \in Side : Only(m, T, z, r, u) /\ m.child[r][z] = u /\ a.child[r][z] # u
    BY Misses
  <2>2. z = n /\ r = "left"  BY <1>2, <1>3, <2>1
  <2> QED  BY <2>1, <2>2 DEF Only
<1>6. MovesKeyUp(m, T, n, u, a)
  <2>1. \A y \in U, r \in Side : a.child[r][y] = IF y = n /\ r = "left" THEN c ELSE m.child[r][y]
    BY <1>2, <1>3
  <2>2. \A y \in U : a.key[y] = IF y = n THEN m.key[u] ELSE m.key[y]  BY <1>2, <1>3
  <2> QED  BY <1>1, <1>4, <1>5, <2>1, <2>2 DEF MovesKeyUp
<1>7. m.key[u] < m.key[n] /\ \E f \in Bounds : Shape(a, U, f, B) /\ Wider(U, e, f)
  BY <1>1, <1>6, KeyMovedUp
<1>8. PICK f \in Bounds : Shape(a, U, f, B) /\ Wider(U, e, f)  BY <1>7
<1> HIDE DEF U
<1>u. n \in U /\ \A x \in U : x \in T /\ x # u  BY <1>5 DEF U
<1>10. ASSUME NEW q \in (1 .. m.size) \ U PROVE Harmless(m, T, a, U, q)
  <2>1. CASE q = u  BY <1>1, <2>1 DEF Harmless
  <2>2. CASE q # u
    <3>1. q \notin T /\ q \in Nodes /\ q # NULL /\ q # n /\ q # c  BY <1>2, <1>c, <2>2 DEF U
    <3>2. /\ \A r \in Side : a.child[r][q] = m.child[r][q]
          /\ a.key[q] = m.key[q] /\ a.prev[q] = m.prev[q]
      BY <1>3, <3>1
    <3>3. ASSUME NEW g \in 1 .. m.size, NoChild(m, g, q) PROVE NoChild(a, g, q)
      <4>1. g \in Nodes  BY <1>2
      <4> QED  BY <1>3, <3>1, <3>3, <4>1 DEF NoChild
    <3> QED  BY <3>1, <3>2, <3>3 DEF Harmless, Kept
  <2> QED  BY <2>1, <2>2
<1>11. ASSUME NEW x \in U PROVE Stays(m, T, e, a, f, x) \/ Sound(a, U, x, a.prev[x])
  <2>1. x \in T /\ x \in Nodes /\ m.key[x] \in Nat /\ a.key[x] \in Nat /\ m.key[u] \in Nat
    BY <1>1, <1>2, <1>u DEF Memory
  <2>2. CASE a.prev[x] = n  BY <1>u, <2>2 DEF Sound
  <2>3. CASE a.prev[x] # n
    <3>1. a.prev[x] = m.prev[x]  BY <1>3, <2>1, <2>3
    <3>2. u # NULL  BY <1>1, <1>2
    <3>3. ASSUME NEW r \in Side, m.child[r][x] = NULL PROVE a.child[r][x] = NULL
      BY <1>3, <1>5, <2>1, <3>2, <3>3
    <3>4. a.key[x] <= m.key[x] /\ (m.child["left"][x] = NULL => m.key[x] <= a.key[x])
      <4>1. CASE x = n  BY <1>3, <1>5, <1>7, <2>1, <3>2, <4>1
      <4>2. CASE x # n  BY <1>3, <2>1, <4>2
      <4> QED  BY <4>1, <4>2
    <3>5. f["left"][x] <= e["left"][x] /\ e["right"][x] <= f["right"][x]  BY <1>8 DEF Wider
    <3> QED  BY <2>1, <3>1, <3>3, <3>4, <3>5 DEF Stays
  <2> QED  BY <2>2, <2>3
<1>12. U \cap a.freed = {} /\ m.size <= a.size  BY <1>1, <1>2 DEF U
<1>13. Loose(a, U, f, B)  BY <1>1, <1>8, <1>10, <1>11, <1>12, Carried
<1> QED  BY <1>1, <1>13, SearchableIf

(* a is what Replaced leaves, but for parent pointers. *)
Copies(n, u, s, a) ==
  /\ a \in Memory /\ a.head = m.head /\ a.size = m.size /\ a.freed = m.freed \cup {u}
  /\ \A y \in Nodes : a.key[y] = IF y = n THEN m.key[u] ELSE m.key[y]
  /\ \A y \in Nodes, r \in Side :
       a.child[r][y] = IF y = n /\ r = s THEN m.child["left"][u] ELSE m.child[r][y]

LEMMA ReplacedFacts ==
  ASSUME m \in Memory, NEW n \in Nodes, NEW u \in Nodes, NEW s \in Side
  PROVE  Copies(n, u, s, Replaced(n, u, s)) /\ Replaced(n, u, s).prev = m.prev
<1> DEFINE a == Replaced(n, u, s)
           c == m.child["left"][u]
           K == [m.key EXCEPT ![n] = m.key[u]]
           C == [m.child EXCEPT ![s][n] = c]
<1>1. a = [m EXCEPT !.key = K, !.child = C, !.freed = m.freed \cup {u}]
  BY DEF Replaced, Left
<1>2. /\ m.key \in [Nodes -> Nat] /\ m.child \in [Side -> [Nodes -> 0 .. MaxNodes]]
      /\ m.freed \cup {u} \in SUBSET Nodes /\ c \in 0 .. MaxNodes
  BY Sides DEF Memory
<1> HIDE DEF c
<1>3. K \in [Nodes -> Nat] /\ \A y \in Nodes : K[y] = IF y = n THEN m.key[u] ELSE m.key[y]
  BY <1>2
<1>4. /\ C \in [Side -> [Nodes -> 0 .. MaxNodes]]
      /\ \A y \in Nodes, r \in Side : C[r][y] = IF y = n /\ r = s THEN c ELSE m.child[r][y]
  BY <1>2
<1> HIDE DEF K, C, a
<1>5. /\ a \in Memory /\ a.head = m.head /\ a.size = m.size /\ a.freed = m.freed \cup {u}
      /\ a.key = K /\ a.child = C /\ a.prev = m.prev
  BY <1>1, <1>2, <1>3, <1>4 DEF Memory
<1> QED  BY <1>3, <1>4, <1>5 DEF Copies, a, c

LEMMA DeletedFacts ==
  ASSUME m \in Memory, NEW n \in Nodes
  PROVE  LET a == Deleted(n)
         IN  /\ a \in Memory /\ a.head = m.head /\ a.size = m.size /\ a.freed = m.freed \cup {n}
             /\ a.key = m.key /\ a.child = m.child /\ a.prev = m.prev
<1>1. m.freed \cup {n} \in SUBSET Nodes  BY DEF Memory
<1> QED  BY <1>1 DEF Deleted, Memory

(* A node of the tree, as the calls see it. *)
LEMMA NodeFacts ==
  ASSUME Sane(m), NEW T, NEW e \in Bounds, NEW B \in Nat, Loose(m, T, e, B), NEW n \in T
  PROVE  /\ m \in Memory /\ n \in Nodes /\ n \in 1 .. m.size /\ m.prev[n] \in Nodes
         /\ m.child["left"][n] \in T \cup {NULL} /\ m.child["right"][n] \in T \cup {NULL}
         /\ T \subseteq 1 .. m.size /\ 1 .. m.size \subseteq 0 .. m.size /\ NULL \in 0 .. m.size
         /\ m.key[n] \in Nat /\ e["left"][n] < m.key[n] /\ m.key[n] < e["right"][n]
         /\ e["left"][n] \in Int /\ e["right"][n] \in Int
<1>1. m \in Memory /\ Frame(m, T, e, B) /\ T \subseteq 1 .. m.size  BY DEF Sane, Loose, Shape, Frame
<1>2. m.size \in Nat /\ m.size <= MaxNodes /\ MaxNodes \in Nat  BY <1>1, MapAssumption DEF Memory
<1>3. 1 .. m.size \subseteq Nodes /\ 1 .. m.size \subseteq 0 .. m.size /\ NULL \in 0 .. m.size
  BY <1>2 DEF Nodes, NULL
<1>4. n \in 1 .. m.size /\ m.prev[n] \in 1 .. m.size  BY <1>1 DEF Sane
<1>5. m.child["left"][n] \in T \cup {NULL} /\ m.child["right"][n] \in T \cup {NULL}
  BY <1>1, Sides DEF Frame
<1>6. /\ m.key[n] \in Nat /\ e["left"][n] < m.key[n] /\ m.key[n] < e["right"][n]
      /\ e["left"][n] \in Int /\ e["right"][n] \in Int
  BY <1>1, FrameFacts
<1> QED  BY <1>1, <1>3, <1>4, <1>5, <1>6

(* The root is deleted only into a pointer to it. *)
LEMMA LossOfRoot ==
  ASSUME Sane(m), NEW T, NEW e \in Bounds, NEW B \in Nat, Loose(m, T, e, B), NEW n \in T
  PROVE  Dangling(Deleted(n))
<1> DEFINE a == Deleted(n)
<1> SUFFICES ASSUME ~Dangling(a) PROVE FALSE  OBVIOUS
<1>1. m \in Memory /\ n \in Nodes /\ n \in 1 .. m.size  BY NodeFacts
<1>2. /\ a \in Memory /\ a.head = m.head /\ a.size = m.size /\ a.freed = m.freed \cup {n}
      /\ a.key = m.key /\ a.child = m.child /\ a.prev = m.prev
  BY <1>1, DeletedFacts
<1> HIDE DEF a
<1>3. Erases(n, a)  BY <1>1, <1>2 DEF Erases
<1>4. \E z \in T, r \in Side : m.child[r][z] = n /\ a.child[r][z] # n  BY <1>3, Misses
<1> QED  BY <1>2, <1>4

(* A red node without left child is deleted. *)
LEMMA LossOfRed ==
  ASSUME Sane(m), NEW T, NEW e \in Bounds, NEW B \in Nat, Loose(m, T, e, B), NEW n \in T,
         m.child["left"][n] = NULL, ~IsRoot(m, n), n \in m.red, ~Dangling(Erased(n))
  PROVE  Searchable(Erased(n))
<1> DEFINE p == m.prev[n]
           held == {s \in Side : m.child[s][p] = n}
           s == IF "left" \in held THEN "left" ELSE "right"
           b == Deleted(n)
           c == m.child["right"][n]
           a == Erased(n)
<1>1. /\ m \in Memory /\ n \in Nodes /\ n \in 1 .. m.size /\ p \in Nodes /\ c \in T \cup {NULL}
      /\ T \subseteq 1 .. m.size /\ 1 .. m.size \subseteq 0 .. m.size /\ NULL \in 0 .. m.size
  BY NodeFacts
<1>2. s \in Side  BY Sides
<1>3. a = IF held = {} THEN b ELSE [b EXCEPT !.child[s][p] = c]
  <2>1. successor(n) = NULL  BY DEF successor, Left
  <2> QED  BY <2>1 DEF Erased, Right
<1>4. ~Dangling(b)  \/ held # {}  BY <1>3
<1>5. held # {}
  <2> HIDE DEF held, s
  <2>1. Dangling(b)  BY LossOfRoot
  <2> QED  BY <1>4, <2>1
<1> HIDE DEF s
<1>6. /\ b \in Memory /\ b.head = m.head /\ b.size = m.size /\ b.freed = m.freed \cup {n}
      /\ b.key = m.key /\ b.child = m.child /\ b.prev = m.prev
  BY <1>1, DeletedFacts
<1>7. c \in 0 .. MaxNodes /\ c \in 0 .. m.size
  <2>1. c \in 0 .. MaxNodes  BY <1>1, Sides DEF Memory
  <2>2. c \in 0 .. m.size  BY <1>1
  <2> QED  BY <2>1, <2>2
<1>8. a = [b EXCEPT !.child[s][p] = c]  BY <1>3, <1>5
<1> HIDE DEF held, b, p, c, a
<1>9. Points(b, s, p, c, a)  BY <1>1, <1>2, <1>6, <1>7, <1>8, PointFacts
<1>10. /\ a \in Memory /\ a.head = m.head /\ a.size = m.size /\ a.key = m.key
       /\ a.freed = m.freed \cup {n} /\ a.prev = m.prev
       /\ \A y \in Nodes, w \in Side : a.child[w][y] = IF y = p /\ w = s THEN c ELSE m.child[w][y]
  BY <1>6, <1>9 DEF Points
<1>11. Unhangs(n, p, s, a)  BY <1>10 DEF Unhangs, c
<1>12. p \in 1 .. m.size  BY <1>1 DEF Sane, p
<1>13. ~Dangling(a)  BY DEF a
<1>14. Erases(n, a)  BY <1>1, <1>7, <1>10, <1>12, <1>13 DEF Erases
<1>15. Searchable(a)  BY <1>2, <1>11, <1>14, LossUnhung
<1> QED  BY <1>15 DEF a

LEMMA SuccessorFacts ==
  ASSUME Sane(m), NEW T, NEW e \in Bounds, NEW B \in Nat, Loose(m, T, e, B), NEW n \in T,
         m.child["left"][n] # NULL
  PROVE  /\ successor(n) \in T /\ m.child["right"][successor(n)] = NULL
         /\ e["right"][successor(n)] = m.key[n] /\ successor(n) # NULL
<1> DEFINE c == m.child["left"][n]
<1>1. m \in Memory /\ Frame(m, T, e, B) /\ T \subseteq 1 .. m.size
  BY DEF Sane, Loose, Shape, Frame
<1>2. c = m.child["left"][n] /\ c # NULL /\ successor(n) = Outmost(c, "right")
  BY DEF successor, Left
<1> HIDE DEF c
<1>3. ChildIs(m, T, e, n, "left", c)  BY <1>1, <1>2, Sides, ChildBounds
<1>4. c \in T /\ e["right"][c] = m.key[n]  BY <1>3 DEF ChildIs
<1>5. IsLast(T, e, c, Outmost(c, "right"))  BY <1>1, <1>4, OutmostIsLast
<1>6. NULL \notin T  BY <1>1, MapAssumption DEF Memory, NULL
<1> QED  BY <1>2, <1>4, <1>5, <1>6 DEF IsLast

LEMMA LossOfCopied ==
  ASSUME Sane(m), NEW T, NEW e \in Bounds, NEW B \in Nat, Loose(m, T, e, B), NEW n \in T, NEW u \in T,
         m.child["right"][u] = NULL, NEW a, Copies(n, u, "left", a), ~Dangling(a),
         \A y \in Nodes : a.prev[y] = m.prev[y] \/ (y = m.child["left"][u] /\ a.prev[y] = n)
  PROVE  Searchable(a)
<1>1. n \in 1 .. m.size /\ u \in 1 .. m.size /\ m.child["left"][u] \in 0 .. m.size
  <2>1. /\ n \in 1 .. m.size /\ T \subseteq 1 .. m.size /\ 1 .. m.size \subseteq 0 .. m.size
        /\ NULL \in 0 .. m.size
    BY NodeFacts
  <2>2. m.child["left"][u] \in T \cup {NULL}  BY NodeFacts
  <2> QED  BY <2>1, <2>2
<1>2. Erases(u, a)  BY <1>1 DEF Erases, Copies
<1>3. Merges(n, u, "left", a)  BY DEF Merges, Copies
<1> QED  BY <1>2, <1>3, LossMerged

(* The predecessor does not hang on the right. *)
LEMMA NoneOnRight ==
  ASSUME Sane(m), NEW T, NEW e \in Bounds, NEW B \in Nat, Loose(m, T, e, B), NEW n \in T, NEW u \in T,
         e["right"][u] = m.key[n], NEW a, Copies(n, u, "right", a), a.prev = m.prev
  PROVE  Dangling(a)
<1> SUFFICES ASSUME ~Dangling(a) PROVE FALSE  OBVIOUS
<1>1. /\ m \in Memory /\ n \in Nodes /\ n \in 1 .. m.size /\ u \in 1 .. m.size /\ T \subseteq Nodes
      /\ m.child["left"][u] \in 0 .. m.size /\ Frame(m, T, e, B)
  <2>1. /\ m \in Memory /\ n \in Nodes /\ n \in 1 .. m.size
        /\ T \subseteq 1 .. m.size /\ 1 .. m.size \subseteq 0 .. m.size
        /\ NULL \in 0 .. m.size
    BY NodeFacts
  <2>2. m.child["left"][u] \in T \cup {NULL}  BY NodeFacts
  <2>3. \A x \in T : x \in Nodes  BY NodeFacts
  <2> QED  BY <2>1, <2>2, <2>3 DEF Loose, Shape
<1>2. Erases(u, a)  BY <1>1 DEF Erases, Copies
<1>3. PICK z \in T, r \in Side : m.child[r][z] = u /\ a.child[r][z] # u  BY <1>2, Misses
<1>4. z = n /\ r = "right"  BY <1>1, <1>3 DEF Copies
<1>5. /\ m.key[u] \in Nat /\ e["left"][u] < m.key[u] /\ m.key[u] < e["right"][u]
      /\ e["left"][u] \in Int /\ e["right"][u] \in Int
  BY NodeFacts
<1>6. u # NULL  BY <1>1 DEF NULL
<1>7. ChildIs(m, T, e, n, "right", u)  BY <1>1, <1>3, <1>4, <1>6, ChildBounds
<1>8. e["left"][u] = m.key[n]  BY <1>7 DEF ChildIs
<1> QED  BY <1>5, <1>8

LEMMA ErasedSearchable ==
  ASSUME Sane(m), NEW T, NEW e \in Bounds, NEW B \in Nat, Loose(m, T, e, B), NEW n \in T,
         ~(~IsRoot(m, n) /\ n \in m.red /\ successor(n) # NULL /\ Left(successor(n)) = NULL),
         ~Dangling(Erased(n))
  PROVE  Searchable(Erased(n))
<1> DEFINE u == successor(n)
           a == Erased(n)
<1>1. m \in Memory /\ n \in Nodes /\ \A x \in T : x \in Nodes /\ m.child["left"][x] \in T \cup {NULL}
  <2>1. m \in Memory /\ n \in Nodes  BY NodeFacts
  <2>2. \A x \in T : x \in Nodes /\ m.child["left"][x] \in T \cup {NULL}  BY NodeFacts
  <2> QED  BY <2>1, <2>2
<1>2. Searchable(m)  BY SearchableIf
<1>3. CASE IsRoot(m, n)
  <2>1. a = Deleted(n)  BY <1>3 DEF Erased
  <2>2. Dangling(Deleted(n))  BY LossOfRoot
  <2> QED  BY <2>1, <2>2
<1>4. CASE ~IsRoot(m, n) /\ m.child["left"][n] = NULL
  <2>1. CASE n \in m.red  BY <1>4, <2>1, LossOfRed
  <2>2. CASE n \notin m.red
    <3>1. u = NULL  BY <1>4 DEF successor, Left
    <3>2. a = m  BY <1>4, <2>2, <3>1 DEF Erased
    <3> QED  BY <1>2, <3>2
  <2> QED  BY <2>1, <2>2
<1>5. CASE ~IsRoot(m, n) /\ m.child["left"][n] # NULL
  <2>1. u \in T /\ m.child["right"][u] = NULL /\ e["right"][u] = m.key[n] /\ u # NULL
    BY <1>5, SuccessorFacts
  <2> DEFINE b == Replaced(n, u, "left")
             d == Replaced(n, u, "right")
             c == m.child["left"][u]
  <2>2. \/ n \in m.red /\ a = [b EXCEPT !.prev[c] = n] /\ c # NULL
        \/ n \notin m.red /\ a = b
        \/ n \notin m.red /\ a = d
        \/ n \notin m.red /\ a = m
    <3>1. CASE n \in m.red
      <4>1. a = [b EXCEPT !.prev[c] = n]
        <5> HIDE DEF u
        <5>1. successor(n) = u  BY DEF u
        <5> QED  BY <1>5, <2>1, <3>1, <5>1 DEF Erased, Left
      <4>2. c # NULL  BY <1>5, <2>1, <3>1 DEF Left
      <4> QED  BY <3>1, <4>1, <4>2
    <3>2. CASE n \notin m.red
      <4> HIDE DEF u
      <4>1. successor(n) = u  BY DEF u
      <4> QED  BY <1>5, <2>1, <3>2, <4>1 DEF Erased
    <3> QED  BY <3>1, <3>2
  <2>3. u \in Nodes /\ "left" \in Side /\ "right" \in Side  BY <1>1, <2>1, Sides
  <2>4. ~Dangling(a)  OBVIOUS
  <2> HIDE DEF u, a
  <2>5. Copies(n, u, "left", b) /\ b.prev = m.prev  BY <1>1, <2>3, ReplacedFacts
  <2>6. Copies(n, u, "right", d) /\ d.prev = m.prev  BY <1>1, <2>3, ReplacedFacts
  <2> HIDE DEF b, d
  <2>7. CASE a = [b EXCEPT !.prev[c] = n] /\ c # NULL
    <3>1. c \in Nodes  BY <1>1, <2>1, <2>7
    <3>2. b \in Memory /\ n \in 0 .. MaxNodes  BY <1>1, <2>5, MapAssumption DEF Copies, Nodes
    <3>3. [b.prev EXCEPT ![c] = n] \in [Nodes -> 0 .. MaxNodes]  BY <3>1, <3>2 DEF Memory
    <3> HIDE DEF c
    <3>4. /\ a \in Memory /\ a.head = b.head /\ a.size = b.size /\ a.freed = b.freed
          /\ a.key = b.key /\ a.child = b.child /\ a.prev = [b.prev EXCEPT ![c] = n]
      BY <2>7, <3>2, <3>3 DEF Memory
    <3>5. Copies(n, u, "left", a)  BY <2>5, <3>4 DEF Copies
    <3>6. \A y \in Nodes : a.prev[y] = m.prev[y] \/ (y = c /\ a.prev[y] = n)
      <4>1. m.prev \in [Nodes -> 0 .. MaxNodes]  BY <1>1 DEF Memory
      <4> QED  BY <2>5, <3>4, <4>1
    <3>7. \A y \in Nodes : a.prev[y] = m.prev[y] \/ (y = m.child["left"][u] /\ a.prev[y] = n)
      BY <3>6 DEF c
    <3>8. Searchable(a)  BY <2>1, <2>4, <3>5, <3>7, LossOfCopied
    <3> QED  BY <3>8 DEF a
  <2>8. CASE a = b
    <3>1. Searchable(b)  BY <2>1, <2>4, <2>5, <2>8, LossOfCopied
    <3> QED  BY <2>8, <3>1 DEF a
  <2>9. CASE a = d
    <3>1. Dangling(d)  BY <2>1, <2>6, NoneOnRight
    <3> QED  BY <2>4, <2>9, <3>1
  <2>10. CASE a = m  BY <1>2, <2>10 DEF a
  <2> QED  BY <2>2, <2>7, <2>8, <2>9, <2>10
<1> QED  BY <1>3, <1>4, <1>5
-----------------------------------------------------------------------------
(* The invariant: the empty map, or what can be searched.                  *)

LossInv == status = "ok" => Searchable(m) \/ (m.head = NULL /\ Sane(m) /\ m.size = 0)

LEMMA SearchableHead ==
  ASSUME NEW t, Searchable(t)
  PROVE  t.head # NULL
<1>1. PICK T \in SUBSET Nodes, e \in Bounds, B \in Nat : Loose(t, T, e, B)  BY DEF Searchable
<1>2. t.head \in T  BY <1>1 DEF Loose, Shape, Frame
<1> QED  BY <1>2 DEF Nodes, NULL

LEMMA LossInvInit ==
  ASSUME Init
  PROVE  LossInv
<1>1. MaxNodes \in Nat  BY MapAssumption
<1>2. /\ m.head = NULL /\ m.size = 0 /\ m.freed = {}
      /\ m.child = [s \in Side |-> [n \in Nodes |-> NULL]]
  BY DEF Init
<1>3. m \in Memory  BY <1>1 DEF Init, Memory, NULL
<1>4. Fresh(m)  BY <1>2 DEF Fresh
<1>5. \A x : x \notin 1 .. m.size  BY <1>2
<1> QED  BY <1>2, <1>3, <1>4, <1>5 DEF LossInv, Sane

LEMMA LossInvInsert ==
  ASSUME LossInv, NEW k \in Keys, insert(k) \/ index(k)
  PROVE  LossInv'
<1>1. status = "ok" /\ m.size < MaxNodes /\ k \in Nat  BY MapAssumption DEF insert, index
<1>2. CASE Searchable(m)
  <2>1. m.head # NULL  BY <1>2, SearchableHead
  <2>2. CASE InsertBelowHead(k)
    <3>1. Searchable(m')  BY <1>1, <1>2, <2>2, InsertStaysSearchable
    <3> QED  BY <3>1 DEF LossInv
  <2>3. CASE m' = m  BY <1>2, <2>3 DEF LossInv
  <2> QED  BY <2>1, <2>2, <2>3 DEF insert, index
<1>3. CASE m.head = NULL /\ Sane(m) /\ m.size = 0
  <2>1. m \in Memory /\ 0 < MaxNodes  BY <1>1, <1>3 DEF Sane
  <2>2. m.red \in SUBSET Nodes /\ m.red \cup {m.size + 1} \in SUBSET Nodes
    BY <1>1, <2>1, MapAssumption DEF Memory, Nodes
  <2>3. \E R \in SUBSET Nodes :
          m' = [Allocated(k) EXCEPT !.head = m.size + 1, !.prev[m.size + 1] = m.size + 1, !.red = R]
    <3>1. CASE insert(k)
      <4>1. m' = [Allocated(k) EXCEPT !.head = m.size + 1, !.prev[m.size + 1] = m.size + 1]
        BY <1>3, <3>1 DEF insert
      <4>2. m' = [Allocated(k) EXCEPT !.head = m.size + 1, !.prev[m.size + 1] = m.size + 1,
                                      !.red = m.red]
        BY <2>1, <4>1 DEF Allocated, Memory
      <4> QED  BY <2>2, <4>2
    <3>2. CASE index(k)
      <4>1. m' = [Allocated(k) EXCEPT !.head = m.size + 1, !.prev[m.size + 1] = m.size + 1,
                                      !.red = m.red \cup {m.size + 1}]
        BY <1>3, <3>2 DEF index, Allocated
      <4> QED  BY <2>2, <4>1
    <3> QED  BY <3>1, <3>2
  <2>4. PICK R \in SUBSET Nodes :
          m' = [Allocated(k) EXCEPT !.head = m.size + 1, !.prev[m.size + 1] = m.size + 1, !.red = R]
    BY <2>3
  <2>5. Begins(k, m') /\ m'.freed = m.freed
    <3>1. m.size + 1 \in Nodes /\ m.size + 1 \in 0 .. MaxNodes
      BY <1>1, <2>1, MapAssumption DEF Memory, Nodes
    <3> QED  BY <1>1, <2>1, <2>4, <3>1 DEF Begins, Allocated, Memory
  <2>6. Searchable(m')  BY <1>1, <1>3, <2>1, <2>5, FirstSearchable
  <2> QED  BY <2>6 DEF LossInv
<1> QED  BY <1>1, <1>2, <1>3 DEF LossInv

LEMMA LossInvErase ==
  ASSUME LossInv, NEW k \in Keys, erase(k)
  PROVE  LossInv'
<1> SUFFICES ASSUME status' = "ok" PROVE Searchable(m')  BY DEF LossInv
<1> DEFINE n == find(m, k)
<1>1. status = "ok" /\ k \in Nat /\ m.head # NULL  BY MapAssumption DEF erase
<1>2. Searchable(m)  BY <1>1 DEF LossInv
<1>3. CASE n = NULL
  <2>1. m' = m  BY <1>1, <1>3 DEF erase
  <2> QED  BY <1>2, <2>1
<1>4. CASE n # NULL
  <2>1. /\ m' = Erased(n) /\ ~Dangling(m')
        /\ ~(~IsRoot(m, n) /\ n \in m.red /\ successor(n) # NULL /\ Left(successor(n)) = NULL)
    BY <1>1, <1>4 DEF erase
  <2>2. Sane(m) /\ \E T \in SUBSET Nodes, e \in Bounds, B \in Nat : Loose(m, T, e, B)
    BY <1>2 DEF Searchable
  <2>3. PICK T \in SUBSET Nodes, e \in Bounds, B \in Nat : Loose(m, T, e, B)  BY <2>2
  <2>4. PICK f \in Bounds, C \in Nat : Loose(m, T, f, C) /\ Ends(m, T, f, k, Path(m, k), Last(Path(m, k)))
    BY <1>1, <2>2, <2>3, Seeks
  <2>5. n = Last(Path(m, k))  BY <1>1, <1>4 DEF find
  <2> HIDE DEF n
  <2>6. n \in T  BY <2>4, <2>5 DEF Ends
  <2>7. ~Dangling(Erased(n))  BY <2>1
  <2>8. Searchable(Erased(n))  BY <2>1, <2>2, <2>4, <2>6, <2>7, ErasedSearchable
  <2> QED  BY <2>1, <2>8
<1> QED  BY <1>3, <1>4

(* Whatever was inserted and erased, and even after nodes were lost, what  *)
(* head leads to can be searched, and no pointer in it is to a deleted or  *)
(* never created node: LossInv is an invariant.                            *)
THEOREM LossIsKept == Spec => []LossInv
<1>1. Init => LossInv  BY LossInvInit
<1>2. LossInv /\ [Next]_vars => LossInv'
  <2> SUFFICES ASSUME LossInv, [Next]_vars PROVE LossInv'  OBVIOUS
  <2>1. CASE UNCHANGED vars  BY <2>1 DEF vars, LossInv
  <2>2. CASE Next  BY <2>2, LossInvInsert, LossInvErase DEF Next
  <2> QED  BY <2>1, <2>2
<1> QED  BY <1>1, <1>2, PTL DEF Spec

(* The keys below a node are between its bounds. *)
LEMMA BelowWithin ==
  ASSUME m \in Memory, NEW T, NEW e \in Bounds, NEW B \in Nat, Frame(m, T, e, B), NEW c \in T,
         NEW d \in Below(c)
  PROVE  m.key[d] \in Nat /\ e["left"][c] < m.key[d] /\ m.key[d] < e["right"][c]
<1> DEFINE X == {y \in T : e["left"][c] <= e["left"][y] /\ e["right"][y] <= e["right"][c]}
<1>d. ASSUME NEW x \in T
      PROVE  /\ x \in Nodes /\ m.key[x] \in Nat /\ e["left"][x] \in Int /\ e["right"][x] \in Int
             /\ e["left"][x] < m.key[x] /\ m.key[x] < e["right"][x]
  BY FrameFacts
<1>1. ASSUME NEW y \in X, NEW s \in Side, NEW z, z = m.child[s][y], z # NULL PROVE z \in X
  <2>1. ChildIs(m, T, e, y, s, z)  BY <1>1, ChildBounds
  <2>2. z \in T /\ e["left"][y] <= e["left"][z] /\ e["right"][z] <= e["right"][y]
    BY <2>1 DEF ChildIs, Inside
  <2> QED  BY <1>d, <2>2
<1>2. Closed(X)  BY <1>1 DEF Closed
<1>3. c \in X /\ c \in Nodes  BY <1>d
<1> HIDE DEF X
<1>4. d \in X  BY <1>2, <1>3, BelowFacts
<1>5. d \in T /\ e["left"][c] <= e["left"][d] /\ e["right"][d] <= e["right"][c]  BY <1>4 DEF X
<1> QED  BY <1>d, <1>5

(* Whatever was inserted and erased, and even after keys were lost, what   *)
(* head reaches is a search tree: find ends, and finds every key in it.    *)
THEOREM StaysSearchable == Spec => []StaysASearchTree
<1>1. LossInv => StaysASearchTree
  <2> SUFFICES ASSUME LossInv, status = "ok", NEW n \in Tree
               PROVE  /\ \A d \in Below(Left(n)) : m.key[d] < m.key[n]
                      /\ \A d \in Below(Right(n)) : m.key[d] > m.key[n]
    BY DEF StaysASearchTree
  <2>1. Searchable(m)
    <3>1. m.head = NULL /\ Sane(m) => Tree = {}  BY BelowFacts DEF Tree, Sane
    <3> QED  BY <3>1 DEF LossInv
  <2>2. PICK T \in SUBSET Nodes, e \in Bounds, B \in Nat : Loose(m, T, e, B)  BY <2>1 DEF Searchable
  <2>3. Sane(m) /\ m \in Memory /\ Shape(m, T, e, B) /\ Frame(m, T, e, B)
    BY <2>1, <2>2 DEF Searchable, Sane, Loose, Shape
  <2>4. n \in T  BY <2>3, TreeIsT
  <2>5. /\ m.child["left"][n] \in T \cup {NULL} /\ m.child["right"][n] \in T \cup {NULL}
        /\ m.key[n] \in Nat
    BY <2>2, <2>3, <2>4, NodeFacts
  <2>6. ASSUME NEW s \in Side, NEW c, c = m.child[s][n], NEW d \in Below(c)
        PROVE  IF s = "left" THEN m.key[d] < m.key[n] ELSE m.key[d] > m.key[n]
    <3>1. c # NULL  BY <2>3, <2>6, BelowFacts
    <3>2. ChildIs(m, T, e, n, s, c)  BY <2>3, <2>4, <2>6, <3>1, ChildBounds
    <3>3. c \in T  BY <3>2 DEF ChildIs
    <3>4. m.key[d] \in Nat /\ e["left"][c] < m.key[d] /\ m.key[d] < e["right"][c]
      BY <2>3, <2>6, <3>3, BelowWithin
    <3>5. s = "left" \/ s = "right"  BY Sides
    <3> QED  BY <2>5, <3>2, <3>4, <3>5 DEF ChildIs
  <2> QED  BY <2>6, Sides DEF Left, Right
<1> QED  BY <1>1, LossIsKept, PTL DEF Spec
=============================================================================
