------------------------------- MODULE RBMap --------------------------------
(***************************************************************************)
(* Red-Black tree/homework2/rb.cpp: my_map, a map kept in a tree of nodes  *)
(* with parent pointers.  One action is one call on the map.  A node is a  *)
(* number given out by new; values are left out, keys are compared as      *)
(* numbers.  The code for the two directions is the same up to exchanging  *)
(* left and right, and where it is not the definition says so: s is the    *)
(* side a node hangs on, Other(s) the opposite one.                        *)
(***************************************************************************)
EXTENDS Integers, FiniteSets, SequencesExt

CONSTANTS Keys,            \* the keys, in the order of strcmp
          MaxNodes         \* bound: calls of new

ASSUME MapAssumption == Keys \subseteq Nat /\ MaxNodes \in Nat

Nodes == 1 .. MaxNodes
NULL  == 0
Side  == {"left", "right"}
Other(s) == IF s = "left" THEN "right" ELSE "left"

VARIABLES
  m,                       \* head and the fields of the nodes; size counts the calls of new
  status,                  \* "ok", or how the program ended
  keys,                    \* history: the keys asked for, while intact
  intact                   \* history: no call so far was one of those below that lose keys

vars == <<m, status, keys, intact>>

Init ==
  /\ m = [head |-> NULL, size |-> 0, red |-> {}, freed |-> {},
          key   |-> [n \in Nodes |-> 0],
          child |-> [s \in Side |-> [n \in Nodes |-> NULL]],
          prev  |-> [n \in Nodes |-> NULL]]
  /\ status = "ok" /\ keys = {} /\ intact = TRUE

IsRoot(t, n) == t.prev[n] = n

Asked(ks) == keys' = IF intact' THEN ks ELSE {}

\* mutant: the arguments of strcmp are exchanged
SideOf_Swapped(t, n, k) == IF t.key[n] > k THEN "right" ELSE "left"

SideOf(t, n, k) == IF t.key[n] < k THEN "right" ELSE "left"

(* The nodes a search for k passes from head down, the last one included.  *)
(* Here and below a loop or recursion of the code takes at most as many    *)
(* steps as there are nodes: with more it would not end.                   *)
Path(t, k) ==
  LET path[j \in 0 .. MaxNodes] ==
        IF j = 0 THEN <<t.head>>
        ELSE LET passed == path[j - 1]
                 n      == Last(passed)
                 below  == t.child[SideOf(t, n, k)][n]
             IN  IF t.key[n] = k \/ below = NULL THEN passed ELSE Append(passed, below)
  IN  path[MaxNodes]

(* The node find returns, NULL for end(). *)
find(t, k) ==
  LET n == IF t.head = NULL THEN NULL ELSE Last(Path(t, k))
  IN  IF n # NULL /\ t.key[n] = k THEN n ELSE NULL
-----------------------------------------------------------------------------
(* Insertion.                                                              *)

(* rotationL (s = "left") and rotationR: up takes the place of down, as    *)
(* far as these two know.  down's parent still points to down.             *)
Rotate(t, s, down, up) ==
  [t EXCEPT !.child[s][up] = down, !.child[Other(s)][down] = t.child[s][up],
            !.prev[down] = up, !.prev[up] = t.prev[down]]

\* mutant: the link of the grandparent is forgotten
Relink_Not(t, n, s) == t

(* After the rotation at prev the grandparent is pointed at n; when prev   *)
(* was the root there is none, and head is not updated.                    *)
Relink(t, n, s) ==
  LET p == t.prev[n]
      down == t.child[Other(s)][n]
      held == {side \in Side : t.child[side][p] = down}
  IN  IF held = {} THEN t
      ELSE [t EXCEPT !.child[IF "right" \in held THEN "right" ELSE "left"][p] = n]

(* prev, n and new are bent: n is not its parent's child on side s.        *)
Bent(t, n, s)  == t.child[s][t.prev[n]] # n
Uncle(t, n, s) == t.child[IF Bent(t, n, s) THEN s ELSE Other(s)][t.prev[n]]

\* mutant: recolors, but never rotates
Attach_NoRotation(old, n, new, s) ==
  LET t == [old EXCEPT !.red = @ \cup {new}, !.prev[new] = n, !.child[s][n] = new]
      u == Uncle(t, n, s)
  IN  IF IsRoot(t, n) \/ ~({n, u} \subseteq t.red) THEN t
      ELSE [t EXCEPT !.red = (@ \ {n, u}) \cup {t.prev[n]}]

(* The branches of insert where n has no child on side s. *)
Attach(old, n, new, s) ==
  LET t == [old EXCEPT !.red = @ \cup {new}, !.prev[new] = n, !.child[s][n] = new]
      p == t.prev[n]
      u == Uncle(t, n, s)
  IN  CASE IsRoot(t, n) -> t
        [] ~IsRoot(t, n) /\ u = NULL /\ Bent(t, n, s) ->
             \* rb.cpp:305 blackens new always, :384 only below a red n
             LET black   == IF s = "right" \/ n \in t.red THEN {new} ELSE {}
                 rotated == Rotate([t EXCEPT !.red = @ \ black], Other(s), n, new)
             IN  Rotate(rotated, s, rotated.prev[new], new)
        [] ~IsRoot(t, n) /\ u = NULL /\ ~Bent(t, n, s) ->
             Relink(Rotate([t EXCEPT !.red = @ \ {n}], Other(s), p, n), n, s)
        [] ~IsRoot(t, n) /\ u # NULL ->
             IF n \notin t.red THEN t
             ELSE IF u \in t.red THEN [t EXCEPT !.red = (@ \ {n, u}) \cup {p}]
             ELSE Rotate([t EXCEPT !.red = @ \ {n}], Other(s), n, new)

(* The rotations after which no pointer leads from head to all nodes, or   *)
(* the child handed over from n to its parent still points to n.           *)
LosesNodes(t, n, s) ==
  LET u == Uncle(t, n, s)
  IN  /\ ~IsRoot(t, n)
      /\ IF u = NULL THEN \/ Bent(t, n, s) \/ IsRoot(t, t.prev[n])
                          \/ t.child[Other(s)][n] # NULL
         ELSE n \in t.red /\ u \notin t.red

(* On the way back, at a node n above the new one's parent. *)
NullUncle(t, n) ==
  LET p == t.prev[n]
  IN  n \in t.red /\ n # t.head /\ \E s \in Side : t.child[s][p] = n /\ t.child[Other(s)][p] = NULL

Unwind(n, t) ==
  LET p  == t.prev[n]
      cs == {t.child[s][p] : s \in Side}
  IN  IF n \in t.red /\ n = t.head THEN [t EXCEPT !.red = @ \ {n}]
      ELSE IF n \in t.red /\ n \in cs /\ cs \subseteq t.red
      THEN [t EXCEPT !.red = (@ \ cs) \cup {p}]
      ELSE t

Allocated(k) == [m EXCEPT !.size = @ + 1, !.key[m.size + 1] = k]

(* A key that is there already is not inserted: the new node leaks. *)
InsertBelowHead(k) ==
  LET path == Path(m, k)
      n    == Last(path)
      s    == SideOf(m, n, k)
      done[j \in 0 .. Len(path) - 1] ==
        IF j = 0 THEN Attach(Allocated(k), n, m.size + 1, s)
        ELSE Unwind(path[Len(path) - j], done[j - 1])
  IN  IF m.key[n] = k THEN UNCHANGED <<m, status, intact>>
      ELSE /\ m' = done[Len(path) - 1]
           /\ status' = IF \E j \in 1 .. Len(path) - 1 : NullUncle(done[j - 1], path[Len(path) - j])
                        THEN "crash" ELSE "ok"
           /\ intact' = (intact /\ ~LosesNodes(m, n, s))

insert(k) ==
  /\ status = "ok" /\ m.size < MaxNodes
  /\ IF m.head = NULL
     THEN /\ m' = [Allocated(k) EXCEPT !.head = m.size + 1, !.prev[m.size + 1] = m.size + 1]
          /\ UNCHANGED <<status, intact>>
     ELSE InsertBelowHead(k)
  /\ Asked(keys \cup {k})

(* operator[] for writing: it makes a red root, and inserts only new keys. *)
index(k) ==
  /\ status = "ok" /\ m.size < MaxNodes
  /\ CASE m.head = NULL ->
            /\ m' = [Allocated(k) EXCEPT !.head = m.size + 1, !.prev[m.size + 1] = m.size + 1,
                                         !.red = @ \cup {m.size + 1}]
            /\ UNCHANGED <<status, intact>>
       [] m.head # NULL /\ find(m, k) = NULL -> InsertBelowHead(k)
       [] m.head # NULL /\ find(m, k) # NULL -> UNCHANGED <<m, status, intact>>
  /\ Asked(keys \cup {k})
-----------------------------------------------------------------------------
(* Erasure.                                                                *)

Left(n)  == m.child["left"][n]
Right(n) == m.child["right"][n]

(* Where the loops that follow one side's children from n end. *)
Outmost(n, s) ==
  LET out[j \in 0 .. MaxNodes] ==
        IF j = 0 THEN n
        ELSE LET x == out[j - 1] IN IF m.child[s][x] = NULL THEN x ELSE m.child[s][x]
  IN  out[MaxNodes]

successor(n) == IF Left(n) = NULL THEN NULL ELSE Outmost(Left(n), "right")

(* The fields of u are copied into n, u is deleted, and n's child on side  *)
(* s becomes u's left child.                                               *)
Replaced(n, u, s) ==
  [m EXCEPT !.key[n] = m.key[u], !.child[s][n] = Left(u), !.freed = @ \cup {u}]

Deleted(n) == [m EXCEPT !.freed = @ \cup {n}]

(* The root is deleted while head points to it; a red node is deleted; a   *)
(* black one is replaced below a red child, and else left where it is.     *)
Erased(n) ==
  LET u == successor(n)
      held == {s \in Side : m.child[s][m.prev[n]] = n}
  IN  CASE IsRoot(m, n) -> Deleted(n)
        [] ~IsRoot(m, n) /\ n \in m.red /\ u = NULL ->
             IF held = {} THEN Deleted(n)
             ELSE [Deleted(n) EXCEPT
                     !.child[IF "left" \in held THEN "left" ELSE "right"][m.prev[n]] = Right(n)]
        [] ~IsRoot(m, n) /\ n \in m.red /\ u # NULL ->
             [Replaced(n, u, "left") EXCEPT !.prev[Left(u)] = n]
        [] ~IsRoot(m, n) /\ n \notin m.red ->
             IF u = NULL THEN m
             ELSE IF Left(n) \in m.red THEN Replaced(n, u, "left")
             ELSE IF Right(n) \in m.red THEN Replaced(n, u, "right")
             ELSE m

(* The nodes erase removes cleanly: red leaves, and black nodes whose left *)
(* child is a red leaf.                                                    *)
RedLeaf(n) == n \in m.red /\ Left(n) = NULL /\ Right(n) = NULL
Erasable(n) == ~IsRoot(m, n) /\ (RedLeaf(n) \/ (n \notin m.red /\ Left(n) # NULL /\ RedLeaf(Left(n))))

(* A pointer to a deleted node is left: what later calls do is undefined.  *)
(* The pointers of all lost nodes count, as prev may lead to one; where    *)
(* none does, this ends the run earlier than it need.                      *)
Dangling(t) ==
  t.head \in t.freed \/
  \E n \in (1 .. t.size) \ t.freed :
    {t.prev[n], t.child["left"][n], t.child["right"][n]} \cap t.freed # {}

erase(k) ==
  LET n == find(m, k)
  IN  /\ status = "ok"
      /\ IF m.head = NULL THEN status' = "crash" /\ UNCHANGED <<m, intact>>
         ELSE IF n = NULL THEN UNCHANGED <<m, status, intact>>
         ELSE IF ~IsRoot(m, n) /\ n \in m.red /\ successor(n) # NULL /\ Left(successor(n)) = NULL
         THEN status' = "crash" /\ UNCHANGED <<m, intact>>
         ELSE /\ m' = Erased(n)
              /\ status' = IF Dangling(m') THEN "undefined" ELSE "ok"
              /\ intact' = (intact /\ Erasable(n))
      /\ Asked(keys \ {k})

Next == \E k \in Keys : insert(k) \/ index(k) \/ erase(k)

Spec == Init /\ [][Next]_vars
-----------------------------------------------------------------------------
(* The iterator and print_map.                                             *)

begin(n) == Outmost(n, "left")

\* mutant: a right child ends the walk
Climb_Ends(n, s) == IF s = "left" THEN m.prev[n] ELSE NULL

(* The loops of operator++ that walk up from a child on side s: they end   *)
(* where the path bends, or below the root.                                *)
Bends(x, s)  == m.prev[x] = m.child[Other(s)][m.prev[m.prev[x]]]
Climb(n, s) ==
  LET up[j \in 0 .. MaxNodes] ==
        IF j = 0 THEN n
        ELSE LET x == up[j - 1]
             IN  IF Bends(x, s) \/ IsRoot(m, m.prev[m.prev[x]]) THEN x ELSE m.prev[x]
      p == m.prev[up[MaxNodes]]
  IN  CASE s = "left" -> p
        [] s = "right" /\ Bends(up[MaxNodes], s) -> m.prev[p]
        [] s = "right" /\ ~Bends(up[MaxNodes], s) -> NULL

(* operator++. *)
After(n) ==
  LET p == m.prev[n]
  IN  CASE Right(n) # NULL -> begin(Right(n))
        [] Right(n) = NULL /\ IsRoot(m, n) -> NULL
        [] Right(n) = NULL /\ ~IsRoot(m, n) /\ IsRoot(m, p) -> IF n = Right(p) THEN NULL ELSE p
        [] Right(n) = NULL /\ ~IsRoot(m, n) /\ ~IsRoot(m, p) ->
             Climb(n, IF n = Left(p) THEN "left" ELSE "right")

print_map ==
  LET printed[j \in 0 .. MaxNodes] ==
        IF j = 0 THEN <<begin(m.head)>>
        ELSE LET out == printed[j - 1]
                 n   == After(Last(out))
             IN  IF n = NULL THEN out ELSE Append(out, n)
  IN  printed[MaxNodes]
-----------------------------------------------------------------------------
(* The nodes that child pointers lead to from n, with n. *)
Below(n) ==
  LET found[j \in 0 .. MaxNodes] ==
        IF j = 0 THEN {n} \ {NULL}
        ELSE LET nodes == found[j - 1]
             IN  nodes \cup ({m.child[s][x] : s \in Side, x \in nodes} \ {NULL})
  IN  found[MaxNodes]
Tree == Below(m.head)

TypeOK ==
  /\ m.head \in Nodes \cup {NULL} /\ m.size \in 0 .. MaxNodes
  /\ m.key \in [Nodes -> Keys \cup {0}]
  /\ m.child \in [Side -> [Nodes -> Nodes \cup {NULL}]]
  /\ m.prev \in [Nodes -> Nodes \cup {NULL}]
  /\ m.red \subseteq Nodes /\ m.freed \subseteq Nodes
  /\ status \in {"ok", "crash", "undefined"} /\ keys \subseteq Keys

(* After any insertions, those that lose keys included, and any erasures,  *)
(* up to one that leaves a pointer to a deleted node, what head reaches is *)
(* a search tree: find ends, and finds every key in it.                    *)
StaysASearchTree ==
  status = "ok" =>
    \A n \in Tree : /\ \A d \in Below(Left(n)) : m.key[d] < m.key[n]
                    /\ \A d \in Below(Right(n)) : m.key[d] > m.key[n]

(* As long as no call was one of those that lose keys, the map holds       *)
(* exactly the keys asked for, and every node points to its parent.        *)
HoldsItsKeys ==
  status = "ok" /\ intact =>
    /\ {m.key[n] : n \in Tree} = keys
    /\ \A n \in Tree, s \in Side : m.child[s][n] # NULL => m.prev[m.child[s][n]] = n

(* print_map of such a map ends and prints keys in ascending order, each   *)
(* once; it leaves out only keys in the left subtree-with-root of a node   *)
(* other than the root, where left children hang two in a row.             *)
LeftRun(n) == ~IsRoot(m, m.prev[n]) /\ n = Left(m.prev[n]) /\ Left(n) # NULL

PrintsInOrder ==
  status = "ok" /\ intact /\ m.head # NULL =>
    LET out == print_map
    IN  /\ \A j \in 2 .. Len(out) : m.key[out[j - 1]] < m.key[out[j]]
        /\ \A n \in Tree : \/ \E j \in DOMAIN out : out[j] = n
                           \/ \E a \in Tree : LeftRun(a) /\ n \in Below(a)

(* As long as no keys were lost and nothing was erased, the uncles insert  *)
(* looks at on its way back are never NULL: insert and operator[] do not   *)
(* crash.                                                                  *)
InsertNeverCrashes ==
  [][intact /\ m.freed = {} => \A k \in Keys : insert(k) \/ index(k) => status' = "ok"]_vars
=============================================================================
