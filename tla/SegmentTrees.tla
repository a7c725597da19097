---------------------------- MODULE SegmentTrees ----------------------------
(***************************************************************************)
(* The two segment trees: Segment_tree/basic/segmentTree.c keeps the sums  *)
(* of an array's ranges, Segment_tree/min/rmq.cpp the minima of a vector's.*)
(* Node 1 stands for the whole range and the halves of node k's range are  *)
(* those of 2k and 2k + 1.  Each of the trees is a function from its nodes.*)
(* A recursive function is one of the code's, from a cell, the arguments   *)
(* start, end and node of a call, to what the call does to a tree.         *)
(***************************************************************************)
EXTENDS Integers, FiniteSets, FiniteSetsExt

CONSTANTS Size,            \* of segmentTree.c's array
          Arrays,          \* what it may hold at first
          Difs,            \* what update may add
          N,               \* rmq.cpp's global
          Vectors,         \* what RMQ may be constructed from
          Values,          \* what its update may write
          Limit            \* bound: elements of array stay within -Limit .. Limit

INT_MAX == 2147483647
Ints    == -INT_MAX - 1 .. INT_MAX

ASSUME SegmentAssumption ==
  /\ Size \in Nat \ {0} /\ N \in Nat \ {0} /\ Limit \in Nat /\ Difs \subseteq Int
  /\ Arrays \subseteq [0 .. Size - 1 -> Int]
  /\ \A v \in Vectors :
       /\ DOMAIN v # {} /\ IsFiniteSet(DOMAIN v)
       /\ v \in [0 .. Cardinality(DOMAIN v) - 1 -> Ints]
  /\ Values \subseteq Ints

VARIABLES array, tree,     \* segmentTree.c
          size, rangeMin,  \* RMQ: n and rangeMin
          given            \* history: the values RMQ was told

segmentVars == <<array, tree, size, rangeMin, given>>

Trees(k) == [0 .. 4 * k - 1 -> Int]

(* The cells of a tree of k elements: a node below 2p has at most the p-th *)
(* part of the range.                                                      *)
Cells(k) ==
  {c \in [start : 0 .. k - 1, end : 0 .. k - 1, node : 1 .. 4 * k - 1] :
     /\ c.start <= c.end
     /\ \E p \in 1 .. 2 * k : c.node < 2 * p /\ p * (c.end - c.start) <= k - 1}

Whole(k) == [start |-> 0, end |-> k - 1, node |-> 1]

Mid(c)   == (c.start + c.end) \div 2
LowerHalf(c) == [start |-> c.start, end |-> Mid(c), node |-> c.node * 2]
UpperHalf(c) == [start |-> Mid(c) + 1, end |-> c.end, node |-> c.node * 2 + 1]

Smaller(a, b) == IF a < b THEN a ELSE b
-----------------------------------------------------------------------------
(* init of segmentTree.c on a tree of zeroes. *)
init(a, k) ==
  LET fill[c \in Cells(k)] ==
        [t \in Trees(k) |->
           IF c.start = c.end THEN [t EXCEPT ![c.node] = a[c.start]]
           ELSE LET r == fill[UpperHalf(c)][fill[LowerHalf(c)][t]]
                IN  [r EXCEPT ![c.node] = r[c.node * 2] + r[c.node * 2 + 1]]]
  IN  fill[Whole(k)][[x \in 0 .. 4 * k - 1 |-> 0]]

sum(left, right) ==
  LET total[c \in Cells(Size)] ==
        CASE left > c.end \/ right < c.start -> 0
          [] left <= c.start /\ right >= c.end -> tree[c.node]
          [] OTHER -> total[LowerHalf(c)] + total[UpperHalf(c)]
  IN  total[Whole(Size)]

\* mutant: stops at a node whose range ends at the index
updated_Short(index, v) ==
  LET set[c \in Cells(Size)] ==
        [t \in Trees(Size) |->
           CASE (c.end = index /\ c.start < c.end) \/ c.end < index \/ c.start > index -> t
             [] c.start = c.end /\ c.start = index -> [t EXCEPT ![c.node] = v]
             [] OTHER -> LET r == set[UpperHalf(c)][set[LowerHalf(c)][t]]
                         IN  [r EXCEPT ![c.node] = r[c.node * 2] + r[c.node * 2 + 1]]]
  IN  set[Whole(Size)][tree]

(* The tree after update, where v is the element's new value. *)
updated(index, v) ==
  LET set[c \in Cells(Size)] ==
        [t \in Trees(Size) |->
           CASE c.end < index \/ c.start > index -> t
             [] c.start = c.end /\ c.start = index -> [t EXCEPT ![c.node] = v]
             [] OTHER -> LET r == set[UpperHalf(c)][set[LowerHalf(c)][t]]
                         IN  [r EXCEPT ![c.node] = r[c.node * 2] + r[c.node * 2 + 1]]]
  IN  set[Whole(Size)][tree]

update(index, dif) ==
  /\ array[index] + dif \in -Limit .. Limit
  /\ array' = [array EXCEPT ![index] = @ + dif]
  /\ tree' = updated(index, array[index] + dif)
  /\ UNCHANGED <<size, rangeMin, given>>
-----------------------------------------------------------------------------
(* rmq.cpp.  query and update take N for the number of elements.           *)
initMin(a, k) ==
  LET fill[c \in Cells(k)] ==
        [t \in Trees(k) |->
           IF c.start = c.end THEN [t EXCEPT ![c.node] = a[c.start]]
           ELSE LET r == fill[UpperHalf(c)][fill[LowerHalf(c)][t]]
                IN  [r EXCEPT ![c.node] = Smaller(r[c.node * 2], r[c.node * 2 + 1])]]
  IN  fill[Whole(k)][[x \in 0 .. 4 * k - 1 |-> 0]]

query(left, right) ==
  LET least[c \in Cells(N)] ==
        CASE right < c.start \/ left > c.end -> INT_MAX
          [] left <= c.start /\ right >= c.end -> rangeMin[c.node]
          [] OTHER -> Smaller(least[LowerHalf(c)], least[UpperHalf(c)])
  IN  least[Whole(N)]

\* mutant: a minimum can only go down
updatedMin_Down(index, v) ==
  LET set[c \in Cells(N)] ==
        [t \in Trees(size) |->
           CASE c.start = c.end /\ c.start = index -> [t EXCEPT ![c.node] = v]
             [] index < c.start \/ index > c.end -> t
             [] OTHER -> LET r == set[UpperHalf(c)][set[LowerHalf(c)][t]]
                         IN  [r EXCEPT ![c.node] = Smaller(@, v)]]
  IN  set[Whole(N)][rangeMin]

updatedMin(index, v) ==
  LET set[c \in Cells(N)] ==
        [t \in Trees(size) |->
           CASE c.start = c.end /\ c.start = index -> [t EXCEPT ![c.node] = v]
             [] index < c.start \/ index > c.end -> t
             [] OTHER -> LET r == set[UpperHalf(c)][set[LowerHalf(c)][t]]
                         IN  [r EXCEPT ![c.node] = Smaller(r[c.node * 2], r[c.node * 2 + 1])]]
  IN  set[Whole(N)][rangeMin]

updateMin(index, newValue) ==
  /\ rangeMin' = updatedMin(index, newValue)
  /\ given' = [given EXCEPT ![index] = newValue]
  /\ UNCHANGED <<array, tree, size>>
-----------------------------------------------------------------------------
SegmentInit ==
  /\ array \in Arrays /\ tree = init(array, Size)
  /\ given \in Vectors /\ size = Cardinality(DOMAIN given)
  /\ rangeMin = initMin(given, size)

SegmentNext ==
  \/ \E x \in 0 .. Size - 1, d \in Difs : update(x, d)
  \/ \E x \in 0 .. size - 1, v \in Values : updateMin(x, v)

SegmentSpec == SegmentInit /\ [][SegmentNext]_segmentVars
-----------------------------------------------------------------------------
(* The elements from l to r of a, added up.                                *)
SumOf(a, l, r) == MapThenSumSet(LAMBDA x : a[x], l .. r)

(* After any updates, every range's sum is that of its elements.           *)
SumIsRight ==
  \A l \in 0 .. Size - 1 : \A r \in l .. Size - 1 : sum(l, r) = SumOf(array, l, r)

(* After any updates, every query gives the least element of its range,    *)
(* if the vector is as long as the global N says.                          *)
QueryIsTheMinimum ==
  size = N => \A l \in 0 .. size - 1 : \A r \in l .. size - 1 :
                LET q == query(l, r)
                IN  /\ \E x \in l .. r : given[x] = q
                    /\ \A x \in l .. r : given[x] >= q
=============================================================================
