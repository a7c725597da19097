-------------------------------- MODULE Trie --------------------------------
(***************************************************************************)
(* The dictionary of Trie/homework1_trie/trie.cpp (the same code is in     *)
(* Network/homework_3/trie.cpp and search_server.cpp): a trie over the 26  *)
(* letters, and the priority queue of the words below a node.              *)
(* A node is the sequence of children[] indexes that leads to it from the  *)
(* root << >>; a trie is the function from its nodes to their fields.      *)
(* A char is its ASCII code.                                               *)
(***************************************************************************)
EXTENDS Integers, Sequences, SequencesExt, FiniteSets, Bags

CONSTANT ALPHABETS         \* 26: children of a node

ASSUME AlphabetAssumption == ALPHABETS \in 1 .. 26

SPACE == 32

tolower(c) == IF c \in 65 .. 90 THEN c + 32 ELSE c

toNumber(c) == tolower(c) - 97

Path(c) == [k \in DOMAIN c |-> toNumber(c[k])]

IsLetter(c)    == toNumber(c) \in 0 .. ALPHABETS - 1
LettersOnly(c) == \A k \in DOMAIN c : IsLetter(c[k])

(* The indexes on the way to node n, after the first skip of them, are     *)
(* letters: a walk over children[] from there can come to it.              *)
LettersAfter(n, skip) == \A k \in DOMAIN n : k > skip => n[k] \in 0 .. ALPHABETS - 1
OfLetters(n)          == LettersAfter(n, 0)

DeleteChar(s, ch) == SelectSeq(s, LAMBDA c : c # ch)

(* Two pointers that are no node: NULL, and one that cannot be followed.   *)
(* No char has these indexes.                                              *)
NULL_NODE == <<-1000>>
BAD_NODE  == <<-1001>>

(* word[], which neither the constructor nor insert terminates, may print  *)
(* with old memory after it; here it ends with the word.                   *)
NewNode == [terminal |-> FALSE, freq |-> 0, word |-> << >>]

EmptyTrie == [n \in {<< >>} |-> NewNode]

\* mutant: the frequency of the first of two equal words stays
insert_KeepsFreq(t, c, f) ==
  LET end == Path(c)
  IN  [n \in DOMAIN t \cup Prefixes(end) |->
         IF n = end /\ (n \in DOMAIN t => ~t[n].terminal)
         THEN [terminal |-> TRUE, freq |-> f, word |-> c]
         ELSE IF n \in DOMAIN t THEN t[n] ELSE NewNode]

(* Nodes for every prefix of c; the last one becomes, or stays, terminal   *)
(* and gets the frequency and spelling of this call.  An index outside of  *)
(* children[] reads, and when it finds 0 writes, memory before or after    *)
(* the node.  Here that memory belongs to nothing else, and the new node   *)
(* hangs where only find and insert look; the caller adds the other        *)
(* outcomes.                                                               *)
insert(t, c, f) ==
  LET end == Path(c)
  IN  [n \in DOMAIN t \cup Prefixes(end) |->
         IF n = end
         THEN [terminal |-> TRUE, freq |-> f, word |-> c]
         ELSE IF n \in DOMAIN t THEN t[n] ELSE NewNode]

(* How far find follows c, and whether the index it uses next is outside   *)
(* of children[].                                                          *)
Followed(t, c) ==
  CHOOSE k \in 0 .. Len(c) :
    /\ SubSeq(Path(c), 1, k) \in DOMAIN t
    /\ k < Len(c) => SubSeq(Path(c), 1, k + 1) \notin DOMAIN t

LeavesChildren(t, c) == LET k == Followed(t, c) IN k < Len(c) /\ ~IsLetter(c[k + 1])

(* What find(c) may return.  An index outside of children[] reads memory   *)
(* of the neighbouring objects: 0, a pointer to any node, or anything.     *)
find(t, c) == CASE Followed(t, c) = Len(c) -> {Path(c)}
                [] LeavesChildren(t, c)    -> DOMAIN t \cup {NULL_NODE, BAD_NODE}
                [] OTHER                   -> {NULL_NODE}

(* The loop over i goes through the cells of children[] alone. *)
traversal(t, n) == {m \in DOMAIN t : IsPrefix(n, m) /\ LettersAfter(m, Len(n)) /\ t[m].terminal}

(* The words search pushes when find returned found. *)
search(t, found) == SetToBag(IF found = NULL_NODE THEN {} ELSE traversal(t, found))
-----------------------------------------------------------------------------
(* priority_queue: a bag of terminal nodes, of which pop takes one with    *)
(* the highest frequency; equal frequencies come in any order.             *)

Ahead(t, a, b) == t[a].freq >= t[b].freq

BagOf(s) == [n \in Range(s) |-> Cardinality({k \in DOMAIN s : s[k] = n})]

(* What up to max calls of top and pop may give, in order. *)
TopWords(t, pq, max) ==
  {s \in UNION {[1 .. n -> BagToSet(pq)] : n \in 0 .. max} :
     /\ BagOf(s) \sqsubseteq pq
     /\ Len(s) < max => BagOf(s) = pq
     /\ \A j, k \in 1 .. Len(s) : j < k => Ahead(t, s[j], s[k])
     /\ \A k \in 1 .. Len(s), m \in BagToSet(pq (-) BagOf(s)) : Ahead(t, s[k], m)}
=============================================================================
