------------------------------ MODULE Suggest -------------------------------
(***************************************************************************)
(* main of Trie/homework1_trie/trie.cpp: the dictionary is read from       *)
(* data.txt, then after every key the most frequent words that begin with  *)
(* what has been typed are shown.                                          *)
(***************************************************************************)
EXTENDS WordList

VARIABLE pc                \* "load", "typing", "quit", "crashed" or "undefined"

vars == <<file, lineno, root, pq, queryStr, shown, pc>>

(* What is on the screen is given by the nodes whose words are shown, from *)
(* row 3 down.                                                             *)
Init == InitWords /\ pc = "load"

LoadLine ==
  /\ pc = "load"
  /\ Load
  /\ pc' \in AfterLoad(IF AnotherTurn THEN "load" ELSE "typing")
  /\ UNCHANGED <<file, pq, queryStr, shown>>

\* mutant: what is left in the queue stays there
Refresh_KeepsQueue(q) ==
  /\ queryStr' = q
  /\ \E found \in IF q = << >> THEN {NULL_NODE} ELSE find(root, q) :
       IF found = BAD_NODE
       THEN pc' = "crashed" /\ UNCHANGED <<pq, shown>>
       ELSE LET pushed == pq (+) search(root, found)
            IN  \E s \in TopWords(root, pushed, MaxShown) :
                  shown' = s /\ pq' = pushed (-) BagOf(s) /\ UNCHANGED pc
  /\ UNCHANGED <<file, lineno, root>>

(* What every accepted key does, once the search line is q. *)
Refresh(q) ==
  /\ queryStr' = q
  /\ \E found \in IF q = << >> THEN {NULL_NODE} ELSE find(root, q) :
       IF found = BAD_NODE
       THEN pc' = "crashed" /\ pq' = EmptyBag /\ UNCHANGED shown
       ELSE /\ shown' \in TopWords(root, search(root, found), MaxShown)
            /\ pq' = EmptyBag
            /\ UNCHANGED pc
  /\ UNCHANGED <<file, lineno, root>>

Type == /\ pc = "typing" /\ Len(queryStr) < MaxQuery
        /\ \E ch \in Keys : Refresh(Append(queryStr, ch))

Backspace == pc = "typing" /\ Refresh(Erased)

Escape == pc = "typing" /\ pc' = "quit" /\ UNCHANGED <<file, lineno, root, pq, queryStr, shown>>

Next == LoadLine \/ Type \/ Backspace \/ Escape

Spec == Init /\ [][Next]_vars
-----------------------------------------------------------------------------
TypeOK ==
  /\ file \in Files /\ lineno \in 1 .. Turns + 1
  /\ \A n \in DOMAIN root : root[n].terminal \in BOOLEAN
  /\ DOMAIN pq \subseteq DOMAIN root
  /\ Len(queryStr) <= MaxQuery
  /\ \A k \in DOMAIN shown : shown[k] \in DOMAIN root
  /\ pc \in {"load", "typing", "quit", "crashed", "undefined"}

(* The nodes form a tree, in which the terminal nodes a walk over          *)
(* children[] comes to, the root left out, spell exactly the words of the  *)
(* file, with their frequencies.                                           *)
TrieHoldsTheFile ==
  pc = "typing" =>
    LET words == {n \in DOMAIN root \ {<< >>} : OfLetters(n) /\ root[n].terminal}
    IN  /\ \A n \in DOMAIN root : Prefixes(n) \subseteq DOMAIN root
        /\ {Lower(root[n].word) : n \in words} = Dictionary
        /\ Cardinality(words) = Cardinality(Dictionary)
        /\ \A n \in words : root[n].freq = FreqOf(Lower(root[n].word))

(* Whatever was typed and deleted before, spaces included: when the search *)
(* line holds letters only, the screen shows words that begin with it, the *)
(* most frequent first, as many as there are up to ten, and no word that   *)
(* is left out is more frequent than one that is shown.                    *)
ShowsTheMostFrequent ==
  pc = "typing" /\ LettersOnly(queryStr) =>
    LET matching == IF queryStr = << >> THEN {}
                    ELSE {w \in Dictionary : IsPrefix(Lower(queryStr), w)}
        words    == [k \in DOMAIN shown |-> Lower(root[shown[k]].word)]
        listed   == {words[k] : k \in DOMAIN words}
    IN  /\ listed \subseteq matching
        /\ Len(words) = Cardinality(listed)
        /\ Len(words) < MaxShown => listed = matching
        /\ \A j, k \in DOMAIN words : j < k => FreqOf(words[j]) >= FreqOf(words[k])
        /\ \A w \in matching \ listed, v \in listed : FreqOf(v) >= FreqOf(w)
=============================================================================
