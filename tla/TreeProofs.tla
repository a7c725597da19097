----------------------------- MODULE TreeProofs -----------------------------
(***************************************************************************)
(* The trie holds data.txt, for every file; and what it shows, in the      *)
(* suggestion program and over the network, is right for every line typed. *)
(* The segment trees give the sum and the least element of every range.    *)
(***************************************************************************)
EXTENDS Suggest, SearchNet, SegmentTrees, SequenceTheorems, FiniteSetTheorems,
        FunctionTheorems, WellFoundedInduction, TLAPS
-----------------------------------------------------------------------------
(* Words, paths and prefixes.                                              *)

LEMMA FirstExists ==
  ASSUME NEW I, I \subseteq Nat, I # {}
  PROVE  \E x \in I : \A y \in I : x <= y
<1> DEFINE R == OpToRel(<, Nat)
<1>1. IsWellFoundedOn(R, Nat)  BY NatLessThanWellFounded
<1>2. \A x, y \in Nat : y < x => <<y, x>> \in R  BY DEF OpToRel
<1> HIDE DEF R
<1>3. PICK x \in I : \A y \in I : ~(<<y, x>> \in R)
  BY <1>1, WFMin
<1>4. ASSUME NEW y \in I PROVE x <= y
  <2>1. x \in Nat /\ y \in Nat  OBVIOUS
  <2>2. ~(y < x)  BY <1>2, <1>3, <2>1
  <2> QED  BY <2>1, <2>2
<1> QED  BY <1>4

LEMMA FirstsOf ==
  ASSUME NEW S, NEW s \in Seq(S), NEW n \in 0 .. Len(s)
  PROVE  /\ SubSeq(s, 1, n) \in Seq(S) /\ Len(SubSeq(s, 1, n)) = n
         /\ \A k \in 1 .. n : SubSeq(s, 1, n)[k] = s[k]
<1>1. Len(s) \in Nat /\ \A k \in 1 .. Len(s) : s[k] \in S  BY LenProperties, ElementOfSeq
<1>2. n \in Int /\ \A k \in 1 .. n : s[k] \in S  BY <1>1
<1>3. /\ SubSeq(s, 1, n) \in Seq(S)
      /\ Len(SubSeq(s, 1, n)) = IF 1 <= n THEN n - 1 + 1 ELSE 0
      /\ \A k \in 1 .. n - 1 + 1 : SubSeq(s, 1, n)[k] = s[1 + k - 1]
  BY <1>2, SubSeqProperties
<1> DEFINE t == SubSeq(s, 1, n)
<1> HIDE DEF t
<1>4. t \in Seq(S) /\ Len(t) = n  BY <1>1, <1>3 DEF t
<1>5. ASSUME NEW k \in 1 .. n PROVE t[k] = s[k]
  <2>1. k \in 1 .. n - 1 + 1 /\ 1 + k - 1 = k  BY <1>1
  <2> QED  BY <1>3, <2>1 DEF t
<1> QED  BY <1>4, <1>5 DEF t

LEMMA SameFirsts ==
  ASSUME NEW S, NEW s \in Seq(S), NEW t \in Seq(S), NEW n \in 0 .. Len(s), n <= Len(t)
  PROVE  SubSeq(s, 1, n) = SubSeq(t, 1, n) <=> \A k \in 1 .. n : s[k] = t[k]
<1>1. Len(s) \in Nat /\ Len(t) \in Nat  BY LenProperties
<1>2. n \in 0 .. Len(t)  BY <1>1
<1> DEFINE a == SubSeq(s, 1, n)
           b == SubSeq(t, 1, n)
<1>3. a \in Seq(S) /\ Len(a) = n /\ \A k \in 1 .. n : a[k] = s[k]  BY FirstsOf
<1>4. b \in Seq(S) /\ Len(b) = n /\ \A k \in 1 .. n : b[k] = t[k]  BY <1>2, FirstsOf
<1> HIDE DEF a, b
<1>5. a = b <=> \A k \in 1 .. n : a[k] = b[k]  BY <1>3, <1>4, SeqEqual
<1> QED  BY <1>3, <1>4, <1>5 DEF a, b

LEMMA PrefixOf ==
  ASSUME NEW S, NEW s \in Seq(S), NEW t \in Seq(S)
  PROVE  IsPrefix(s, t) <=> Len(s) <= Len(t) /\ \A k \in 1 .. Len(s) : s[k] = t[k]
<1>1. Len(s) \in Nat /\ Len(s) \in 0 .. Len(s)  BY LenProperties
<1>2. CASE Len(s) <= Len(t)  BY <1>1, <1>2, SameFirsts DEF IsPrefix
<1> QED  BY <1>2 DEF IsPrefix

LEMMA FunctionIsSeq ==
  ASSUME NEW S, NEW n \in Nat, NEW f \in [1 .. n -> S]
  PROVE  f \in Seq(S) /\ Len(f) = n
<1>1. f \in Seq(S)  BY SeqDef
<1>2. DOMAIN f = 1 .. n /\ DOMAIN f = 1 .. Len(f) /\ Len(f) \in Nat  BY <1>1, LenProperties
<1>3. Len(f) = n
  <2> DEFINE m == Len(f)
  <2> HIDE DEF m
  <2>1. m \in Nat /\ 1 .. n = 1 .. m  BY <1>2 DEF m
  <2>2. m = n  BY <2>1
  <2> QED  BY <2>2 DEF m
<1> QED  BY <1>1, <1>3

(* The chars of a word, folded and as indexes. *)
LEMMA PathOf ==
  ASSUME NEW c \in Seq(Nat)
  PROVE  /\ Path(c) \in Seq(Int) /\ Len(Path(c)) = Len(c)
         /\ Lower(c) \in Seq(Int) /\ Len(Lower(c)) = Len(c)
         /\ Len(c) \in Nat
         /\ \A k \in 1 .. Len(c) : Path(c)[k] = toNumber(c[k]) /\ Lower(c)[k] = Path(c)[k] + 97
         /\ Path(c) = << >> <=> c = << >>
<1>1. Len(c) \in Nat /\ DOMAIN c = 1 .. Len(c) /\ \A k \in 1 .. Len(c) : c[k] \in Nat
  BY LenProperties, ElementOfSeq
<1>2. \A k \in 1 .. Len(c) : tolower(c[k]) \in Int /\ toNumber(c[k]) = tolower(c[k]) - 97
  BY <1>1 DEF tolower, toNumber
<1>3. Path(c) = [k \in 1 .. Len(c) |-> toNumber(c[k])]  BY <1>1 DEF Path
<1>4. Lower(c) = [k \in 1 .. Len(c) |-> tolower(c[k])]  BY <1>1 DEF Lower
<1>5. Path(c) \in [1 .. Len(c) -> Int] /\ Lower(c) \in [1 .. Len(c) -> Int]
  BY <1>2, <1>3, <1>4
<1>6. Path(c) \in Seq(Int) /\ Lower(c) \in Seq(Int) /\ Len(Path(c)) = Len(c) /\ Len(Lower(c)) = Len(c)
  BY <1>1, <1>5, FunctionIsSeq
<1>8. \A k \in 1 .. Len(c) : Path(c)[k] = toNumber(c[k]) /\ Lower(c)[k] = Path(c)[k] + 97
  BY <1>2, <1>3, <1>4
<1>9. Path(c) = << >> <=> c = << >>
  <2> DEFINE p == Path(c)
  <2> HIDE DEF p
  <2>1. p \in Seq(Int) /\ Len(p) = Len(c)  BY <1>6 DEF p
  <2>2. p = << >> <=> Len(p) = 0  BY <2>1, EmptySeq
  <2>3. c = << >> <=> Len(c) = 0  BY EmptySeq
  <2> QED  BY <2>1, <2>2, <2>3 DEF p
<1> QED  BY <1>1, <1>6, <1>8, <1>9

LEMMA SamePath ==
  ASSUME NEW c \in Seq(Nat), NEW d \in Seq(Nat)
  PROVE  /\ Lower(c) = Lower(d) <=> Path(c) = Path(d)
         /\ IsPrefix(Lower(c), Lower(d)) <=> IsPrefix(Path(c), Path(d))
<1>0. \A s, t \in Seq(Int) :
        IsPrefix(s, t) <=> Len(s) <= Len(t) /\ \A k \in 1 .. Len(s) : s[k] = t[k]
  BY PrefixOf
<1>1. /\ Path(c) \in Seq(Int) /\ Lower(c) \in Seq(Int) /\ Len(Path(c)) = Len(Lower(c))
      /\ \A k \in 1 .. Len(c) : Lower(c)[k] = Path(c)[k] + 97
      /\ Len(c) \in Nat /\ Len(Path(c)) = Len(c)
  BY PathOf
<1>2. /\ Path(d) \in Seq(Int) /\ Lower(d) \in Seq(Int) /\ Len(Path(d)) = Len(Lower(d))
      /\ \A k \in 1 .. Len(d) : Lower(d)[k] = Path(d)[k] + 97
      /\ Len(d) \in Nat /\ Len(Path(d)) = Len(d)
  BY PathOf
<1> DEFINE p == Path(c)
           q == Path(d)
           l == Lower(c)
           m == Lower(d)
<1> HIDE DEF p, q, l, m
<1>3. \A k \in 1 .. Len(c) : p[k] \in Int /\ l[k] = p[k] + 97  BY <1>1, ElementOfSeq DEF p, l
<1>4. \A k \in 1 .. Len(d) : q[k] \in Int /\ m[k] = q[k] + 97  BY <1>2, ElementOfSeq DEF q, m
<1>5. ASSUME NEW k \in 1 .. Len(c), k <= Len(d) PROVE p[k] = q[k] <=> l[k] = m[k]
  <2>1. k \in 1 .. Len(d)  BY <1>1, <1>2, <1>5
  <2>2. p[k] \in Int /\ l[k] = p[k] + 97 /\ q[k] \in Int /\ m[k] = q[k] + 97
    BY <1>3, <1>4, <2>1
  <2> QED  BY <2>2
<1>6. l = m <=> Len(c) = Len(d) /\ \A k \in 1 .. Len(c) : l[k] = m[k]
  <2>1. l \in Seq(Int) /\ m \in Seq(Int) /\ Len(l) = Len(c) /\ Len(m) = Len(d)
    BY <1>1, <1>2 DEF l, m
  <2> QED  BY <2>1, SeqEqual
<1>7. p = q <=> Len(c) = Len(d) /\ \A k \in 1 .. Len(c) : p[k] = q[k]
  <2>1. p \in Seq(Int) /\ q \in Seq(Int) /\ Len(p) = Len(c) /\ Len(q) = Len(d)
    BY <1>1, <1>2 DEF p, q
  <2> QED  BY <2>1, SeqEqual
<1> DEFINE n == Len(c)
           o == Len(d)
<1> HIDE DEF n, o
<1>8. l = m <=> p = q
  <2>1. n = o => \A k \in 1 .. n : p[k] = q[k] <=> l[k] = m[k]  BY <1>1, <1>2, <1>5 DEF n, o
  <2> QED  BY <1>6, <1>7, <2>1 DEF n, o
<1>9. IsPrefix(l, m) <=> Len(c) <= Len(d) /\ \A k \in 1 .. Len(c) : l[k] = m[k]
  <2>1. l \in Seq(Int) /\ m \in Seq(Int) /\ Len(l) = Len(c) /\ Len(m) = Len(d)
    BY <1>1, <1>2 DEF l, m
  <2>2. IsPrefix(l, m) <=> Len(l) <= Len(m) /\ \A k \in 1 .. Len(l) : l[k] = m[k]
    BY <1>0, <2>1, Zenon
  <2> QED  BY <2>1, <2>2
<1>10. IsPrefix(p, q) <=> Len(c) <= Len(d) /\ \A k \in 1 .. Len(c) : p[k] = q[k]
  <2>1. p \in Seq(Int) /\ q \in Seq(Int) /\ Len(p) = Len(c) /\ Len(q) = Len(d)
    BY <1>1, <1>2 DEF p, q
  <2>2. IsPrefix(p, q) <=> Len(p) <= Len(q) /\ \A k \in 1 .. Len(p) : p[k] = q[k]
    BY <1>0, <2>1, Zenon
  <2> QED  BY <2>1, <2>2
<1>11. IsPrefix(l, m) <=> IsPrefix(p, q)
  <2>1. n <= o => \A k \in 1 .. n : p[k] = q[k] <=> l[k] = m[k]
    <3>1. n \in Nat /\ o \in Nat  BY <1>1, <1>2 DEF n, o
    <3>2. ASSUME n <= o, NEW k \in 1 .. n PROVE k <= o  BY <3>1, <3>2
    <3> QED  BY <1>5, <3>2 DEF n, o
  <2> QED  BY <1>9, <1>10, <2>1 DEF n, o
<1> QED  BY <1>8, <1>11 DEF p, q, l, m
-----------------------------------------------------------------------------
(* Loading data.txt.                                                       *)

(* A char is no further below 'a' than 97. *)
Indexes == {x \in Int : x >= -97}

LEMMA PathIndexes ==
  ASSUME NEW c \in Seq(Nat)
  PROVE  /\ Path(c) \in Seq(Indexes)
         /\ OfLetters(Path(c)) <=> LettersOnly(c)
<1> DEFINE p == Path(c)
           n == Len(c)
<1>1. /\ p \in Seq(Int) /\ Len(p) = n /\ n \in Nat
      /\ \A k \in 1 .. n : p[k] = toNumber(c[k])
  BY PathOf
<1>2. DOMAIN c = 1 .. n /\ DOMAIN p = 1 .. n /\ \A k \in 1 .. n : c[k] \in Nat
  BY <1>1, LenProperties, ElementOfSeq
<1> HIDE DEF p, n
<1>3. \A k \in 1 .. n : p[k] \in Indexes
  <2> TAKE k \in 1 .. n
  <2>1. tolower(c[k]) \in Nat  BY <1>2 DEF tolower
  <2>2. p[k] = tolower(c[k]) - 97  BY <1>1 DEF toNumber
  <2> QED  BY <2>1, <2>2 DEF Indexes
<1>4. p \in [1 .. n -> Int]  BY <1>1, <1>2, LenProperties
<1>5. p \in [1 .. n -> Indexes]  BY <1>3, <1>4
<1>6. p \in Seq(Indexes)  BY <1>1, <1>5, FunctionIsSeq
<1>7. OfLetters(p) <=> \A k \in 1 .. n : p[k] \in 0 .. ALPHABETS - 1
  <2>1. \A k \in 1 .. n : k > 0  BY <1>1
  <2> QED  BY <1>2, <2>1 DEF OfLetters, LettersAfter
<1>8. LettersOnly(c) <=> \A k \in 1 .. n : p[k] \in 0 .. ALPHABETS - 1
  BY <1>1, <1>2 DEF LettersOnly, IsLetter
<1> QED  BY <1>6, <1>7, <1>8 DEF p

LEMMA WordFacts ==
  ASSUME file \in Files
  PROVE  /\ LastLine \in Nat /\ Turns \in Nat /\ Turns >= 1
         /\ \A k \in 1 .. Turns : Word(k) \in Seq(Nat) /\ Path(Word(k)) \in Seq(Indexes)
<1>1. /\ file.lines \in Seq([text : Seq(Nat), freq : Int]) /\ file.lines # << >>
      /\ \A text \in {file.rest} \cup {file.lines[k].text : k \in DOMAIN file.lines} :
           DeleteChar(text, SPACE) \in Seq(Nat)
  BY WordListAssumption DEF WordListAssumption
<1>2. LastLine \in Nat \ {0} /\ DOMAIN file.lines = 1 .. LastLine
  BY <1>1, EmptySeq, LenProperties DEF LastLine
<1>3. Turns \in Nat /\ Turns >= 1  BY <1>2 DEF Turns
<1>4. ASSUME NEW k \in 1 .. Turns PROVE Word(k) \in Seq(Nat)
  <2>1. CASE k <= LastLine
    <3>1. k \in DOMAIN file.lines  BY <1>2, <1>3, <2>1
    <3>2. DeleteChar(file.lines[k].text, SPACE) \in Seq(Nat)  BY <1>1, <3>1
    <3> QED  BY <2>1, <3>2 DEF Word
  <2>2. CASE ~(k <= LastLine)
    <3>1. DeleteChar(file.rest, SPACE) \in Seq(Nat)  BY <1>1
    <3> QED  BY <2>2, <3>1 DEF Word
  <2> QED  BY <2>1, <2>2
<1>5. \A k \in 1 .. Turns : Path(Word(k)) \in Seq(Indexes)  BY <1>4, PathIndexes
<1> QED  BY <1>2, <1>3, <1>4, <1>5

(* A trie is a finite tree. *)
NodesOK(t) ==
  /\ IsFiniteSet(DOMAIN t) /\ << >> \in DOMAIN t
  /\ \A n \in DOMAIN t : n \in Seq(Indexes) /\ \A k \in 0 .. Len(n) : SubSeq(n, 1, k) \in DOMAIN t

LastFor(k, K, n) == Path(Word(k)) = n /\ \A j \in k + 1 .. K : Path(Word(j)) # n

(* The trie holds the texts of the first K turns: the terminal nodes,      *)
(* apart from the root, spell them, each with what its last turn says.     *)
HoldsLines(t, K) ==
  /\ \A k \in 1 .. K : Path(Word(k)) \in DOMAIN t
  /\ \A n \in DOMAIN t \ {<< >>} :
       /\ t[n].terminal \in BOOLEAN
       /\ t[n].terminal => \E k \in 1 .. K : /\ LastFor(k, K, n)
                                             /\ t[n].freq = Freq(k)
                                             /\ t[n].word = Word(k)
       /\ ~t[n].terminal => \A k \in 1 .. K : Path(Word(k)) # n

LEMMA InsertNodes ==
  ASSUME NEW t, NodesOK(t), NEW c, NEW f, Path(c) \in Seq(Indexes)
  PROVE  LET u == insert(t, c, f)
         IN  /\ NodesOK(u)
             /\ DOMAIN t \subseteq DOMAIN u /\ Path(c) \in DOMAIN u
             /\ u[Path(c)] = [terminal |-> TRUE, freq |-> f, word |-> c]
             /\ \A n \in DOMAIN u : n # Path(c) => u[n] = IF n \in DOMAIN t THEN t[n] ELSE NewNode
<1> DEFINE e == Path(c)
           P == Prefixes(e)
           u == insert(t, c, f)
           g == [l \in 0 .. Len(e) |-> SubSeq(e, 1, l)]
<1>1. e \in Seq(Indexes) /\ Len(e) \in Nat  BY LenProperties
<1>2. DOMAIN u = DOMAIN t \cup P  BY DEF insert
<1>3. e \in P
  <2>1. SubSeq(e, 1, Len(e)) = e  BY <1>1, SubSeqFull
  <2>2. Len(e) \in 0 .. Len(e)  BY <1>1
  <2> QED  BY <2>1, <2>2 DEF Prefixes
<1>4. /\ u[e] = [terminal |-> TRUE, freq |-> f, word |-> c]
      /\ \A n \in DOMAIN u : n # e => u[n] = IF n \in DOMAIN t THEN t[n] ELSE NewNode
  BY <1>2, <1>3 DEF insert
<1>5. IsFiniteSet(P)
  <2>1. g \in Surjection(0 .. Len(e), P)  BY DEF Surjection, Prefixes
  <2>2. IsFiniteSet(0 .. Len(e))
    <3>1. 0 \in Int /\ Len(e) \in Int  BY <1>1
    <3> QED  BY <3>1, FS_Interval
  <2> HIDE DEF g, P, e
  <2> QED  BY <2>1, <2>2, FS_Surjection
<1>6. ASSUME NEW n \in P
      PROVE  n \in Seq(Indexes) /\ \A k \in 0 .. Len(n) : SubSeq(n, 1, k) \in P
  <2>1. PICK l \in 0 .. Len(e) : n = SubSeq(e, 1, l)  BY DEF Prefixes
  <2> HIDE DEF e
  <2>2. n \in Seq(Indexes) /\ Len(n) = l /\ \A j \in 1 .. l : n[j] = e[j]  BY <1>1, <2>1, FirstsOf
  <2>3. ASSUME NEW k \in 0 .. Len(n) PROVE SubSeq(n, 1, k) \in P
    <3>1. k \in 0 .. Len(e) /\ k <= Len(e) /\ l \in Nat  BY <1>1, <2>2
    <3>2. \A j \in 1 .. k : n[j] = e[j]  BY <2>2, <3>1
    <3>3. SubSeq(n, 1, k) = SubSeq(e, 1, k)  BY <1>1, <2>2, <3>1, <3>2, SameFirsts
    <3> QED  BY <3>1, <3>3 DEF Prefixes
  <2> QED  BY <2>2, <2>3
<1> HIDE DEF u, P, e
<1>7. NodesOK(u)
  <2>1. IsFiniteSet(DOMAIN u)  BY <1>2, <1>5, FS_Union DEF NodesOK
  <2>2. << >> \in DOMAIN u  BY <1>2 DEF NodesOK
  <2>3. \A n \in DOMAIN u : n \in Seq(Indexes) /\ \A k \in 0 .. Len(n) : SubSeq(n, 1, k) \in DOMAIN u
    BY <1>2, <1>6 DEF NodesOK
  <2> QED  BY <2>1, <2>2, <2>3 DEF NodesOK
<1> QED  BY <1>2, <1>3, <1>4, <1>7 DEF u, e

LEMMA InsertLine ==
  ASSUME file \in Files, NEW t, NEW K \in Nat, K < Turns, NodesOK(t), HoldsLines(t, K)
  PROVE  LET u == insert(t, Word(K + 1), Freq(K + 1))
         IN  NodesOK(u) /\ HoldsLines(u, K + 1)
<1> DEFINE c == Word(K + 1)
           f == Freq(K + 1)
           u == insert(t, c, f)
<1>1. K + 1 \in 1 .. Turns /\ K + 1 \in 1 .. K + 1  BY WordFacts
<1>2. Path(c) \in Seq(Indexes)  BY <1>1, WordFacts
<1>3. /\ NodesOK(u)
      /\ DOMAIN t \subseteq DOMAIN u /\ Path(c) \in DOMAIN u
      /\ u[Path(c)] = [terminal |-> TRUE, freq |-> f, word |-> c]
      /\ \A n \in DOMAIN u : n # Path(c) => u[n] = IF n \in DOMAIN t THEN t[n] ELSE NewNode
  BY <1>2, InsertNodes
<1> HIDE DEF u, f
<1>4. ASSUME NEW k \in 1 .. K + 1 PROVE Path(Word(k)) \in DOMAIN u /\ (k \in 1 .. K \/ k = K + 1)
  <2>1. k \in 1 .. K \/ k = K + 1  OBVIOUS
  <2> QED  BY <1>3, <2>1 DEF HoldsLines
<1>5. ASSUME NEW n \in DOMAIN u \ {<< >>}
      PROVE  /\ u[n].terminal \in BOOLEAN
             /\ u[n].terminal => \E k \in 1 .. K + 1 : /\ LastFor(k, K + 1, n)
                                                       /\ u[n].freq = Freq(k)
                                                       /\ u[n].word = Word(k)
             /\ ~u[n].terminal => \A k \in 1 .. K + 1 : Path(Word(k)) # n
  <2>1. CASE n = Path(c)
    <3>1. u[n].terminal = TRUE /\ u[n].freq = Freq(K + 1) /\ u[n].word = Word(K + 1)
      BY <1>3, <2>1 DEF f
    <3>2. LastFor(K + 1, K + 1, n)
      <4>1. \A j \in (K + 1) + 1 .. K + 1 : FALSE  OBVIOUS
      <4> QED  BY <2>1, <4>1 DEF LastFor
    <3> QED  BY <1>1, <3>1, <3>2
  <2>2. CASE n # Path(c) /\ n \in DOMAIN t
    <3>1. u[n] = t[n]  BY <1>3, <2>2
    <3>2. /\ t[n].terminal \in BOOLEAN
          /\ t[n].terminal => \E k \in 1 .. K : /\ LastFor(k, K, n)
                                                /\ t[n].freq = Freq(k)
                                                /\ t[n].word = Word(k)
          /\ ~t[n].terminal => \A k \in 1 .. K : Path(Word(k)) # n
      BY <2>2 DEF HoldsLines
    <3>3. ASSUME NEW k \in 1 .. K, LastFor(k, K, n) PROVE k \in 1 .. K + 1 /\ LastFor(k, K + 1, n)
      <4>1. \A j \in k + 1 .. K + 1 : j \in k + 1 .. K \/ j = K + 1  OBVIOUS
      <4> QED  BY <2>2, <3>3, <4>1 DEF LastFor
    <3>4. ~u[n].terminal => \A k \in 1 .. K + 1 : Path(Word(k)) # n  BY <1>4, <2>2, <3>1, <3>2
    <3>5. u[n].terminal => \E k \in 1 .. K + 1 : /\ LastFor(k, K + 1, n)
                                                 /\ u[n].freq = Freq(k)
                                                 /\ u[n].word = Word(k)
      <4> SUFFICES ASSUME u[n].terminal
                   PROVE  \E k \in 1 .. K + 1 : /\ LastFor(k, K + 1, n)
                                                /\ u[n].freq = Freq(k)
                                                /\ u[n].word = Word(k)
        OBVIOUS
      <4>1. PICK k \in 1 .. K : /\ LastFor(k, K, n)
                                /\ t[n].freq = Freq(k)
                                /\ t[n].word = Word(k)
        BY <3>1, <3>2
      <4> QED  BY <3>1, <3>3, <4>1
    <3> QED  BY <3>1, <3>2, <3>4, <3>5
  <2>3. CASE n # Path(c) /\ n \notin DOMAIN t
    <3>1. u[n] = NewNode /\ u[n].terminal = FALSE  BY <1>3, <2>3 DEF NewNode
    <3>2. \A k \in 1 .. K : Path(Word(k)) # n  BY <2>3 DEF HoldsLines
    <3> QED  BY <1>4, <2>3, <3>1, <3>2
  <2> QED  BY <2>1, <2>2, <2>3
<1> QED  BY <1>3, <1>4, <1>5 DEF HoldsLines, u, f

WordsInv == /\ file \in Files /\ lineno \in Nat \ {0}
            /\ NodesOK(root) /\ HoldsLines(root, lineno - 1)

LEMMA InitLoads == InitWords => WordsInv /\ lineno <= Turns
<1> SUFFICES ASSUME InitWords PROVE WordsInv /\ lineno <= Turns  OBVIOUS
<1>1. file \in Files /\ lineno = 1 /\ root = EmptyTrie  BY DEF InitWords
<1>2. lineno <= Turns  BY <1>1, WordFacts
<1>3. DOMAIN root = {<< >>}  BY <1>1 DEF EmptyTrie
<1>4. HoldsLines(root, lineno - 1)
  <2>1. HoldsLines(root, 0)  BY <1>3 DEF HoldsLines
  <2> QED  BY <1>1, <2>1
<1>5. NodesOK(root)
  <2>1. IsFiniteSet(DOMAIN root)  BY <1>3, FS_Singleton
  <2>2. << >> \in Seq(Indexes) /\ Len(<< >>) = 0  BY EmptySeq
  <2>3. \A k \in 0 .. 0 : SubSeq(<< >>, 1, k) = << >>
    <3>1. SubSeq(<< >>, 1, 0) = << >>  BY SubSeqEmpty
    <3> QED  BY <3>1
  <2> QED  BY <1>3, <2>1, <2>2, <2>3 DEF NodesOK
<1> QED  BY <1>1, <1>2, <1>4, <1>5 DEF WordsInv

LEMMA LoadKeeps ==
  ASSUME WordsInv, lineno <= Turns, Load, UNCHANGED file
  PROVE  WordsInv' /\ (IF AnotherTurn THEN lineno' <= Turns' ELSE lineno' = Turns' + 1)
<1>1. /\ file \in Files /\ lineno \in Nat \ {0} /\ lineno' = lineno + 1
      /\ NodesOK(root) /\ HoldsLines(root, lineno - 1)
      /\ root' = insert(root, Word(lineno), Freq(lineno))
  BY DEF WordsInv, Load
<1>2. Turns \in Nat  BY <1>1, WordFacts
<1>3. file' \in Files /\ lineno' \in Nat \ {0} /\ Turns' = Turns
  BY <1>1 DEF Turns, LastLine
<1>4. IF AnotherTurn THEN lineno' <= Turns' ELSE lineno' = Turns' + 1
  BY <1>1, <1>2, <1>3 DEF AnotherTurn
<1>5. NodesOK(root') /\ HoldsLines(root', lineno)
  <2> DEFINE K == lineno - 1
  <2>1. K \in Nat /\ K < Turns /\ K + 1 = lineno /\ HoldsLines(root, K)  BY <1>1, <1>2
  <2> HIDE DEF K
  <2>2. NodesOK(insert(root, Word(K + 1), Freq(K + 1)))
        /\ HoldsLines(insert(root, Word(K + 1), Freq(K + 1)), K + 1)
    BY <1>1, <2>1, InsertLine
  <2> QED  BY <1>1, <2>1, <2>2
<1>6. HoldsLines(root, lineno - 1)'
  <2>1. lineno' - 1 = lineno  BY <1>1
  <2>2. HoldsLines(root, lineno - 1)' <=> HoldsLines(root', lineno' - 1)
    BY DEF HoldsLines, LastFor, Word, Freq, LastLine
  <2> QED  BY <1>5, <2>1, <2>2
<1> QED  BY <1>3, <1>4, <1>5, <1>6 DEF WordsInv, NodesOK

LEMMA WordsStay ==
  ASSUME WordsInv, UNCHANGED <<file, lineno, root>>
  PROVE  WordsInv' /\ Turns' = Turns
<1>1. LastLine' = LastLine /\ Turns' = Turns  BY DEF LastLine, Turns
<1>2. HoldsLines(root, lineno - 1)'  BY <1>1 DEF WordsInv, HoldsLines, LastFor, Word, Freq
<1> QED  BY <1>1, <1>2 DEF WordsInv, NodesOK

(* The trie when the whole file is read. *)
Loaded == WordsInv /\ lineno = Turns + 1

Terminals == {n \in DOMAIN root \ {<< >>} : OfLetters(n) /\ root[n].terminal}

LEMMA LoadedFacts ==
  ASSUME Loaded
  PROVE  /\ file \in Files /\ NodesOK(root) /\ HoldsLines(root, Turns)
         /\ Turns \in Nat /\ \A j \in 1 .. Turns : Word(j) \in Seq(Nat)
<1>1. file \in Files /\ NodesOK(root) /\ HoldsLines(root, lineno - 1) /\ lineno = Turns + 1
  BY DEF Loaded, WordsInv
<1>2. Turns \in Nat /\ \A j \in 1 .. Turns : Word(j) \in Seq(Nat)  BY <1>1, WordFacts
<1>3. lineno - 1 = Turns  BY <1>1, <1>2
<1> QED  BY <1>1, <1>2, <1>3

LEMMA TerminalFacts ==
  ASSUME Loaded, NEW n \in Terminals
  PROVE  /\ n \in Seq(Indexes) /\ root[n].word \in Seq(Nat) /\ Path(root[n].word) = n
         /\ Lower(root[n].word) \in Dictionary
         /\ root[n].freq = FreqOf(Lower(root[n].word))
<1>1. NodesOK(root) /\ HoldsLines(root, Turns)  BY LoadedFacts
<1>2. PICK k \in 1 .. Turns : /\ LastFor(k, Turns, n)
                              /\ root[n].freq = Freq(k)
                              /\ root[n].word = Word(k)
  BY <1>1 DEF HoldsLines, Terminals
<1>3. Turns \in Nat /\ \A j \in 1 .. Turns : Word(j) \in Seq(Nat)  BY LoadedFacts
<1>4. n \in Seq(Indexes)  BY <1>1 DEF NodesOK, Terminals
<1>5. Path(Word(k)) = n /\ \A j \in k + 1 .. Turns : Path(Word(j)) # n  BY <1>2 DEF LastFor
<1> DEFINE w == Lower(Word(k))
           IsLast(l) == /\ Lower(Word(l)) = w
                        /\ \A j \in l + 1 .. Turns : Lower(Word(j)) # w
<1>6. \A j \in 1 .. Turns : Lower(Word(j)) = w <=> Path(Word(j)) = n
  <2> TAKE j \in 1 .. Turns
  <2>1. Word(j) \in Seq(Nat) /\ Word(k) \in Seq(Nat)  BY <1>3
  <2>2. Lower(Word(j)) = Lower(Word(k)) <=> Path(Word(j)) = Path(Word(k))  BY <2>1, SamePath
  <2> QED  BY <1>5, <2>2
<1>7. IsLast(k)
  <2>1. \A j \in k + 1 .. Turns : j \in 1 .. Turns  BY <1>3
  <2> QED  BY <1>5, <1>6, <2>1
<1>8. \A l \in 1 .. Turns : IsLast(l) => l = k
  <2> SUFFICES ASSUME NEW l \in 1 .. Turns, IsLast(l), l # k PROVE FALSE  OBVIOUS
  <2>1. l \in Nat /\ k \in Nat  BY <1>3
  <2>2. CASE l < k
    <3>1. k \in l + 1 .. Turns  BY <1>3, <2>1, <2>2
    <3> QED  BY <3>1
  <2>3. CASE k < l
    <3>1. l \in k + 1 .. Turns  BY <1>3, <2>1, <2>3
    <3> QED  BY <1>7, <3>1
  <2> QED  BY <2>1, <2>2, <2>3
<1>9. FreqOf(w) = Freq(k)
  <2> HIDE DEF w
  <2>1. (CHOOSE l \in 1 .. Turns : IsLast(l)) = k  BY <1>7, <1>8
  <2> QED  BY <2>1 DEF FreqOf
<1>10. w \in Dictionary
  <2>1. Word(k) \in Seq(Nat) /\ n # << >> /\ OfLetters(n)  BY <1>3 DEF Terminals
  <2>2. Word(k) # << >>  BY <1>5, <2>1, PathOf
  <2>3. LettersOnly(Word(k))  BY <1>5, <2>1, PathIndexes
  <2> QED  BY <2>2, <2>3 DEF Dictionary, IsWord
<1> QED  BY <1>2, <1>3, <1>4, <1>5, <1>9, <1>10

LEMMA WordsOfTheTrie ==
  ASSUME Loaded
  PROVE  /\ \A w \in Dictionary : \E n \in Terminals : Lower(root[n].word) = w
         /\ \A n, m \in Terminals : Lower(root[n].word) = Lower(root[m].word) => n = m
         /\ IsFiniteSet(Terminals)
<1>1. NodesOK(root) /\ HoldsLines(root, Turns) /\ \A j \in 1 .. Turns : Word(j) \in Seq(Nat)
  BY LoadedFacts
<1>2. ASSUME NEW w \in Dictionary PROVE \E n \in Terminals : Lower(root[n].word) = w
  <2>1. PICK k \in 1 .. Turns : w = Lower(Word(k)) /\ Word(k) # << >> /\ LettersOnly(Word(k))
    BY DEF Dictionary, IsWord
  <2>2. Word(k) \in Seq(Nat)  BY <1>1
  <2> DEFINE n == Path(Word(k))
  <2>3. n # << >> /\ OfLetters(n)  BY <2>1, <2>2, PathOf, PathIndexes
  <2>4. n \in DOMAIN root \ {<< >>} /\ root[n].terminal  BY <1>1, <2>3 DEF HoldsLines
  <2>5. n \in Terminals  BY <2>3, <2>4 DEF Terminals
  <2>6. root[n].word \in Seq(Nat) /\ Path(root[n].word) = Path(Word(k))  BY <2>5, TerminalFacts
  <2>7. Lower(root[n].word) = w  BY <2>1, <2>2, <2>6, SamePath
  <2> QED  BY <2>5, <2>7
<1>3. ASSUME NEW n \in Terminals, NEW m \in Terminals, Lower(root[n].word) = Lower(root[m].word)
      PROVE  n = m
  <2>1. root[n].word \in Seq(Nat) /\ Path(root[n].word) = n  BY TerminalFacts
  <2>2. root[m].word \in Seq(Nat) /\ Path(root[m].word) = m  BY TerminalFacts
  <2> QED  BY <1>3, <2>1, <2>2, SamePath
<1>4. IsFiniteSet(Terminals)
  <2>1. Terminals \in SUBSET DOMAIN root  BY DEF Terminals
  <2> QED  BY <1>1, <2>1, FS_Subset DEF NodesOK
<1> QED  BY <1>2, <1>3, <1>4

LEMMA LoadedTrie ==
  ASSUME Loaded
  PROVE  /\ \A n \in DOMAIN root : Prefixes(n) \subseteq DOMAIN root
         /\ {Lower(root[n].word) : n \in Terminals} = Dictionary
         /\ Cardinality(Terminals) = Cardinality(Dictionary)
         /\ \A n \in Terminals : root[n].freq = FreqOf(Lower(root[n].word))
<1>1. \A n \in DOMAIN root : Prefixes(n) \subseteq DOMAIN root
  BY DEF Loaded, WordsInv, NodesOK, Prefixes
<1>2. \A n \in Terminals : /\ Lower(root[n].word) \in Dictionary
                           /\ root[n].freq = FreqOf(Lower(root[n].word))
  BY TerminalFacts
<1>3. /\ \A w \in Dictionary : \E n \in Terminals : Lower(root[n].word) = w
      /\ \A n, m \in Terminals : Lower(root[n].word) = Lower(root[m].word) => n = m
      /\ IsFiniteSet(Terminals)
  BY WordsOfTheTrie
<1>4. {Lower(root[n].word) : n \in Terminals} = Dictionary  BY <1>2, <1>3
<1>5. Cardinality(Terminals) = Cardinality(Dictionary)
  <2> DEFINE f == [n \in Terminals |-> Lower(root[n].word)]
  <2>1. f \in [Terminals -> Dictionary] /\ \A n \in Terminals : f[n] = Lower(root[n].word)
    BY <1>2
  <2>2. \A n, m \in Terminals : f[n] = f[m] => n = m  BY <1>3
  <2>3. \A w \in Dictionary : \E n \in Terminals : f[n] = w  BY <1>3
  <2> HIDE DEF f
  <2>4. f \in Bijection(Terminals, Dictionary)  BY <2>1, <2>2, <2>3, Fun_IsBij
  <2> QED  BY <1>3, <2>4, FS_Bijection DEF ExistsBijection
<1> QED  BY <1>1, <1>2, <1>4, <1>5
-----------------------------------------------------------------------------
(* Looking a line of letters up.                                           *)

(* Where find stops: at the end of c, or before the first missing node. *)
LEMMA FollowedFacts ==
  ASSUME NEW t, NodesOK(t), NEW c \in Seq(Nat)
  PROVE  /\ Followed(t, c) \in 0 .. Len(c)
         /\ SubSeq(Path(c), 1, Followed(t, c)) \in DOMAIN t
         /\ Followed(t, c) < Len(c) => SubSeq(Path(c), 1, Followed(t, c) + 1) \notin DOMAIN t
<1> DEFINE p == Path(c)
           n == Len(c)
           Stops(k) == /\ SubSeq(p, 1, k) \in DOMAIN t
                       /\ k < n => SubSeq(p, 1, k + 1) \notin DOMAIN t
           I == {k \in 0 .. n : SubSeq(p, 1, k) \notin DOMAIN t}
<1>1. p \in Seq(Int) /\ Len(p) = n /\ n \in Nat  BY PathOf
<1> HIDE DEF p, n
<1>2. SubSeq(p, 1, 0) = << >> /\ SubSeq(p, 1, 0) \in DOMAIN t
  <2>1. SubSeq(p, 1, 0) = << >>  BY <1>1, SubSeqEmpty
  <2> QED  BY <2>1 DEF NodesOK
<1>3. \E k \in 0 .. n : Stops(k)
  <2>1. CASE I = {}
    <3>1. n \in 0 .. n /\ ~(n < n)  BY <1>1
    <3>2. Stops(n)  BY <2>1, <3>1
    <3> QED  BY <3>1, <3>2
  <2>2. CASE I # {}
    <3>1. I \subseteq Nat  BY <1>1
    <3>2. PICK x \in I : \A y \in I : x <= y  BY <2>2, <3>1, FirstExists
    <3>3. x \in 0 .. n /\ x # 0  BY <1>2, <3>2
    <3>4. x - 1 \in 0 .. n /\ x - 1 + 1 = x /\ ~(x <= x - 1)  BY <1>1, <3>3
    <3>5. x - 1 \notin I  BY <3>2, <3>4
    <3>6. SubSeq(p, 1, x - 1) \in DOMAIN t  BY <3>4, <3>5
    <3>7. SubSeq(p, 1, x - 1 + 1) \notin DOMAIN t  BY <3>2, <3>4
    <3>8. Stops(x - 1)  BY <3>6, <3>7
    <3> QED  BY <3>4, <3>8
  <2> QED  BY <2>1, <2>2
<1>4. Followed(t, c) = CHOOSE k \in 0 .. n : Stops(k)  BY DEF Followed, p, n
<1>5. Followed(t, c) \in 0 .. n /\ Stops(Followed(t, c))
  <2> HIDE DEF Stops
  <2> QED  BY <1>3, <1>4
<1> QED  BY <1>5 DEF p, n

LEMMA FindLetters ==
  ASSUME NEW t, NodesOK(t), NEW c \in Seq(Nat), LettersOnly(c)
  PROVE  find(t, c) = {IF Path(c) \in DOMAIN t THEN Path(c) ELSE NULL_NODE}
<1> DEFINE p == Path(c)
           k == Followed(t, c)
<1>1. p \in Seq(Int) /\ Len(p) = Len(c) /\ Len(c) \in Nat  BY PathOf
<1>2. /\ k \in 0 .. Len(c) /\ SubSeq(p, 1, k) \in DOMAIN t
      /\ k < Len(c) => SubSeq(p, 1, k + 1) \notin DOMAIN t
  BY FollowedFacts
<1>3. SubSeq(p, 1, Len(c)) = p  BY <1>1, SubSeqFull
<1>4. DOMAIN c = 1 .. Len(c)  BY LenProperties
<1>5. find(t, c) = CASE k = Len(c) -> {p}
                     [] LeavesChildren(t, c) -> DOMAIN t \cup {NULL_NODE, BAD_NODE}
                     [] OTHER -> {NULL_NODE}
  BY DEF find
<1>6. LeavesChildren(t, c) <=> k < Len(c) /\ ~IsLetter(c[k + 1])  BY DEF LeavesChildren
<1> HIDE DEF k, p
<1>7. CASE k = Len(c)
  <2>1. p \in DOMAIN t  BY <1>2, <1>3, <1>7
  <2>2. ~LeavesChildren(t, c)  BY <1>1, <1>6, <1>7
  <2>3. find(t, c) = {p}  BY <1>5, <1>7, <2>2
  <2> QED  BY <2>1, <2>3 DEF p
<1>8. CASE k # Len(c)
  <2>1. k < Len(c) /\ k + 1 \in 1 .. Len(c) /\ k + 1 \in 0 .. Len(p)  BY <1>1, <1>2, <1>8
  <2>2. ~LeavesChildren(t, c)  BY <1>4, <1>6, <2>1 DEF LettersOnly
  <2>3. find(t, c) = {NULL_NODE}  BY <1>5, <1>8, <2>2
  <2>4. p \notin DOMAIN t  BY <1>2, <2>1 DEF NodesOK
  <2> QED  BY <2>3, <2>4 DEF p
<1> QED  BY <1>7, <1>8

(* Below a line of letters the walk over children[] comes to the nodes of  *)
(* letters, and to no others.                                              *)
LEMMA LettersBelow ==
  ASSUME NEW q \in Seq(Nat), LettersOnly(q), NEW m \in Seq(Int), IsPrefix(Path(q), m)
  PROVE  LettersAfter(m, Len(Path(q))) <=> OfLetters(m)
<1> DEFINE p == Path(q)
           n == Len(p)
<1>1. p \in Seq(Int) /\ n \in Nat /\ DOMAIN p = 1 .. n  BY PathOf, LenProperties
<1>2. OfLetters(p)  BY PathIndexes
<1>3. n <= Len(m) /\ \A k \in 1 .. n : p[k] = m[k]  BY <1>1, PrefixOf
<1>4. DOMAIN m = 1 .. Len(m) /\ Len(m) \in Nat  BY LenProperties
<1> HIDE DEF p, n
<1>5. \A k \in 1 .. n : m[k] \in 0 .. ALPHABETS - 1
  <2>1. \A k \in 1 .. n : k > 0  BY <1>1
  <2>2. \A k \in 1 .. n : p[k] \in 0 .. ALPHABETS - 1
    BY <1>1, <1>2, <2>1 DEF OfLetters, LettersAfter
  <2> QED  BY <1>3, <2>2
<1>6. \A k \in 1 .. Len(m) : k \in 1 .. n \/ k > n  BY <1>1, <1>4
<1>7. \A k \in 1 .. Len(m) : k > n => k > 0  BY <1>1, <1>4
<1>8. LettersAfter(m, n) <=> OfLetters(m)
  BY <1>4, <1>5, <1>6, <1>7 DEF OfLetters, LettersAfter
<1> QED  BY <1>8 DEF n, p

(* The nodes of words that begin with the line q. *)
Matches(q) == IF q = << >> THEN {} ELSE {n \in Terminals : IsPrefix(Path(q), n)}

LEMMA NoPointer ==
  ASSUME NodesOK(root)
  PROVE  NULL_NODE \notin DOMAIN root /\ BAD_NODE \notin DOMAIN root
<1>1. ASSUME NEW n \in Seq(Indexes) PROVE n # <<-1000>> /\ n # <<-1001>>
  <2>1. /\ Len(<<-1000>>) = 1 /\ <<-1000>>[1] = -1000
        /\ Len(<<-1001>>) = 1 /\ <<-1001>>[1] = -1001
    OBVIOUS
  <2>2. \A k \in 1 .. Len(n) : n[k] \in Indexes  BY ElementOfSeq
  <2>3. 1 \in 1 .. 1 /\ -1000 \notin Indexes /\ -1001 \notin Indexes  BY DEF Indexes
  <2> QED  BY <2>1, <2>2, <2>3
<1> QED  BY <1>1 DEF NodesOK, NULL_NODE, BAD_NODE

LEMMA SearchLetters ==
  ASSUME NodesOK(root), NEW q \in Seq(Nat), LettersOnly(q),
         NEW found \in IF q = << >> THEN {NULL_NODE} ELSE find(root, q)
  PROVE  found # BAD_NODE /\ search(root, found) = SetToBag(Matches(q))
<1>1. NULL_NODE \notin DOMAIN root /\ BAD_NODE \notin DOMAIN root  BY NoPointer
<1>2. NULL_NODE # BAD_NODE
  <2>1. <<-1000>>[1] = -1000 /\ <<-1001>>[1] = -1001  OBVIOUS
  <2> QED  BY <2>1 DEF NULL_NODE, BAD_NODE
<1>3. CASE q = << >>
  <2>1. found = NULL_NODE  BY <1>3
  <2> QED  BY <1>2, <1>3, <2>1 DEF search, Matches
<1>4. CASE q # << >>
  <2> DEFINE p == Path(q)
  <2>1. p # << >> /\ p \in Seq(Int)  BY <1>4, PathOf
  <2>2. found = IF p \in DOMAIN root THEN p ELSE NULL_NODE  BY <1>4, FindLetters
  <2> HIDE DEF p
  <2>3. CASE p \in DOMAIN root
    <3>1. found = p /\ p # NULL_NODE /\ p # BAD_NODE  BY <1>1, <2>2, <2>3
    <3>2. search(root, found) = SetToBag(traversal(root, p))  BY <3>1 DEF search
    <3>3. ~IsPrefix(p, << >>)
      <4> DEFINE e == << >>
      <4>1. e \in Seq(Int) /\ Len(e) = 0  BY EmptySeq
      <4>2. Len(p) \in Nat /\ Len(p) # 0  BY <2>1, EmptySeq, LenProperties
      <4> HIDE DEF e
      <4>3. IsPrefix(p, e) => Len(p) <= Len(e)  BY <2>1, <4>1, PrefixOf
      <4>4. ~IsPrefix(p, e)  BY <4>1, <4>2, <4>3
      <4> QED  BY <4>4 DEF e
    <3>4. \A m \in DOMAIN root : IsPrefix(p, m) => (LettersAfter(m, Len(p)) <=> OfLetters(m))
      <4> TAKE m \in DOMAIN root
      <4>1. m \in Seq(Indexes) /\ Len(m) \in Nat  BY LenProperties DEF NodesOK
      <4>2. m \in Seq(Int)
        <5>1. m \in [1 .. Len(m) -> Indexes]  BY <4>1, LenProperties
        <5>2. m \in [1 .. Len(m) -> Int]  BY <5>1 DEF Indexes
        <5> QED  BY <4>1, <5>2, FunctionIsSeq
      <4> QED  BY <4>2, LettersBelow DEF p
    <3>5. traversal(root, p) = Matches(q)
      BY <1>4, <3>3, <3>4 DEF traversal, Matches, Terminals, p
    <3> QED  BY <3>1, <3>2, <3>5
  <2>4. CASE p \notin DOMAIN root
    <3>1. found = NULL_NODE /\ search(root, found) = SetToBag({})  BY <2>2, <2>4 DEF search
    <3>2. ASSUME NEW n \in DOMAIN root, IsPrefix(p, n) PROVE FALSE
      <4>1. Len(p) <= Len(n) /\ SubSeq(p, 1, Len(p)) = SubSeq(n, 1, Len(p))  BY <3>2 DEF IsPrefix
      <4>2. n \in Seq(Indexes) /\ Len(n) \in Nat /\ Len(p) \in Nat  BY <2>1, LenProperties DEF NodesOK
      <4>3. SubSeq(p, 1, Len(p)) = p  BY <2>1, SubSeqFull
      <4>4. Len(p) \in 0 .. Len(n)  BY <4>1, <4>2
      <4> QED  BY <2>4, <4>1, <4>3, <4>4 DEF NodesOK
    <3>3. Matches(q) = {}  BY <3>2 DEF Matches, Terminals, p
    <3> QED  BY <1>2, <3>1, <3>3
  <2> QED  BY <2>3, <2>4
<1> QED  BY <1>3, <1>4

-----------------------------------------------------------------------------
(* What the queue gives.                                                   *)

(* s lists words of M, none twice, the most frequent first; nothing that   *)
(* it leaves out is more frequent, and it stops short of max only when     *)
(* there are no more.                                                      *)
BestOf(t, M, s, max) ==
  /\ s \in [1 .. Len(s) -> M] /\ Len(s) \in 0 .. max
  /\ Range(s) \subseteq M
  /\ \A j, k \in DOMAIN s : s[j] = s[k] => j = k
  /\ Len(s) < max => Range(s) = M
  /\ \A j, k \in DOMAIN s : j < k => Ahead(t, s[j], s[k])
  /\ \A k \in DOMAIN s, m \in M \ Range(s) : Ahead(t, s[k], m)

LEMMA TopWordsOfASet ==
  ASSUME NEW t, NEW M, NEW max \in Nat, NEW s \in TopWords(t, SetToBag(M), max)
  PROVE  /\ BestOf(t, M, s, max)
         /\ BagToSet(SetToBag(M) (-) BagOf(s)) = M \ Range(s)
<1> DEFINE At(n) == {k \in DOMAIN s : s[k] = n}
           left == SetToBag(M) (-) BagOf(s)
<1>1. /\ s \in UNION {[1 .. n -> M] : n \in 0 .. max}
      /\ BagOf(s) \sqsubseteq SetToBag(M)
      /\ Len(s) < max => BagOf(s) = SetToBag(M)
      /\ \A j, k \in 1 .. Len(s) : j < k => Ahead(t, s[j], s[k])
      /\ \A k \in 1 .. Len(s), m \in BagToSet(left) : Ahead(t, s[k], m)
  BY DEF TopWords, BagToSet, SetToBag
<1>2. PICK n \in 0 .. max : s \in [1 .. n -> M]  BY <1>1
<1>3. n \in Nat /\ s \in Seq(M) /\ Len(s) = n /\ DOMAIN s = 1 .. n  BY <1>2, FunctionIsSeq
<1>4. DOMAIN BagOf(s) = Range(s) /\ \A m \in Range(s) : BagOf(s)[m] = Cardinality(At(m))
  BY DEF BagOf
<1>5. DOMAIN SetToBag(M) = M /\ \A m \in M : SetToBag(M)[m] = 1  BY DEF SetToBag
<1>6. Range(s) \subseteq M  BY <1>2 DEF Range
<1>7. ASSUME NEW m \in Range(s)
      PROVE  IsFiniteSet(At(m)) /\ Cardinality(At(m)) = 1
  <2>1. IsFiniteSet(At(m)) /\ Cardinality(At(m)) \in Nat
    <3>1. IsFiniteSet(1 .. n)
      <4>1. 1 \in Int /\ n \in Int  BY <1>3
      <4> QED  BY <4>1, FS_Interval
    <3>2. At(m) \in SUBSET (1 .. n)  BY <1>3
    <3> HIDE DEF At
    <3> QED  BY <3>1, <3>2, FS_Subset, FS_CardinalityType
  <2>2. Cardinality(At(m)) <= 1  BY <1>1, <1>4, <1>5, <1>6 DEF \sqsubseteq
  <2>3. At(m) # {}  BY DEF Range
  <2>4. Cardinality(At(m)) # 0
    <3> HIDE DEF At
    <3> QED  BY <2>1, <2>3, FS_EmptySet
  <2> QED  BY <2>1, <2>2, <2>4
<1>8. ASSUME NEW j \in DOMAIN s, NEW k \in DOMAIN s, s[j] = s[k] PROVE j = k
  <2>1. s[k] \in Range(s)  BY DEF Range
  <2>2. j \in At(s[k]) /\ k \in At(s[k])  BY <1>8
  <2>3. IsFiniteSet(At(s[k])) /\ Cardinality(At(s[k])) = 1  BY <1>7, <2>1
  <2> HIDE DEF At
  <2>4. PICK x : At(s[k]) = {x}  BY <2>3, FS_Singleton
  <2> QED  BY <2>2, <2>4
<1>9. Len(s) < max => Range(s) = M  BY <1>1, <1>4, <1>5
<1>10. BagToSet(left) = M \ Range(s)
  <2>1. \A m \in Range(s) : BagOf(s)[m] = 1
    <3> HIDE DEF At
    <3> QED  BY <1>4, <1>7
  <2>2. DOMAIN left = {m \in M : (IF m \in Range(s) THEN SetToBag(M)[m] - BagOf(s)[m]
                                   ELSE SetToBag(M)[m]) > 0}
    BY <1>4, <1>5 DEF (-)
  <2>3. \A m \in M : (IF m \in Range(s) THEN SetToBag(M)[m] - BagOf(s)[m]
                       ELSE SetToBag(M)[m]) > 0 <=> m \notin Range(s)
    BY <1>5, <1>6, <2>1
  <2> QED  BY <2>2, <2>3 DEF BagToSet
<1>11. BestOf(t, M, s, max)
  BY <1>1, <1>2, <1>3, <1>6, <1>8, <1>9, <1>10 DEF BestOf
<1> QED  BY <1>10, <1>11

(* What is right to show for the line q. *)
Right(q, s) ==
  LET matching == IF q = << >> THEN {} ELSE {w \in Dictionary : IsPrefix(Lower(q), w)}
      words    == [k \in DOMAIN s |-> Lower(root[s[k]].word)]
      listed   == {words[k] : k \in DOMAIN words}
  IN  /\ listed \subseteq matching
      /\ Len(words) = Cardinality(listed)
      /\ Len(words) < MaxShown => listed = matching
      /\ \A j, k \in DOMAIN words : j < k => FreqOf(words[j]) >= FreqOf(words[k])
      /\ \A w \in matching \ listed, v \in listed : FreqOf(v) >= FreqOf(w)

LEMMA BestIsRight ==
  ASSUME Loaded, NEW q \in Seq(Nat), NEW s, BestOf(root, Matches(q), s, MaxShown)
  PROVE  Right(q, s)
<1> DEFINE matching == IF q = << >> THEN {} ELSE {w \in Dictionary : IsPrefix(Lower(q), w)}
           word(m) == Lower(root[m].word)
           words == [k \in DOMAIN s |-> word(s[k])]
           listed == {words[k] : k \in DOMAIN words}
           M == Matches(q)
<1>1. /\ DOMAIN s = 1 .. Len(s) /\ Len(s) \in Nat
      /\ Range(s) \subseteq M
      /\ \A j, k \in DOMAIN s : s[j] = s[k] => j = k
      /\ Len(s) < MaxShown => Range(s) = M
      /\ \A j, k \in DOMAIN s : j < k => Ahead(root, s[j], s[k])
      /\ \A k \in DOMAIN s, m \in M \ Range(s) : Ahead(root, s[k], m)
  BY WordListAssumption DEF BestOf
<1>2. \A m \in M : /\ m \in Terminals /\ word(m) \in Dictionary
                   /\ root[m].freq = FreqOf(word(m))
  BY TerminalFacts DEF Matches
<1>3. \A k \in DOMAIN s : s[k] \in Range(s) /\ s[k] \in M  BY <1>1 DEF Range
<1>4. \A m \in M, o \in M : word(m) = word(o) => m = o  BY <1>2, WordsOfTheTrie
<1>5. \A m \in Terminals : q # << >> => (IsPrefix(Lower(q), word(m)) <=> IsPrefix(Path(q), m))
  <2> TAKE m \in Terminals
  <2>1. root[m].word \in Seq(Nat) /\ Path(root[m].word) = m  BY TerminalFacts
  <2> QED  BY <2>1, SamePath
<1>6. \A m \in M : word(m) \in matching  BY <1>2, <1>5 DEF Matches
<1>7. \A w \in matching : \E m \in M : word(m) = w
  <2> TAKE w \in matching
  <2>1. q # << >> /\ w \in Dictionary /\ IsPrefix(Lower(q), w)  OBVIOUS
  <2>2. PICK m \in Terminals : word(m) = w  BY <2>1, WordsOfTheTrie
  <2> QED  BY <1>5, <2>1, <2>2 DEF Matches
<1> HIDE DEF matching, word, M
<1>8. /\ DOMAIN words = DOMAIN s
      /\ \A k \in DOMAIN s : words[k] = word(s[k]) /\ words[k] \in listed
      /\ \A w \in listed : \E k \in DOMAIN s : w = word(s[k])
  OBVIOUS
<1>9. Len(words) = Len(s)
  <2>1. words \in [1 .. Len(s) -> listed]  BY <1>1, <1>8
  <2> QED  BY <1>1, <2>1, FunctionIsSeq
<1>10. Len(words) = Cardinality(listed)
  <2>1. words \in [1 .. Len(s) -> listed]  BY <1>1, <1>8
  <2>2. \A j, k \in 1 .. Len(s) : words[j] = words[k] => j = k  BY <1>1, <1>3, <1>4, <1>8
  <2>3. \A w \in listed : \E k \in 1 .. Len(s) : words[k] = w  BY <1>1, <1>8
  <2>4. 1 \in Int /\ Len(s) \in Int /\ Len(s) \in Nat  BY <1>1
  <2> HIDE DEF words, listed
  <2>5. words \in Bijection(1 .. Len(s), listed)  BY <2>1, <2>2, <2>3, Fun_IsBij
  <2>6. IsFiniteSet(1 .. Len(s)) /\ Cardinality(1 .. Len(s)) = Len(s)
    <3> DEFINE n == Len(s)
    <3> HIDE DEF n
    <3>1. n \in Nat /\ 1 \in Int /\ n \in Int  BY <2>4 DEF n
    <3>2. IsFiniteSet(1 .. n) /\ Cardinality(1 .. n) = IF 1 > n THEN 0 ELSE n - 1 + 1
      BY <3>1, FS_Interval
    <3> QED  BY <3>1, <3>2 DEF n
  <2>7. Cardinality(listed) = Cardinality(1 .. Len(s))
    BY <2>5, <2>6, FS_Bijection DEF ExistsBijection
  <2> QED  BY <1>9, <2>6, <2>7
<1> HIDE DEF words, listed
<1>11. listed \subseteq matching  BY <1>3, <1>6, <1>8
<1>12. Len(words) < MaxShown => listed = matching
  <2> SUFFICES ASSUME Len(s) < MaxShown, NEW w \in matching PROVE w \in listed
    BY <1>9, <1>11
  <2>1. PICK m \in M : word(m) = w  BY <1>7
  <2>2. PICK k \in DOMAIN s : s[k] = m  BY <1>1, <2>1 DEF Range
  <2> QED  BY <1>8, <2>1, <2>2
<1>13. ASSUME NEW j \in DOMAIN s, NEW k \in DOMAIN s, j < k
       PROVE  FreqOf(words[j]) >= FreqOf(words[k])
  <2>1. root[s[j]].freq >= root[s[k]].freq  BY <1>1, <1>13 DEF Ahead
  <2>2. root[s[j]].freq = FreqOf(word(s[j])) /\ root[s[k]].freq = FreqOf(word(s[k]))
    BY <1>2, <1>3
  <2> QED  BY <1>8, <2>1, <2>2
<1>14. ASSUME NEW w \in matching \ listed, NEW v \in listed PROVE FreqOf(v) >= FreqOf(w)
  <2>1. PICK m \in M : word(m) = w  BY <1>7
  <2>2. PICK k \in DOMAIN s : v = word(s[k])  BY <1>8
  <2>3. m \notin Range(s)
    <3> SUFFICES ASSUME NEW j \in DOMAIN s, s[j] = m PROVE FALSE  BY DEF Range
    <3> QED  BY <1>8, <2>1
  <2>4. Ahead(root, s[k], m)  BY <1>1, <2>3
  <2> QED  BY <1>2, <1>3, <2>1, <2>2, <2>4 DEF Ahead, word
<1> QED  BY <1>8, <1>10, <1>11, <1>12, <1>13, <1>14 DEF Right, matching, words, listed, word
-----------------------------------------------------------------------------
(* The suggestion program.                                                 *)

LEMMA EmptyScreen == BestOf(root, Matches(<< >>), << >>, MaxShown)
<1> DEFINE e == << >>
<1>1. Len(e) = 0 /\ DOMAIN e = {} /\ Range(e) = {}
  <2>1. Len(e) = 0 /\ e \in Seq(Nat)  BY EmptySeq
  <2>2. DOMAIN e = {}  OBVIOUS
  <2> QED  BY <2>1, <2>2 DEF Range
<1>2. Matches(e) = {}  BY DEF Matches
<1>3. 0 \in 0 .. MaxShown  BY WordListAssumption
<1> HIDE DEF e
<1>4. DOMAIN e = 1 .. Len(e)  BY <1>1
<1>5. BestOf(root, Matches(e), e, MaxShown)  BY <1>1, <1>2, <1>3, <1>4 DEF BestOf
<1> QED  BY <1>5 DEF e

LEMMA LinesStayNat ==
  ASSUME queryStr \in Seq(Nat)
  PROVE  Erased \in Seq(Nat) /\ \A ch \in Keys : Append(queryStr, ch) \in Seq(Nat)
<1>1. Erased \in Seq(Nat)
  <2>1. CASE queryStr = << >>  BY <2>1 DEF Erased
  <2>2. CASE queryStr # << >>
    <3>1. Len(queryStr) \in Nat /\ Len(queryStr) # 0  BY <2>2, EmptySeq, LenProperties
    <3>2. Len(queryStr) - 1 \in 0 .. Len(queryStr)  BY <3>1
    <3>3. SubSeq(queryStr, 1, Len(queryStr) - 1) \in Seq(Nat)  BY <3>2, FirstsOf
    <3> QED  BY <2>2, <3>3 DEF Erased, Front
  <2> QED  BY <2>1, <2>2
<1>2. \A ch \in Keys : Append(queryStr, ch) \in Seq(Nat)
  BY WordListAssumption, AppendProperties
<1> QED  BY <1>1, <1>2

(* Nothing is typed or shown before the file is read; then the screen is   *)
(* the best of the terminal nodes below the line's path.                   *)
SugInv ==
  /\ WordsInv
  /\ queryStr \in Seq(Nat)
  /\ pc = "load" => queryStr = << >> /\ shown = << >> /\ lineno <= Turns
  /\ pc = "typing" => lineno = Turns + 1
  /\ pc = "typing" /\ LettersOnly(queryStr) => BestOf(root, Matches(queryStr), shown, MaxShown)

LEMMA RefreshKeeps ==
  ASSUME SugInv, pc = "typing", NEW q \in Seq(Nat), Refresh(q)
  PROVE  SugInv'
<1>1. queryStr' = q /\ UNCHANGED <<file, lineno, root>>  BY DEF Refresh
<1>2. WordsInv' /\ Turns' = Turns  BY <1>1, WordsStay DEF SugInv
<1>3. PICK found \in IF q = << >> THEN {NULL_NODE} ELSE find(root, q) :
        IF found = BAD_NODE
        THEN pc' = "crashed" /\ pq' = EmptyBag /\ UNCHANGED shown
        ELSE /\ shown' \in TopWords(root, search(root, found), MaxShown)
             /\ pq' = EmptyBag
             /\ UNCHANGED pc
  BY DEF Refresh
<1>4. pc' # "load" /\ (pc' = "typing" => lineno' = Turns' + 1)
  BY <1>1, <1>2, <1>3 DEF SugInv
<1>5. ASSUME pc' = "typing", LettersOnly(q)
      PROVE  BestOf(root, Matches(q), shown', MaxShown)
  <2>1. NodesOK(root)  BY DEF SugInv, WordsInv
  <2>2. found # BAD_NODE /\ search(root, found) = SetToBag(Matches(q))
    BY <1>5, <2>1, SearchLetters
  <2>3. shown' \in TopWords(root, SetToBag(Matches(q)), MaxShown)  BY <1>3, <2>2
  <2>4. MaxShown \in Nat  BY WordListAssumption
  <2> QED  BY <2>3, <2>4, TopWordsOfASet
<1>6. Matches(queryStr)' = Matches(q) /\ LettersOnly(queryStr)' = LettersOnly(q)
  BY <1>1 DEF Matches, Terminals, LettersOnly
<1>7. pc' = "typing" /\ LettersOnly(queryStr)'
        => BestOf(root, Matches(queryStr), shown, MaxShown)'
  BY <1>1, <1>5, <1>6 DEF BestOf
<1> QED  BY <1>1, <1>2, <1>4, <1>7 DEF SugInv

LEMMA SugInvHolds == Spec => []SugInv
<1>1. Init => SugInv
  <2> SUFFICES ASSUME Init PROVE SugInv  OBVIOUS
  <2>1. WordsInv /\ lineno <= Turns  BY InitLoads DEF Init
  <2> QED  BY <2>1 DEF Init, InitWords, SugInv
<1>2. SugInv /\ [Next]_vars => SugInv'
  <2> SUFFICES ASSUME SugInv, [Next]_vars PROVE SugInv'  OBVIOUS
  <2>1. CASE LoadLine
    <3>1. Load /\ UNCHANGED <<file, pq, queryStr, shown>> /\ pc = "load"
          /\ pc' \in {IF AnotherTurn THEN "load" ELSE "typing", "crashed", "undefined"}
      BY <2>1 DEF LoadLine, AfterLoad
    <3>2. /\ WordsInv'
          /\ IF AnotherTurn THEN lineno' <= Turns' ELSE lineno' = Turns' + 1
      BY <3>1, LoadKeeps DEF SugInv
    <3>3. queryStr' = << >> /\ shown' = << >>  BY <3>1 DEF SugInv
    <3>4. BestOf(root, Matches(<< >>), << >>, MaxShown)'  BY EmptyScreen, PTL
    <3>5. BestOf(root, Matches(queryStr), shown, MaxShown)'
      <4>1. Matches(queryStr)' = {} /\ Matches(<< >>)' = {}  BY <3>3 DEF Matches
      <4> QED  BY <3>3, <3>4, <4>1 DEF BestOf
    <3>6. queryStr' \in Seq(Nat)  BY <3>3
    <3> QED  BY <3>1, <3>2, <3>3, <3>5, <3>6 DEF SugInv
  <2>2. CASE Type
    <3>1. PICK ch \in Keys : Refresh(Append(queryStr, ch))  BY <2>2 DEF Type
    <3>2. Append(queryStr, ch) \in Seq(Nat)  BY LinesStayNat DEF SugInv
    <3> QED  BY <2>2, <3>1, <3>2, RefreshKeeps DEF Type
  <2>3. CASE Backspace
    <3>1. Erased \in Seq(Nat)  BY LinesStayNat DEF SugInv
    <3> QED  BY <2>3, <3>1, RefreshKeeps DEF Backspace
  <2>4. CASE Escape
    <3>1. WordsInv'  BY <2>4, WordsStay DEF SugInv, Escape
    <3> QED  BY <2>4, <3>1 DEF SugInv, Escape
  <2>5. CASE UNCHANGED vars
    <3>1. UNCHANGED <<file, lineno, root>> /\ UNCHANGED <<queryStr, shown, pc>>
      BY <2>5 DEF vars
    <3>2. WordsInv' /\ Turns' = Turns  BY <3>1, WordsStay DEF SugInv
    <3> QED  BY <3>1, <3>2 DEF SugInv, LettersOnly, BestOf, Matches, Terminals
  <2> QED  BY <2>1, <2>2, <2>3, <2>4, <2>5 DEF Next
<1> QED  BY <1>1, <1>2, PTL DEF Spec

(* For every data file, texts that run over several lines included: when   *)
(* it is read, the terminal nodes that a walk over children[] comes to are *)
(* its words, each once, with the frequency of the last line that spells   *)
(* it (unless a text that is no word has made the program undefined).      *)
THEOREM TheTrieHoldsTheFile == Spec => []TrieHoldsTheFile
<1>1. SugInv => TrieHoldsTheFile
  <2> SUFFICES ASSUME SugInv, pc = "typing" PROVE TrieHoldsTheFile  BY DEF TrieHoldsTheFile
  <2>1. Loaded  BY DEF SugInv, Loaded
  <2> QED  BY <2>1, LoadedTrie DEF TrieHoldsTheFile, Terminals
<1> QED  BY <1>1, SugInvHolds, PTL

(* Whatever was typed and deleted, for every data file, alphabet and size  *)
(* of the list: a line of letters shows the most frequent words that begin *)
(* with it.                                                                *)
THEOREM TheMostFrequentAreShown == Spec => []ShowsTheMostFrequent
<1>1. SugInv => ShowsTheMostFrequent
  <2> SUFFICES ASSUME SugInv, pc = "typing", LettersOnly(queryStr) PROVE ShowsTheMostFrequent
    BY DEF ShowsTheMostFrequent
  <2>1. Loaded /\ queryStr \in Seq(Nat) /\ BestOf(root, Matches(queryStr), shown, MaxShown)
    BY DEF SugInv, Loaded
  <2>2. Right(queryStr, shown)  BY <2>1, BestIsRight
  <2> QED  BY <2>2 DEF Right, ShowsTheMostFrequent
<1> QED  BY <1>1, SugInvHolds, PTL
-----------------------------------------------------------------------------
(* The search server and its client.                                       *)

(* When array has room for all of M, all of M is popped. *)
LEMMA AllPopped ==
  ASSUME NEW t, NEW M, NEW max \in Nat, NEW s, BestOf(t, M, s, max),
         IsFiniteSet(M), Cardinality(M) <= max
  PROVE  Range(s) = M
<1> DEFINE n == Len(s)
           R == Range(s)
<1>1. /\ n \in 0 .. max /\ s \in [1 .. n -> M] /\ R \subseteq M
      /\ \A j, k \in 1 .. n : s[j] = s[k] => j = k
      /\ n < max => R = M
  BY DEF BestOf
<1>2. s \in [1 .. n -> R] /\ \A m \in R : \E k \in 1 .. n : s[k] = m  BY <1>1 DEF Range
<1> HIDE DEF n, R
<1>3. n \in Nat /\ 1 \in Int /\ n \in Int  BY <1>1
<1>4. s \in Bijection(1 .. n, R)  BY <1>1, <1>2, Fun_IsBij
<1>5. IsFiniteSet(1 .. n) /\ Cardinality(1 .. n) = n
  <2>1. IsFiniteSet(1 .. n) /\ Cardinality(1 .. n) = IF 1 > n THEN 0 ELSE n - 1 + 1
    BY <1>3, FS_Interval
  <2> QED  BY <1>3, <2>1
<1>6. Cardinality(R) = n  BY <1>4, <1>5, FS_Bijection DEF ExistsBijection
<1>7. R \in SUBSET M  BY <1>1
<1>8. Cardinality(R) <= Cardinality(M) /\ (Cardinality(M) = Cardinality(R) => M = R)
  BY <1>7, FS_Subset
<1>9. Cardinality(M) \in Nat  BY FS_CardinalityType
<1>10. CASE n = max
  <2>1. Cardinality(M) = Cardinality(R)  BY <1>6, <1>8, <1>9, <1>10
  <2> QED  BY <1>8, <2>1 DEF R
<1>11. CASE n # max
  <2>1. n < max  BY <1>1, <1>11
  <2> QED  BY <1>1, <2>1 DEF R
<1> QED  BY <1>10, <1>11

(* Nothing stays in a queue that was empty before no more than max words   *)
(* were pushed.                                                            *)
LEMMA QueueIsEmptied ==
  ASSUME NEW t, NEW M, NEW max \in Nat, IsFiniteSet(M), Cardinality(M) <= max,
         NEW s \in TopWords(t, EmptyBag (+) SetToBag(M), max)
  PROVE  /\ Range(s) = M /\ Len(s) \in 0 .. max /\ s \in [1 .. Len(s) -> M]
         /\ (EmptyBag (+) SetToBag(M)) (-) BagOf(s) = EmptyBag
<1>1. EmptyBag (+) SetToBag(M) = SetToBag(M)  BY DEF (+), SetToBag, EmptyBag
<1>2. s \in TopWords(t, SetToBag(M), max)  BY <1>1
<1>3. BestOf(t, M, s, max) /\ BagToSet(SetToBag(M) (-) BagOf(s)) = M \ Range(s)
  BY <1>2, TopWordsOfASet
<1>4. Range(s) = M  BY <1>3, AllPopped
<1>5. SetToBag(M) (-) BagOf(s) = EmptyBag
  <2> DEFINE B == SetToBag(M) (-) BagOf(s)
  <2>1. B = [e \in DOMAIN B |-> B[e]]  BY DEF (-)
  <2>2. DOMAIN B = {}  BY <1>3, <1>4 DEF BagToSet
  <2> HIDE DEF B
  <2>3. B = [e \in {} |-> 1]  BY <2>1, <2>2
  <2> QED  BY <2>3 DEF EmptyBag, SetToBag, B
<1>6. Len(s) \in 0 .. max /\ s \in [1 .. Len(s) -> M]  BY <1>3 DEF BestOf
<1> QED  BY <1>1, <1>4, <1>5, <1>6

LineOK(q) == q \in Seq(Nat) /\ Len(q) <= MaxQuery /\ \A k \in 1 .. Len(q) : q[k] # 0

LEMMA RequestFacts ==
  ASSUME NEW q \in Seq(Nat)
  PROVE  /\ Request(q) \in Seq(Nat) /\ Len(Request(q)) = StrBytes
         /\ \A k \in 1 .. StrBytes : Request(q)[k] = IF k <= Len(q) THEN q[k] ELSE 0
<1>1. Len(q) \in Nat /\ \A k \in 1 .. Len(q) : q[k] \in Nat  BY LenProperties, ElementOfSeq
<1>2. Request(q) \in [1 .. StrBytes -> Nat]  BY <1>1, SearchAssumption DEF Request
<1>3. StrBytes \in Nat  BY SearchAssumption
<1>4. \A k \in 1 .. StrBytes : Request(q)[k] = IF k <= Len(q) THEN q[k] ELSE 0  BY DEF Request
<1> QED  BY <1>2, <1>3, <1>4, FunctionIsSeq

(* A whole request, whatever is after it in the buffer, is the line. *)
LEMMA RequestIsTheLine ==
  ASSUME NEW q, LineOK(q), NEW x \in Seq(Nat), typedWord' = Request(q) \o x
  PROVE  TypedStrings' = {q}
<1> DEFINE w == typedWord'
           ends == {k \in DOMAIN w : w[k] = 0}
           e == Len(q) + 1
           first == CHOOSE k \in ends : \A j \in ends : k <= j
<1>1. /\ q \in Seq(Nat) /\ Len(q) \in Nat /\ Len(q) <= MaxQuery
      /\ \A k \in 1 .. Len(q) : q[k] # 0
  BY LenProperties DEF LineOK
<1>2. StrBytes \in Nat /\ MaxQuery \in 0 .. StrBytes - 2  BY SearchAssumption
<1>3. e \in 1 .. StrBytes /\ \A k \in 1 .. Len(q) : k \in 1 .. StrBytes  BY <1>1, <1>2
<1>4. /\ Request(q) \in Seq(Nat) /\ Len(Request(q)) = StrBytes
      /\ \A k \in 1 .. StrBytes : Request(q)[k] = IF k <= Len(q) THEN q[k] ELSE 0
  BY <1>1, RequestFacts
<1>5. /\ w \in Seq(Nat) /\ Len(w) = StrBytes + Len(x)
      /\ \A k \in 1 .. StrBytes : w[k] = Request(q)[k]
  <2> DEFINE r == Request(q)
  <2> HIDE DEF r
  <2>1. r \in Seq(Nat) /\ Len(r) = StrBytes /\ w = r \o x  BY <1>4 DEF r
  <2>2. /\ r \o x \in Seq(Nat) /\ Len(r \o x) = Len(r) + Len(x) /\ Len(x) \in Nat
        /\ \A k \in 1 .. Len(r) + Len(x) : (r \o x)[k] = IF k <= Len(r) THEN r[k] ELSE x[k - Len(r)]
    BY <2>1, ConcatProperties, LenProperties
  <2>3. \A k \in 1 .. StrBytes : k \in 1 .. Len(r) + Len(x) /\ k <= Len(r)  BY <1>2, <2>1, <2>2
  <2> QED  BY <2>1, <2>2, <2>3 DEF r
<1> HIDE DEF w
<1>6. Len(x) \in Nat /\ DOMAIN w = 1 .. Len(w)  BY <1>5, LenProperties
<1>7. \A k \in 1 .. StrBytes : k \in DOMAIN w  BY <1>2, <1>5, <1>6
<1>8. e \in ends
  <2>1. w[e] = 0  BY <1>1, <1>3, <1>4, <1>5
  <2> QED  BY <1>3, <1>7, <2>1
<1>9. \A k \in ends : e <= k
  <2> SUFFICES ASSUME NEW k \in ends, ~(e <= k) PROVE FALSE  OBVIOUS
  <2>1. k \in Nat /\ k >= 1  BY <1>5, <1>6
  <2>2. k \in 1 .. Len(q)  BY <1>1, <2>1
  <2>3. k \in 1 .. StrBytes /\ k <= Len(q)  BY <1>1, <1>3, <2>2
  <2>4. w[k] = Request(q)[k] /\ Request(q)[k] = q[k]  BY <1>4, <1>5, <2>3
  <2> QED  BY <1>1, <2>2, <2>4
<1>10. \A k \in ends : (\A j \in ends : k <= j) => k = e
  <2> TAKE k \in ends
  <2>1. k \in Nat /\ e \in Nat  BY <1>1, <1>5, <1>6
  <2> HIDE DEF ends, e
  <2> QED  BY <1>8, <1>9, <2>1
<1>11. first = e
  <2> HIDE DEF ends, e
  <2> QED  BY <1>8, <1>9, <1>10
<1>12. SubSeq(w, 1, first - 1) = q
  <2>1. first - 1 = Len(q) /\ Len(q) \in 0 .. Len(w) /\ Len(q) \in 0 .. Len(q) /\ Len(q) <= Len(w)
    <3> HIDE DEF first
    <3> QED  BY <1>1, <1>2, <1>3, <1>5, <1>6, <1>11
  <2>2. ASSUME NEW k \in 1 .. Len(q) PROVE w[k] = q[k]
    <3>1. k \in 1 .. StrBytes /\ k <= Len(q)  BY <1>1, <1>3
    <3>2. w[k] = Request(q)[k] /\ Request(q)[k] = q[k]  BY <1>4, <1>5, <3>1
    <3> QED  BY <3>2
  <2>3. SubSeq(w, 1, Len(q)) = SubSeq(q, 1, Len(q))  BY <1>1, <1>5, <2>1, <2>2, SameFirsts
  <2>4. SubSeq(q, 1, Len(q)) = q  BY <1>1, SubSeqFull
  <2> HIDE DEF first
  <2> QED  BY <2>1, <2>3, <2>4
<1>13. TypedStrings' = IF ends = {} THEN {w \o g : g \in StackGarbage}
                       ELSE {SubSeq(w, 1, first - 1)}
  BY DEF TypedStrings, w
<1> HIDE DEF ends, first
<1> QED  BY <1>8, <1>12, <1>13

(* The trie holds what the file says, nothing stays in the queue until     *)
(* some query is crowded, and what is sent is made of chars.               *)
NetBase ==
  /\ WordsInv
  /\ srv = "load" => lineno <= Turns
  /\ srv \in {"read", "answer"} => lineno = Turns + 1
  /\ crowded \in BOOLEAN /\ (~crowded => pq = EmptyBag)
  /\ toServer \in Seq(Nat) /\ typedWord \in Seq(Nat)
  /\ LineOK(queryStr)
  /\ short \in Nat

LEMMA BaseKept ==
  ASSUME NetBase, UNCHANGED <<file, lineno, root>>,
         srv' = "load" => srv = "load",
         srv' \in {"read", "answer"} => srv \in {"read", "answer"},
         crowded' \in BOOLEAN, ~crowded' => pq' = EmptyBag,
         toServer' \in Seq(Nat), typedWord' \in Seq(Nat), LineOK(queryStr'), short' \in Nat
  PROVE  NetBase'
<1>1. WordsInv' /\ Turns' = Turns  BY WordsStay DEF NetBase
<1>2. LineOK(queryStr)'  BY DEF LineOK
<1>3. /\ srv' = "load" => lineno' <= Turns'
      /\ srv' \in {"read", "answer"} => lineno' = Turns' + 1
  BY <1>1 DEF NetBase
<1> QED  BY <1>1, <1>2, <1>3 DEF NetBase

LEMMA ServerLoadKeepsBase == ASSUME NetBase, ServerLoad PROVE NetBase'
<1>1. /\ srv = "load" /\ Load /\ UNCHANGED <<file, pq, typedWord, crowded>>
      /\ srv' \in {IF AnotherTurn THEN "load" ELSE "read", "crashed", "undefined"}
      /\ UNCHANGED <<queryStr, toServer, short>>
  BY DEF ServerLoad, AfterLoad, clientVars, streamVars
<1>2. /\ WordsInv'
      /\ IF AnotherTurn THEN lineno' <= Turns' ELSE lineno' = Turns' + 1
  BY <1>1, LoadKeeps DEF NetBase
<1>3. /\ srv' = "load" => lineno' <= Turns'
      /\ srv' \in {"read", "answer"} => lineno' = Turns' + 1
  BY <1>1, <1>2
<1>4. LineOK(queryStr)'  BY <1>1 DEF NetBase, LineOK
<1> QED  BY <1>1, <1>2, <1>3, <1>4 DEF NetBase

LEMMA ReadQueryKeepsBase == ASSUME NetBase, ReadQuery PROVE NetBase'
<1>1. /\ srv = "read" /\ srv' = "answer" /\ UNCHANGED <<file, lineno, root>>
      /\ UNCHANGED <<pq, crowded, queryStr>>
  BY DEF ReadQuery, clientVars
<1> DEFINE first == typedWord = << >>
<1>2. PICK n \in 1 .. Len(toServer) :
           /\ Read(n, Len(toServer), IF first THEN BUF_SIZE - 1 ELSE BUF_SIZE)
           /\ typedWord' = SubSeq(toServer, 1, n) \o
                             (IF first THEN <<0>> ELSE SubSeq(typedWord, n + 1, Len(typedWord)))
           /\ toServer' = SubSeq(toServer, n + 1, Len(toServer))
  BY DEF ReadQuery
<1>3. toServer \in Seq(Nat) /\ typedWord \in Seq(Nat) /\ short \in Nat /\ LineOK(queryStr)
  BY DEF NetBase
<1>4. short' \in Nat  BY <1>2, <1>3 DEF Read
<1>5. n \in Nat /\ n \in 0 .. Len(toServer) /\ n + 1 \in Int
  BY <1>3, LenProperties
<1>6. \A s \in Seq(Nat) : SubSeq(s, n + 1, Len(s)) \in Seq(Nat)
  <2> TAKE s \in Seq(Nat)
  <2>1. Len(s) \in Nat /\ \A k \in 1 .. Len(s) : s[k] \in Nat  BY LenProperties, ElementOfSeq
  <2>2. Len(s) \in Int /\ \A k \in n + 1 .. Len(s) : s[k] \in Nat  BY <1>5, <2>1
  <2> QED  BY <1>5, <2>2, SubSeqProperties
<1>7. SubSeq(toServer, 1, n) \in Seq(Nat)  BY <1>3, <1>5, FirstsOf
<1>8. <<0>> \in Seq(Nat)  OBVIOUS
<1> DEFINE x == IF first THEN <<0>> ELSE SubSeq(typedWord, n + 1, Len(typedWord))
<1>9. x \in Seq(Nat)  BY <1>3, <1>6, <1>8
<1>10. typedWord' = SubSeq(toServer, 1, n) \o x  BY <1>2
<1> HIDE DEF x
<1>11. typedWord' \in Seq(Nat)  BY <1>7, <1>9, <1>10, ConcatProperties
<1>12. toServer' \in Seq(Nat)  BY <1>2, <1>3, <1>6
<1>13. LineOK(queryStr')  BY <1>1, <1>3
<1>14. crowded' \in BOOLEAN /\ (~crowded' => pq' = EmptyBag)  BY <1>1 DEF NetBase
<1> QED  BY <1>1, <1>4, <1>11, <1>12, <1>13, <1>14, BaseKept

(* What search pushes. *)
Pushed(found) == IF found = NULL_NODE THEN {} ELSE traversal(root, found)

LEMMA PushedIsFinite ==
  ASSUME NodesOK(root), NEW found
  PROVE  IsFiniteSet(Pushed(found)) /\ search(root, found) = SetToBag(Pushed(found))
<1>1. Pushed(found) \in SUBSET DOMAIN root  BY DEF Pushed, traversal
<1>2. IsFiniteSet(Pushed(found))  BY <1>1, FS_Subset DEF NodesOK
<1> QED  BY <1>2 DEF search, Pushed

LEMMA AnswerFacts ==
  ASSUME NetBase, Answer
  PROVE  \E typed \in TypedStrings : \E found \in find(root, typed) :
           \/ found = BAD_NODE /\ srv' = "crashed" /\ UNCHANGED <<pq, toClient, crowded>>
           \/ \E s :
                /\ found # BAD_NODE /\ crowded' \in BOOLEAN /\ (~crowded' => ~crowded)
                /\ ~crowded' => /\ pq' = EmptyBag /\ Range(s) = Pushed(found)
                                /\ Len(s) \in 0 .. MaxShown /\ s \in [1 .. Len(s) -> Pushed(found)]
                /\ srv' \in {"read", "crashed"}
                /\ IF ClientUp THEN srv' = "read" /\ toClient' = toClient \o Array(s, typed)
                   ELSE UNCHANGED toClient
<1>1. PICK typed \in TypedStrings : \E found \in find(root, typed) :
       IF found = BAD_NODE
       THEN srv' = "crashed" /\ UNCHANGED <<pq, toClient, crowded>>
       ELSE LET pushed == pq (+) search(root, found)
            IN  \E s \in TopWords(root, pushed, MaxShown) :
                  /\ pq' = pushed (-) BagOf(s)
                  /\ crowded' = (crowded \/ Cardinality(BagToSet(search(root, found))) > MaxShown)
                  /\ IF ClientUp
                     THEN srv' = "read" /\ toClient' = toClient \o Array(s, typed)
                     ELSE srv' \in {"read", "crashed"} /\ UNCHANGED toClient
  BY DEF Answer
<1>2. PICK found \in find(root, typed) :
       IF found = BAD_NODE
       THEN srv' = "crashed" /\ UNCHANGED <<pq, toClient, crowded>>
       ELSE LET pushed == pq (+) search(root, found)
            IN  \E s \in TopWords(root, pushed, MaxShown) :
                  /\ pq' = pushed (-) BagOf(s)
                  /\ crowded' = (crowded \/ Cardinality(BagToSet(search(root, found))) > MaxShown)
                  /\ IF ClientUp
                     THEN srv' = "read" /\ toClient' = toClient \o Array(s, typed)
                     ELSE srv' \in {"read", "crashed"} /\ UNCHANGED toClient
  BY <1>1
<1>3. CASE found = BAD_NODE  BY <1>2, <1>3
<1>4. CASE found # BAD_NODE
  <2> DEFINE M == Pushed(found)
  <2>1. PICK s \in TopWords(root, pq (+) search(root, found), MaxShown) :
                  /\ pq' = (pq (+) search(root, found)) (-) BagOf(s)
                  /\ crowded' = (crowded \/ Cardinality(BagToSet(search(root, found))) > MaxShown)
                  /\ IF ClientUp
                     THEN srv' = "read" /\ toClient' = toClient \o Array(s, typed)
                     ELSE srv' \in {"read", "crashed"} /\ UNCHANGED toClient
    BY <1>2, <1>4
  <2>2. IsFiniteSet(M) /\ search(root, found) = SetToBag(M)
    BY PushedIsFinite DEF NetBase, WordsInv
  <2>3. BagToSet(search(root, found)) = M  BY <2>2 DEF BagToSet, SetToBag
  <2>4. crowded \in BOOLEAN /\ (~crowded => pq = EmptyBag) /\ MaxShown \in Nat
    BY WordListAssumption DEF NetBase
  <2> HIDE DEF M
  <2>5. crowded' \in BOOLEAN /\ (~crowded' => ~crowded /\ ~(Cardinality(M) > MaxShown))
    BY <2>1, <2>3, <2>4, Zenon
  <2>6. ASSUME ~crowded'
        PROVE  /\ pq' = EmptyBag /\ Range(s) = M
               /\ Len(s) \in 0 .. MaxShown /\ s \in [1 .. Len(s) -> M]
    <3>1. pq = EmptyBag  BY <2>4, <2>5, <2>6
    <3>2. Cardinality(M) <= MaxShown
      <4>1. Cardinality(M) \in Nat  BY <2>2, FS_CardinalityType
      <4> QED  BY <2>4, <2>5, <2>6, <4>1
    <3>3. s \in TopWords(root, EmptyBag (+) SetToBag(M), MaxShown)  BY <2>1, <2>2, <3>1
    <3>4. /\ Range(s) = M /\ Len(s) \in 0 .. MaxShown /\ s \in [1 .. Len(s) -> M]
          /\ (EmptyBag (+) SetToBag(M)) (-) BagOf(s) = EmptyBag
      BY <2>2, <2>4, <3>2, <3>3, QueueIsEmptied
    <3> QED  BY <2>1, <2>2, <3>1, <3>4
  <2>7. srv' \in {"read", "crashed"}  BY <2>1
  <2>8. IF ClientUp THEN srv' = "read" /\ toClient' = toClient \o Array(s, typed)
        ELSE UNCHANGED toClient
    BY <2>1
  <2> QED  BY <1>4, <2>5, <2>6, <2>7, <2>8 DEF M
<1> QED  BY <1>3, <1>4

LEMMA AnswerKeepsBase == ASSUME NetBase, Answer PROVE NetBase'
<1>1. /\ UNCHANGED <<file, lineno, root>> /\ UNCHANGED <<typedWord, queryStr, toServer, short>>
      /\ srv = "answer"
  BY DEF Answer, clientVars
<1>2. crowded' \in BOOLEAN /\ (~crowded' => pq' = EmptyBag) /\ srv' # "load"
  BY AnswerFacts DEF NetBase
<1> QED  BY <1>1, <1>2, BaseKept DEF NetBase

LEMMA SendKeepsBase == ASSUME NetBase, NEW q, LineOK(q), Send(q) PROVE NetBase'
<1>1. /\ UNCHANGED <<file, lineno, root>> /\ UNCHANGED <<srv, pq, crowded, typedWord, short>>
      /\ queryStr' = q
      /\ toServer' = toServer \/ toServer' = toServer \o Request(q)
  BY DEF Send, serverVars
<1>2. toServer \in Seq(Nat) /\ Request(q) \in Seq(Nat)  BY RequestFacts DEF NetBase, LineOK
<1>3. toServer \o Request(q) \in Seq(Nat)  BY <1>2, ConcatProperties
<1>4. LineOK(queryStr')  BY <1>1
<1> QED  BY <1>1, <1>2, <1>3, <1>4, BaseKept DEF NetBase

LEMMA LinesStayOK ==
  ASSUME LineOK(queryStr)
  PROVE  /\ LineOK(Erased)
         /\ \A ch \in Keys : Len(queryStr) < MaxQuery => LineOK(Append(queryStr, ch))
<1>1. /\ queryStr \in Seq(Nat) /\ Len(queryStr) \in Nat /\ Len(queryStr) <= MaxQuery
      /\ \A k \in 1 .. Len(queryStr) : queryStr[k] # 0
      /\ MaxQuery \in Nat /\ Keys \subseteq Nat \ {0}
  BY LenProperties, WordListAssumption DEF LineOK
<1>2. LineOK(Erased)
  <2>1. CASE queryStr = << >>
    <3>1. Erased = queryStr  BY <2>1 DEF Erased
    <3> QED  BY <3>1
  <2>2. CASE queryStr # << >>
    <3> DEFINE n == Len(queryStr) - 1
               t == SubSeq(queryStr, 1, n)
    <3>1. n \in 0 .. Len(queryStr)  BY <1>1, <2>2, EmptySeq
    <3>2. t \in Seq(Nat) /\ Len(t) = n /\ \A k \in 1 .. n : t[k] = queryStr[k]
      BY <1>1, <3>1, FirstsOf
    <3>3. Erased = t  BY <2>2 DEF Erased, Front
    <3>4. \A k \in 1 .. n : k \in 1 .. Len(queryStr)  BY <1>1
    <3>5. n <= MaxQuery  BY <1>1
    <3> HIDE DEF t, n
    <3> QED  BY <1>1, <3>2, <3>3, <3>4, <3>5 DEF LineOK
  <2> QED  BY <2>1, <2>2
<1>3. ASSUME NEW ch \in Keys, Len(queryStr) < MaxQuery PROVE LineOK(Append(queryStr, ch))
  <2> DEFINE t == Append(queryStr, ch)
             n == Len(queryStr)
  <2>1. ch \in Nat /\ ch # 0  BY <1>1
  <2>2. /\ t \in Seq(Nat) /\ Len(t) = n + 1
        /\ \A k \in 1 .. n : t[k] = queryStr[k]
        /\ t[n + 1] = ch
    BY <1>1, <2>1, AppendProperties
  <2>3. n \in Nat /\ n < MaxQuery /\ \A k \in 1 .. n : queryStr[k] # 0  BY <1>1, <1>3
  <2> HIDE DEF t, n
  <2>4. \A k \in 1 .. n + 1 : k \in 1 .. n \/ k = n + 1  BY <2>3
  <2> QED  BY <1>1, <2>1, <2>2, <2>3, <2>4 DEF LineOK, t
<1> QED  BY <1>2, <1>3

LEMMA NetBaseStep == ASSUME NetBase, [NetNext]_netVars PROVE NetBase'
<1>0. /\ LineOK(queryStr) /\ toServer \in Seq(Nat) /\ typedWord \in Seq(Nat) /\ short \in Nat
      /\ crowded \in BOOLEAN /\ (~crowded => pq = EmptyBag)
  BY DEF NetBase
<1>1. CASE OpenFails
  BY <1>0, <1>1, BaseKept DEF OpenFails, clientVars, streamVars
<1>2. CASE ServerLoad  BY <1>2, ServerLoadKeepsBase
<1>3. CASE ReadQuery  BY <1>3, ReadQueryKeepsBase
<1>4. CASE ReadEnd
  BY <1>0, <1>4, BaseKept DEF ReadEnd, clientVars, streamVars
<1>5. CASE Answer  BY <1>5, AnswerKeepsBase
<1>6. CASE ReadReply
  <2>1. UNCHANGED <<serverVars, queryStr, toServer>>  BY <1>6 DEF ReadReply
  <2>2. short' \in Nat  BY <1>0, <1>6 DEF ReadReply, Read
  <2> QED  BY <1>0, <2>1, <2>2, BaseKept DEF serverVars
<1>7. CASE ReadNothing
  BY <1>0, <1>7, BaseKept DEF ReadNothing, serverVars, streamVars
<1>8. CASE TypeKey
  <2>1. PICK ch \in Keys : Len(queryStr) < MaxQuery /\ Send(Append(queryStr, ch))
    BY <1>8 DEF TypeKey
  <2>2. LineOK(Append(queryStr, ch))  BY <1>0, <2>1, LinesStayOK
  <2> QED  BY <2>1, <2>2, SendKeepsBase
<1>9. CASE DeleteKey
  <2>1. LineOK(Erased)  BY <1>0, LinesStayOK
  <2> QED  BY <1>9, <2>1, SendKeepsBase DEF DeleteKey
<1>10. CASE Quit
  BY <1>0, <1>10, BaseKept DEF Quit, serverVars, streamVars
<1>11. CASE UNCHANGED netVars
  BY <1>0, <1>11, BaseKept DEF netVars, serverVars, clientVars, streamVars
<1> QED
  BY <1>1, <1>2, <1>3, <1>4, <1>5, <1>6, <1>7, <1>8, <1>9, <1>10, <1>11
  DEF NetNext, Server, Client, User
-----------------------------------------------------------------------------
(* One question, one answer, as long as no read was short.                 *)

(* All ten strings of a reply to the search line: as long as no query was  *)
(* crowded, they are the words that begin with it.                         *)
Replies(strings) ==
  /\ strings = [k \in 1 .. MaxShown |-> strings[k]]
  /\ \A k \in 1 .. MaxShown : strings[k].query = queryStr
  /\ ~crowded /\ LettersOnly(queryStr) =>
       {strings[k].word : k \in 1 .. MaxShown} \ {NULL_NODE} = Matches(queryStr)

Idle     == toClient = << >> /\ srv # "answer" /\ (ServerUp => toServer = << >>)
Drawn    == shown = << >> \/ (srv # "load" /\ queryStr # << >> /\ Replies(shown))
Asked    == toServer = Request(queryStr) /\ toClient = << >> /\ srv \in {"load", "read"}
Heard    == toServer = << >> /\ toClient = << >> /\ srv = "answer" /\ TypedStrings = {queryStr}
Answered == toServer = << >> /\ srv = "read" /\ Replies(toClient)
Lost     == ~ServerUp /\ toClient = << >>

InStep ==
  /\ cli = "typing" => Idle /\ Drawn
  /\ cli = "waiting" => queryStr # << >> /\ (Asked \/ Heard \/ Answered \/ Lost)

NetInv == NetBase /\ (short = 0 /\ ClientUp => InStep)

LEMMA RepliesStay ==
  ASSUME UNCHANGED <<root, queryStr>>, ~crowded' => ~crowded
  PROVE  /\ Replies(shown) /\ UNCHANGED shown => Replies(shown)'
         /\ Replies(toClient) /\ UNCHANGED toClient => Replies(toClient)'
<1>1. Matches(queryStr)' = Matches(queryStr)  BY DEF Matches, Terminals
<1>2. LettersOnly(queryStr)' = LettersOnly(queryStr)  BY DEF LettersOnly
<1>3. ASSUME Replies(shown), UNCHANGED shown PROVE Replies(shown)'
  BY <1>1, <1>2, <1>3 DEF Replies
<1>4. ASSUME Replies(toClient), UNCHANGED toClient PROVE Replies(toClient)'
  BY <1>1, <1>2, <1>4 DEF Replies
<1> QED  BY <1>3, <1>4

LEMMA IdleOrWaiting ==
  ASSUME NetInv, [NetNext]_netVars, short' = 0, ClientUp'
  PROVE  short = 0 /\ ClientUp /\ InStep
<1>1. short \in Nat  BY DEF NetInv, NetBase
<1>2. short = 0 /\ ClientUp
  <2>1. CASE OpenFails  BY <2>1 DEF OpenFails, clientVars, streamVars, ClientUp
  <2>2. CASE ServerLoad  BY <2>2 DEF ServerLoad, clientVars, streamVars, ClientUp
  <2>3. CASE ReadQuery
    <3>1. PICK n, a, m : Read(n, a, m)  BY <2>3 DEF ReadQuery
    <3> QED  BY <1>1, <2>3, <3>1 DEF ReadQuery, Read, clientVars, ClientUp
  <2>4. CASE ReadEnd  BY <2>4 DEF ReadEnd, clientVars, streamVars, ClientUp
  <2>5. CASE Answer  BY <2>5 DEF Answer, clientVars, ClientUp
  <2>6. CASE ReadReply
    <3>1. PICK n, a, m : Read(n, a, m)  BY <2>6 DEF ReadReply
    <3> QED  BY <1>1, <2>6, <3>1 DEF ReadReply, Read, ClientUp
  <2>7. CASE ReadNothing  BY <2>7 DEF ReadNothing, streamVars, ClientUp
  <2>8. CASE TypeKey  BY <2>8 DEF TypeKey, Send, ClientUp
  <2>9. CASE DeleteKey  BY <2>9 DEF DeleteKey, Send, ClientUp
  <2>10. CASE Quit  BY <2>10 DEF Quit, streamVars, ClientUp
  <2>11. CASE UNCHANGED netVars  BY <2>11 DEF netVars, clientVars, streamVars, ClientUp
  <2> QED
    BY <2>1, <2>2, <2>3, <2>4, <2>5, <2>6, <2>7, <2>8, <2>9, <2>10, <2>11
    DEF NetNext, Server, Client, User
<1> QED  BY <1>2 DEF NetInv

(* When nothing but the server's progress changes. *)
LEMMA InStepStays ==
  ASSUME InStep,
         UNCHANGED <<root, queryStr, cli, shown, toClient, toServer, crowded, srv, typedWord>>
  PROVE  InStep'
<1>1. (Replies(shown) => Replies(shown)') /\ (Replies(toClient) => Replies(toClient)')
  BY RepliesStay
<1>2. Drawn => Drawn'  BY <1>1 DEF Drawn
<1>3. Answered => Answered'  BY <1>1 DEF Answered
<1>4. Asked => Asked'  BY DEF Asked, Request
<1>5. Heard => Heard'  BY DEF Heard, TypedStrings
<1>6. (Lost => Lost') /\ (Idle => Idle')  BY DEF Lost, Idle, ServerUp
<1> QED  BY <1>2, <1>3, <1>4, <1>5, <1>6 DEF InStep

LEMMA OpenFailsInStep == ASSUME InStep, OpenFails PROVE InStep'
<1>1. /\ srv = "load" /\ srv' = "stopped"
      /\ UNCHANGED <<cli, queryStr, shown, toServer, toClient>>
  BY DEF OpenFails, clientVars, streamVars
<1>2. ~ServerUp'  BY <1>1 DEF ServerUp
<1>3. CASE cli = "typing"
  <2>1. Idle /\ shown = << >>  BY <1>1, <1>3 DEF InStep, Drawn
  <2> QED  BY <1>1, <1>2, <1>3, <2>1 DEF InStep, Idle, Drawn
<1>4. CASE cli = "waiting"
  <2>1. queryStr # << >> /\ Asked
    BY <1>1, <1>4 DEF InStep, Heard, Answered, Lost, ServerUp
  <2>2. Lost'  BY <1>1, <1>2, <2>1 DEF Asked, Lost
  <2> QED  BY <1>1, <1>4, <2>1, <2>2 DEF InStep
<1> QED  BY <1>1, <1>3, <1>4 DEF InStep

LEMMA ServerLoadInStep == ASSUME InStep, ServerLoad PROVE InStep'
<1>1. /\ srv = "load" /\ srv' \in {"load", "read", "crashed", "undefined"}
      /\ UNCHANGED <<cli, queryStr, shown, toServer, toClient>>
  BY DEF ServerLoad, AfterLoad, clientVars, streamVars
<1>2. ServerUp  BY <1>1 DEF ServerUp
<1>3. CASE cli = "typing"
  <2>1. Idle /\ shown = << >>  BY <1>1, <1>3 DEF InStep, Drawn
  <2> QED  BY <1>1, <1>2, <1>3, <2>1 DEF InStep, Idle, Drawn
<1>4. CASE cli = "waiting"
  <2>1. queryStr # << >> /\ Asked
    BY <1>1, <1>4 DEF InStep, Heard, Answered, Lost, ServerUp
  <2>2. ServerUp' => Asked'  BY <1>1, <2>1 DEF Asked, Request, ServerUp
  <2>3. ~ServerUp' => Lost'  BY <1>1, <2>1 DEF Asked, Lost
  <2> QED  BY <1>1, <1>4, <2>1, <2>2, <2>3 DEF InStep
<1> QED  BY <1>1, <1>3, <1>4 DEF InStep

LEMMA ReadQueryInStep ==
  ASSUME NetBase, InStep, ClientUp, short = 0, short' = 0, ReadQuery
  PROVE  InStep'
<1>1. /\ srv = "read" /\ srv' = "answer" /\ toServer # << >>
      /\ UNCHANGED <<cli, queryStr, toClient>>
  BY DEF ReadQuery, clientVars
<1>2. cli = "waiting" /\ queryStr # << >> /\ Asked
  <2>1. cli # "typing"  BY <1>1 DEF InStep, Idle, ServerUp
  <2> QED  BY <1>1, <2>1 DEF ClientUp, InStep, Heard, Answered, Lost, ServerUp
<1>3. LineOK(queryStr) /\ queryStr \in Seq(Nat) /\ typedWord \in Seq(Nat)
  BY DEF NetBase, LineOK
<1> DEFINE r == Request(queryStr)
           first == typedWord = << >>
<1>4. r \in Seq(Nat) /\ Len(r) = StrBytes  BY <1>3, RequestFacts
<1>5. toServer = r /\ toClient = << >>  BY <1>2 DEF Asked
<1>6. PICK n \in 1 .. Len(toServer) :
           /\ Read(n, Len(toServer), IF first THEN BUF_SIZE - 1 ELSE BUF_SIZE)
           /\ typedWord' = SubSeq(toServer, 1, n) \o
                             (IF first THEN <<0>> ELSE SubSeq(typedWord, n + 1, Len(typedWord)))
           /\ toServer' = SubSeq(toServer, n + 1, Len(toServer))
  BY DEF ReadQuery
<1> HIDE DEF r
<1>7. StrBytes \in Nat /\ BUF_SIZE \in Nat /\ BUF_SIZE > StrBytes  BY SearchAssumption
<1>8. n = StrBytes /\ n \in Nat
  <2> DEFINE max == IF first THEN BUF_SIZE - 1 ELSE BUF_SIZE
  <2>1. max \in Nat /\ max >= StrBytes  BY <1>7
  <2>2. n \in 1 .. StrBytes /\ Read(n, StrBytes, max)  BY <1>4, <1>5, <1>6
  <2> HIDE DEF max
  <2> QED  BY <1>7, <2>1, <2>2 DEF Read
<1>9. SubSeq(toServer, 1, n) = r /\ toServer' = << >>
  <2>1. SubSeq(r, 1, Len(r)) = r  BY <1>4, SubSeqFull
  <2>2. n + 1 \in Int /\ n \in Int /\ n < n + 1  BY <1>8
  <2>3. SubSeq(toServer, n + 1, n) = << >>  BY <2>2, SubSeqEmpty
  <2> QED  BY <1>4, <1>5, <1>6, <1>8, <2>1, <2>3
<1> DEFINE x == IF first THEN <<0>> ELSE SubSeq(typedWord, n + 1, Len(typedWord))
<1>10. x \in Seq(Nat)
  <2>1. <<0>> \in Seq(Nat)  OBVIOUS
  <2>2. Len(typedWord) \in Int /\ n + 1 \in Int  BY <1>3, <1>8, LenProperties
  <2>3. \A k \in n + 1 .. Len(typedWord) : typedWord[k] \in Nat
    BY <1>3, <1>8, LenProperties, ElementOfSeq
  <2>4. SubSeq(typedWord, n + 1, Len(typedWord)) \in Seq(Nat)
    BY <2>2, <2>3, SubSeqProperties
  <2> QED  BY <2>1, <2>4
<1>11. typedWord' = r \o x  BY <1>6, <1>9
<1> HIDE DEF x
<1>12. TypedStrings' = {queryStr}  BY <1>3, <1>10, <1>11, RequestIsTheLine DEF r
<1>13. Heard'  BY <1>1, <1>5, <1>9, <1>12 DEF Heard
<1> QED  BY <1>1, <1>2, <1>13 DEF InStep

LEMMA AnswerInStep == ASSUME NetBase, InStep, ClientUp, Answer PROVE InStep'
<1>1. /\ srv = "answer" /\ UNCHANGED <<cli, queryStr, root, toServer>>
  BY DEF Answer, clientVars
<1>2. cli = "waiting" /\ queryStr # << >> /\ Heard
  <2>1. cli # "typing"  BY <1>1 DEF InStep, Idle
  <2> QED  BY <1>1, <2>1 DEF ClientUp, InStep, Asked, Answered, Lost, ServerUp
<1>3. TypedStrings = {queryStr} /\ toServer = << >> /\ toClient = << >>  BY <1>2 DEF Heard
<1>4. PICK found \in find(root, queryStr) :
           \/ found = BAD_NODE /\ srv' = "crashed" /\ UNCHANGED <<pq, toClient, crowded>>
           \/ \E s :
                /\ found # BAD_NODE /\ crowded' \in BOOLEAN /\ (~crowded' => ~crowded)
                /\ ~crowded' => /\ pq' = EmptyBag /\ Range(s) = Pushed(found)
                                /\ Len(s) \in 0 .. MaxShown /\ s \in [1 .. Len(s) -> Pushed(found)]
                /\ srv' \in {"read", "crashed"}
                /\ IF ClientUp THEN srv' = "read" /\ toClient' = toClient \o Array(s, queryStr)
                   ELSE UNCHANGED toClient
  BY <1>3, AnswerFacts
<1>5. CASE found = BAD_NODE /\ srv' = "crashed" /\ UNCHANGED <<pq, toClient, crowded>>
  <2>1. Lost'  BY <1>3, <1>5 DEF Lost, ServerUp
  <2> QED  BY <1>1, <1>2, <2>1 DEF InStep
<1>6. ASSUME NEW s,
             ~crowded' => /\ Range(s) = Pushed(found)
                          /\ Len(s) \in 0 .. MaxShown /\ s \in [1 .. Len(s) -> Pushed(found)],
             srv' = "read", toClient' = toClient \o Array(s, queryStr)
      PROVE  InStep'
  <2> DEFINE A == Array(s, queryStr)
  <2>1. /\ A = [k \in 1 .. MaxShown |-> A[k]]
        /\ \A k \in 1 .. MaxShown : /\ A[k].query = queryStr
                                    /\ A[k].word = IF k <= Len(s) THEN s[k] ELSE NULL_NODE
    BY DEF Array
  <2> HIDE DEF A
  <2>2. toClient' = A
    <3> DEFINE S == {A[k] : k \in 1 .. MaxShown}
    <3>1. MaxShown \in Nat /\ A \in [1 .. MaxShown -> S]  BY <2>1, WordListAssumption
    <3> HIDE DEF S
    <3>2. A \in Seq(S)  BY <3>1, FunctionIsSeq
    <3> QED  BY <1>3, <1>6, <3>2, ConcatEmptySeq DEF A
  <2>3. ASSUME ~crowded', LettersOnly(queryStr)
        PROVE  {A[k].word : k \in 1 .. MaxShown} \ {NULL_NODE} = Matches(queryStr)
    <3>1. NodesOK(root) /\ queryStr \in Seq(Nat)  BY DEF NetBase, WordsInv, LineOK
    <3>2. search(root, found) = SetToBag(Matches(queryStr))
          /\ search(root, found) = SetToBag(Pushed(found))
      BY <1>2, <2>3, <3>1, SearchLetters, PushedIsFinite
    <3>3. Pushed(found) = Matches(queryStr)
      <4>1. DOMAIN SetToBag(Matches(queryStr)) = Matches(queryStr)  BY DEF SetToBag
      <4>2. DOMAIN SetToBag(Pushed(found)) = Pushed(found)  BY DEF SetToBag
      <4> QED  BY <3>2, <4>1, <4>2
    <3>4. Range(s) = Matches(queryStr) /\ Len(s) \in 0 .. MaxShown /\ DOMAIN s = 1 .. Len(s)
      BY <1>6, <2>3, <3>3
    <3>5. NULL_NODE \notin Matches(queryStr)
      BY <3>1, NoPointer DEF Matches, Terminals
    <3>6. ASSUME NEW k \in 1 .. MaxShown, A[k].word # NULL_NODE
          PROVE  A[k].word \in Matches(queryStr)
      <4>1. A[k].word = s[k] /\ k <= Len(s)  BY <2>1, <3>6
      <4>2. k \in DOMAIN s  BY <3>4, <4>1
      <4> QED  BY <3>4, <4>1, <4>2 DEF Range
    <3>7. ASSUME NEW m \in Matches(queryStr)
          PROVE  \E k \in 1 .. MaxShown : m = A[k].word
      <4>1. PICK k \in 1 .. Len(s) : m = s[k]  BY <3>4 DEF Range
      <4>2. k \in 1 .. MaxShown /\ k <= Len(s)  BY <3>4, WordListAssumption
      <4> QED  BY <2>1, <4>1, <4>2
    <3> QED  BY <3>5, <3>6, <3>7
  <2>4. Matches(queryStr)' = Matches(queryStr) /\ LettersOnly(queryStr)' = LettersOnly(queryStr)
    BY <1>1 DEF Matches, Terminals, LettersOnly
  <2>5. Replies(toClient)'  BY <1>1, <2>1, <2>2, <2>3, <2>4 DEF Replies
  <2>6. Answered'  BY <1>1, <1>3, <1>6, <2>5 DEF Answered
  <2> QED  BY <1>1, <1>2, <2>6 DEF InStep
<1> QED  BY <1>4, <1>5, <1>6

LEMMA ReadReplyInStep ==
  ASSUME InStep, ClientUp', short = 0, short' = 0, ReadReply
  PROVE  InStep'
<1>1. /\ cli = "waiting" /\ toClient # << >> /\ cli' \in {"typing", "killed"}
      /\ UNCHANGED <<srv, root, crowded, queryStr, toServer>>
  BY DEF ReadReply, Draw, serverVars
<1>2. cli' = "typing"  BY <1>1 DEF ClientUp
<1>3. queryStr # << >> /\ Answered  BY <1>1 DEF InStep, Asked, Heard, Lost
<1>4. toServer = << >> /\ srv = "read" /\ Replies(toClient)  BY <1>3 DEF Answered
<1>5. PICK n \in 1 .. Len(toClient) :
       /\ Read(n, Len(toClient), MaxShown)
       /\ shown' = SubSeq(toClient, 1, n)
       /\ toClient' = SubSeq(toClient, n + 1, Len(toClient))
  BY DEF ReadReply, Draw
<1> DEFINE S == {toClient[k] : k \in 1 .. MaxShown}
<1>6. MaxShown \in Nat /\ toClient \in [1 .. MaxShown -> S]
  BY <1>4, WordListAssumption DEF Replies
<1> HIDE DEF S
<1>7. toClient \in Seq(S) /\ Len(toClient) = MaxShown  BY <1>6, FunctionIsSeq
<1>8. n = MaxShown  BY <1>5, <1>6, <1>7 DEF Read
<1>9. shown' = toClient /\ toClient' = << >>
  <2>1. SubSeq(toClient, 1, Len(toClient)) = toClient  BY <1>7, SubSeqFull
  <2>2. n + 1 \in Int /\ n \in Int /\ n < n + 1  BY <1>6, <1>8
  <2>3. SubSeq(toClient, n + 1, n) = << >>  BY <2>2, SubSeqEmpty
  <2> QED  BY <1>5, <1>7, <1>8, <2>1, <2>3
<1>10. Replies(shown)'
  <2>1. Matches(queryStr)' = Matches(queryStr) /\ LettersOnly(queryStr)' = LettersOnly(queryStr)
    BY <1>1 DEF Matches, Terminals, LettersOnly
  <2> QED  BY <1>1, <1>4, <1>9, <2>1 DEF Replies
<1>11. Idle' /\ Drawn'  BY <1>1, <1>3, <1>4, <1>9, <1>10 DEF Idle, Drawn
<1> QED  BY <1>2, <1>11 DEF InStep

LEMMA ReadNothingInStep == ASSUME InStep, ClientUp', ReadNothing PROVE InStep'
<1>1. /\ cli = "waiting" /\ ~ServerUp /\ cli' \in {"typing", "killed"}
      /\ shown' = << >> /\ UNCHANGED <<srv, toClient, toServer>>
  BY DEF ReadNothing, Draw, serverVars, streamVars, ServerEnded, ServerUp
<1>2. cli' = "typing"  BY <1>1 DEF ClientUp
<1>3. toClient = << >>  BY <1>1 DEF InStep, Asked, Heard, Answered, Lost, ServerUp
<1>4. Idle' /\ Drawn'  BY <1>1, <1>3 DEF Idle, Drawn, ServerUp
<1> QED  BY <1>2, <1>4 DEF InStep

LEMMA SendInStep == ASSUME InStep, ClientUp', NEW q \in Seq(Nat), Send(q) PROVE InStep'
<1>1. cli = "typing" /\ queryStr' = q /\ UNCHANGED <<srv, toClient>>
  BY DEF Send, serverVars
<1>2. Idle /\ Drawn  BY <1>1 DEF InStep
<1>3. CASE q = << >>
  <2>1. shown' = << >> /\ cli' \in {"typing", "killed"} /\ UNCHANGED toServer
    BY <1>3 DEF Send, Draw
  <2>2. cli' = "typing"  BY <2>1 DEF ClientUp
  <2>3. Idle' /\ Drawn'  BY <1>1, <1>2, <2>1 DEF Idle, Drawn, ServerUp
  <2> QED  BY <2>2, <2>3 DEF InStep
<1>4. CASE q # << >>
  <2>1. IF ServerUp THEN cli' = "waiting" /\ toServer' = toServer \o Request(q)
                    ELSE cli' \in {"waiting", "killed"} /\ UNCHANGED toServer
    BY <1>4 DEF Send
  <2>2. cli' = "waiting"  BY <2>1 DEF ClientUp
  <2>3. CASE ServerUp
    <3>1. toServer = << >> /\ toClient = << >> /\ srv \in {"load", "read"}
      BY <1>2, <2>3 DEF Idle, ServerUp
    <3>2. toServer' = Request(q)
      <4>1. Request(q) \in Seq(Nat)  BY RequestFacts
      <4>2. << >> \o Request(q) = Request(q)  BY <4>1, ConcatEmptySeq
      <4> QED  BY <2>1, <2>3, <3>1, <4>2
    <3>3. Asked'  BY <1>1, <3>1, <3>2 DEF Asked, Request
    <3> QED  BY <1>1, <1>4, <2>2, <3>3 DEF InStep
  <2>4. CASE ~ServerUp
    <3>1. Lost'  BY <1>1, <1>2, <2>4 DEF Idle, Lost, ServerUp
    <3> QED  BY <1>1, <1>4, <2>2, <3>1 DEF InStep
  <2> QED  BY <2>3, <2>4
<1> QED  BY <1>3, <1>4

LEMMA NetInvHolds == NetSpec => []NetInv
<1>1. NetInit => NetInv
  <2> SUFFICES ASSUME NetInit PROVE NetInv  OBVIOUS
  <2>1. WordsInv /\ lineno <= Turns  BY InitLoads DEF NetInit
  <2>2. LineOK(<< >>)
    <3> DEFINE e == << >>
    <3>1. e \in Seq(Nat) /\ Len(e) = 0  BY EmptySeq
    <3>2. 0 <= MaxQuery  BY WordListAssumption
    <3> HIDE DEF e
    <3>3. LineOK(e)  BY <3>1, <3>2 DEF LineOK
    <3> QED  BY <3>3 DEF e
  <2>3. << >> \in Seq(Nat)  BY EmptySeq
  <2>4. NetBase  BY <2>1, <2>2, <2>3 DEF NetInit, InitWords, NetBase
  <2>5. InStep  BY DEF NetInit, InitWords, InStep, Idle, Drawn
  <2> QED  BY <2>4, <2>5 DEF NetInv
<1>2. NetInv /\ [NetNext]_netVars => NetInv'
  <2> SUFFICES ASSUME NetInv, [NetNext]_netVars PROVE NetInv'  OBVIOUS
  <2>1. NetBase /\ NetBase'  BY NetBaseStep DEF NetInv
  <2>2. ASSUME short' = 0, ClientUp' PROVE InStep'
    <3>1. short = 0 /\ ClientUp /\ InStep  BY <2>2, IdleOrWaiting
    <3>2. CASE OpenFails  BY <3>1, <3>2, OpenFailsInStep
    <3>3. CASE ServerLoad  BY <3>1, <3>3, ServerLoadInStep
    <3>4. CASE ReadQuery  BY <2>1, <2>2, <3>1, <3>4, ReadQueryInStep
    <3>5. CASE ReadEnd  BY <3>1, <3>5 DEF ReadEnd
    <3>6. CASE Answer  BY <2>1, <3>1, <3>6, AnswerInStep
    <3>7. CASE ReadReply  BY <2>2, <3>1, <3>7, ReadReplyInStep
    <3>8. CASE ReadNothing  BY <2>2, <3>1, <3>8, ReadNothingInStep
    <3>9. CASE TypeKey
      <4>1. PICK ch \in Keys : Send(Append(queryStr, ch))  BY <3>9 DEF TypeKey
      <4>2. Append(queryStr, ch) \in Seq(Nat)  BY <2>1, LinesStayNat DEF NetBase, LineOK
      <4> QED  BY <2>2, <3>1, <4>1, <4>2, SendInStep
    <3>10. CASE DeleteKey
      <4>1. Erased \in Seq(Nat)  BY <2>1, LinesStayNat DEF NetBase, LineOK
      <4> QED  BY <2>2, <3>1, <3>10, <4>1, SendInStep DEF DeleteKey
    <3>11. CASE Quit  BY <2>2, <3>11 DEF Quit, ClientUp
    <3>12. CASE UNCHANGED netVars
      <4>1. UNCHANGED <<root, queryStr, cli, shown, toClient, toServer, crowded, srv, typedWord>>
        BY <3>12 DEF netVars, serverVars, clientVars, streamVars
      <4> QED  BY <3>1, <4>1, InStepStays
    <3> QED
      BY <3>2, <3>3, <3>4, <3>5, <3>6, <3>7, <3>8, <3>9, <3>10, <3>11, <3>12
      DEF NetNext, Server, Client, User
  <2> QED  BY <2>1, <2>2 DEF NetInv
<1> QED  BY <1>1, <1>2, PTL DEF NetSpec

(* search_client.cpp:108: for every reply size, every buffer and every     *)
(* interleaving of keys, reads and the ends of either program, a client    *)
(* whose reads were never short draws the answer to the line just sent.    *)
THEOREM ClientDrawsItsOwnAnswer == NetSpec => []DrawsItsOwnAnswer
<1>1. NetInv => DrawsItsOwnAnswer
  <2> SUFFICES ASSUME NetInv, cli = "typing", short = 0, NEW k \in DOMAIN shown
               PROVE  shown[k].query = queryStr
    BY DEF DrawsItsOwnAnswer
  <2>1. Drawn  BY DEF NetInv, InStep, ClientUp
  <2>2. shown # << >>  OBVIOUS
  <2>3. Replies(shown)  BY <2>1, <2>2 DEF Drawn
  <2>4. DOMAIN shown = 1 .. MaxShown  BY <2>3 DEF Replies
  <2> QED  BY <2>3, <2>4 DEF Replies
<1> QED  BY <1>1, NetInvHolds, PTL

LEMMA WordsMatched ==
  ASSUME Loaded, queryStr \in Seq(Nat), queryStr # << >>
  PROVE  {Lower(root[n].word) : n \in Matches(queryStr)} =
           {w \in Dictionary : IsPrefix(Lower(queryStr), w)}
<1>1. ASSUME NEW n \in Terminals
      PROVE  /\ Lower(root[n].word) \in Dictionary
             /\ IsPrefix(Lower(queryStr), Lower(root[n].word)) <=> IsPrefix(Path(queryStr), n)
  <2>1. /\ root[n].word \in Seq(Nat) /\ Path(root[n].word) = n
        /\ Lower(root[n].word) \in Dictionary
    BY TerminalFacts
  <2> QED  BY <2>1, SamePath
<1>2. \A w \in Dictionary : \E n \in Terminals : Lower(root[n].word) = w  BY WordsOfTheTrie
<1>3. Matches(queryStr) = {n \in Terminals : IsPrefix(Path(queryStr), n)}  BY DEF Matches
<1> QED  BY <1>1, <1>2, <1>3

(* Until some query has more words than array holds, the server's queue is *)
(* empty between queries; and what a client whose reads were never short   *)
(* draws for a line of letters are the words of data.txt that begin with   *)
(* it, all of them and no others.  This is so for every data file.  Where  *)
(* lines without a number or with something after it make texts that are   *)
(* no words, these are not drawn; or the server, which uses indexes        *)
(* outside of children[] for them, is undefined and answers no more.       *)
THEOREM AnswersAreRightUntilCrowded == NetSpec => []RightUntilCrowded
<1>1. NetInv => RightUntilCrowded
  <2> SUFFICES ASSUME NetInv, ~crowded, srv = "read" PROVE RightUntilCrowded
    BY DEF RightUntilCrowded
  <2>1. pq = EmptyBag /\ Loaded /\ queryStr \in Seq(Nat)
    BY DEF NetInv, NetBase, Loaded, LineOK
  <2>2. ASSUME cli = "typing", short = 0, LettersOnly(queryStr), shown # << >>
        PROVE  {Lower(root[n].word) : n \in ShownWords} =
                 {w \in Dictionary : IsPrefix(Lower(queryStr), w)}
    <3>1. Drawn  BY <2>2 DEF NetInv, InStep, ClientUp
    <3>2. queryStr # << >> /\ Replies(shown)  BY <2>2, <3>1 DEF Drawn
    <3>3. DOMAIN shown = 1 .. MaxShown
          /\ {shown[k].word : k \in 1 .. MaxShown} \ {NULL_NODE} = Matches(queryStr)
      BY <2>2, <3>2 DEF Replies
    <3>4. ShownWords = Matches(queryStr)  BY <3>3 DEF ShownWords
    <3> QED  BY <2>1, <3>2, <3>4, WordsMatched
  <2> QED  BY <2>1, <2>2 DEF RightUntilCrowded
<1> QED  BY <1>1, NetInvHolds, PTL
-----------------------------------------------------------------------------
(* Recursive functions.                                                    *)

(* A definition f[x \in D] == ... has a solution when what it says of x     *)
(* depends on f at elements of a smaller rank only.  F is the step from a   *)
(* function to the one its body gives.                                     *)
LooksBelow(D, R, F, rank) ==
  /\ F \in [[D -> R] -> [D -> R]] /\ rank \in [D -> Nat]
  /\ \A g, h \in [D -> R] : \A x \in D :
       (\A y \in D : rank[y] < rank[x] => g[y] = h[y]) => F[g][x] = F[h][x]

LEMMA RecursionHasASolution ==
  ASSUME NEW D, NEW R, R # {}, NEW F, NEW rank, LooksBelow(D, R, F, rank)
  PROVE  \E f \in [D -> R] : f = F[f]
<1> USE DEF LooksBelow
<1>0. PICK r \in R : TRUE  OBVIOUS
<1> DEFINE Upto(h, n) == \A x \in D : rank[x] < n => h[x] = F[h][x]
<1>1. ASSUME NEW n \in Nat PROVE \E h \in [D -> R] : Upto(h, n)
  <2> DEFINE I == {k \in Nat : ~(\E h \in [D -> R] : Upto(h, k))}
  <2> SUFFICES ASSUME I # {} PROVE FALSE  OBVIOUS
  <2>1. PICK k \in I : \A j \in I : k <= j  BY FirstExists
  <2>2. [x \in D |-> r] \in [D -> R] /\ Upto([x \in D |-> r], 0)  OBVIOUS
  <2>3. k \in Nat /\ k # 0 /\ k - 1 \in Nat /\ k - 1 \notin I
    <3>1. k \in Nat /\ k # 0  BY <2>1, <2>2
    <3>2. k - 1 \in Nat /\ ~(k <= k - 1)  BY <3>1
    <3> QED  BY <2>1, <3>1, <3>2
  <2>4. PICK h \in [D -> R] : Upto(h, k - 1)  BY <2>3
  <2> DEFINE g == F[h]
  <2>5. g \in [D -> R]  OBVIOUS
  <2>6. ASSUME NEW x \in D, rank[x] < k PROVE g[x] = F[g][x]
    <3>1. \A y \in D : rank[y] < rank[x] => h[y] = g[y]  BY <2>3, <2>4, <2>6
    <3> QED  BY <2>5, <3>1
  <2> QED  BY <2>1, <2>5, <2>6
<1>2. ASSUME NEW g \in [D -> R], NEW h \in [D -> R], NEW n \in Nat,
             Upto(g, n), Upto(h, n)
      PROVE  \A x \in D : rank[x] < n => g[x] = h[x]
  <2> DEFINE I == {k \in Nat : k < n /\ \E x \in D : rank[x] = k /\ g[x] # h[x]}
  <2>1. I = {}
    <3> SUFFICES ASSUME I # {} PROVE FALSE  OBVIOUS
    <3>1. PICK k \in I : \A j \in I : k <= j  BY FirstExists
    <3>2. PICK x \in D : rank[x] = k /\ g[x] # h[x]  BY <3>1
    <3>3. ASSUME NEW y \in D, rank[y] < rank[x] PROVE g[y] = h[y]
      <4>1. rank[y] \in Nat /\ k \in Nat /\ rank[y] < k /\ rank[y] < n  BY <3>1, <3>2, <3>3
      <4> QED  BY <3>1, <4>1
    <3>4. F[g][x] = F[h][x]  BY <3>3
    <3> QED  BY <1>2, <3>1, <3>2, <3>4
  <2> QED  BY <2>1
<1> DEFINE of == [x \in D |-> CHOOSE h \in [D -> R] : Upto(h, rank[x] + 1)]
           f  == [x \in D |-> of[x][x]]
<1>3. \A x \in D : of[x] \in [D -> R] /\ Upto(of[x], rank[x] + 1)
  <2> SUFFICES ASSUME NEW x \in D PROVE of[x] \in [D -> R] /\ Upto(of[x], rank[x] + 1)  OBVIOUS
  <2>1. \E h \in [D -> R] : Upto(h, rank[x] + 1)  BY <1>1
  <2> HIDE DEF Upto
  <2> QED  BY <2>1
<1> HIDE DEF of
<1>4. f \in [D -> R]  BY <1>3
<1>5. ASSUME NEW x \in D PROVE f[x] = F[f][x]
  <2>1. ASSUME NEW y \in D, rank[y] < rank[x] PROVE f[y] = of[x][y]
    <3>1. rank[y] + 1 \in Nat /\ rank[y] < rank[y] + 1 /\ rank[y] + 1 <= rank[x] + 1  BY <2>1
    <3>2. of[x] \in [D -> R] /\ of[y] \in [D -> R] /\ Upto(of[y], rank[y] + 1)  BY <1>3
    <3>3. Upto(of[x], rank[y] + 1)  BY <1>3, <3>1
    <3> HIDE DEF Upto
    <3> QED  BY <1>2, <3>1, <3>2, <3>3
  <2>2. of[x] \in [D -> R]  BY <1>3
  <2> HIDE DEF f
  <2>3. F[f][x] = F[of[x]][x]  BY <1>4, <2>1, <2>2
  <2> QED  BY <1>3, <2>3 DEF f
<1> HIDE DEF f
<1>6. F[f] \in [D -> R]  BY <1>4
<1> QED  BY <1>4, <1>5, <1>6
-----------------------------------------------------------------------------
(* Cells.                                                                  *)

LEMMA CellFields ==
  ASSUME NEW k \in Nat \ {0}, NEW c \in Cells(k)
  PROVE  /\ c = [start |-> c.start, end |-> c.end, node |-> c.node]
         /\ c.start \in Nat /\ c.end \in Nat /\ c.node \in Nat
         /\ c.start <= c.end /\ c.end < k /\ 1 <= c.node /\ c.node < 4 * k
         /\ Mid(c) \in Nat /\ c.start <= Mid(c) /\ Mid(c) <= c.end
         /\ c.start # c.end => Mid(c) < c.end
<1>1. c \in [start : 0 .. k - 1, end : 0 .. k - 1, node : 1 .. 4 * k - 1] /\ c.start <= c.end
  BY DEF Cells
<1>2. c.start \in 0 .. k - 1 /\ c.end \in 0 .. k - 1 /\ c.node \in 1 .. 4 * k - 1
  BY <1>1
<1> QED  BY <1>1, <1>2 DEF Mid

LEMMA HalfFields ==
  ASSUME NEW c
  PROVE  /\ LowerHalf(c).start = c.start /\ LowerHalf(c).end = Mid(c)
         /\ LowerHalf(c).node = c.node * 2
         /\ UpperHalf(c).start = Mid(c) + 1 /\ UpperHalf(c).end = c.end
         /\ UpperHalf(c).node = c.node * 2 + 1
BY DEF LowerHalf, UpperHalf

LEMMA HalvedProduct ==
  ASSUME NEW p \in Nat, NEW a \in Nat, NEW b \in Nat, 2 * a <= b
  PROVE  (2 * p) * a <= p * b
<1>1. PICK d \in Nat : b = 2 * a + d  OBVIOUS
<1>2. p * b = (2 * p) * a + p * d  BY <1>1
<1>3. p * d \in Nat /\ (2 * p) * a \in Nat  OBVIOUS
<1> QED  BY <1>2, <1>3

(* The tree's array is large enough: the halves of a cell are cells again, *)
(* so that no call gets to a node from 4 * k on.                           *)
LEMMA HalvesAreCells ==
  ASSUME NEW k \in Nat \ {0}, NEW c \in Cells(k), c.start # c.end
  PROVE  LowerHalf(c) \in Cells(k) /\ UpperHalf(c) \in Cells(k)
<1> DEFINE s == c.start  e == c.end  m == Mid(c)  nd == c.node
<1>1. /\ s \in Nat /\ e \in Nat /\ m \in Nat /\ nd \in Nat
      /\ s <= m /\ m < e /\ e < k /\ 1 <= nd
  BY CellFields
<1>2. PICK p \in 1 .. 2 * k : nd < 2 * p /\ p * (e - s) <= k - 1
  BY DEF Cells
<1>3. 2 * (m - s) <= e - s /\ 2 * (e - (m + 1)) <= e - s
  <2>1. m = (s + e) \div 2  BY DEF Mid
  <2> HIDE DEF s, e, m
  <2> QED  BY <1>1, <2>1
<1> HIDE DEF s, e, m, nd
<1>4. p \in Nat /\ p >= 1 /\ m - s \in Nat /\ e - (m + 1) \in Nat /\ e - s \in Nat /\ e - s >= 1
  BY <1>1
<1>5. (2 * p) * (m - s) <= k - 1 /\ (2 * p) * (e - (m + 1)) <= k - 1
  <2>1. /\ (2 * p) * (m - s) <= p * (e - s) /\ (2 * p) * (e - (m + 1)) <= p * (e - s)
    BY <1>3, <1>4, HalvedProduct
  <2>2. /\ (2 * p) * (m - s) \in Int /\ (2 * p) * (e - (m + 1)) \in Int /\ p * (e - s) \in Int
    BY <1>4
  <2> QED  BY <1>2, <2>1, <2>2
<1>6. p <= k - 1
  <2>1. PICK d \in Nat : e - s = d + 1  BY <1>4
  <2>2. p * (e - s) = p * d + p /\ p * d \in Nat  BY <1>4, <2>1
  <2> QED  BY <1>2, <1>4, <2>2
<1>7. 2 * p \in 1 .. 2 * k /\ nd * 2 < 2 * (2 * p) /\ nd * 2 + 1 < 2 * (2 * p)
      /\ nd * 2 \in 1 .. 4 * k - 1 /\ nd * 2 + 1 \in 1 .. 4 * k - 1
  BY <1>1, <1>2, <1>4, <1>6
<1>8. ASSUME NEW x \in 0 .. k - 1, NEW y \in 0 .. k - 1, NEW z \in 1 .. 4 * k - 1,
             x <= y, z < 2 * (2 * p), (2 * p) * (y - x) <= k - 1
      PROVE  [start |-> x, end |-> y, node |-> z] \in Cells(k)
  BY <1>7, <1>8 DEF Cells
<1>9. /\ LowerHalf(c) = [start |-> s, end |-> m, node |-> nd * 2]
      /\ UpperHalf(c) = [start |-> m + 1, end |-> e, node |-> nd * 2 + 1]
  BY DEF LowerHalf, UpperHalf, s, e, m, nd
<1>10. s \in 0 .. k - 1 /\ m \in 0 .. k - 1 /\ m + 1 \in 0 .. k - 1 /\ e \in 0 .. k - 1
       /\ s <= m /\ m + 1 <= e
  BY <1>1
<1> QED  BY <1>5, <1>7, <1>8, <1>9, <1>10

LEMMA WholeIsACell ==
  ASSUME NEW k \in Nat \ {0}
  PROVE  Whole(k) \in Cells(k) /\ Whole(k).start = 0 /\ Whole(k).end = k - 1 /\ Whole(k).node = 1
<1>1. 1 \in 1 .. 2 * k /\ 1 < 2 * 1 /\ 1 * (k - 1 - 0) <= k - 1  OBVIOUS
<1> QED  BY <1>1 DEF Whole, Cells

(* An array of 4 * n nodes is enough: every call that init, update, sum and *)
(* query make, from node 1 on, is for a node inside it.                    *)
THEOREM TreesAreLargeEnough ==
  ASSUME NEW k \in Nat \ {0}
  PROVE  /\ Whole(k) \in Cells(k)
         /\ \A c \in Cells(k) :
              /\ c.node \in 1 .. 4 * k - 1
              /\ c.start # c.end => LowerHalf(c) \in Cells(k) /\ UpperHalf(c) \in Cells(k)
<1>1. \A c \in Cells(k) : c.node \in 1 .. 4 * k - 1  BY CellFields
<1> QED  BY <1>1, HalvesAreCells, WholeIsACell

(* What holds of a cell when it holds of its halves holds of every cell. *)
LEMMA CellInduction ==
  ASSUME NEW k \in Nat \ {0}, NEW S,
         \A c \in Cells(k) :
           (c.start # c.end => LowerHalf(c) \in S /\ UpperHalf(c) \in S) => c \in S
  PROVE  Cells(k) \subseteq S
<1> DEFINE I == {n \in Nat : \E c \in Cells(k) : n = c.end - c.start /\ c \notin S}
<1> SUFFICES ASSUME I # {} PROVE FALSE
  <2>1. \A c \in Cells(k) : c.end - c.start \in Nat  BY CellFields
  <2> QED  BY <2>1
<1>1. PICK n \in I : \A j \in I : n <= j  BY FirstExists
<1>2. PICK c \in Cells(k) : n = c.end - c.start /\ c \notin S  BY <1>1
<1>3. c.start # c.end  BY <1>2
<1>4. LowerHalf(c) \in Cells(k) /\ UpperHalf(c) \in Cells(k)  BY <1>3, HalvesAreCells
<1>5. ASSUME NEW d \in Cells(k), d.end - d.start < n PROVE d \in S
  <2>1. d.end - d.start \in Nat /\ n \in Nat  BY CellFields, <1>1
  <2> QED  BY <1>1, <1>5, <2>1
<1>6. /\ c.start \in Nat /\ c.end \in Nat /\ Mid(c) \in Nat
      /\ c.start <= Mid(c) /\ Mid(c) < c.end
  BY <1>3, CellFields
<1>7. /\ LowerHalf(c).end - LowerHalf(c).start < n
      /\ UpperHalf(c).end - UpperHalf(c).start < n
  BY <1>2, <1>6, HalfFields
<1> QED  BY <1>2, <1>4, <1>5, <1>7
-----------------------------------------------------------------------------
(* Sums of sets and of ranges.                                             *)

(* The recursive function of MapThenFoldSet, for sums. *)
Adds(a, S, f) ==
  f = [s \in SUBSET S |->
         IF s = {} THEN 0
         ELSE a[CHOOSE x \in s : TRUE] + f[s \ {CHOOSE x \in s : TRUE}]]

Total(a, S) == MapThenSumSet(LAMBDA x : a[x], S)

LEMMA TotalByAdding ==
  ASSUME NEW a, NEW S
  PROVE  Total(a, S) = (CHOOSE f : Adds(a, S, f))[S]
BY DEF Total, MapThenSumSet, MapThenFoldSet, Adds

LEMMA AddsExists ==
  ASSUME NEW S, IsFiniteSet(S), NEW a, \A x \in S : a[x] \in Int
  PROVE  \E f \in [SUBSET S -> Int] : Adds(a, S, f)
<1> DEFINE D    == SUBSET S
           one  == [s \in D |-> CHOOSE x \in s : TRUE]
           F    == [h \in [D -> Int] |->
                      [s \in D |-> IF s = {} THEN 0 ELSE a[one[s]] + h[s \ {one[s]}]]]
           rank == [s \in D |-> Cardinality(s)]
<1>1. \A s \in D : s # {} => one[s] \in s /\ s \ {one[s]} \in D  OBVIOUS
<1>2. \A s \in D : IsFiniteSet(s) /\ Cardinality(s) \in Nat
  BY FS_Subset, FS_CardinalityType
<1>3. \A s \in D : s # {} => Cardinality(s \ {one[s]}) < Cardinality(s)
  <2> SUFFICES ASSUME NEW s \in D, s # {} PROVE Cardinality(s \ {one[s]}) < Cardinality(s)
    OBVIOUS
  <2>1. one[s] \in s  BY <1>1
  <2> HIDE DEF one
  <2>2. Cardinality(s \ {one[s]}) = Cardinality(s) - 1  BY <1>2, <2>1, FS_RemoveElement
  <2> QED  BY <1>2, <2>2
<1>4. rank \in [D -> Nat]  BY <1>2
<1> HIDE DEF one
<1>5. F \in [[D -> Int] -> [D -> Int]]
  <2>1. ASSUME NEW h \in [D -> Int], NEW s \in D
        PROVE  (IF s = {} THEN 0 ELSE a[one[s]] + h[s \ {one[s]}]) \in Int
    <3>1. CASE s = {}  BY <3>1
    <3>2. CASE s # {}
      <4>1. a[one[s]] \in Int /\ h[s \ {one[s]}] \in Int  BY <1>1, <3>2
      <4> QED  BY <3>2, <4>1
    <3> QED  BY <3>1, <3>2
  <2> QED  BY <2>1
<1>6. ASSUME NEW g \in [D -> Int], NEW h \in [D -> Int], NEW s \in D,
             \A t \in D : rank[t] < rank[s] => g[t] = h[t]
      PROVE  F[g][s] = F[h][s]
  <2>1. CASE s = {}  BY <2>1
  <2>2. CASE s # {}
    <3>1. s \ {one[s]} \in D /\ rank[s \ {one[s]}] < rank[s]  BY <1>1, <1>3, <2>2
    <3>2. g[s \ {one[s]}] = h[s \ {one[s]}]  BY <1>6, <3>1
    <3> QED  BY <3>2
  <2> QED  BY <2>1, <2>2
<1>7. PICK f \in [D -> Int] : f = F[f]
  <2>1. \A g, h \in [D -> Int] : \A s \in D :
          (\A t \in D : rank[t] < rank[s] => g[t] = h[t]) => F[g][s] = F[h][s]
    BY <1>6
  <2> HIDE DEF F, rank, D
  <2>2. LooksBelow(D, Int, F, rank)  BY <1>4, <1>5, <2>1 DEF LooksBelow
  <2>3. Int # {}  OBVIOUS
  <2> QED  BY <2>2, <2>3, RecursionHasASolution
<1>8. f = [s \in D |-> IF s = {} THEN 0 ELSE a[one[s]] + f[s \ {one[s]}]]  BY <1>7
<1>9. Adds(a, S, f)
  BY <1>8 DEF Adds, one
<1> QED  BY <1>9

LEMMA SubsetInduction ==
  ASSUME NEW S, IsFiniteSet(S), NEW P,
         \A s \in SUBSET S : (\A x \in s : s \ {x} \in P) => s \in P
  PROVE  SUBSET S \subseteq P
<1>1. \A s \in SUBSET S : IsFiniteSet(s) /\ Cardinality(s) \in Nat
  BY FS_Subset, FS_CardinalityType
<1> DEFINE I == {n \in Nat : \E s \in SUBSET S : n = Cardinality(s) /\ s \notin P}
<1> SUFFICES ASSUME I # {} PROVE FALSE
  BY <1>1
<1>2. PICK n \in I : \A j \in I : n <= j  BY FirstExists
<1>3. PICK s \in SUBSET S : n = Cardinality(s) /\ s \notin P  BY <1>2
<1>4. ASSUME NEW x \in s PROVE s \ {x} \in P
  <2>1. s \ {x} \in SUBSET S  OBVIOUS
  <2>2. Cardinality(s \ {x}) = n - 1 /\ Cardinality(s \ {x}) \in Nat
    BY <1>1, <1>3, <2>1, FS_RemoveElement
  <2>3. n \in Nat /\ ~(n <= n - 1)  BY <1>2
  <2> QED  BY <1>2, <2>1, <2>2, <2>3
<1> QED  BY <1>3, <1>4

LEMMA AddsInt ==
  ASSUME NEW S, IsFiniteSet(S), NEW a, \A x \in S : a[x] \in Int, NEW f, Adds(a, S, f)
  PROVE  \A s \in SUBSET S : f[s] \in Int
<1> DEFINE P == {s \in SUBSET S : f[s] \in Int}
<1>1. ASSUME NEW s \in SUBSET S, \A x \in s : s \ {x} \in P PROVE s \in P
  <2>1. CASE s = {}  BY <2>1 DEF Adds
  <2>2. CASE s # {}
    <3> DEFINE y == CHOOSE x \in s : TRUE
    <3>1. y \in s  BY <2>2
    <3>2. f[s] = a[y] + f[s \ {y}]  BY <2>2 DEF Adds
    <3> HIDE DEF y
    <3> QED  BY <1>1, <3>1, <3>2
  <2> QED  BY <2>1, <2>2
<1> HIDE DEF P
<1>2. SUBSET S \subseteq P  BY <1>1, SubsetInduction
<1> QED  BY <1>2 DEF P

(* The order in which the elements are added does not matter. *)
LEMMA AddsAnyFirst ==
  ASSUME NEW S, IsFiniteSet(S), NEW a, \A x \in S : a[x] \in Int, NEW f, Adds(a, S, f),
         NEW all \in SUBSET S, NEW one \in all
  PROVE  f[all] = a[one] + f[all \ {one}]
<1> DEFINE P == {s \in SUBSET S : f[s] \in Int /\ \A x \in s : f[s] = a[x] + f[s \ {x}]}
<1>1. ASSUME NEW s \in SUBSET S, \A x \in s : s \ {x} \in P PROVE s \in P
  <2>1. CASE s = {}
    <3>1. f[s] = 0  BY <2>1 DEF Adds
    <3> QED  BY <2>1, <3>1
  <2>2. CASE s # {}
    <3> DEFINE y == CHOOSE x \in s : TRUE
    <3>1. y \in s  BY <2>2
    <3>2. f[s] = a[y] + f[s \ {y}]  BY <2>2 DEF Adds
    <3> HIDE DEF y
    <3>3. f[s \ {y}] \in Int /\ a[y] \in Int  BY <1>1, <3>1
    <3>4. ASSUME NEW x \in s, x # y PROVE f[s] = a[x] + f[s \ {x}]
      <4>1. f[s \ {y}] = a[x] + f[(s \ {y}) \ {x}]  BY <1>1, <3>1, <3>4
      <4>2. f[s \ {x}] = a[y] + f[(s \ {x}) \ {y}]  BY <1>1, <3>1, <3>4
      <4>3. (s \ {y}) \ {x} = (s \ {x}) \ {y}  OBVIOUS
      <4>4. f[(s \ {x}) \ {y}] \in Int  BY AddsInt
      <4>5. a[x] \in Int  OBVIOUS
      <4> DEFINE w == f[(s \ {x}) \ {y}]
      <4>6. f[s \ {y}] = a[x] + w /\ f[s \ {x}] = a[y] + w /\ w \in Int
        BY <4>1, <4>2, <4>3, <4>4
      <4> HIDE DEF w
      <4> QED  BY <3>2, <3>3, <4>5, <4>6
    <3>5. \A x \in s : f[s] = a[x] + f[s \ {x}]  BY <3>2, <3>4
    <3>6. f[s] \in Int  BY <3>2, <3>3
    <3> QED  BY <3>5, <3>6
  <2> QED  BY <2>1, <2>2
<1> HIDE DEF P
<1>2. SUBSET S \subseteq P  BY <1>1, SubsetInduction
<1> QED  BY <1>2 DEF P

LEMMA AddsAgree ==
  ASSUME NEW S, IsFiniteSet(S), NEW a, \A x \in S : a[x] \in Int,
         NEW T \in SUBSET S, NEW f, Adds(a, S, f), NEW g, Adds(a, T, g)
  PROVE  \A s \in SUBSET T : f[s] = g[s]
<1>1. IsFiniteSet(T)  BY FS_Subset
<1> DEFINE P == {s \in SUBSET T : f[s] = g[s]}
<1>2. ASSUME NEW s \in SUBSET T, \A x \in s : s \ {x} \in P PROVE s \in P
  <2>1. CASE s = {}  BY <2>1 DEF Adds
  <2>2. CASE s # {}
    <3> DEFINE y == CHOOSE x \in s : TRUE
    <3>1. y \in s  BY <2>2
    <3>2. f[s] = a[y] + f[s \ {y}] /\ g[s] = a[y] + g[s \ {y}]  BY <2>2 DEF Adds
    <3> HIDE DEF y
    <3> QED  BY <1>2, <3>1, <3>2
  <2> QED  BY <2>1, <2>2
<1> HIDE DEF P
<1>3. SUBSET T \subseteq P  BY <1>1, <1>2, SubsetInduction
<1> QED  BY <1>3 DEF P

LEMMA TotalRemove ==
  ASSUME NEW S, IsFiniteSet(S), NEW a, \A x \in S : a[x] \in Int
  PROVE  /\ Total(a, S) \in Int
         /\ S = {} => Total(a, S) = 0
         /\ \A x \in S : Total(a, S) = a[x] + Total(a, S \ {x})
<1> DEFINE f(T) == CHOOSE h : Adds(a, T, h)
<1>1. ASSUME NEW T \in SUBSET S PROVE Adds(a, T, f(T)) /\ Total(a, T) = f(T)[T]
  <2>1. IsFiniteSet(T) /\ \A x \in T : a[x] \in Int  BY FS_Subset
  <2>2. \E h : Adds(a, T, h)  BY <2>1, AddsExists
  <2> QED  BY <2>2, TotalByAdding
<1> HIDE DEF f
<1>2. Adds(a, S, f(S)) /\ Total(a, S) = f(S)[S]  BY <1>1
<1>3. f(S)[S] \in Int /\ \A x \in S : f(S)[S] = a[x] + f(S)[S \ {x}]
  <2> DEFINE g == f(S)
  <2>1. Adds(a, S, g)  BY <1>2
  <2> HIDE DEF g
  <2>2. S \in SUBSET S  OBVIOUS
  <2>3. g[S] \in Int  BY <2>1, <2>2, AddsInt
  <2>4. ASSUME NEW x \in S PROVE g[S] = a[x] + g[S \ {x}]  BY <2>1, <2>2, AddsAnyFirst
  <2> QED  BY <2>3, <2>4 DEF g
<1>4. S = {} => f(S)[S] = 0  BY <1>2 DEF Adds
<1>5. ASSUME NEW x \in S PROVE f(S)[S \ {x}] = Total(a, S \ {x})
  <2>1. S \ {x} \in SUBSET S  OBVIOUS
  <2> DEFINE T == S \ {x}
  <2>2. Adds(a, T, f(T)) /\ Total(a, T) = f(T)[T]  BY <1>1, <2>1
  <2> HIDE DEF T
  <2>3. T \in SUBSET S  BY <2>1 DEF T
  <2>4. f(S)[T] = f(T)[T]  BY <1>2, <2>2, <2>3, AddsAgree
  <2> QED  BY <2>2, <2>4 DEF T
<1> QED  BY <1>2, <1>3, <1>4, <1>5

LEMMA SumIsTotal ==
  ASSUME NEW a, NEW l, NEW r
  PROVE  SumOf(a, l, r) = Total(a, l .. r)
BY DEF SumOf, Total

(* Arrays of k elements. *)
Rows(k) == [0 .. k - 1 -> Int]

LEMMA SumRange ==
  ASSUME NEW k \in Nat, NEW a \in Rows(k), NEW l \in Nat, NEW r \in Int, r < k
  PROVE  /\ SumOf(a, l, r) \in Int
         /\ r < l => SumOf(a, l, r) = 0
         /\ l <= r => SumOf(a, l, r) = SumOf(a, l, r - 1) + a[r]
<1>1. IsFiniteSet(l .. r)  BY FS_Interval
<1>2. \A x \in l .. r : a[x] \in Int
  <2>1. ASSUME NEW x \in l .. r PROVE x \in 0 .. k - 1  OBVIOUS
  <2> QED  BY <2>1 DEF Rows
<1>3. /\ Total(a, l .. r) \in Int
      /\ l .. r = {} => Total(a, l .. r) = 0
      /\ \A x \in l .. r : Total(a, l .. r) = a[x] + Total(a, (l .. r) \ {x})
  BY <1>1, <1>2, TotalRemove
<1>4. r < l => l .. r = {}  OBVIOUS
<1>5. ASSUME l <= r PROVE SumOf(a, l, r) = SumOf(a, l, r - 1) + a[r]
  <2>1. r \in l .. r /\ (l .. r) \ {r} = l .. (r - 1)  BY <1>5
  <2>2. Total(a, l .. r) = a[r] + Total(a, l .. (r - 1))  BY <1>3, <2>1
  <2>3. Total(a, l .. (r - 1)) \in Int
    <3>1. IsFiniteSet(l .. (r - 1))  BY FS_Interval
    <3>2. \A x \in l .. (r - 1) : a[x] \in Int  BY <1>2
    <3> QED  BY <3>1, <3>2, TotalRemove
  <2>4. a[r] \in Int  BY <1>2, <2>1
  <2> DEFINE u == Total(a, l .. (r - 1))
  <2>5. SumOf(a, l, r) = a[r] + u /\ SumOf(a, l, r - 1) = u /\ u \in Int
    BY <2>2, <2>3, SumIsTotal
  <2> HIDE DEF u
  <2> QED  BY <2>4, <2>5
<1> QED  BY <1>3, <1>4, <1>5, SumIsTotal

LEMMA SumSplit ==
  ASSUME NEW k \in Nat, NEW a \in Rows(k), NEW l \in Nat, NEW m \in Int, NEW r \in Int,
         l <= m + 1, m <= r, r < k
  PROVE  SumOf(a, l, r) = SumOf(a, l, m) + SumOf(a, m + 1, r)
<1> DEFINE Splits(j) == SumOf(a, l, m + j) = SumOf(a, l, m) + SumOf(a, m + 1, m + j)
           I == {j \in Nat : m + j < k /\ ~Splits(j)}
<1>1. I = {}
  <2> SUFFICES ASSUME I # {} PROVE FALSE  OBVIOUS
  <2>1. PICK j \in I : \A i \in I : j <= i  BY FirstExists
  <2>2. j \in Nat /\ m + j < k /\ ~Splits(j) /\ m + 1 \in Nat /\ m < k  BY <2>1
  <2>3. SumOf(a, l, m) \in Int  BY <2>2, SumRange
  <2>4. CASE j = 0
    <3>1. SumOf(a, m + 1, m) = 0  BY <2>2, SumRange
    <3> QED  BY <2>2, <2>3, <2>4, <3>1
  <2>5. CASE j # 0
    <3>1. j - 1 \in Nat /\ m + (j - 1) < k /\ ~(j <= j - 1)  BY <2>2, <2>5
    <3> HIDE DEF Splits
    <3>2. Splits(j - 1)  BY <2>1, <3>1
    <3> USE DEF Splits
    <3> DEFINE r1 == m + j
    <3>3. /\ r1 \in Int /\ r1 < k /\ l <= r1 /\ m + 1 <= r1 /\ m + (j - 1) = r1 - 1
          /\ r1 - 1 \in Int /\ r1 - 1 < k
      BY <2>2, <2>5
    <3> HIDE DEF r1
    <3>4. SumOf(a, l, r1) = SumOf(a, l, r1 - 1) + a[r1]  BY <3>3, SumRange
    <3>5. SumOf(a, m + 1, r1) = SumOf(a, m + 1, r1 - 1) + a[r1]  BY <2>2, <3>3, SumRange
    <3>6. SumOf(a, l, r1 - 1) = SumOf(a, l, m) + SumOf(a, m + 1, r1 - 1)  BY <3>2, <3>3
    <3>7. SumOf(a, l, r1 - 1) \in Int /\ SumOf(a, m + 1, r1 - 1) \in Int
      <4>1. SumOf(a, l, r1 - 1) \in Int  BY <3>3, SumRange
      <4>2. SumOf(a, m + 1, r1 - 1) \in Int  BY <2>2, <3>3, SumRange
      <4> QED  BY <4>1, <4>2
    <3>8. a[r1] \in Int
      <4>1. r1 \in 0 .. k - 1  BY <3>3
      <4> QED  BY <4>1 DEF Rows
    <3>9. SumOf(a, l, r1) = SumOf(a, l, m) + SumOf(a, m + 1, r1)
      <4> DEFINE s1 == SumOf(a, l, r1 - 1)  s2 == SumOf(a, l, m)  s3 == SumOf(a, m + 1, r1 - 1)
      <4>1. s1 \in Int /\ s2 \in Int /\ s3 \in Int /\ s1 = s2 + s3  BY <2>3, <3>6, <3>7
      <4>2. SumOf(a, l, r1) = s1 + a[r1] /\ SumOf(a, m + 1, r1) = s3 + a[r1]  BY <3>4, <3>5
      <4> HIDE DEF s1, s2, s3
      <4>3. SumOf(a, l, r1) = s2 + SumOf(a, m + 1, r1)  BY <3>8, <4>1, <4>2
      <4> QED  BY <4>3 DEF s2
    <3> QED  BY <2>2, <3>9 DEF r1
  <2> QED  BY <2>4, <2>5
<1>2. r - m \in Nat /\ m + (r - m) = r  OBVIOUS
<1>3. r - m \notin I  BY <1>1
<1>4. Splits(r - m)  BY <1>2, <1>3
<1> QED  BY <1>2, <1>4

Alike(a, b, l, r) == \A x \in l .. r : a[x] = b[x]

LEMMA SumSame ==
  ASSUME NEW k \in Nat, NEW a \in Rows(k), NEW b \in Rows(k),
         NEW l \in Nat, NEW r \in Int, r < k, Alike(a, b, l, r)
  PROVE  SumOf(a, l, r) = SumOf(b, l, r)
<1> USE DEF Alike
<1>0. ASSUME NEW c \in Rows(k), NEW q \in Int, q < k
      PROVE  /\ q < l => SumOf(c, l, q) = 0
             /\ l <= q => SumOf(c, l, q) = SumOf(c, l, q - 1) + c[q]
  BY <1>0, SumRange
<1> DEFINE I == {j \in Nat : l + j <= r /\ SumOf(a, l, l + j) # SumOf(b, l, l + j)}
<1>1. I = {}
  <2> SUFFICES ASSUME I # {} PROVE FALSE  OBVIOUS
  <2>1. PICK j \in I : \A i \in I : j <= i  BY FirstExists
  <2> DEFINE r1 == l + j
  <2>2. j \in Nat /\ l + j <= r /\ SumOf(a, l, r1) # SumOf(b, l, r1)  BY <2>1
  <2>7. r1 \in Int /\ r1 <= r /\ l <= r1 /\ r1 - 1 \in Int /\ r1 < k /\ r1 - 1 < k
    BY <2>2
  <2>3. a[r1] = b[r1]  BY <2>7
  <2>4. SumOf(a, l, r1 - 1) = SumOf(b, l, r1 - 1)
    <3>1. CASE j = 0
      <4>1. r1 - 1 < l  BY <2>2, <3>1
      <4>2. SumOf(a, l, r1 - 1) = 0 /\ SumOf(b, l, r1 - 1) = 0
        <5> HIDE DEF r1
        <5>1. SumOf(a, l, r1 - 1) = 0  BY <1>0, <2>7, <4>1
        <5>2. SumOf(b, l, r1 - 1) = 0  BY <1>0, <2>7, <4>1
        <5> QED  BY <5>1, <5>2
      <4> QED  BY <4>2
    <3>2. CASE j # 0
      <4>1. j - 1 \in Nat /\ l + (j - 1) = r1 - 1 /\ ~(j <= j - 1) /\ l + (j - 1) <= r
        BY <2>2, <3>2
      <4>2. SumOf(a, l, l + (j - 1)) = SumOf(b, l, l + (j - 1))  BY <2>1, <4>1
      <4> QED  BY <4>1, <4>2
    <3> QED  BY <3>1, <3>2
  <2> HIDE DEF r1
  <2>5. SumOf(a, l, r1) = SumOf(a, l, r1 - 1) + a[r1]  BY <1>0, <2>7
  <2>6. SumOf(b, l, r1) = SumOf(b, l, r1 - 1) + b[r1]  BY <1>0, <2>7
  <2> QED  BY <2>2, <2>3, <2>4, <2>5, <2>6
<1>2. CASE r < l
  <2>1. SumOf(a, l, r) = 0  BY <1>0, <1>2
  <2>2. SumOf(b, l, r) = 0  BY <1>0, <1>2
  <2> QED  BY <2>1, <2>2
<1>3. CASE l <= r
  <2>1. r - l \in Nat /\ l + (r - l) = r /\ l + (r - l) <= r  BY <1>3
  <2>2. SumOf(a, l, l + (r - l)) = SumOf(b, l, l + (r - l))  BY <1>1, <2>1
  <2> QED  BY <2>1, <2>2
<1> QED  BY <1>2, <1>3
-----------------------------------------------------------------------------
(* The nodes and the cells below one.                                      *)

Doubles(S) == \A x \in S : x * 2 \in S /\ x * 2 + 1 \in S

Subtree(j) == {x \in Nat : \A S \in SUBSET Nat : j \in S /\ Doubles(S) => x \in S}

LEMMA SubtreeLeast ==
  ASSUME NEW j \in Nat, NEW S \in SUBSET Nat, j \in S, Doubles(S)
  PROVE  Subtree(j) \subseteq S
BY DEF Subtree

LEMMA SubtreeDoubles ==
  ASSUME NEW j \in Nat
  PROVE  Subtree(j) \in SUBSET Nat /\ j \in Subtree(j) /\ Doubles(Subtree(j))
<1>1. ASSUME NEW x \in Subtree(j) PROVE x * 2 \in Subtree(j) /\ x * 2 + 1 \in Subtree(j)
  <2>1. x \in Nat /\ x * 2 \in Nat /\ x * 2 + 1 \in Nat  BY DEF Subtree
  <2>2. ASSUME NEW S \in SUBSET Nat, j \in S, Doubles(S)
        PROVE  x * 2 \in S /\ x * 2 + 1 \in S
    <3>1. x \in S  BY <2>2 DEF Subtree
    <3> QED  BY <2>2, <3>1 DEF Doubles
  <2> QED  BY <2>1, <2>2 DEF Subtree
<1>2. Subtree(j) \in SUBSET Nat /\ j \in Subtree(j)  BY DEF Subtree
<1> QED  BY <1>1, <1>2 DEF Doubles

LEMMA SubtreeOfHalf ==
  ASSUME NEW j \in Nat
  PROVE  Subtree(j * 2) \subseteq Subtree(j) /\ Subtree(j * 2 + 1) \subseteq Subtree(j)
<1>1. /\ Subtree(j) \in SUBSET Nat /\ Doubles(Subtree(j))
      /\ j * 2 \in Subtree(j) /\ j * 2 + 1 \in Subtree(j)
  BY SubtreeDoubles DEF Doubles
<1>2. j * 2 \in Nat /\ j * 2 + 1 \in Nat  OBVIOUS
<1> DEFINE S == Subtree(j)
<1> HIDE DEF S
<1>3. S \in SUBSET Nat /\ Doubles(S) /\ j * 2 \in S /\ j * 2 + 1 \in S  BY <1>1 DEF S
<1>4. Subtree(j * 2) \subseteq S  BY <1>2, <1>3, SubtreeLeast
<1>5. Subtree(j * 2 + 1) \subseteq S  BY <1>2, <1>3, SubtreeLeast
<1> QED  BY <1>4, <1>5 DEF S

LEMMA SubtreeAbove ==
  ASSUME NEW j \in Nat
  PROVE  \A x \in Subtree(j) : x >= j
<1> DEFINE S == {x \in Nat : x >= j}
<1>1. S \in SUBSET Nat /\ j \in S /\ Doubles(S)  BY DEF Doubles
<1> HIDE DEF S
<1>2. Subtree(j) \subseteq S  BY <1>1, SubtreeLeast
<1> QED  BY <1>2 DEF S

LEMMA SubtreeInverse ==
  ASSUME NEW j \in Nat, NEW x \in Subtree(j), x # j
  PROVE  \E y \in Subtree(j) : x = y * 2 \/ x = y * 2 + 1
<1> DEFINE S == {z \in Subtree(j) : z = j \/ \E y \in Subtree(j) : z = y * 2 \/ z = y * 2 + 1}
<1>1. Subtree(j) \in SUBSET Nat /\ j \in Subtree(j) /\ Doubles(Subtree(j))  BY SubtreeDoubles
<1>2. S \in SUBSET Nat /\ j \in S  BY <1>1
<1>3. ASSUME NEW z \in S PROVE z * 2 \in S /\ z * 2 + 1 \in S
  <2>1. z \in Subtree(j)  OBVIOUS
  <2>2. z * 2 \in Subtree(j) /\ z * 2 + 1 \in Subtree(j)  BY <1>1, <2>1 DEF Doubles
  <2> QED  BY <2>1, <2>2
<1>4. Doubles(S)  BY <1>3 DEF Doubles
<1> HIDE DEF S
<1>5. Subtree(j) \subseteq S  BY <1>2, <1>4, SubtreeLeast
<1>6. x \in S  BY <1>5
<1> QED  BY <1>6 DEF S

(* The subtrees of a node's children are disjoint. *)
LEMMA SubtreesDisjoint ==
  ASSUME NEW j \in Nat \ {0}
  PROVE  /\ Subtree(j * 2) \cap Subtree(j * 2 + 1) = {}
         /\ j \notin Subtree(j * 2) /\ j \notin Subtree(j * 2 + 1)
<1> DEFINE u == j * 2 + 1
           S == {x \in Nat : x >= j * 2 /\ x \notin Subtree(u)}
<1>1. u \in Nat /\ j * 2 \in Nat /\ u = j * 2 + 1  OBVIOUS
<1>2. /\ \A x \in Subtree(u) : x >= u /\ x \in Nat
      /\ \A x \in Subtree(u) : x # u => \E y \in Subtree(u) : x = y * 2 \/ x = y * 2 + 1
  <2> HIDE DEF u
  <2>1. Subtree(u) \in SUBSET Nat  BY <1>1, SubtreeDoubles
  <2> QED  BY <1>1, <2>1, SubtreeAbove, SubtreeInverse
<1> HIDE DEF u
<1>3. j * 2 \in S  BY <1>1, <1>2
<1>4. ASSUME NEW x \in S PROVE x * 2 \in S /\ x * 2 + 1 \in S
  <2>1. x \in Nat /\ x >= j * 2 /\ x \notin Subtree(u)  OBVIOUS
  <2>2. x * 2 \notin Subtree(u)
    <3> SUFFICES ASSUME x * 2 \in Subtree(u) PROVE FALSE  OBVIOUS
    <3>1. x * 2 # u  BY <1>1, <2>1
    <3>2. PICK y \in Subtree(u) : x * 2 = y * 2 \/ x * 2 = y * 2 + 1  BY <1>2, <3>1
    <3>3. y \in Nat  BY <1>2
    <3>4. x = y  BY <2>1, <3>2, <3>3
    <3> QED  BY <2>1, <3>4
  <2>3. x * 2 + 1 \notin Subtree(u)
    <3> SUFFICES ASSUME x * 2 + 1 \in Subtree(u) PROVE FALSE  OBVIOUS
    <3>1. x * 2 + 1 # u  BY <1>1, <2>1
    <3>2. PICK y \in Subtree(u) : x * 2 + 1 = y * 2 \/ x * 2 + 1 = y * 2 + 1  BY <1>2, <3>1
    <3>3. y \in Nat  BY <1>2
    <3>4. x = y  BY <2>1, <3>2, <3>3
    <3> QED  BY <2>1, <3>4
  <2> QED  BY <2>1, <2>2, <2>3
<1>5. S \in SUBSET Nat /\ Doubles(S)  BY <1>4 DEF Doubles
<1> HIDE DEF S
<1>6. Subtree(j * 2) \subseteq S  BY <1>1, <1>3, <1>5, SubtreeLeast
<1>7. Subtree(j * 2) \cap Subtree(u) = {}  BY <1>6 DEF S
<1>8. j \notin Subtree(j * 2)
  <2>1. \A x \in Subtree(j * 2) : x >= j * 2  BY <1>1, SubtreeAbove
  <2> QED  BY <2>1
<1>9. j \notin Subtree(u)  BY <1>1, <1>2
<1> QED  BY <1>7, <1>8, <1>9 DEF u
-----------------------------------------------------------------------------
Halved(S) == \A c \in S : c.start # c.end => LowerHalf(c) \in S /\ UpperHalf(c) \in S

Below(k, c) == {d \in Cells(k) : \A S \in SUBSET Cells(k) : c \in S /\ Halved(S) => d \in S}

LEMMA BelowLeast ==
  ASSUME NEW k, NEW c, NEW S \in SUBSET Cells(k), c \in S, Halved(S)
  PROVE  Below(k, c) \subseteq S
BY DEF Below

LEMMA BelowHalved ==
  ASSUME NEW k \in Nat \ {0}, NEW c \in Cells(k)
  PROVE  Below(k, c) \in SUBSET Cells(k) /\ c \in Below(k, c) /\ Halved(Below(k, c))
<1>1. ASSUME NEW d \in Below(k, c), d.start # d.end
      PROVE  LowerHalf(d) \in Below(k, c) /\ UpperHalf(d) \in Below(k, c)
  <2>1. d \in Cells(k)  BY DEF Below
  <2>2. LowerHalf(d) \in Cells(k) /\ UpperHalf(d) \in Cells(k)  BY <1>1, <2>1, HalvesAreCells
  <2>3. ASSUME NEW S \in SUBSET Cells(k), c \in S, Halved(S)
        PROVE  LowerHalf(d) \in S /\ UpperHalf(d) \in S
    <3>1. d \in S  BY <2>3 DEF Below
    <3> QED  BY <1>1, <2>3, <3>1 DEF Halved
  <2> QED  BY <2>2, <2>3 DEF Below
<1>2. Below(k, c) \in SUBSET Cells(k) /\ c \in Below(k, c)  BY DEF Below
<1> QED  BY <1>1, <1>2 DEF Halved

LEMMA BelowHalves ==
  ASSUME NEW k \in Nat \ {0}, NEW c \in Cells(k), c.start # c.end
  PROVE  /\ Below(k, LowerHalf(c)) \subseteq Below(k, c)
         /\ Below(k, UpperHalf(c)) \subseteq Below(k, c)
         /\ \A d \in Below(k, c) :
              d = c \/ d \in Below(k, LowerHalf(c)) \/ d \in Below(k, UpperHalf(c))
<1> DEFINE l == LowerHalf(c)  u == UpperHalf(c)  B == Below(k, c)
<1>1. l \in Cells(k) /\ u \in Cells(k)  BY HalvesAreCells
<1> HIDE DEF l, u
<1>2. B \in SUBSET Cells(k) /\ c \in B /\ Halved(B)  BY BelowHalved
<1>3. l \in B /\ u \in B  BY <1>2 DEF Halved, l, u
<1> HIDE DEF B
<1>4. Below(k, l) \subseteq B  BY <1>2, <1>3, BelowLeast
<1>5. Below(k, u) \subseteq B  BY <1>2, <1>3, BelowLeast
<1> DEFINE S == {c} \cup Below(k, l) \cup Below(k, u)
<1>6. /\ Below(k, l) \in SUBSET Cells(k) /\ l \in Below(k, l) /\ Halved(Below(k, l))
      /\ Below(k, u) \in SUBSET Cells(k) /\ u \in Below(k, u) /\ Halved(Below(k, u))
  BY <1>1, BelowHalved
<1>7. S \in SUBSET Cells(k) /\ c \in S  BY <1>6
<1>8. ASSUME NEW d \in S, d.start # d.end PROVE LowerHalf(d) \in S /\ UpperHalf(d) \in S
  <2>1. CASE d = c  BY <1>6, <2>1 DEF l, u
  <2>2. CASE d \in Below(k, l)  BY <1>6, <1>8, <2>2 DEF Halved
  <2>3. CASE d \in Below(k, u)  BY <1>6, <1>8, <2>3 DEF Halved
  <2> QED  BY <2>1, <2>2, <2>3
<1>9. Halved(S)  BY <1>8 DEF Halved
<1> HIDE DEF S
<1>10. B \subseteq S  BY <1>7, <1>9, BelowLeast DEF B
<1> QED  BY <1>4, <1>5, <1>10 DEF S, B, l, u

LEMMA BelowLeaf ==
  ASSUME NEW k \in Nat \ {0}, NEW c \in Cells(k), c.start = c.end
  PROVE  Below(k, c) = {c}
<1>1. {c} \in SUBSET Cells(k) /\ c \in {c} /\ Halved({c})  BY DEF Halved
<1>2. Below(k, c) \subseteq {c}  BY <1>1, BelowLeast
<1>3. c \in Below(k, c)  BY BelowHalved
<1> QED  BY <1>2, <1>3

LEMMA BelowPlace ==
  ASSUME NEW k \in Nat \ {0}, NEW c \in Cells(k), NEW d \in Below(k, c)
  PROVE  d \in Cells(k) /\ d.node \in Subtree(c.node) /\ c.start <= d.start /\ d.end <= c.end
<1> DEFINE S == {x \in Cells(k) : x.node \in Subtree(c.node) /\ c.start <= x.start /\ x.end <= c.end}
<1>1. c \in S
  <2>1. c.start \in Nat /\ c.end \in Nat /\ c.node \in Nat  BY CellFields
  <2>2. c.node \in Subtree(c.node)  BY <2>1, SubtreeDoubles
  <2> QED  BY <2>1, <2>2
<1>2. ASSUME NEW x \in S, x.start # x.end PROVE LowerHalf(x) \in S /\ UpperHalf(x) \in S
  <2>1. x \in Cells(k) /\ x.node \in Subtree(c.node) /\ c.start <= x.start /\ x.end <= c.end
    OBVIOUS
  <2>2. LowerHalf(x) \in Cells(k) /\ UpperHalf(x) \in Cells(k)  BY <1>2, <2>1, HalvesAreCells
  <2>3. c.node \in Nat  BY CellFields
  <2>4. x.node * 2 \in Subtree(c.node) /\ x.node * 2 + 1 \in Subtree(c.node)
    BY <2>1, <2>3, SubtreeDoubles DEF Doubles
  <2>5. /\ c.start \in Nat /\ c.end \in Nat /\ x.start \in Nat /\ x.end \in Nat /\ Mid(x) \in Nat
        /\ x.start <= Mid(x) /\ Mid(x) < x.end
    BY <1>2, <2>1, CellFields
  <2>6. c.start <= Mid(x) + 1 /\ Mid(x) <= c.end  BY <2>1, <2>5
  <2> QED  BY <2>1, <2>2, <2>4, <2>6, HalfFields
<1>3. S \in SUBSET Cells(k) /\ Halved(S)  BY <1>2 DEF Halved
<1> HIDE DEF S
<1>4. Below(k, c) \subseteq S  BY <1>1, <1>3, BelowLeast
<1> QED  BY <1>4 DEF S
-----------------------------------------------------------------------------
(* Trees that show a value v[c] at the node of every cell c.               *)

Shows(v, t, k, c) == \A d \in Below(k, c) : t[d.node] = v[d]

Kept(t, u, k, j) == \A x \in 0 .. 4 * k - 1 : x \notin Subtree(j) => u[x] = t[x]

LEMMA NodesAreInTheTree ==
  ASSUME NEW k \in Nat \ {0}, NEW c \in Cells(k)
  PROVE  c.node \in 0 .. 4 * k - 1
<1>1. c.node \in Nat /\ c.node < 4 * k  BY CellFields
<1> QED  BY <1>1

(* A tree changed only in another subtree shows what it did. *)
LEMMA ShowsKept ==
  ASSUME NEW k \in Nat \ {0}, NEW c \in Cells(k), NEW v, NEW t, NEW u, NEW j \in Nat,
         Shows(v, t, k, c), Kept(t, u, k, j), Subtree(c.node) \cap Subtree(j) = {}
  PROVE  Shows(v, u, k, c)
<1> SUFFICES ASSUME NEW d \in Below(k, c) PROVE u[d.node] = v[d]  BY DEF Shows
<1>1. d \in Cells(k) /\ d.node \in Subtree(c.node)  BY BelowPlace
<1>2. d.node \in 0 .. 4 * k - 1  BY <1>1, NodesAreInTheTree
<1>3. u[d.node] = t[d.node]  BY <1>1, <1>2 DEF Kept
<1> QED  BY <1>3 DEF Shows

(* The two calls for the halves of c, and the store after them. *)
Halves(v, k, c, t, l, r) ==
  /\ t \in Trees(k) /\ l \in Trees(k) /\ r \in Trees(k)
  /\ Kept(t, l, k, c.node * 2) /\ Kept(l, r, k, c.node * 2 + 1)
  /\ Shows(v, l, k, LowerHalf(c)) /\ Shows(v, r, k, UpperHalf(c))

LEMMA HalvesShow ==
  ASSUME NEW k \in Nat \ {0}, NEW c \in Cells(k), c.start # c.end,
         NEW v, NEW t, NEW l, NEW r, Halves(v, k, c, t, l, r)
  PROVE  /\ Shows(v, r, k, LowerHalf(c))
         /\ r[c.node * 2] = v[LowerHalf(c)] /\ r[c.node * 2 + 1] = v[UpperHalf(c)]
<1> DEFINE lo == LowerHalf(c)  up == UpperHalf(c)
<1>1. lo \in Cells(k) /\ up \in Cells(k)  BY HalvesAreCells
<1>2. lo.node = c.node * 2 /\ up.node = c.node * 2 + 1  BY HalfFields
<1>3. c.node \in Nat \ {0} /\ c.node * 2 + 1 \in Nat  BY CellFields
<1>4. Subtree(lo.node) \cap Subtree(c.node * 2 + 1) = {}  BY <1>2, <1>3, SubtreesDisjoint
<1>5. Shows(v, l, k, lo) /\ Kept(l, r, k, c.node * 2 + 1) /\ Shows(v, r, k, up)  BY DEF Halves
<1> HIDE DEF lo, up
<1>6. Shows(v, r, k, lo)  BY <1>1, <1>3, <1>4, <1>5, ShowsKept
<1>7. lo \in Below(k, lo) /\ up \in Below(k, up)  BY <1>1, BelowHalved
<1>8. r[lo.node] = v[lo] /\ r[up.node] = v[up]  BY <1>5, <1>6, <1>7 DEF Shows
<1> QED  BY <1>2, <1>6, <1>8 DEF lo, up

LEMMA StoreShows ==
  ASSUME NEW k \in Nat \ {0}, NEW c \in Cells(k), c.start # c.end,
         NEW v \in [Cells(k) -> Int], NEW t, NEW l, NEW r, Halves(v, k, c, t, l, r)
  PROVE  /\ [r EXCEPT ![c.node] = v[c]] \in Trees(k)
         /\ Kept(t, [r EXCEPT ![c.node] = v[c]], k, c.node)
         /\ Shows(v, [r EXCEPT ![c.node] = v[c]], k, c)
<1> DEFINE lo == LowerHalf(c)  up == UpperHalf(c)  nd == c.node
           u == [r EXCEPT ![nd] = v[c]]
<1>1. lo \in Cells(k) /\ up \in Cells(k)  BY HalvesAreCells
<1>2. lo.node = nd * 2 /\ up.node = nd * 2 + 1  BY HalfFields
<1>3. nd \in Nat \ {0} /\ nd \in 0 .. 4 * k - 1  BY CellFields, NodesAreInTheTree
<1>4. r \in [0 .. 4 * k - 1 -> Int] /\ v[c] \in Int  BY DEF Halves, Trees
<1> HIDE DEF lo, up, nd
<1>5. /\ u \in [0 .. 4 * k - 1 -> Int] /\ u[nd] = v[c]
      /\ \A x \in 0 .. 4 * k - 1 : x # nd => u[x] = r[x]
  BY <1>3, <1>4
<1> HIDE DEF u
<1>6. /\ nd \in Subtree(nd) /\ Subtree(nd * 2) \subseteq Subtree(nd)
      /\ Subtree(nd * 2 + 1) \subseteq Subtree(nd)
  BY <1>3, SubtreeDoubles, SubtreeOfHalf
<1>7. nd \notin Subtree(nd * 2) /\ nd \notin Subtree(nd * 2 + 1)  BY <1>3, SubtreesDisjoint
<1>8. Kept(t, u, k, nd)
  <2>1. Kept(t, l, k, nd * 2) /\ Kept(l, r, k, nd * 2 + 1)  BY DEF Halves, nd
  <2>2. ASSUME NEW x \in 0 .. 4 * k - 1, x \notin Subtree(nd) PROVE u[x] = t[x]
    <3>1. x # nd /\ x \notin Subtree(nd * 2) /\ x \notin Subtree(nd * 2 + 1)  BY <1>6, <2>2
    <3> QED  BY <1>5, <2>1, <3>1 DEF Kept
  <2> QED  BY <2>2 DEF Kept
<1>9. Shows(v, r, k, lo) /\ Shows(v, r, k, up)  BY HalvesShow DEF Halves, lo, up
<1>10. ASSUME NEW d \in Below(k, c) PROVE u[d.node] = v[d]
  <2>1. d = c \/ d \in Below(k, lo) \/ d \in Below(k, up)  BY BelowHalves DEF lo, up
  <2>2. CASE d = c  BY <1>5, <2>2 DEF nd
  <2>3. CASE d \in Below(k, lo)
    <3>1. d \in Cells(k) /\ d.node \in Subtree(nd * 2)  BY <1>1, <1>2, <2>3, BelowPlace
    <3>2. d.node \in 0 .. 4 * k - 1 /\ d.node # nd  BY <1>7, <3>1, NodesAreInTheTree
    <3> QED  BY <1>5, <1>9, <2>3, <3>2 DEF Shows
  <2>4. CASE d \in Below(k, up)
    <3>1. d \in Cells(k) /\ d.node \in Subtree(nd * 2 + 1)  BY <1>1, <1>2, <2>4, BelowPlace
    <3>2. d.node \in 0 .. 4 * k - 1 /\ d.node # nd  BY <1>7, <3>1, NodesAreInTheTree
    <3> QED  BY <1>5, <1>9, <2>4, <3>2 DEF Shows
  <2> QED  BY <2>1, <2>2, <2>3, <2>4
<1>11. Shows(v, u, k, c)  BY <1>10 DEF Shows
<1> QED  BY <1>5, <1>8, <1>11 DEF u, nd, Trees
-----------------------------------------------------------------------------
(* Walks: the recursive calls that change a tree.  A walk stops at a cell   *)
(* and does stopped[c], or walks both halves and stores what join makes of  *)
(* the values at their nodes.                                              *)

WalkParts(k, stop, stopped, join) ==
  /\ stop \in [Cells(k) -> BOOLEAN] /\ stopped \in [Cells(k) -> [Trees(k) -> Trees(k)]]
  /\ join \in [Int \X Int -> Int]
  /\ \A c \in Cells(k) : ~stop[c] => c.start # c.end

Stored(c, r, join) == [r EXCEPT ![c.node] = join[<<r[c.node * 2], r[c.node * 2 + 1]>>]]

IsWalk(k, stop, stopped, join, f) ==
  \A c \in Cells(k), t \in Trees(k) :
    /\ stop[c] => f[c][t] = stopped[c][t]
    /\ ~stop[c] => \A r \in Trees(k) :
                     r = f[UpperHalf(c)][f[LowerHalf(c)][t]] => f[c][t] = Stored(c, r, join)

LEMMA StoredIsATree ==
  ASSUME NEW k \in Nat \ {0}, NEW c \in Cells(k), c.start # c.end, NEW r \in Trees(k),
         NEW join \in [Int \X Int -> Int]
  PROVE  /\ r[c.node * 2] \in Int /\ r[c.node * 2 + 1] \in Int
         /\ Stored(c, r, join) \in Trees(k)
<1>1. LowerHalf(c) \in Cells(k) /\ UpperHalf(c) \in Cells(k)  BY HalvesAreCells
<1>2. LowerHalf(c).node \in 0 .. 4 * k - 1 /\ UpperHalf(c).node \in 0 .. 4 * k - 1
  BY <1>1, NodesAreInTheTree
<1>3. c.node * 2 \in 0 .. 4 * k - 1 /\ c.node * 2 + 1 \in 0 .. 4 * k - 1  BY <1>2, HalfFields
<1>4. r \in [0 .. 4 * k - 1 -> Int]  BY DEF Trees
<1>5. r[c.node * 2] \in Int /\ r[c.node * 2 + 1] \in Int  BY <1>3, <1>4
<1>6. join[<<r[c.node * 2], r[c.node * 2 + 1]>>] \in Int  BY <1>5
<1> QED  BY <1>4, <1>5, <1>6 DEF Stored, Trees

LEMMA WalkExists ==
  ASSUME NEW k \in Nat \ {0}, NEW stop, NEW stopped, NEW join, WalkParts(k, stop, stopped, join)
  PROVE  \E f \in [Cells(k) -> [Trees(k) -> Trees(k)]] : IsWalk(k, stop, stopped, join, f)
<1> DEFINE D == Cells(k)
           T == Trees(k)
           R == [T -> T]
           Body(h, c, t) == IF stop[c] THEN stopped[c][t]
                            ELSE Stored(c, h[UpperHalf(c)][h[LowerHalf(c)][t]], join)
           F == [h \in [D -> R] |-> [c \in D |-> [t \in T |-> Body(h, c, t)]]]
           rank == [c \in D |-> c.end - c.start]
<1>1. /\ stop \in [D -> BOOLEAN] /\ stopped \in [D -> R] /\ join \in [Int \X Int -> Int]
      /\ \A c \in D : ~stop[c] => c.start # c.end
  BY DEF WalkParts
<1>2. \A c \in D : c.start # c.end => LowerHalf(c) \in D /\ UpperHalf(c) \in D
  BY HalvesAreCells
<1>3. ASSUME NEW h \in [D -> R], NEW c \in D, NEW t \in T PROVE Body(h, c, t) \in T
  <2> HIDE DEF D, T
  <2>1. CASE stop[c]  BY <1>1, <2>1
  <2>2. CASE ~stop[c]
    <3>1. c.start # c.end /\ LowerHalf(c) \in D /\ UpperHalf(c) \in D  BY <1>1, <1>2, <2>2
    <3>2. h[LowerHalf(c)][t] \in T  BY <3>1
    <3>3. h[UpperHalf(c)][h[LowerHalf(c)][t]] \in T  BY <3>1, <3>2
    <3>4. Stored(c, h[UpperHalf(c)][h[LowerHalf(c)][t]], join) \in T
      BY <1>1, <3>1, <3>3, StoredIsATree DEF D, T
    <3> QED  BY <2>2, <3>4
  <2> QED  BY <1>1, <2>1, <2>2
<1>4. ASSUME NEW g \in [D -> R], NEW h \in [D -> R], NEW c \in D,
             \A d \in D : rank[d] < rank[c] => g[d] = h[d]
      PROVE  F[g][c] = F[h][c]
  <2>1. ASSUME NEW t \in T PROVE Body(g, c, t) = Body(h, c, t)
    <3>1. CASE stop[c]  BY <3>1
    <3>2. CASE ~stop[c]
      <4>1. c.start # c.end /\ LowerHalf(c) \in D /\ UpperHalf(c) \in D  BY <1>1, <1>2, <3>2
      <4>2. /\ c.start \in Nat /\ c.end \in Nat /\ Mid(c) \in Nat
            /\ c.start <= Mid(c) /\ Mid(c) < c.end
        BY <4>1, CellFields
      <4>3. /\ LowerHalf(c).end - LowerHalf(c).start < c.end - c.start
            /\ UpperHalf(c).end - UpperHalf(c).start < c.end - c.start
        BY <4>2, HalfFields
      <4>4. rank[LowerHalf(c)] < rank[c] /\ rank[UpperHalf(c)] < rank[c]  BY <4>1, <4>3
      <4>5. g[LowerHalf(c)] = h[LowerHalf(c)] /\ g[UpperHalf(c)] = h[UpperHalf(c)]
        BY <1>4, <4>1, <4>4
      <4> QED  BY <4>5
    <3> QED  BY <1>1, <3>1, <3>2
  <2> HIDE DEF Body
  <2> QED  BY <2>1
<1>5. rank \in [D -> Nat]
  <2>1. \A c \in D : c.end - c.start \in Nat  BY CellFields
  <2> QED  BY <2>1
<1>6. F \in [[D -> R] -> [D -> R]]
  <2> HIDE DEF Body, D, T
  <2> QED  BY <1>3
<1>7. \A g, h \in [D -> R] : \A c \in D :
        (\A d \in D : rank[d] < rank[c] => g[d] = h[d]) => F[g][c] = F[h][c]
  BY <1>4
<1>8. PICK f \in [D -> R] : f = F[f]
  <2> HIDE DEF F, rank, D, R
  <2>1. LooksBelow(D, R, F, rank)  BY <1>5, <1>6, <1>7 DEF LooksBelow
  <2>2. R # {}
    <3>1. [t \in T |-> t] \in R  BY DEF R
    <3> QED  BY <3>1
  <2> QED  BY <2>1, <2>2, RecursionHasASolution
<1>9. ASSUME NEW c \in D, NEW t \in T PROVE f[c][t] = Body(f, c, t)
  <2> HIDE DEF Body, D, T
  <2>1. F[f] = [d \in D |-> [u \in T |-> Body(f, d, u)]]  OBVIOUS
  <2> QED  BY <1>8, <2>1
<1>10. IsWalk(k, stop, stopped, join, f)
  BY <1>1, <1>9 DEF IsWalk
<1> QED  BY <1>8, <1>10

(* A walk makes a tree show v when it does so where it stops, and v is      *)
(* what join makes of the halves elsewhere.  If old, the tree showed v0     *)
(* before.                                                                 *)
Makes(k, old, v0, v, c, t, u) ==
  (old => Shows(v0, t, k, c)) =>
    u \in Trees(k) /\ Kept(t, u, k, c.node) /\ Shows(v, u, k, c)

StopsRight(k, stop, stopped, join, old, v0, v) ==
  /\ v \in [Cells(k) -> Int]
  /\ \A c \in Cells(k) : ~stop[c] => v[c] = join[<<v[LowerHalf(c)], v[UpperHalf(c)]>>]
  /\ \A c \in Cells(k) : stop[c] =>
       \A t \in Trees(k) : Makes(k, old, v0, v, c, t, stopped[c][t])

LEMMA WalkShows ==
  ASSUME NEW k \in Nat \ {0}, NEW stop, NEW stopped, NEW join, WalkParts(k, stop, stopped, join),
         NEW f, IsWalk(k, stop, stopped, join, f),
         NEW old, NEW v0, NEW v, StopsRight(k, stop, stopped, join, old, v0, v)
  PROVE  \A c \in Cells(k), t \in Trees(k) : Makes(k, old, v0, v, c, t, f[c][t])
<1> USE DEF StopsRight
<1> DEFINE S == {c \in Cells(k) : \A t \in Trees(k) : Makes(k, old, v0, v, c, t, f[c][t])}
<1>1. ASSUME NEW c \in Cells(k),
             c.start # c.end => LowerHalf(c) \in S /\ UpperHalf(c) \in S
      PROVE  c \in S
  <2> SUFFICES ASSUME NEW t \in Trees(k) PROVE Makes(k, old, v0, v, c, t, f[c][t])  OBVIOUS
  <2>1. CASE stop[c]
    <3>1. f[c][t] = stopped[c][t]  BY <2>1 DEF IsWalk
    <3> QED  BY <2>1, <3>1
  <2>2. CASE ~stop[c]
    <3> SUFFICES ASSUME old => Shows(v0, t, k, c)
                 PROVE  /\ f[c][t] \in Trees(k) /\ Kept(t, f[c][t], k, c.node)
                        /\ Shows(v, f[c][t], k, c)
      BY DEF Makes
    <3> DEFINE lo == LowerHalf(c)  up == UpperHalf(c)  l == f[lo][t]  r == f[up][l]
    <3>1. c.start # c.end  BY <2>2 DEF WalkParts
    <3>2. lo \in S /\ up \in S /\ lo \in Cells(k) /\ up \in Cells(k)  BY <1>1, <3>1
    <3>3. lo.node = c.node * 2 /\ up.node = c.node * 2 + 1  BY HalfFields
    <3>4. old => Shows(v0, t, k, lo) /\ Shows(v0, t, k, up)
      BY <3>1, BelowHalves DEF Shows
    <3>5. f[c][t] = Stored(c, r, join) \/ r \notin Trees(k)  BY <2>2 DEF IsWalk
    <3> HIDE DEF lo, up
    <3>6. l \in Trees(k) /\ Kept(t, l, k, c.node * 2) /\ Shows(v, l, k, lo)
      BY <3>2, <3>3, <3>4 DEF Makes
    <3> HIDE DEF l
    <3>7. old => Shows(v0, l, k, up)
      <4>1. c.node \in Nat \ {0} /\ c.node * 2 \in Nat  BY CellFields
      <4>2. Subtree(up.node) \cap Subtree(c.node * 2) = {}  BY <3>3, <4>1, SubtreesDisjoint
      <4> QED  BY <3>2, <3>4, <3>6, <4>1, <4>2, ShowsKept
    <3>8. r \in Trees(k) /\ Kept(l, r, k, c.node * 2 + 1) /\ Shows(v, r, k, up)
      BY <3>2, <3>3, <3>6, <3>7 DEF Makes
    <3> HIDE DEF r
    <3>9. Halves(v, k, c, t, l, r)  BY <3>6, <3>8 DEF Halves, lo, up
    <3>10. r[c.node * 2] = v[lo] /\ r[c.node * 2 + 1] = v[up]
      BY <3>1, <3>9, HalvesShow DEF lo, up
    <3>11. Stored(c, r, join) = [r EXCEPT ![c.node] = v[c]]
      BY <2>2, <3>10 DEF Stored, lo, up
    <3>12. f[c][t] = [r EXCEPT ![c.node] = v[c]]  BY <3>5, <3>8, <3>11
    <3> QED  BY <3>1, <3>9, <3>12, StoreShows
  <2> QED  BY <2>1, <2>2 DEF WalkParts
<1> HIDE DEF S
<1>2. Cells(k) \subseteq S  BY <1>1, CellInduction
<1> QED  BY <1>2 DEF S
-----------------------------------------------------------------------------
(* Folds: the recursive calls that read a tree.                            *)

FoldParts(k, stop, stopped, join) ==
  /\ stop \in [Cells(k) -> BOOLEAN] /\ stopped \in [Cells(k) -> Int]
  /\ join \in [Int \X Int -> Int]
  /\ \A c \in Cells(k) : ~stop[c] => c.start # c.end

ReadAt(stop, stopped, join, f, c) ==
  IF stop[c] THEN stopped[c] ELSE join[<<f[LowerHalf(c)], f[UpperHalf(c)]>>]

IsFold(k, stop, stopped, join, f) ==
  \A c \in Cells(k) : f[c] = ReadAt(stop, stopped, join, f, c)

LEMMA FoldExists ==
  ASSUME NEW k \in Nat \ {0}, NEW stop, NEW stopped, NEW join, FoldParts(k, stop, stopped, join)
  PROVE  \E f \in [Cells(k) -> Int] : \A c \in Cells(k) : f[c] = ReadAt(stop, stopped, join, f, c)
<1> DEFINE D == Cells(k)
           F == [h \in [D -> Int] |-> [c \in D |-> ReadAt(stop, stopped, join, h, c)]]
           rank == [c \in D |-> c.end - c.start]
<1>1. /\ stop \in [D -> BOOLEAN] /\ stopped \in [D -> Int] /\ join \in [Int \X Int -> Int]
      /\ \A c \in D : ~stop[c] => c.start # c.end
  BY DEF FoldParts
<1>2. \A c \in D : c.start # c.end => LowerHalf(c) \in D /\ UpperHalf(c) \in D
  BY HalvesAreCells
<1>3. ASSUME NEW h \in [D -> Int], NEW c \in D PROVE ReadAt(stop, stopped, join, h, c) \in Int
  <2> HIDE DEF D
  <2>1. CASE stop[c]  BY <1>1, <2>1 DEF ReadAt
  <2>2. CASE ~stop[c]
    <3>1. LowerHalf(c) \in D /\ UpperHalf(c) \in D  BY <1>1, <1>2, <2>2
    <3>2. h[LowerHalf(c)] \in Int /\ h[UpperHalf(c)] \in Int  BY <3>1
    <3>3. join[<<h[LowerHalf(c)], h[UpperHalf(c)]>>] \in Int  BY <1>1, <3>2
    <3> QED  BY <2>2, <3>3 DEF ReadAt
  <2> QED  BY <1>1, <2>1, <2>2
<1>4. ASSUME NEW g \in [D -> Int], NEW h \in [D -> Int], NEW c \in D,
             \A d \in D : rank[d] < rank[c] => g[d] = h[d]
      PROVE  F[g][c] = F[h][c]
  <2>1. CASE stop[c]  BY <2>1 DEF ReadAt
  <2>2. CASE ~stop[c]
    <3>1. c.start # c.end /\ LowerHalf(c) \in D /\ UpperHalf(c) \in D  BY <1>1, <1>2, <2>2
    <3>2. /\ c.start \in Nat /\ c.end \in Nat /\ Mid(c) \in Nat
          /\ c.start <= Mid(c) /\ Mid(c) < c.end
      BY <3>1, CellFields
    <3>3. /\ LowerHalf(c).end - LowerHalf(c).start < c.end - c.start
          /\ UpperHalf(c).end - UpperHalf(c).start < c.end - c.start
      BY <3>2, HalfFields
    <3>4. rank[LowerHalf(c)] < rank[c] /\ rank[UpperHalf(c)] < rank[c]  BY <3>1, <3>3
    <3>5. g[LowerHalf(c)] = h[LowerHalf(c)] /\ g[UpperHalf(c)] = h[UpperHalf(c)]
      BY <1>4, <3>1, <3>4
    <3> QED  BY <3>5 DEF ReadAt
  <2> QED  BY <1>1, <2>1, <2>2
<1>5. rank \in [D -> Nat]
  <2>1. \A c \in D : c.end - c.start \in Nat  BY CellFields
  <2> QED  BY <2>1
<1>6. F \in [[D -> Int] -> [D -> Int]]
  <2> HIDE DEF D
  <2> QED  BY <1>3
<1>7. \A g, h \in [D -> Int] : \A c \in D :
        (\A d \in D : rank[d] < rank[c] => g[d] = h[d]) => F[g][c] = F[h][c]
  BY <1>4
<1>8. PICK f \in [D -> Int] : f = F[f]
  <2> HIDE DEF F, rank, D
  <2>1. LooksBelow(D, Int, F, rank)  BY <1>5, <1>6, <1>7 DEF LooksBelow
  <2>2. Int # {}  OBVIOUS
  <2> QED  BY <2>1, <2>2, RecursionHasASolution
<1>9. F[f] = [c \in D |-> ReadAt(stop, stopped, join, f, c)]
  <2> HIDE DEF D
  <2> QED  OBVIOUS
<1> QED  BY <1>8, <1>9
-----------------------------------------------------------------------------
(* segmentTree.c: the node of every cell holds its sum.                    *)

Sums(a, k) == [c \in Cells(k) |-> SumOf(a, c.start, c.end)]

Plus == [p \in Int \X Int |-> p[1] + p[2]]

LEMMA SumsOfCells ==
  ASSUME NEW k \in Nat \ {0}, NEW a \in Rows(k)
  PROVE  /\ Sums(a, k) \in [Cells(k) -> Int]
         /\ \A c \in Cells(k) :
              /\ c.start = c.end => Sums(a, k)[c] = a[c.start]
              /\ c.start # c.end =>
                   Sums(a, k)[c] = Plus[<<Sums(a, k)[LowerHalf(c)], Sums(a, k)[UpperHalf(c)]>>]
<1>1. ASSUME NEW c \in Cells(k) PROVE Sums(a, k)[c] = SumOf(a, c.start, c.end)
  BY DEF Sums
<1>2. ASSUME NEW c \in Cells(k) PROVE SumOf(a, c.start, c.end) \in Int
  <2>1. c.start \in Nat /\ c.end \in Nat /\ c.end < k  BY CellFields
  <2>2. c.end \in Int /\ k \in Nat  BY <2>1
  <2> QED  BY <2>1, <2>2, SumRange
<1>3. ASSUME NEW c \in Cells(k), c.start = c.end PROVE Sums(a, k)[c] = a[c.start]
  <2> DEFINE s == c.start
  <2>1. s \in Nat /\ s < k /\ k \in Nat /\ s - 1 \in Int /\ s - 1 < k /\ s - 1 < s /\ s \in Int
    BY <1>3, CellFields
  <2> HIDE DEF s
  <2>2. SumOf(a, s, s - 1) = 0  BY <2>1, SumRange
  <2>3. SumOf(a, s, s) = SumOf(a, s, s - 1) + a[s]  BY <2>1, SumRange
  <2>4. a[s] \in Int
    <3>1. s \in 0 .. k - 1  BY <2>1
    <3> QED  BY <3>1 DEF Rows
  <2>5. SumOf(a, s, s) = a[s]  BY <2>2, <2>3, <2>4
  <2>6. c.start = s /\ c.end = s  BY <1>3 DEF s
  <2> QED  BY <1>1, <2>5, <2>6
<1>4. ASSUME NEW c \in Cells(k), c.start # c.end
      PROVE Sums(a, k)[c] = Plus[<<Sums(a, k)[LowerHalf(c)], Sums(a, k)[UpperHalf(c)]>>]
  <2> DEFINE s == c.start  e == c.end  m == Mid(c)  lo == LowerHalf(c)  up == UpperHalf(c)
  <2>1. s \in Nat /\ e \in Nat /\ m \in Nat /\ s <= m /\ m < e /\ e < k  BY <1>4, CellFields
  <2>2. lo \in Cells(k) /\ up \in Cells(k)  BY <1>4, HalvesAreCells
  <2>3. lo.start = s /\ lo.end = m /\ up.start = m + 1 /\ up.end = e  BY HalfFields
  <2> HIDE DEF s, e, m, lo, up
  <2>4. s <= m + 1 /\ m <= e /\ m \in Int /\ e \in Int /\ k \in Nat  BY <2>1
  <2>5. SumOf(a, s, e) = SumOf(a, s, m) + SumOf(a, m + 1, e)  BY <2>1, <2>4, SumSplit
  <2>6. /\ Sums(a, k)[lo] = SumOf(a, s, m) /\ Sums(a, k)[up] = SumOf(a, m + 1, e)
        /\ SumOf(a, s, m) \in Int /\ SumOf(a, m + 1, e) \in Int
    BY <1>1, <1>2, <2>2, <2>3
  <2>7. Plus[<<SumOf(a, s, m), SumOf(a, m + 1, e)>>] = SumOf(a, s, m) + SumOf(a, m + 1, e)
    BY <2>6 DEF Plus
  <2>8. Sums(a, k)[c] = SumOf(a, s, e)  BY <1>1 DEF s, e
  <2> QED  BY <2>5, <2>6, <2>7, <2>8 DEF lo, up
<1>5. Sums(a, k) \in [Cells(k) -> Int]  BY <1>2 DEF Sums
<1> QED  BY <1>3, <1>4, <1>5

InitAt(a, f, c, t) ==
  IF c.start = c.end THEN [t EXCEPT ![c.node] = a[c.start]]
  ELSE LET r == f[UpperHalf(c)][f[LowerHalf(c)][t]]
       IN  [r EXCEPT ![c.node] = r[c.node * 2] + r[c.node * 2 + 1]]

IsInit(a, k, f) == f = [c \in Cells(k) |-> [t \in Trees(k) |-> InitAt(a, f, c, t)]]

LeafSet(a, k) == [c \in Cells(k) |-> [t \in Trees(k) |-> [t EXCEPT ![c.node] = a[c.start]]]]
IsLeaf(k)     == [c \in Cells(k) |-> c.start = c.end]

SumStored(c, r) == [r EXCEPT ![c.node] = r[c.node * 2] + r[c.node * 2 + 1]]

LEMMA PlusStored ==
  ASSUME NEW k \in Nat \ {0}, NEW c \in Cells(k), c.start # c.end, NEW r \in Trees(k)
  PROVE  Stored(c, r, Plus) = SumStored(c, r)
<1>1. Plus \in [Int \X Int -> Int]  BY DEF Plus
<1>2. r[c.node * 2] \in Int /\ r[c.node * 2 + 1] \in Int  BY <1>1, StoredIsATree
<1>3. Plus[<<r[c.node * 2], r[c.node * 2 + 1]>>] = r[c.node * 2] + r[c.node * 2 + 1]
  BY <1>2 DEF Plus
<1> QED  BY <1>3 DEF Stored, SumStored

LEMMA LeafSetParts ==
  ASSUME NEW k \in Nat \ {0}, NEW a \in Rows(k), NEW join \in [Int \X Int -> Int]
  PROVE  WalkParts(k, IsLeaf(k), LeafSet(a, k), join)
<1>1. ASSUME NEW c \in Cells(k), NEW t \in Trees(k)
      PROVE  [t EXCEPT ![c.node] = a[c.start]] \in Trees(k)
  <2>1. c.start \in Nat /\ c.start <= c.end /\ c.end < k /\ c.end \in Nat  BY CellFields
  <2>2. c.start \in 0 .. k - 1  BY <2>1
  <2>3. a[c.start] \in Int  BY <2>2 DEF Rows
  <2> QED  BY <2>3 DEF Trees
<1>2. LeafSet(a, k) \in [Cells(k) -> [Trees(k) -> Trees(k)]]  BY <1>1 DEF LeafSet
<1>3. /\ IsLeaf(k) \in [Cells(k) -> BOOLEAN]
      /\ \A c \in Cells(k) : ~IsLeaf(k)[c] => c.start # c.end
  BY DEF IsLeaf
<1> QED  BY <1>2, <1>3 DEF WalkParts

(* Storing the element at a leaf makes it show the element. *)
LEMMA LeafSetMakes ==
  ASSUME NEW k \in Nat \ {0}, NEW c \in Cells(k), c.start = c.end, NEW t \in Trees(k),
         NEW v, v[c] \in Int, NEW old, NEW v0
  PROVE  Makes(k, old, v0, v, c, t, [t EXCEPT ![c.node] = v[c]])
<1> DEFINE u == [t EXCEPT ![c.node] = v[c]]
<1>1. c.node \in 0 .. 4 * k - 1 /\ c.node \in Nat  BY NodesAreInTheTree
<1>2. t \in [0 .. 4 * k - 1 -> Int]  BY DEF Trees
<1>3. u \in Trees(k) /\ u[c.node] = v[c] /\ \A x \in 0 .. 4 * k - 1 : x # c.node => u[x] = t[x]
  BY <1>1, <1>2 DEF Trees
<1>4. c.node \in Subtree(c.node)  BY <1>1, SubtreeDoubles
<1> HIDE DEF u
<1>5. Kept(t, u, k, c.node)  BY <1>3, <1>4 DEF Kept
<1>6. Shows(v, u, k, c)  BY <1>3, BelowLeaf DEF Shows
<1> QED  BY <1>3, <1>5, <1>6 DEF Makes, u

LEMMA InitShows ==
  ASSUME NEW k \in Nat \ {0}, NEW a \in Rows(k)
  PROVE  init(a, k) \in Trees(k) /\ Shows(Sums(a, k), init(a, k), k, Whole(k))
<1> DEFINE stop == IsLeaf(k)  stopped == LeafSet(a, k)  zero == [x \in 0 .. 4 * k - 1 |-> 0]
<1>1. Plus \in [Int \X Int -> Int]  BY DEF Plus
<1>2. WalkParts(k, stop, stopped, Plus)  BY <1>1, LeafSetParts
<1>3. \E f : IsInit(a, k, f)
  <2>1. PICK f \in [Cells(k) -> [Trees(k) -> Trees(k)]] : IsWalk(k, stop, stopped, Plus, f)
    BY <1>2, WalkExists
  <2>2. ASSUME NEW c \in Cells(k), NEW t \in Trees(k)
        PROVE  f[c][t] = InitAt(a, f, c, t)
    <3>1. CASE c.start = c.end  BY <2>1, <3>1 DEF IsWalk, IsLeaf, LeafSet, InitAt
    <3>2. CASE c.start # c.end
      <4> DEFINE r == f[UpperHalf(c)][f[LowerHalf(c)][t]]
      <4>1. LowerHalf(c) \in Cells(k) /\ UpperHalf(c) \in Cells(k)  BY <3>2, HalvesAreCells
      <4>2. r \in Trees(k)  BY <4>1
      <4>3. ~stop[c]  BY <3>2 DEF IsLeaf
      <4>4. f[c][t] = Stored(c, r, Plus)  BY <2>1, <4>2, <4>3 DEF IsWalk
      <4> HIDE DEF r
      <4>5. f[c][t] = SumStored(c, r)  BY <3>2, <4>2, <4>4, PlusStored
      <4> QED  BY <3>2, <4>5 DEF r, InitAt, SumStored
    <3> QED  BY <3>1, <3>2
  <2>3. IsInit(a, k, f)  BY <2>1, <2>2 DEF IsInit
  <2> QED  BY <2>3
<1> DEFINE f == CHOOSE g : IsInit(a, k, g)
<1>4. IsInit(a, k, f)  BY <1>3
<1>5. init(a, k) = f[Whole(k)][zero]  BY DEF init, IsInit, InitAt
<1> HIDE DEF f
<1>6. IsWalk(k, stop, stopped, Plus, f)
  <2> SUFFICES ASSUME NEW c \in Cells(k), NEW t \in Trees(k)
               PROVE  /\ stop[c] => f[c][t] = stopped[c][t]
                      /\ ~stop[c] => \A r \in Trees(k) :
                           r = f[UpperHalf(c)][f[LowerHalf(c)][t]] => f[c][t] = Stored(c, r, Plus)
    BY DEF IsWalk
  <2>1. f[c][t] = InitAt(a, f, c, t)  BY <1>4 DEF IsInit
  <2>2. CASE stop[c]  BY <2>1, <2>2 DEF IsLeaf, LeafSet, InitAt
  <2>3. CASE ~stop[c]
    <3>1. c.start # c.end  BY <2>3 DEF IsLeaf
    <3> SUFFICES ASSUME NEW r \in Trees(k), r = f[UpperHalf(c)][f[LowerHalf(c)][t]]
                 PROVE  f[c][t] = Stored(c, r, Plus)
      BY <2>3
    <3>2. f[c][t] = SumStored(c, r)  BY <2>1, <3>1 DEF InitAt, SumStored
    <3> QED  BY <3>1, <3>2, PlusStored
  <2> QED  BY <2>2, <2>3
<1> DEFINE v == Sums(a, k)
<1>7. /\ v \in [Cells(k) -> Int]
      /\ \A c \in Cells(k) : ~stop[c] => v[c] = Plus[<<v[LowerHalf(c)], v[UpperHalf(c)]>>]
      /\ \A c \in Cells(k) : stop[c] => v[c] = a[c.start]
  BY SumsOfCells DEF IsLeaf
<1>8. \A c \in Cells(k) : stop[c] => \A t \in Trees(k) : Makes(k, FALSE, v, v, c, t, stopped[c][t])
  <2> SUFFICES ASSUME NEW c \in Cells(k), stop[c], NEW t \in Trees(k)
               PROVE  Makes(k, FALSE, v, v, c, t, stopped[c][t])
    OBVIOUS
  <2>1. c.start = c.end /\ stopped[c][t] = [t EXCEPT ![c.node] = v[c]] /\ v[c] \in Int
    BY <1>7 DEF IsLeaf, LeafSet
  <2> HIDE DEF v, stopped, stop
  <2>2. Makes(k, FALSE, v, v, c, t, [t EXCEPT ![c.node] = v[c]])  BY <2>1, LeafSetMakes
  <2> QED  BY <2>1, <2>2
<1> HIDE DEF stop, stopped, v
<1>9. \A c \in Cells(k), t \in Trees(k) : Makes(k, FALSE, v, v, c, t, f[c][t])
  <2>1. StopsRight(k, stop, stopped, Plus, FALSE, v, v)  BY <1>7, <1>8 DEF StopsRight
  <2> QED  BY <1>2, <1>6, <2>1, WalkShows
<1>10. Whole(k) \in Cells(k) /\ zero \in Trees(k)  BY WholeIsACell DEF Trees
<1>11. Makes(k, FALSE, v, v, Whole(k), zero, f[Whole(k)][zero])  BY <1>9, <1>10
<1> QED  BY <1>5, <1>11 DEF Makes, v
-----------------------------------------------------------------------------
(* An update walks to the leaf of its index and leaves alone the cells      *)
(* beside it.                                                              *)

Beside(c, x) == c.end < x \/ c.start > x

UpdateStop(k, x) == [c \in Cells(k) |-> Beside(c, x) \/ c.start = c.end]

UpdateStopped(k, x, w) ==
  [c \in Cells(k) |-> [t \in Trees(k) |-> IF Beside(c, x) THEN t ELSE [t EXCEPT ![c.node] = w]]]

(* v is what join makes of the leaves' values; it is w at the leaf x and as *)
(* v0 beside it.                                                           *)
Joins(k, join, v) ==
  /\ v \in [Cells(k) -> Int]
  /\ \A c \in Cells(k) :
       c.start # c.end => v[c] = join[<<v[LowerHalf(c)], v[UpperHalf(c)]>>]

Moves(k, x, w, v0, v) ==
  \A c \in Cells(k) :
    /\ c.start = x /\ c.end = x => v[c] = w
    /\ Beside(c, x) => v[c] = v0[c]

LEMMA UpdateParts ==
  ASSUME NEW k \in Nat \ {0}, NEW x, NEW w \in Int, NEW join \in [Int \X Int -> Int]
  PROVE  WalkParts(k, UpdateStop(k, x), UpdateStopped(k, x, w), join)
<1>1. ASSUME NEW c \in Cells(k), NEW t \in Trees(k)
      PROVE  (IF Beside(c, x) THEN t ELSE [t EXCEPT ![c.node] = w]) \in Trees(k)
  BY DEF Trees
<1>2. UpdateStopped(k, x, w) \in [Cells(k) -> [Trees(k) -> Trees(k)]]
  BY <1>1 DEF UpdateStopped
<1>3. /\ UpdateStop(k, x) \in [Cells(k) -> BOOLEAN]
      /\ \A c \in Cells(k) : ~UpdateStop(k, x)[c] => c.start # c.end
  BY DEF UpdateStop, Beside
<1> QED  BY <1>2, <1>3 DEF WalkParts

LEMMA BesideMakes ==
  ASSUME NEW k \in Nat \ {0}, NEW x \in Int, NEW w, NEW v0, NEW v, Moves(k, x, w, v0, v),
         NEW c \in Cells(k), Beside(c, x), NEW t \in Trees(k)
  PROVE  Makes(k, TRUE, v0, v, c, t, t)
<1> SUFFICES ASSUME Shows(v0, t, k, c) PROVE Kept(t, t, k, c.node) /\ Shows(v, t, k, c)
  BY DEF Makes
<1>1. ASSUME NEW d \in Below(k, c) PROVE t[d.node] = v[d]
  <2>1. d \in Cells(k) /\ c.start <= d.start /\ d.end <= c.end  BY BelowPlace
  <2>2. c.start \in Nat /\ c.end \in Nat /\ d.start \in Nat /\ d.end \in Nat
    BY <2>1, CellFields
  <2>3. Beside(d, x)  BY <2>1, <2>2 DEF Beside
  <2>4. v[d] = v0[d]  BY <2>1, <2>3 DEF Moves
  <2> QED  BY <2>4 DEF Shows
<1> QED  BY <1>1 DEF Kept, Shows

LEMMA UpdateStopsRight ==
  ASSUME NEW k \in Nat \ {0}, NEW x \in Int, NEW w, NEW join, NEW v0, NEW v,
         Joins(k, join, v), Moves(k, x, w, v0, v)
  PROVE  StopsRight(k, UpdateStop(k, x), UpdateStopped(k, x, w), join, TRUE, v0, v)
<1>1. ASSUME NEW c \in Cells(k), UpdateStop(k, x)[c], NEW t \in Trees(k)
      PROVE  Makes(k, TRUE, v0, v, c, t, UpdateStopped(k, x, w)[c][t])
  <2>1. CASE Beside(c, x)
    <3>1. UpdateStopped(k, x, w)[c][t] = t  BY <2>1 DEF UpdateStopped
    <3>2. Makes(k, TRUE, v0, v, c, t, t)  BY <2>1, BesideMakes
    <3> QED  BY <3>1, <3>2
  <2>2. CASE ~Beside(c, x)
    <3>1. c.start = c.end  BY <1>1, <2>2 DEF UpdateStop
    <3>2. c.start \in Nat /\ c.end \in Nat  BY CellFields
    <3>3. c.start = x /\ c.end = x  BY <2>2, <3>1, <3>2 DEF Beside
    <3>4. v[c] = w /\ v[c] \in Int  BY <3>3 DEF Moves, Joins
    <3>5. UpdateStopped(k, x, w)[c][t] = [t EXCEPT ![c.node] = v[c]]
      BY <2>2, <3>4 DEF UpdateStopped
    <3>6. Makes(k, TRUE, v0, v, c, t, [t EXCEPT ![c.node] = v[c]])
      BY <3>1, <3>4, LeafSetMakes
    <3> QED  BY <3>5, <3>6
  <2> QED  BY <2>1, <2>2
<1>2. \A c \in Cells(k) : ~UpdateStop(k, x)[c] =>
        v[c] = join[<<v[LowerHalf(c)], v[UpperHalf(c)]>>]
  BY DEF UpdateStop, Joins
<1>3. v \in [Cells(k) -> Int]  BY DEF Joins
<1> QED  BY <1>1, <1>2, <1>3 DEF StopsRight

LEMMA SumsMove ==
  ASSUME NEW k \in Nat \ {0}, NEW a \in Rows(k), NEW x \in 0 .. k - 1, NEW w \in Int
  PROVE  Moves(k, x, w, Sums(a, k), Sums([a EXCEPT ![x] = w], k))
<1> DEFINE b == [a EXCEPT ![x] = w]
<1>1. b \in Rows(k) /\ b[x] = w /\ \A y \in 0 .. k - 1 : y # x => b[y] = a[y]
  BY DEF Rows
<1> HIDE DEF b
<1>2. ASSUME NEW c \in Cells(k), c.start = x /\ c.end = x PROVE Sums(b, k)[c] = w
  <2>1. c.start = c.end => Sums(b, k)[c] = b[c.start]  BY <1>1, SumsOfCells
  <2> QED  BY <1>1, <1>2, <2>1
<1>3. ASSUME NEW c \in Cells(k), Beside(c, x) PROVE Sums(b, k)[c] = Sums(a, k)[c]
  <2> DEFINE s == c.start  e == c.end
  <2>1. s \in Nat /\ e \in Nat /\ s <= e /\ e < k /\ e \in Int /\ k \in Nat  BY CellFields
  <2>2. e < x \/ s > x  BY <1>3 DEF Beside
  <2>3. Sums(b, k)[c] = SumOf(b, s, e) /\ Sums(a, k)[c] = SumOf(a, s, e)  BY DEF Sums
  <2> HIDE DEF s, e
  <2>4. Alike(a, b, s, e)
    <3> SUFFICES ASSUME NEW y \in s .. e PROVE a[y] = b[y]  BY DEF Alike
    <3>1. y \in 0 .. k - 1 /\ y # x  BY <2>1, <2>2
    <3> QED  BY <1>1, <3>1
  <2>5. SumOf(a, s, e) = SumOf(b, s, e)  BY <1>1, <2>1, <2>4, SumSame
  <2> QED  BY <2>3, <2>5
<1> QED  BY <1>2, <1>3 DEF Moves, b

UpdateAt(x, w, f, c, t) ==
  CASE c.end < x \/ c.start > x -> t
    [] c.start = c.end /\ c.start = x -> [t EXCEPT ![c.node] = w]
    [] OTHER -> LET r == f[UpperHalf(c)][f[LowerHalf(c)][t]]
                IN  [r EXCEPT ![c.node] = r[c.node * 2] + r[c.node * 2 + 1]]

IsUpdate(k, x, w, f) == f = [c \in Cells(k) |-> [t \in Trees(k) |-> UpdateAt(x, w, f, c, t)]]

LEMMA UpdateAtStop ==
  ASSUME NEW k \in Nat \ {0}, NEW x \in Int, NEW w, NEW f, NEW c \in Cells(k), NEW t \in Trees(k),
         UpdateStop(k, x)[c]
  PROVE  UpdateAt(x, w, f, c, t) = UpdateStopped(k, x, w)[c][t]
<1>1. c.start \in Nat /\ c.end \in Nat  BY CellFields
<1>2. CASE Beside(c, x)
  <2>1. UpdateAt(x, w, f, c, t) = t  BY <1>1, <1>2 DEF UpdateAt, Beside
  <2> QED  BY <1>2, <2>1 DEF UpdateStopped
<1>3. CASE ~Beside(c, x)
  <2>0. c.start = c.end  BY <1>3 DEF UpdateStop
  <2>1. c.start = x /\ c.end = x  BY <1>1, <1>3, <2>0 DEF Beside
  <2>2. UpdateAt(x, w, f, c, t) = [t EXCEPT ![c.node] = w]  BY <1>1, <2>1 DEF UpdateAt
  <2> QED  BY <1>3, <2>2 DEF UpdateStopped
<1> QED  BY <1>2, <1>3

LEMMA UpdateAtSplit ==
  ASSUME NEW k \in Nat \ {0}, NEW x \in Int, NEW w, NEW f, NEW c \in Cells(k), NEW t,
         ~UpdateStop(k, x)[c]
  PROVE  UpdateAt(x, w, f, c, t) = SumStored(c, f[UpperHalf(c)][f[LowerHalf(c)][t]])
<1>1. c.start \in Nat /\ c.end \in Nat  BY CellFields
<1>2. ~(c.end < x \/ c.start > x) /\ c.start # c.end  BY DEF UpdateStop, Beside
<1> QED  BY <1>1, <1>2 DEF UpdateAt, SumStored

LEMMA UpdateShows ==
  ASSUME NEW x \in 0 .. Size - 1, NEW w \in Int, array \in Rows(Size),
         tree \in Trees(Size), Shows(Sums(array, Size), tree, Size, Whole(Size))
  PROVE  /\ updated(x, w) \in Trees(Size)
         /\ Shows(Sums([array EXCEPT ![x] = w], Size), updated(x, w), Size, Whole(Size))
<1> DEFINE k == Size  stop == UpdateStop(k, x)  stopped == UpdateStopped(k, x, w)
           b == [array EXCEPT ![x] = w]  v0 == Sums(array, k)  v == Sums(b, k)
<1>1. Plus \in [Int \X Int -> Int] /\ k \in Nat \ {0} /\ x \in Int
  BY SegmentAssumption DEF Plus
<1>2. b \in Rows(k)  BY DEF Rows
<1>3. Joins(k, Plus, v)
  <2> HIDE DEF b, k
  <2>1. /\ Sums(b, k) \in [Cells(k) -> Int]
        /\ \A c \in Cells(k) : c.start # c.end =>
             Sums(b, k)[c] = Plus[<<Sums(b, k)[LowerHalf(c)], Sums(b, k)[UpperHalf(c)]>>]
    BY <1>1, <1>2, SumsOfCells
  <2> QED  BY <2>1 DEF Joins
<1>4. Moves(k, x, w, v0, v)  BY <1>1, SumsMove
<1>5. Shows(v0, tree, k, Whole(k)) /\ tree \in Trees(k)  OBVIOUS
<1>6. updated(x, w) = (CHOOSE g : IsUpdate(k, x, w, g))[Whole(k)][tree]
  BY DEF updated, IsUpdate, UpdateAt
<1> HIDE DEF k, b, v0, v
<1>7. WalkParts(k, stop, stopped, Plus)  BY <1>1, UpdateParts
<1>8. StopsRight(k, stop, stopped, Plus, TRUE, v0, v)  BY <1>1, <1>3, <1>4, UpdateStopsRight
<1>9. \E f : IsUpdate(k, x, w, f)
  <2>1. PICK f \in [Cells(k) -> [Trees(k) -> Trees(k)]] : IsWalk(k, stop, stopped, Plus, f)
    <3> HIDE DEF stop, stopped
    <3> QED  BY <1>1, <1>7, WalkExists
  <2>2. ASSUME NEW c \in Cells(k), NEW t \in Trees(k) PROVE f[c][t] = UpdateAt(x, w, f, c, t)
    <3>1. CASE stop[c]
      <4> HIDE DEF k
      <4>1. UpdateAt(x, w, f, c, t) = UpdateStopped(k, x, w)[c][t]
        BY <1>1, <3>1, UpdateAtStop, SMTT(30)
      <4> QED  BY <2>1, <3>1, <4>1 DEF IsWalk
    <3>2. CASE ~stop[c]
      <4> DEFINE r == f[UpperHalf(c)][f[LowerHalf(c)][t]]
      <4>0. UpdateAt(x, w, f, c, t) = SumStored(c, r)  BY <1>1, <3>2, UpdateAtSplit
      <4>1. c.start # c.end  BY <3>2 DEF UpdateStop
      <4>2. LowerHalf(c) \in Cells(k) /\ UpperHalf(c) \in Cells(k)
        BY <1>1, <4>1, HalvesAreCells
      <4>3. r \in Trees(k)  BY <4>2
      <4>4. f[c][t] = Stored(c, r, Plus)  BY <2>1, <3>2, <4>3 DEF IsWalk
      <4> HIDE DEF r
      <4> QED  BY <1>1, <4>0, <4>1, <4>3, <4>4, PlusStored
    <3> QED  BY <3>1, <3>2
  <2>3. IsUpdate(k, x, w, f)  BY <2>1, <2>2 DEF IsUpdate
  <2> QED  BY <2>3
<1> DEFINE f == CHOOSE g : IsUpdate(k, x, w, g)
<1>10. IsUpdate(k, x, w, f)  BY <1>9
<1> HIDE DEF f
<1>11. IsWalk(k, stop, stopped, Plus, f)
  <2> SUFFICES ASSUME NEW c \in Cells(k), NEW t \in Trees(k)
               PROVE  /\ stop[c] => f[c][t] = stopped[c][t]
                      /\ ~stop[c] => \A r \in Trees(k) :
                           r = f[UpperHalf(c)][f[LowerHalf(c)][t]] => f[c][t] = Stored(c, r, Plus)
    BY DEF IsWalk
  <2>1. f[c][t] = UpdateAt(x, w, f, c, t)  BY <1>10 DEF IsUpdate
  <2>2. CASE stop[c]
    <3>1. UpdateAt(x, w, f, c, t) = stopped[c][t]  BY <1>1, <2>2, UpdateAtStop
    <3> QED  BY <2>1, <2>2, <3>1
  <2>3. CASE ~stop[c]
    <3> SUFFICES ASSUME NEW r \in Trees(k), r = f[UpperHalf(c)][f[LowerHalf(c)][t]]
                 PROVE  f[c][t] = Stored(c, r, Plus)
      BY <2>3
    <3>1. UpdateAt(x, w, f, c, t) = SumStored(c, f[UpperHalf(c)][f[LowerHalf(c)][t]])
      BY <1>1, <2>3, UpdateAtSplit
    <3>2. c.start # c.end  BY <2>3 DEF UpdateStop
    <3>3. Stored(c, r, Plus) = SumStored(c, r)  BY <1>1, <3>2, PlusStored
    <3> QED  BY <2>1, <3>1, <3>3
  <2> QED  BY <2>2, <2>3
<1> HIDE DEF stop, stopped
<1>12. \A c \in Cells(k), t \in Trees(k) : Makes(k, TRUE, v0, v, c, t, f[c][t])
  BY <1>1, <1>7, <1>8, <1>11, WalkShows
<1>13. Whole(k) \in Cells(k)  BY <1>1, WholeIsACell
<1>14. Makes(k, TRUE, v0, v, Whole(k), tree, f[Whole(k)][tree])  BY <1>5, <1>12, <1>13
<1>15. f[Whole(k)][tree] \in Trees(k) /\ Shows(v, f[Whole(k)][tree], k, Whole(k))
  BY <1>5, <1>14 DEF Makes
<1> QED  BY <1>6, <1>15 DEF f, k, v, b
-----------------------------------------------------------------------------
(* A query reads the cells its range covers.                               *)

Larger(x, y) == IF x > y THEN x ELSE y

Ranges(k) == (0 .. k) \X (-1 .. k - 1)

(* m[<<l, r>>] is what join makes of the parts of l .. r, and none if it has *)
(* no element.                                                             *)
IsMeasure(k, m, none, join) ==
  /\ m \in [Ranges(k) -> Int]
  /\ \A l \in 0 .. k, r \in -1 .. k - 1 :
       /\ r < l => m[<<l, r>>] = none
       /\ \A x \in -1 .. k - 1 :
            l <= x + 1 /\ x <= r => m[<<l, r>>] = join[<<m[<<l, x>>], m[<<x + 1, r>>]>>]

QueryStop(k, l, r) ==
  [c \in Cells(k) |-> l > c.end \/ r < c.start \/ (l <= c.start /\ r >= c.end)]

QueryStopped(k, l, r, t, none) ==
  [c \in Cells(k) |-> IF l > c.end \/ r < c.start THEN none ELSE t[c.node]]

OfCells(k, v, m) == \A c \in Cells(k) : v[c] = m[<<c.start, c.end>>]

(* The elements of a cell in l .. r. *)
InCell(m, l, r, c) == m[<<Larger(l, c.start), Smaller(r, c.end)>>]

LEMMA QueryParts ==
  ASSUME NEW k \in Nat \ {0}, NEW l \in Nat, NEW r \in Nat, NEW t \in Trees(k), NEW none \in Int,
         NEW join \in [Int \X Int -> Int]
  PROVE  FoldParts(k, QueryStop(k, l, r), QueryStopped(k, l, r, t, none), join)
<1>1. ASSUME NEW c \in Cells(k), ~QueryStop(k, l, r)[c] PROVE c.start # c.end
  <2>1. ~(l > c.end \/ r < c.start \/ (l <= c.start /\ r >= c.end))  BY <1>1 DEF QueryStop
  <2>2. c.start \in Nat /\ c.end \in Nat  BY CellFields
  <2> QED  BY <2>1, <2>2
<1>2. ASSUME NEW c \in Cells(k)
      PROVE  (IF l > c.end \/ r < c.start THEN none ELSE t[c.node]) \in Int
  <2>1. c.node \in 0 .. 4 * k - 1  BY NodesAreInTheTree
  <2>2. t[c.node] \in Int  BY <2>1 DEF Trees
  <2> QED  BY <2>2
<1>3. QueryStopped(k, l, r, t, none) \in [Cells(k) -> Int]  BY <1>2 DEF QueryStopped
<1>4. QueryStop(k, l, r) \in [Cells(k) -> BOOLEAN]  BY DEF QueryStop
<1> QED  BY <1>1, <1>3, <1>4 DEF FoldParts

LEMMA InCellSplits ==
  ASSUME NEW k \in Nat \ {0}, NEW m, NEW none, NEW join, IsMeasure(k, m, none, join),
         NEW c \in Cells(k), c.start # c.end,
         NEW l \in 0 .. k - 1, NEW r \in 0 .. k - 1, l <= r, l <= c.end, c.start <= r
  PROVE  InCell(m, l, r, c) =
           join[<<InCell(m, l, r, LowerHalf(c)), InCell(m, l, r, UpperHalf(c))>>]
<1> DEFINE s == c.start  e == c.end  d == Mid(c)
<1>1. s \in Nat /\ e \in Nat /\ d \in Nat /\ s <= d /\ d < e /\ e < k  BY CellFields
<1>2. /\ InCell(m, l, r, c) = m[<<Larger(l, s), Smaller(r, e)>>]
      /\ InCell(m, l, r, LowerHalf(c)) = m[<<Larger(l, s), Smaller(r, d)>>]
      /\ InCell(m, l, r, UpperHalf(c)) = m[<<Larger(l, d + 1), Smaller(r, e)>>]
  BY HalfFields DEF InCell
<1> DEFINE x == Larger(l, s)  y == Smaller(r, e)
<1> HIDE DEF s, e, d
<1>3. x \in 0 .. k /\ y \in -1 .. k - 1 /\ x <= y
  <2>1. l \in Int /\ r \in Int /\ s \in Int /\ e \in Int  BY <1>1
  <2>2. l <= e /\ s <= r  BY DEF s, e
  <2>3. (x = l \/ x = s) /\ (y = r \/ y = e)  BY DEF Larger, Smaller
  <2> HIDE DEF x, y
  <2> QED  BY <1>1, <2>1, <2>2, <2>3
<1>4. ASSUME NEW z \in -1 .. k - 1, x <= z + 1, z <= y
      PROVE  m[<<x, y>>] = join[<<m[<<x, z>>], m[<<z + 1, y>>]>>]
  <2> HIDE DEF x, y
  <2> QED  BY <1>3, <1>4 DEF IsMeasure
<1>5. ASSUME NEW u \in 0 .. k, NEW w \in -1 .. k - 1, w < u PROVE m[<<u, w>>] = none
  BY <1>5 DEF IsMeasure
<1>6. CASE r <= d
  <2>1. Smaller(r, d) = r /\ y = r /\ r < Larger(l, d + 1) /\ Larger(l, d + 1) \in 0 .. k
    BY <1>1, <1>6 DEF Larger, Smaller
  <2> HIDE DEF x, y
  <2>2. m[<<x, y>>] = join[<<m[<<x, r>>], m[<<r + 1, r>>]>>]  BY <1>3, <1>4, <2>1
  <2>3. m[<<r + 1, r>>] = none /\ m[<<Larger(l, d + 1), r>>] = none  BY <1>5, <2>1
  <2> QED  BY <1>2, <2>1, <2>2, <2>3 DEF x, y
<1>7. CASE d < l
  <2>1. Larger(l, d + 1) = l /\ x = l /\ Smaller(r, d) = d /\ l - 1 \in -1 .. k - 1
        /\ d \in -1 .. k - 1
    BY <1>1, <1>7 DEF Larger, Smaller
  <2> HIDE DEF x, y
  <2>2. m[<<x, y>>] = join[<<m[<<x, l - 1>>], m[<<(l - 1) + 1, y>>]>>]  BY <1>3, <1>4, <2>1
  <2>3. m[<<l, l - 1>>] = none /\ m[<<l, d>>] = none /\ (l - 1) + 1 = l  BY <1>5, <1>7, <2>1, <1>1
  <2> QED  BY <1>2, <2>1, <2>2, <2>3 DEF x, y
<1>8. CASE l <= d /\ d < r
  <2>1. Larger(l, d + 1) = d + 1 /\ Smaller(r, d) = d /\ x <= d + 1 /\ d <= y /\ d \in -1 .. k - 1
    BY <1>1, <1>8 DEF Larger, Smaller
  <2> HIDE DEF x, y
  <2>2. m[<<x, y>>] = join[<<m[<<x, d>>], m[<<d + 1, y>>]>>]  BY <1>4, <2>1
  <2> QED  BY <1>2, <2>1, <2>2 DEF x, y
<1> QED  BY <1>1, <1>6, <1>7, <1>8

LEMMA QueryReads ==
  ASSUME NEW k \in Nat \ {0}, NEW m, NEW none, NEW join, IsMeasure(k, m, none, join),
         NEW v, OfCells(k, v, m), NEW t \in Trees(k), Shows(v, t, k, Whole(k)),
         NEW l \in 0 .. k - 1, NEW r \in 0 .. k - 1, l <= r,
         NEW f, IsFold(k, QueryStop(k, l, r), QueryStopped(k, l, r, t, none), join, f)
  PROVE  f[Whole(k)] = m[<<l, r>>]
<1> USE DEF IsFold, OfCells
<1> DEFINE S == {c \in Cells(k) : c \in Below(k, Whole(k)) => f[c] = InCell(m, l, r, c)}
<1>0. /\ Below(k, Whole(k)) \in SUBSET Cells(k) /\ Whole(k) \in Below(k, Whole(k))
      /\ Halved(Below(k, Whole(k))) /\ Whole(k) \in Cells(k)
  BY WholeIsACell, BelowHalved
<1>1. ASSUME NEW c \in Cells(k), c.start # c.end => LowerHalf(c) \in S /\ UpperHalf(c) \in S
      PROVE  c \in S
  <2> SUFFICES ASSUME c \in Below(k, Whole(k)) PROVE f[c] = InCell(m, l, r, c)  OBVIOUS
  <2>1. c.start \in Nat /\ c.end \in Nat /\ c.start <= c.end /\ c.end < k  BY CellFields
  <2>2. CASE l > c.end \/ r < c.start
    <3>1. f[c] = none  BY <2>2 DEF ReadAt, QueryStop, QueryStopped
    <3>2. /\ Larger(l, c.start) \in 0 .. k /\ Smaller(r, c.end) \in -1 .. k - 1
          /\ Smaller(r, c.end) < Larger(l, c.start)
      BY <2>1, <2>2 DEF Larger, Smaller
    <3>3. InCell(m, l, r, c) = none  BY <3>2 DEF InCell, IsMeasure
    <3> QED  BY <3>1, <3>3
  <2>3. CASE ~(l > c.end \/ r < c.start) /\ l <= c.start /\ r >= c.end
    <3>1. f[c] = t[c.node]  BY <2>3 DEF ReadAt, QueryStop, QueryStopped
    <3>2. t[c.node] = v[c]  BY DEF Shows
    <3>3. Larger(l, c.start) = c.start /\ Smaller(r, c.end) = c.end
      BY <2>1, <2>3 DEF Larger, Smaller
    <3> QED  BY <3>1, <3>2, <3>3 DEF InCell
  <2>4. CASE ~(l > c.end \/ r < c.start) /\ ~(l <= c.start /\ r >= c.end)
    <3>1. f[c] = join[<<f[LowerHalf(c)], f[UpperHalf(c)]>>]  BY <2>4 DEF ReadAt, QueryStop
    <3>2. c.start # c.end  BY <2>1, <2>4
    <3>3. LowerHalf(c) \in Below(k, Whole(k)) /\ UpperHalf(c) \in Below(k, Whole(k))
      BY <1>0, <3>2 DEF Halved
    <3>4. /\ f[LowerHalf(c)] = InCell(m, l, r, LowerHalf(c))
          /\ f[UpperHalf(c)] = InCell(m, l, r, UpperHalf(c))
      BY <1>1, <3>2, <3>3
    <3>5. l <= c.end /\ c.start <= r  BY <2>1, <2>4
    <3>6. InCell(m, l, r, c) =
            join[<<InCell(m, l, r, LowerHalf(c)), InCell(m, l, r, UpperHalf(c))>>]
      BY <3>2, <3>5, InCellSplits
    <3> QED  BY <3>1, <3>4, <3>6
  <2> QED  BY <2>2, <2>3, <2>4
<1> HIDE DEF S
<1>2. Cells(k) \subseteq S  BY <1>1, CellInduction
<1>3. f[Whole(k)] = InCell(m, l, r, Whole(k))  BY <1>0, <1>2 DEF S
<1>4. Larger(l, 0) = l /\ Smaller(r, k - 1) = r  BY DEF Larger, Smaller
<1> QED  BY <1>3, <1>4, WholeIsACell DEF InCell

SumTable(a, k) == [p \in Ranges(k) |-> SumOf(a, p[1], p[2])]

LEMMA SumMeasure ==
  ASSUME NEW k \in Nat \ {0}, NEW a \in Rows(k)
  PROVE  IsMeasure(k, SumTable(a, k), 0, Plus)
<1> DEFINE m == SumTable(a, k)
<1>1. ASSUME NEW l \in 0 .. k, NEW r \in -1 .. k - 1 PROVE m[<<l, r>>] = SumOf(a, l, r)
  BY DEF SumTable, Ranges
<1>2. ASSUME NEW l \in 0 .. k, NEW r \in -1 .. k - 1
      PROVE  SumOf(a, l, r) \in Int /\ (r < l => SumOf(a, l, r) = 0)
  <2>1. k \in Nat /\ l \in Nat /\ r \in Int /\ r < k  OBVIOUS
  <2> QED  BY <2>1, SumRange
<1>3. ASSUME NEW p \in Ranges(k) PROVE SumOf(a, p[1], p[2]) \in Int
  <2>1. p[1] \in 0 .. k /\ p[2] \in -1 .. k - 1  BY DEF Ranges
  <2> QED  BY <1>2, <2>1
<1>4. m \in [Ranges(k) -> Int]  BY <1>3 DEF SumTable
<1> HIDE DEF m
<1>5. ASSUME NEW l \in 0 .. k, NEW r \in -1 .. k - 1, NEW x \in -1 .. k - 1, l <= x + 1, x <= r
      PROVE  m[<<l, r>>] = Plus[<<m[<<l, x>>], m[<<x + 1, r>>]>>]
  <2>1. /\ k \in Nat /\ l \in Nat /\ r \in Int /\ x \in Int /\ r < k
        /\ x + 1 \in 0 .. k
    BY <1>5
  <2>2. SumOf(a, l, r) = SumOf(a, l, x) + SumOf(a, x + 1, r)  BY <1>5, <2>1, SumSplit
  <2>3. /\ m[<<l, r>>] = SumOf(a, l, r) /\ m[<<l, x>>] = SumOf(a, l, x)
        /\ m[<<x + 1, r>>] = SumOf(a, x + 1, r)
    BY <1>1, <2>1
  <2>4. SumOf(a, l, x) \in Int /\ SumOf(a, x + 1, r) \in Int  BY <1>2, <2>1
  <2>5. Plus[<<SumOf(a, l, x), SumOf(a, x + 1, r)>>] = SumOf(a, l, x) + SumOf(a, x + 1, r)
    BY <2>4 DEF Plus
  <2> QED  BY <2>2, <2>3, <2>5
<1>6. ASSUME NEW l \in 0 .. k, NEW r \in -1 .. k - 1, r < l PROVE m[<<l, r>>] = 0
  BY <1>1, <1>2, <1>6
<1> QED  BY <1>4, <1>5, <1>6 DEF IsMeasure, m

SumAt(l, r, t, f, c) ==
  CASE l > c.end \/ r < c.start -> 0
    [] l <= c.start /\ r >= c.end -> t[c.node]
    [] OTHER -> f[LowerHalf(c)] + f[UpperHalf(c)]

IsSum(k, l, r, t, f) == f = [c \in Cells(k) |-> SumAt(l, r, t, f, c)]

LEMMA SumAtReads ==
  ASSUME NEW k \in Nat \ {0}, NEW l \in 0 .. k - 1, NEW r \in 0 .. k - 1, l <= r,
         NEW t \in Trees(k), NEW f, NEW c \in Cells(k),
         c.start # c.end => f[LowerHalf(c)] \in Int /\ f[UpperHalf(c)] \in Int
  PROVE  SumAt(l, r, t, f, c) = ReadAt(QueryStop(k, l, r), QueryStopped(k, l, r, t, 0), Plus, f, c)
<1>1. c.start \in Nat /\ c.end \in Nat /\ c.start <= c.end  BY CellFields
<1>2. CASE l > c.end \/ r < c.start
  <2>1. SumAt(l, r, t, f, c) = 0  BY <1>1, <1>2 DEF SumAt
  <2> QED  BY <1>2, <2>1 DEF ReadAt, QueryStop, QueryStopped
<1>3. CASE ~(l > c.end \/ r < c.start) /\ l <= c.start /\ r >= c.end
  <2>1. SumAt(l, r, t, f, c) = t[c.node]  BY <1>1, <1>3 DEF SumAt
  <2> QED  BY <1>3, <2>1 DEF ReadAt, QueryStop, QueryStopped
<1>4. CASE ~(l > c.end \/ r < c.start) /\ ~(l <= c.start /\ r >= c.end)
  <2>1. c.start # c.end  BY <1>1, <1>4
  <2>2. f[LowerHalf(c)] \in Int /\ f[UpperHalf(c)] \in Int  BY <2>1
  <2>3. Plus[<<f[LowerHalf(c)], f[UpperHalf(c)]>>] = f[LowerHalf(c)] + f[UpperHalf(c)]
    BY <2>2 DEF Plus
  <2>4. SumAt(l, r, t, f, c) = f[LowerHalf(c)] + f[UpperHalf(c)]  BY <1>4 DEF SumAt
  <2> QED  BY <1>4, <2>3, <2>4 DEF ReadAt, QueryStop
<1> QED  BY <1>2, <1>3, <1>4

LEMMA SumReads ==
  ASSUME NEW l \in 0 .. Size - 1, NEW r \in 0 .. Size - 1, l <= r,
         array \in Rows(Size),
         tree \in Trees(Size), Shows(Sums(array, Size), tree, Size, Whole(Size))
  PROVE  sum(l, r) = SumOf(array, l, r)
<1> DEFINE k == Size  stop == QueryStop(k, l, r)  stopped == QueryStopped(k, l, r, tree, 0)
           v == Sums(array, k)  m == SumTable(array, k)
<1>1. Plus \in [Int \X Int -> Int] /\ k \in Nat \ {0} /\ l \in Nat /\ r \in Nat
  BY SegmentAssumption DEF Plus
<1>2. IsMeasure(k, m, 0, Plus)  BY <1>1, SumMeasure
<1>3. sum(l, r) = (CHOOSE g : IsSum(k, l, r, tree, g))[Whole(k)]
  BY DEF sum, IsSum, SumAt
<1>4. /\ tree \in Trees(k) /\ Shows(v, tree, k, Whole(k))
      /\ l \in 0 .. k - 1 /\ r \in 0 .. k - 1
  OBVIOUS
<1>5. OfCells(k, v, m)
  <2> SUFFICES ASSUME NEW c \in Cells(k) PROVE v[c] = m[<<c.start, c.end>>]  BY DEF OfCells
  <2>1. c.start \in Nat /\ c.end \in Nat /\ c.start <= c.end /\ c.end < k  BY <1>1, CellFields
  <2>2. <<c.start, c.end>> \in Ranges(k)  BY <1>1, <2>1 DEF Ranges
  <2> QED  BY <2>2 DEF Sums, SumTable
<1> HIDE DEF k, v, m
<1>6. \E f : IsSum(k, l, r, tree, f)
  <2>1. FoldParts(k, stop, stopped, Plus)
    <3>1. 0 \in Int  OBVIOUS
    <3> QED  BY <1>1, <1>4, <3>1, QueryParts
  <2>2. PICK f \in [Cells(k) -> Int] :
          \A c \in Cells(k) : f[c] = ReadAt(stop, stopped, Plus, f, c)
    <3> HIDE DEF stop, stopped
    <3> QED  BY <1>1, <2>1, FoldExists
  <2>3. ASSUME NEW c \in Cells(k) PROVE f[c] = SumAt(l, r, tree, f, c)
    <3>1. c.start # c.end => f[LowerHalf(c)] \in Int /\ f[UpperHalf(c)] \in Int
      BY <1>1, HalvesAreCells
    <3>2. SumAt(l, r, tree, f, c) = ReadAt(stop, stopped, Plus, f, c)
      BY <1>1, <1>4, <3>1, SumAtReads
    <3> QED  BY <2>2, <3>2
  <2> QED  BY <2>2, <2>3 DEF IsSum
<1> DEFINE f == CHOOSE g : IsSum(k, l, r, tree, g)
<1>7. IsSum(k, l, r, tree, f)  BY <1>6
<1> HIDE DEF f
<1>8. \A c \in Cells(k) : f[c] = SumAt(l, r, tree, f, c)  BY <1>7 DEF IsSum
<1>9. \A c \in Cells(k) : f[c] \in Int
  <2> DEFINE S == {c \in Cells(k) : f[c] \in Int}
  <2>1. ASSUME NEW c \in Cells(k), c.start # c.end => LowerHalf(c) \in S /\ UpperHalf(c) \in S
        PROVE  c \in S
    <3>1. c.start # c.end => f[LowerHalf(c)] \in Int /\ f[UpperHalf(c)] \in Int  BY <2>1
    <3>2. SumAt(l, r, tree, f, c) = ReadAt(stop, stopped, Plus, f, c)
      BY <1>1, <1>4, <3>1, SumAtReads
    <3>3. FoldParts(k, stop, stopped, Plus)
      <4>1. 0 \in Int  OBVIOUS
      <4> QED  BY <1>1, <1>4, <4>1, QueryParts
    <3> HIDE DEF stop, stopped
    <3>4. CASE stop[c]  BY <1>8, <3>2, <3>3, <3>4 DEF ReadAt, FoldParts
    <3>5. CASE ~stop[c]
      <4>1. c.start # c.end  BY <3>3, <3>5 DEF FoldParts
      <4>2. Plus[<<f[LowerHalf(c)], f[UpperHalf(c)]>>] \in Int  BY <1>1, <3>1, <4>1
      <4> QED  BY <1>8, <3>2, <3>5, <4>2 DEF ReadAt
    <3> QED  BY <3>4, <3>5
  <2> HIDE DEF S
  <2>2. Cells(k) \subseteq S  BY <1>1, <2>1, CellInduction
  <2> QED  BY <2>2 DEF S
<1>10. IsFold(k, stop, stopped, Plus, f)
  <2> SUFFICES ASSUME NEW c \in Cells(k) PROVE f[c] = ReadAt(stop, stopped, Plus, f, c)
    BY DEF IsFold
  <2>1. c.start # c.end => f[LowerHalf(c)] \in Int /\ f[UpperHalf(c)] \in Int
    BY <1>1, <1>9, HalvesAreCells
  <2>2. SumAt(l, r, tree, f, c) = ReadAt(stop, stopped, Plus, f, c)
    BY <1>1, <1>4, <2>1, SumAtReads
  <2> QED  BY <1>8, <2>2
<1>11. f[Whole(k)] = m[<<l, r>>]
  BY <1>1, <1>2, <1>4, <1>5, <1>10, QueryReads
<1>12. m[<<l, r>>] = SumOf(array, l, r)
  <2>1. <<l, r>> \in Ranges(k)  BY <1>1, <1>4 DEF Ranges
  <2> QED  BY <2>1 DEF m, SumTable
<1> QED  BY <1>3, <1>11, <1>12 DEF f
-----------------------------------------------------------------------------
(* The least element of a range; INT_MAX if it has none.                   *)

IsLeast(a, q, l, r) ==
  /\ q \in Ints
  /\ \A x \in l .. r : a[x] \in Int /\ q <= a[x]
  /\ q = INT_MAX \/ \E x \in l .. r : a[x] = q

LeastOf(a, l, r) == CHOOSE q : IsLeast(a, q, l, r)

LEMMA IntsAre ==
  INT_MAX \in Int /\ INT_MAX \in Ints /\ \A q \in Ints : q \in Int /\ q <= INT_MAX
<1>1. INT_MAX \in Nat  BY SMT DEF INT_MAX
<1> QED  BY <1>1 DEF Ints

LEMMA LeastUnique ==
  ASSUME NEW k \in Nat, NEW a \in [0 .. k - 1 -> Ints], NEW l \in Nat, NEW r \in Int, r < k,
         NEW q, IsLeast(a, q, l, r), NEW p, IsLeast(a, p, l, r)
  PROVE  q = p
<1>1. q \in Int /\ p \in Int /\ q <= INT_MAX /\ p <= INT_MAX /\ INT_MAX \in Int
  BY IntsAre DEF IsLeast
<1>2. \A x \in l .. r : a[x] \in Int /\ a[x] <= INT_MAX /\ q <= a[x] /\ p <= a[x]
  <2> SUFFICES ASSUME NEW x \in l .. r
               PROVE  a[x] \in Int /\ a[x] <= INT_MAX /\ q <= a[x] /\ p <= a[x]
    OBVIOUS
  <2>1. x \in 0 .. k - 1  OBVIOUS
  <2>2. a[x] \in Ints  BY <2>1
  <2> QED  BY <2>2, IntsAre DEF IsLeast
<1>3. q = INT_MAX \/ \E x \in l .. r : a[x] = q  BY DEF IsLeast
<1>4. p = INT_MAX \/ \E x \in l .. r : a[x] = p  BY DEF IsLeast
<1> QED  BY <1>1, <1>2, <1>3, <1>4

LEMMA LeastJoins ==
  ASSUME NEW a, NEW l \in Int, NEW m \in Int, NEW r \in Int, l <= m + 1, m <= r,
         NEW q, IsLeast(a, q, l, m), NEW p, IsLeast(a, p, m + 1, r)
  PROVE  IsLeast(a, Smaller(q, p), l, r)
<1> DEFINE s == Smaller(q, p)
<1>1. /\ q \in Int /\ p \in Int /\ q <= INT_MAX /\ p <= INT_MAX
      /\ q \in Ints /\ p \in Ints /\ INT_MAX \in Int
  BY IntsAre DEF IsLeast
<1>2. s \in Ints /\ s <= q /\ s <= p /\ (s = q \/ s = p) /\ s \in Int  BY <1>1 DEF Smaller
<1>3. /\ \A x \in l .. m : a[x] \in Int /\ q <= a[x]
      /\ \A x \in m + 1 .. r : a[x] \in Int /\ p <= a[x]
      /\ q = INT_MAX \/ \E x \in l .. m : a[x] = q
      /\ p = INT_MAX \/ \E x \in m + 1 .. r : a[x] = p
  BY DEF IsLeast
<1>6. q <= p => s = q  BY <1>1 DEF Smaller
<1> HIDE DEF s
<1>4. ASSUME NEW x \in l .. r PROVE a[x] \in Int /\ s <= a[x]
  <2>1. x \in l .. m \/ x \in m + 1 .. r  OBVIOUS
  <2> QED  BY <1>1, <1>2, <1>3, <2>1
<1>5. s = INT_MAX \/ \E x \in l .. r : a[x] = s
  <2>1. l .. m \subseteq l .. r /\ m + 1 .. r \subseteq l .. r  OBVIOUS
  <2> QED  BY <1>1, <1>2, <1>3, <2>1
<1> QED  BY <1>2, <1>4, <1>5 DEF IsLeast, s

LEMMA LeastOfOne ==
  ASSUME NEW a, NEW x \in Int, a[x] \in Ints
  PROVE  IsLeast(a, a[x], x, x)
<1>1. x \in x .. x /\ \A y \in x .. x : y = x  OBVIOUS
<1>2. a[x] \in Int  BY IntsAre
<1> QED  BY <1>1, <1>2 DEF IsLeast

LEMMA LeastOfNone ==
  ASSUME NEW a, NEW l \in Int, NEW r \in Int, r < l
  PROVE  IsLeast(a, INT_MAX, l, r)
<1>1. l .. r = {}  OBVIOUS
<1> QED  BY <1>1, IntsAre DEF IsLeast

LEMMA LeastExists ==
  ASSUME NEW k \in Nat, NEW a \in [0 .. k - 1 -> Ints], NEW l \in Nat, NEW r \in Int, r < k
  PROVE  IsLeast(a, LeastOf(a, l, r), l, r)
<1> DEFINE Has(j) == \E q : IsLeast(a, q, l, j)
           I == {j \in Nat : l + j <= r /\ ~Has(l + j)}
<1>1. I = {}
  <2> SUFFICES ASSUME I # {} PROVE FALSE  OBVIOUS
  <2>1. PICK j \in I : \A i \in I : j <= i  BY FirstExists
  <2>2. j \in Nat /\ l + j <= r /\ ~Has(l + j)  BY <2>1
  <2>3. l + j \in Int /\ l + j \in 0 .. k - 1 /\ a[l + j] \in Ints  BY <2>2
  <2> DEFINE z == l + j
  <2> HIDE DEF z
  <2>4. z \in Int /\ a[z] \in Ints /\ z - 1 \in Int /\ (z - 1) + 1 = z  BY <2>3 DEF z
  <2>5. Has(z - 1)
    <3>1. CASE j = 0
      <4>1. z - 1 < l  BY <2>2, <3>1 DEF z
      <4>2. IsLeast(a, INT_MAX, l, z - 1)  BY <2>4, <4>1, LeastOfNone
      <4> QED  BY <4>2
    <3>2. CASE j # 0
      <4>1. j - 1 \in Nat /\ l + (j - 1) = z - 1 /\ ~(j <= j - 1) /\ l + (j - 1) <= r
        BY <2>2, <3>2 DEF z
      <4> HIDE DEF Has
      <4>2. Has(l + (j - 1))  BY <2>1, <4>1
      <4> QED  BY <4>1, <4>2
    <3> QED  BY <3>1, <3>2
  <2>6. PICK q : IsLeast(a, q, l, z - 1)  BY <2>5
  <2>7. IsLeast(a, a[z], (z - 1) + 1, z)  BY <2>4, LeastOfOne
  <2>8. l <= (z - 1) + 1 /\ z - 1 <= z  BY <2>2, <2>4 DEF z
  <2>9. IsLeast(a, Smaller(q, a[z]), l, z)  BY <2>4, <2>6, <2>7, <2>8, LeastJoins
  <2> QED  BY <2>2, <2>9 DEF z
<1>2. Has(r)
  <2>1. CASE r < l
    <3>1. IsLeast(a, INT_MAX, l, r)  BY <2>1, LeastOfNone
    <3> QED  BY <3>1
  <2>2. CASE l <= r
    <3>1. r - l \in Nat /\ l + (r - l) = r /\ l + (r - l) <= r  BY <2>2
    <3> HIDE DEF Has
    <3>2. Has(l + (r - l))  BY <1>1, <3>1
    <3> QED  BY <3>1, <3>2
  <2> QED  BY <2>1, <2>2
<1> QED  BY <1>2 DEF LeastOf

LEMMA LeastIs ==
  ASSUME NEW k \in Nat, NEW a \in [0 .. k - 1 -> Ints], NEW l \in Nat, NEW r \in Int, r < k,
         NEW q, IsLeast(a, q, l, r)
  PROVE  LeastOf(a, l, r) = q
BY LeastExists, LeastUnique

Leasts(a, k) == [c \in Cells(k) |-> LeastOf(a, c.start, c.end)]

LeastTable(a, k) == [p \in Ranges(k) |-> LeastOf(a, p[1], p[2])]

Least == [p \in Int \X Int |-> Smaller(p[1], p[2])]

LEMMA LeastMeasure ==
  ASSUME NEW k \in Nat \ {0}, NEW a \in [0 .. k - 1 -> Ints]
  PROVE  IsMeasure(k, LeastTable(a, k), INT_MAX, Least)
<1> DEFINE m == LeastTable(a, k)
<1>1. ASSUME NEW l \in 0 .. k, NEW r \in -1 .. k - 1
      PROVE  m[<<l, r>>] = LeastOf(a, l, r) /\ IsLeast(a, m[<<l, r>>], l, r)
  <2>1. m[<<l, r>>] = LeastOf(a, l, r)  BY DEF LeastTable, Ranges
  <2>2. k \in Nat /\ l \in Nat /\ r \in Int /\ r < k  OBVIOUS
  <2>3. IsLeast(a, LeastOf(a, l, r), l, r)  BY <2>2, LeastExists
  <2> QED  BY <2>1, <2>3
<1>2. ASSUME NEW l \in 0 .. k, NEW r \in -1 .. k - 1, NEW q, IsLeast(a, q, l, r)
      PROVE  m[<<l, r>>] = q
  <2>1. k \in Nat /\ l \in Nat /\ r \in Int /\ r < k  OBVIOUS
  <2>2. LeastOf(a, l, r) = q  BY <1>2, <2>1, LeastIs
  <2> QED  BY <1>1, <2>2
<1>3. ASSUME NEW p \in Ranges(k) PROVE LeastOf(a, p[1], p[2]) \in Int
  <2>1. p[1] \in 0 .. k /\ p[2] \in -1 .. k - 1  BY DEF Ranges
  <2>2. k \in Nat /\ p[1] \in Nat /\ p[2] \in Int /\ p[2] < k  BY <2>1
  <2>3. IsLeast(a, LeastOf(a, p[1], p[2]), p[1], p[2])  BY <2>2, LeastExists
  <2> QED  BY <2>3, IntsAre DEF IsLeast
<1>4. m \in [Ranges(k) -> Int]  BY <1>3 DEF LeastTable
<1> HIDE DEF m
<1>5. ASSUME NEW l \in 0 .. k, NEW r \in -1 .. k - 1, NEW x \in -1 .. k - 1, l <= x + 1, x <= r
      PROVE  m[<<l, r>>] = Least[<<m[<<l, x>>], m[<<x + 1, r>>]>>]
  <2>1. l \in Int /\ r \in Int /\ x \in Int /\ x + 1 \in 0 .. k  BY <1>5
  <2>2. IsLeast(a, m[<<l, x>>], l, x) /\ IsLeast(a, m[<<x + 1, r>>], x + 1, r)  BY <1>1, <2>1
  <2>3. IsLeast(a, Smaller(m[<<l, x>>], m[<<x + 1, r>>]), l, r)
    BY <1>5, <2>1, <2>2, LeastJoins
  <2>4. m[<<l, r>>] = Smaller(m[<<l, x>>], m[<<x + 1, r>>])  BY <1>2, <2>3
  <2>5. m[<<l, x>>] \in Int /\ m[<<x + 1, r>>] \in Int  BY <2>2, IntsAre DEF IsLeast
  <2> QED  BY <2>4, <2>5 DEF Least
<1>6. ASSUME NEW l \in 0 .. k, NEW r \in -1 .. k - 1, r < l PROVE m[<<l, r>>] = INT_MAX
  <2>1. IsLeast(a, INT_MAX, l, r)  BY <1>6, LeastOfNone
  <2> QED  BY <1>2, <2>1
<1> QED  BY <1>4, <1>5, <1>6 DEF IsMeasure, m

LEMMA LeastsOfCells ==
  ASSUME NEW k \in Nat \ {0}, NEW a \in [0 .. k - 1 -> Ints]
  PROVE  /\ OfCells(k, Leasts(a, k), LeastTable(a, k))
         /\ Joins(k, Least, Leasts(a, k))
         /\ \A c \in Cells(k) : c.start = c.end => Leasts(a, k)[c] = a[c.start]
<1> DEFINE m == LeastTable(a, k)  v == Leasts(a, k)
<1>1. ASSUME NEW c \in Cells(k)
      PROVE  c.start \in 0 .. k - 1 /\ c.end \in 0 .. k - 1 /\ c.start <= c.end /\ k \in Nat
             /\ c.start \in Nat /\ c.end \in Int /\ c.end < k
  <2>1. c.start \in Nat /\ c.end \in Nat /\ c.start <= c.end /\ c.end < k  BY CellFields
  <2> QED  BY <2>1
<1>2. ASSUME NEW c \in Cells(k) PROVE v[c] = m[<<c.start, c.end>>] /\ <<c.start, c.end>> \in Ranges(k)
  <2>1. <<c.start, c.end>> \in Ranges(k)  BY <1>1 DEF Ranges
  <2> QED  BY <2>1 DEF Leasts, LeastTable
<1>3. IsMeasure(k, m, INT_MAX, Least)  BY LeastMeasure
<1>4. v \in [Cells(k) -> Int]
  <2>1. \A c \in Cells(k) : v[c] \in Int  BY <1>2, <1>3 DEF IsMeasure
  <2> QED  BY <2>1 DEF Leasts
<1>5. ASSUME NEW c \in Cells(k), c.start = c.end PROVE v[c] = a[c.start]
  <2>1. a[c.start] \in Ints /\ c.start \in Int  BY <1>1
  <2>2. IsLeast(a, a[c.start], c.start, c.start)  BY <2>1, LeastOfOne
  <2>3. LeastOf(a, c.start, c.end) = a[c.start]  BY <1>1, <1>5, <2>2, LeastIs
  <2> QED  BY <2>3 DEF Leasts
<1> HIDE DEF m, v
<1>6. ASSUME NEW c \in Cells(k), c.start # c.end
      PROVE  v[c] = Least[<<v[LowerHalf(c)], v[UpperHalf(c)]>>]
  <2> DEFINE s == c.start  e == c.end  d == Mid(c)  lo == LowerHalf(c)  up == UpperHalf(c)
  <2>1. s \in Nat /\ e \in Nat /\ d \in Nat /\ s <= d /\ d < e /\ e < k  BY <1>6, CellFields
  <2>2. lo \in Cells(k) /\ up \in Cells(k)  BY <1>6, HalvesAreCells
  <2>3. lo.start = s /\ lo.end = d /\ up.start = d + 1 /\ up.end = e  BY HalfFields
  <2>4. v[c] = m[<<s, e>>] /\ v[lo] = m[<<s, d>>] /\ v[up] = m[<<d + 1, e>>]
    BY <1>2, <2>2, <2>3
  <2> HIDE DEF s, e, d, lo, up
  <2>5. /\ s \in 0 .. k /\ e \in -1 .. k - 1 /\ d \in -1 .. k - 1 /\ s <= d + 1 /\ d <= e
    BY <2>1
  <2>6. m[<<s, e>>] = Least[<<m[<<s, d>>], m[<<d + 1, e>>]>>]  BY <1>3, <2>5 DEF IsMeasure
  <2> QED  BY <2>4, <2>6 DEF lo, up
<1>7. Joins(k, Least, v)  BY <1>4, <1>6 DEF Joins
<1> QED  BY <1>2, <1>5, <1>7 DEF OfCells, m, v

LEMMA LeastsMove ==
  ASSUME NEW k \in Nat \ {0}, NEW a \in [0 .. k - 1 -> Ints], NEW x \in 0 .. k - 1, NEW w \in Ints
  PROVE  Moves(k, x, w, Leasts(a, k), Leasts([a EXCEPT ![x] = w], k))
<1> DEFINE b == [a EXCEPT ![x] = w]
<1>1. b \in [0 .. k - 1 -> Ints] /\ b[x] = w /\ \A y \in 0 .. k - 1 : y # x => b[y] = a[y]
  OBVIOUS
<1> HIDE DEF b
<1>2. ASSUME NEW c \in Cells(k), c.start = x /\ c.end = x PROVE Leasts(b, k)[c] = w
  <2>1. c.start = c.end => Leasts(b, k)[c] = b[c.start]  BY <1>1, LeastsOfCells
  <2> QED  BY <1>1, <1>2, <2>1
<1>3. ASSUME NEW c \in Cells(k), Beside(c, x) PROVE Leasts(b, k)[c] = Leasts(a, k)[c]
  <2> DEFINE s == c.start  e == c.end
  <2>1. s \in Nat /\ e \in Nat /\ s <= e /\ e < k /\ e \in Int /\ k \in Nat  BY CellFields
  <2>2. e < x \/ s > x  BY <1>3 DEF Beside
  <2>3. Leasts(b, k)[c] = LeastOf(b, s, e) /\ Leasts(a, k)[c] = LeastOf(a, s, e)  BY DEF Leasts
  <2> HIDE DEF s, e
  <2>4. ASSUME NEW y \in s .. e PROVE a[y] = b[y]
    <3>1. y \in 0 .. k - 1 /\ y # x  BY <2>1, <2>2
    <3> QED  BY <1>1, <3>1
  <2>5. IsLeast(a, LeastOf(a, s, e), s, e)  BY <2>1, LeastExists
  <2>6. IsLeast(b, LeastOf(a, s, e), s, e)  BY <2>4, <2>5 DEF IsLeast
  <2>7. LeastOf(b, s, e) = LeastOf(a, s, e)  BY <1>1, <2>1, <2>6, LeastIs
  <2> QED  BY <2>3, <2>7
<1> QED  BY <1>2, <1>3 DEF Moves, b
-----------------------------------------------------------------------------
(* rmq.cpp: the node of every cell holds its least element.               *)

MinStored(c, r) == [r EXCEPT ![c.node] = Smaller(r[c.node * 2], r[c.node * 2 + 1])]

LEMMA LeastTyped ==
  Least \in [Int \X Int -> Int] /\ \A x, y \in Int : Least[<<x, y>>] = Smaller(x, y)
BY DEF Least, Smaller

LEMMA LeastStored ==
  ASSUME NEW k \in Nat \ {0}, NEW c \in Cells(k), c.start # c.end, NEW r \in Trees(k)
  PROVE  Stored(c, r, Least) = MinStored(c, r)
<1>1. Least \in [Int \X Int -> Int]  BY LeastTyped
<1>2. r[c.node * 2] \in Int /\ r[c.node * 2 + 1] \in Int  BY <1>1, StoredIsATree
<1>3. Least[<<r[c.node * 2], r[c.node * 2 + 1]>>] = Smaller(r[c.node * 2], r[c.node * 2 + 1])
  BY <1>2, LeastTyped
<1> QED  BY <1>3 DEF Stored, MinStored

InitMinAt(a, f, c, t) ==
  IF c.start = c.end THEN [t EXCEPT ![c.node] = a[c.start]]
  ELSE LET r == f[UpperHalf(c)][f[LowerHalf(c)][t]]
       IN  [r EXCEPT ![c.node] = Smaller(r[c.node * 2], r[c.node * 2 + 1])]

IsInitMin(a, k, f) == f = [c \in Cells(k) |-> [t \in Trees(k) |-> InitMinAt(a, f, c, t)]]

LEMMA InitMinShows ==
  ASSUME NEW k \in Nat \ {0}, NEW a \in [0 .. k - 1 -> Ints]
  PROVE  initMin(a, k) \in Trees(k) /\ Shows(Leasts(a, k), initMin(a, k), k, Whole(k))
<1> DEFINE stop == IsLeaf(k)  stopped == LeafSet(a, k)  zero == [x \in 0 .. 4 * k - 1 |-> 0]
<1>0. a \in Rows(k)  BY IntsAre DEF Rows
<1>1. Least \in [Int \X Int -> Int]  BY LeastTyped
<1>2. WalkParts(k, stop, stopped, Least)  BY <1>0, <1>1, LeafSetParts
<1>3. \E f : IsInitMin(a, k, f)
  <2>1. PICK f \in [Cells(k) -> [Trees(k) -> Trees(k)]] : IsWalk(k, stop, stopped, Least, f)
    BY <1>2, WalkExists
  <2>2. ASSUME NEW c \in Cells(k), NEW t \in Trees(k)
        PROVE  f[c][t] = InitMinAt(a, f, c, t)
    <3>1. CASE c.start = c.end  BY <2>1, <3>1 DEF IsWalk, IsLeaf, LeafSet, InitMinAt
    <3>2. CASE c.start # c.end
      <4> DEFINE r == f[UpperHalf(c)][f[LowerHalf(c)][t]]
      <4>1. LowerHalf(c) \in Cells(k) /\ UpperHalf(c) \in Cells(k)  BY <3>2, HalvesAreCells
      <4>2. r \in Trees(k)  BY <4>1
      <4>3. ~stop[c]  BY <3>2 DEF IsLeaf
      <4>4. f[c][t] = Stored(c, r, Least)  BY <2>1, <4>2, <4>3 DEF IsWalk
      <4> HIDE DEF r
      <4>5. f[c][t] = MinStored(c, r)  BY <3>2, <4>2, <4>4, LeastStored
      <4> QED  BY <3>2, <4>5 DEF r, InitMinAt, MinStored
    <3> QED  BY <3>1, <3>2
  <2>3. IsInitMin(a, k, f)  BY <2>1, <2>2 DEF IsInitMin
  <2> QED  BY <2>3
<1> DEFINE f == CHOOSE g : IsInitMin(a, k, g)
<1>4. IsInitMin(a, k, f)  BY <1>3
<1>5. initMin(a, k) = f[Whole(k)][zero]  BY DEF initMin, IsInitMin, InitMinAt
<1> HIDE DEF f
<1>6. IsWalk(k, stop, stopped, Least, f)
  <2> SUFFICES ASSUME NEW c \in Cells(k), NEW t \in Trees(k)
               PROVE  /\ stop[c] => f[c][t] = stopped[c][t]
                      /\ ~stop[c] => \A r \in Trees(k) :
                           r = f[UpperHalf(c)][f[LowerHalf(c)][t]] => f[c][t] = Stored(c, r, Least)
    BY DEF IsWalk
  <2>1. f[c][t] = InitMinAt(a, f, c, t)  BY <1>4 DEF IsInitMin
  <2>2. CASE stop[c]  BY <2>1, <2>2 DEF IsLeaf, LeafSet, InitMinAt
  <2>3. CASE ~stop[c]
    <3>1. c.start # c.end  BY <2>3 DEF IsLeaf
    <3> SUFFICES ASSUME NEW r \in Trees(k), r = f[UpperHalf(c)][f[LowerHalf(c)][t]]
                 PROVE  f[c][t] = Stored(c, r, Least)
      BY <2>3
    <3>2. f[c][t] = MinStored(c, r)  BY <2>1, <3>1 DEF InitMinAt, MinStored
    <3> QED  BY <3>1, <3>2, LeastStored
  <2> QED  BY <2>2, <2>3
<1> DEFINE v == Leasts(a, k)
<1>7. /\ v \in [Cells(k) -> Int]
      /\ \A c \in Cells(k) : ~stop[c] => v[c] = Least[<<v[LowerHalf(c)], v[UpperHalf(c)]>>]
      /\ \A c \in Cells(k) : stop[c] => v[c] = a[c.start]
  BY LeastsOfCells DEF IsLeaf, Joins
<1>8. \A c \in Cells(k) : stop[c] => \A t \in Trees(k) : Makes(k, FALSE, v, v, c, t, stopped[c][t])
  <2> SUFFICES ASSUME NEW c \in Cells(k), stop[c], NEW t \in Trees(k)
               PROVE  Makes(k, FALSE, v, v, c, t, stopped[c][t])
    OBVIOUS
  <2>1. c.start = c.end /\ stopped[c][t] = [t EXCEPT ![c.node] = v[c]] /\ v[c] \in Int
    BY <1>7 DEF IsLeaf, LeafSet
  <2> HIDE DEF v, stopped, stop
  <2>2. Makes(k, FALSE, v, v, c, t, [t EXCEPT ![c.node] = v[c]])  BY <2>1, LeafSetMakes
  <2> QED  BY <2>1, <2>2
<1> HIDE DEF stop, stopped, v
<1>9. \A c \in Cells(k), t \in Trees(k) : Makes(k, FALSE, v, v, c, t, f[c][t])
  <2>1. StopsRight(k, stop, stopped, Least, FALSE, v, v)  BY <1>7, <1>8 DEF StopsRight
  <2> QED  BY <1>2, <1>6, <2>1, WalkShows
<1>10. Whole(k) \in Cells(k) /\ zero \in Trees(k)  BY WholeIsACell DEF Trees
<1>11. Makes(k, FALSE, v, v, Whole(k), zero, f[Whole(k)][zero])  BY <1>9, <1>10
<1> QED  BY <1>5, <1>11 DEF Makes, v

UpdateMinAt(x, w, f, c, t) ==
  CASE c.start = c.end /\ c.start = x -> [t EXCEPT ![c.node] = w]
    [] x < c.start \/ x > c.end -> t
    [] OTHER -> LET r == f[UpperHalf(c)][f[LowerHalf(c)][t]]
                IN  [r EXCEPT ![c.node] = Smaller(r[c.node * 2], r[c.node * 2 + 1])]

IsUpdateMin(k, x, w, f) ==
  f = [c \in Cells(k) |-> [t \in Trees(k) |-> UpdateMinAt(x, w, f, c, t)]]

LEMMA UpdateMinAtStop ==
  ASSUME NEW k \in Nat \ {0}, NEW x \in Int, NEW w, NEW f, NEW c \in Cells(k), NEW t \in Trees(k),
         UpdateStop(k, x)[c]
  PROVE  UpdateMinAt(x, w, f, c, t) = UpdateStopped(k, x, w)[c][t]
<1>1. c.start \in Nat /\ c.end \in Nat  BY CellFields
<1>2. CASE Beside(c, x)
  <2>1. UpdateMinAt(x, w, f, c, t) = t  BY <1>1, <1>2 DEF UpdateMinAt, Beside
  <2> QED  BY <1>2, <2>1 DEF UpdateStopped
<1>3. CASE ~Beside(c, x)
  <2>0. c.start = c.end  BY <1>3 DEF UpdateStop
  <2>1. c.start = x /\ c.end = x  BY <1>1, <1>3, <2>0 DEF Beside
  <2>2. UpdateMinAt(x, w, f, c, t) = [t EXCEPT ![c.node] = w]  BY <1>1, <2>1 DEF UpdateMinAt
  <2> QED  BY <1>3, <2>2 DEF UpdateStopped
<1> QED  BY <1>2, <1>3

LEMMA UpdateMinAtSplit ==
  ASSUME NEW k \in Nat \ {0}, NEW x \in Int, NEW w, NEW f, NEW c \in Cells(k), NEW t,
         ~UpdateStop(k, x)[c]
  PROVE  UpdateMinAt(x, w, f, c, t) = MinStored(c, f[UpperHalf(c)][f[LowerHalf(c)][t]])
<1>1. c.start \in Nat /\ c.end \in Nat  BY CellFields
<1>2. ~(c.end < x \/ c.start > x) /\ c.start # c.end  BY DEF UpdateStop, Beside
<1> QED  BY <1>1, <1>2 DEF UpdateMinAt, MinStored

LEMMA UpdateMinShows ==
  ASSUME NEW x \in 0 .. size - 1, NEW w \in Ints, size = N, given \in [0 .. size - 1 -> Ints],
         rangeMin \in Trees(size), Shows(Leasts(given, size), rangeMin, size, Whole(size))
  PROVE  /\ updatedMin(x, w) \in Trees(size)
         /\ Shows(Leasts([given EXCEPT ![x] = w], size), updatedMin(x, w), size, Whole(size))
<1> DEFINE k == size  stop == UpdateStop(k, x)  stopped == UpdateStopped(k, x, w)
           b == [given EXCEPT ![x] = w]  v0 == Leasts(given, k)  v == Leasts(b, k)
<1>1. Least \in [Int \X Int -> Int] /\ k \in Nat \ {0} /\ x \in Int /\ w \in Int
  BY SegmentAssumption, LeastTyped, IntsAre
<1>2. b \in [0 .. k - 1 -> Ints]  OBVIOUS
<1>3. Joins(k, Least, v)
  <2> HIDE DEF b, k
  <2> QED  BY <1>1, <1>2, LeastsOfCells
<1>4. Moves(k, x, w, v0, v)  BY <1>1, LeastsMove
<1>5. Shows(v0, rangeMin, k, Whole(k)) /\ rangeMin \in Trees(k)  OBVIOUS
<1>6. updatedMin(x, w) = (CHOOSE g : IsUpdateMin(k, x, w, g))[Whole(k)][rangeMin]
  BY DEF updatedMin, IsUpdateMin, UpdateMinAt
<1> HIDE DEF k, b, v0, v
<1>7. WalkParts(k, stop, stopped, Least)  BY <1>1, UpdateParts
<1>8. StopsRight(k, stop, stopped, Least, TRUE, v0, v)  BY <1>1, <1>3, <1>4, UpdateStopsRight
<1>9. \E f : IsUpdateMin(k, x, w, f)
  <2>1. PICK f \in [Cells(k) -> [Trees(k) -> Trees(k)]] : IsWalk(k, stop, stopped, Least, f)
    <3> HIDE DEF stop, stopped
    <3> QED  BY <1>1, <1>7, WalkExists
  <2>2. ASSUME NEW c \in Cells(k), NEW t \in Trees(k) PROVE f[c][t] = UpdateMinAt(x, w, f, c, t)
    <3>1. CASE stop[c]
      <4> HIDE DEF k
      <4>1. UpdateMinAt(x, w, f, c, t) = UpdateStopped(k, x, w)[c][t]
        BY <1>1, <3>1, UpdateMinAtStop, SMTT(30)
      <4> QED  BY <2>1, <3>1, <4>1 DEF IsWalk
    <3>2. CASE ~stop[c]
      <4> DEFINE r == f[UpperHalf(c)][f[LowerHalf(c)][t]]
      <4>0. UpdateMinAt(x, w, f, c, t) = MinStored(c, r)  BY <1>1, <3>2, UpdateMinAtSplit
      <4>1. c.start # c.end  BY <3>2 DEF UpdateStop
      <4>2. LowerHalf(c) \in Cells(k) /\ UpperHalf(c) \in Cells(k)
        BY <1>1, <4>1, HalvesAreCells
      <4>3. r \in Trees(k)  BY <4>2
      <4>4. f[c][t] = Stored(c, r, Least)  BY <2>1, <3>2, <4>3 DEF IsWalk
      <4> HIDE DEF r
      <4> QED  BY <1>1, <4>0, <4>1, <4>3, <4>4, LeastStored
    <3> QED  BY <3>1, <3>2
  <2>3. IsUpdateMin(k, x, w, f)  BY <2>1, <2>2 DEF IsUpdateMin
  <2> QED  BY <2>3
<1> DEFINE f == CHOOSE g : IsUpdateMin(k, x, w, g)
<1>10. IsUpdateMin(k, x, w, f)  BY <1>9
<1> HIDE DEF f
<1>11. IsWalk(k, stop, stopped, Least, f)
  <2> SUFFICES ASSUME NEW c \in Cells(k), NEW t \in Trees(k)
               PROVE  /\ stop[c] => f[c][t] = stopped[c][t]
                      /\ ~stop[c] => \A r \in Trees(k) :
                           r = f[UpperHalf(c)][f[LowerHalf(c)][t]] => f[c][t] = Stored(c, r, Least)
    BY DEF IsWalk
  <2>1. f[c][t] = UpdateMinAt(x, w, f, c, t)  BY <1>10 DEF IsUpdateMin
  <2>2. CASE stop[c]
    <3>1. UpdateMinAt(x, w, f, c, t) = stopped[c][t]  BY <1>1, <2>2, UpdateMinAtStop
    <3> QED  BY <2>1, <2>2, <3>1
  <2>3. CASE ~stop[c]
    <3> SUFFICES ASSUME NEW r \in Trees(k), r = f[UpperHalf(c)][f[LowerHalf(c)][t]]
                 PROVE  f[c][t] = Stored(c, r, Least)
      BY <2>3
    <3>1. UpdateMinAt(x, w, f, c, t) = MinStored(c, f[UpperHalf(c)][f[LowerHalf(c)][t]])
      BY <1>1, <2>3, UpdateMinAtSplit
    <3>2. c.start # c.end  BY <2>3 DEF UpdateStop
    <3>3. Stored(c, r, Least) = MinStored(c, r)  BY <1>1, <3>2, LeastStored
    <3> QED  BY <2>1, <3>1, <3>3
  <2> QED  BY <2>2, <2>3
<1> HIDE DEF stop, stopped
<1>12. \A c \in Cells(k), t \in Trees(k) : Makes(k, TRUE, v0, v, c, t, f[c][t])
  BY <1>1, <1>7, <1>8, <1>11, WalkShows
<1>13. Whole(k) \in Cells(k)  BY <1>1, WholeIsACell
<1>14. Makes(k, TRUE, v0, v, Whole(k), rangeMin, f[Whole(k)][rangeMin])  BY <1>5, <1>12, <1>13
<1>15. f[Whole(k)][rangeMin] \in Trees(k) /\ Shows(v, f[Whole(k)][rangeMin], k, Whole(k))
  BY <1>5, <1>14 DEF Makes
<1> QED  BY <1>6, <1>15 DEF f, k, v, b

QueryAt(l, r, t, f, c) ==
  CASE r < c.start \/ l > c.end -> INT_MAX
    [] l <= c.start /\ r >= c.end -> t[c.node]
    [] OTHER -> Smaller(f[LowerHalf(c)], f[UpperHalf(c)])

IsQuery(k, l, r, t, f) == f = [c \in Cells(k) |-> QueryAt(l, r, t, f, c)]

LEMMA QueryAtReads ==
  ASSUME NEW k \in Nat \ {0}, NEW l \in 0 .. k - 1, NEW r \in 0 .. k - 1, l <= r,
         NEW t \in Trees(k), NEW f, NEW c \in Cells(k),
         c.start # c.end => f[LowerHalf(c)] \in Int /\ f[UpperHalf(c)] \in Int
  PROVE  QueryAt(l, r, t, f, c)
           = ReadAt(QueryStop(k, l, r), QueryStopped(k, l, r, t, INT_MAX), Least, f, c)
<1>1. c.start \in Nat /\ c.end \in Nat /\ c.start <= c.end  BY CellFields
<1>2. CASE l > c.end \/ r < c.start
  <2>1. QueryAt(l, r, t, f, c) = INT_MAX  BY <1>1, <1>2 DEF QueryAt
  <2> QED  BY <1>2, <2>1 DEF ReadAt, QueryStop, QueryStopped
<1>3. CASE ~(l > c.end \/ r < c.start) /\ l <= c.start /\ r >= c.end
  <2>1. QueryAt(l, r, t, f, c) = t[c.node]  BY <1>1, <1>3 DEF QueryAt
  <2> QED  BY <1>3, <2>1 DEF ReadAt, QueryStop, QueryStopped
<1>4. CASE ~(l > c.end \/ r < c.start) /\ ~(l <= c.start /\ r >= c.end)
  <2>1. c.start # c.end  BY <1>1, <1>4
  <2>2. f[LowerHalf(c)] \in Int /\ f[UpperHalf(c)] \in Int  BY <2>1
  <2>3. Least[<<f[LowerHalf(c)], f[UpperHalf(c)]>>] = Smaller(f[LowerHalf(c)], f[UpperHalf(c)])
    BY <2>2, LeastTyped
  <2>4. QueryAt(l, r, t, f, c) = Smaller(f[LowerHalf(c)], f[UpperHalf(c)])  BY <1>4 DEF QueryAt
  <2> QED  BY <1>4, <2>3, <2>4 DEF ReadAt, QueryStop
<1> QED  BY <1>2, <1>3, <1>4

LEMMA MinReads ==
  ASSUME NEW l \in 0 .. size - 1, NEW r \in 0 .. size - 1, l <= r, size = N,
         size \in Nat \ {0}, given \in [0 .. size - 1 -> Ints],
         rangeMin \in Trees(size), Shows(Leasts(given, size), rangeMin, size, Whole(size))
  PROVE  query(l, r) = LeastOf(given, l, r)
<1> DEFINE k == size  stop == QueryStop(k, l, r)
           stopped == QueryStopped(k, l, r, rangeMin, INT_MAX)
           v == Leasts(given, k)  m == LeastTable(given, k)
<1>1. Least \in [Int \X Int -> Int] /\ k \in Nat \ {0} /\ l \in Nat /\ r \in Nat
  BY LeastTyped
<1>2. IsMeasure(k, m, INT_MAX, Least)  BY <1>1, LeastMeasure
<1>3. query(l, r) = (CHOOSE g : IsQuery(k, l, r, rangeMin, g))[Whole(k)]
  BY DEF query, IsQuery, QueryAt
<1>4. /\ rangeMin \in Trees(k) /\ Shows(v, rangeMin, k, Whole(k))
      /\ l \in 0 .. k - 1 /\ r \in 0 .. k - 1
  OBVIOUS
<1>5. OfCells(k, v, m)
  <2> SUFFICES ASSUME NEW c \in Cells(k) PROVE v[c] = m[<<c.start, c.end>>]  BY DEF OfCells
  <2>1. c.start \in Nat /\ c.end \in Nat /\ c.start <= c.end /\ c.end < k  BY <1>1, CellFields
  <2>2. <<c.start, c.end>> \in Ranges(k)  BY <1>1, <2>1 DEF Ranges
  <2> QED  BY <2>2 DEF Leasts, LeastTable
<1> HIDE DEF k, v, m
<1>6. \E f : IsQuery(k, l, r, rangeMin, f)
  <2>1. FoldParts(k, stop, stopped, Least)
    <3>1. INT_MAX \in Int  BY IntsAre
    <3> QED  BY <1>1, <1>4, <3>1, QueryParts
  <2>2. PICK f \in [Cells(k) -> Int] :
          \A c \in Cells(k) : f[c] = ReadAt(stop, stopped, Least, f, c)
    <3> HIDE DEF stop, stopped
    <3> QED  BY <1>1, <2>1, FoldExists
  <2>3. ASSUME NEW c \in Cells(k) PROVE f[c] = QueryAt(l, r, rangeMin, f, c)
    <3>1. c.start # c.end => f[LowerHalf(c)] \in Int /\ f[UpperHalf(c)] \in Int
      BY <1>1, HalvesAreCells
    <3>2. QueryAt(l, r, rangeMin, f, c) = ReadAt(stop, stopped, Least, f, c)
      BY <1>1, <1>4, <3>1, QueryAtReads
    <3> QED  BY <2>2, <3>2
  <2> QED  BY <2>2, <2>3 DEF IsQuery
<1> DEFINE f == CHOOSE g : IsQuery(k, l, r, rangeMin, g)
<1>7. IsQuery(k, l, r, rangeMin, f)  BY <1>6
<1> HIDE DEF f
<1>8. \A c \in Cells(k) : f[c] = QueryAt(l, r, rangeMin, f, c)  BY <1>7 DEF IsQuery
<1>9. \A c \in Cells(k) : f[c] \in Int
  <2> DEFINE S == {c \in Cells(k) : f[c] \in Int}
  <2>1. ASSUME NEW c \in Cells(k), c.start # c.end => LowerHalf(c) \in S /\ UpperHalf(c) \in S
        PROVE  c \in S
    <3>1. c.start # c.end => f[LowerHalf(c)] \in Int /\ f[UpperHalf(c)] \in Int  BY <2>1
    <3>2. QueryAt(l, r, rangeMin, f, c) = ReadAt(stop, stopped, Least, f, c)
      BY <1>1, <1>4, <3>1, QueryAtReads
    <3>3. FoldParts(k, stop, stopped, Least)
      <4>1. INT_MAX \in Int  BY IntsAre
      <4> QED  BY <1>1, <1>4, <4>1, QueryParts
    <3> HIDE DEF stop, stopped
    <3>4. CASE stop[c]  BY <1>8, <3>2, <3>3, <3>4 DEF ReadAt, FoldParts
    <3>5. CASE ~stop[c]
      <4>1. c.start # c.end  BY <3>3, <3>5 DEF FoldParts
      <4>2. Least[<<f[LowerHalf(c)], f[UpperHalf(c)]>>] \in Int  BY <1>1, <3>1, <4>1
      <4> QED  BY <1>8, <3>2, <3>5, <4>2 DEF ReadAt
    <3> QED  BY <3>4, <3>5
  <2> HIDE DEF S
  <2>2. Cells(k) \subseteq S  BY <1>1, <2>1, CellInduction
  <2> QED  BY <2>2 DEF S
<1>10. IsFold(k, stop, stopped, Least, f)
  <2> SUFFICES ASSUME NEW c \in Cells(k) PROVE f[c] = ReadAt(stop, stopped, Least, f, c)
    BY DEF IsFold
  <2>1. c.start # c.end => f[LowerHalf(c)] \in Int /\ f[UpperHalf(c)] \in Int
    BY <1>1, <1>9, HalvesAreCells
  <2>2. QueryAt(l, r, rangeMin, f, c) = ReadAt(stop, stopped, Least, f, c)
    BY <1>1, <1>4, <2>1, QueryAtReads
  <2> QED  BY <1>8, <2>2
<1>11. f[Whole(k)] = m[<<l, r>>]
  BY <1>1, <1>2, <1>4, <1>5, <1>10, QueryReads
<1>12. m[<<l, r>>] = LeastOf(given, l, r)
  <2>1. <<l, r>> \in Ranges(k)  BY <1>1, <1>4 DEF Ranges
  <2> QED  BY <2>1 DEF m, LeastTable
<1> QED  BY <1>3, <1>11, <1>12 DEF f
-----------------------------------------------------------------------------
(* The invariants.                                                         *)

(* The tree of segmentTree.c shows the sums of array. *)
SumsInv ==
  /\ array \in Rows(Size) /\ tree \in Trees(Size)
  /\ Shows(Sums(array, Size), tree, Size, Whole(Size))

(* RMQ's tree shows the least elements of its vector, if the global N is    *)
(* the vector's length.                                                    *)
MinimaInv ==
  /\ size \in Nat \ {0} /\ given \in [0 .. size - 1 -> Ints]
  /\ size = N => rangeMin \in Trees(size)
                 /\ Shows(Leasts(given, size), rangeMin, size, Whole(size))

LEMMA SegmentInitInv ==
  SegmentInit => SumsInv /\ MinimaInv
<1> SUFFICES ASSUME SegmentInit PROVE SumsInv /\ MinimaInv  OBVIOUS
<1> USE DEF SegmentInit
<1>1. array \in Rows(Size) /\ Size \in Nat \ {0}  BY SegmentAssumption DEF Rows
<1>2. SumsInv  BY <1>1, InitShows DEF SumsInv
<1>3. size \in Nat \ {0} /\ given \in [0 .. size - 1 -> Ints]
  <2>1. DOMAIN given # {} /\ IsFiniteSet(DOMAIN given) /\ given \in [0 .. size - 1 -> Ints]
    BY SegmentAssumption
  <2>2. size \in Nat /\ size # 0
    BY <2>1, FS_CardinalityType, FS_EmptySet
  <2> QED  BY <2>1, <2>2
<1>4. MinimaInv  BY <1>3, InitMinShows DEF MinimaInv
<1> QED  BY <1>2, <1>4

LEMMA UpdateKeepsSums ==
  ASSUME SumsInv, NEW x \in 0 .. Size - 1, NEW d \in Difs, update(x, d)
  PROVE  SumsInv'
<1> DEFINE w == array[x] + d
<1>1. array \in Rows(Size) /\ tree \in Trees(Size)
      /\ Shows(Sums(array, Size), tree, Size, Whole(Size))
  BY DEF SumsInv
<1>2. w \in Int
  <2>1. d \in Int  BY SegmentAssumption
  <2> QED  BY <1>1, <2>1 DEF Rows
<1>3. array' = [array EXCEPT ![x] = w] /\ tree' = updated(x, w)  BY DEF update
<1> HIDE DEF w
<1>4. array' \in Rows(Size)  BY <1>1, <1>2, <1>3 DEF Rows
<1>5. /\ updated(x, w) \in Trees(Size)
      /\ Shows(Sums([array EXCEPT ![x] = w], Size), updated(x, w), Size, Whole(Size))
  BY <1>1, <1>2, UpdateShows
<1>6. tree' \in Trees(Size) /\ Shows(Sums(array', Size), tree', Size, Whole(Size))
  BY <1>3, <1>5
<1> QED  BY <1>4, <1>6 DEF SumsInv

LEMMA UpdateKeepsMinima ==
  ASSUME MinimaInv, NEW x \in 0 .. size - 1, NEW w \in Values, updateMin(x, w)
  PROVE  MinimaInv'
<1>1. size \in Nat \ {0} /\ given \in [0 .. size - 1 -> Ints] /\ w \in Ints
  BY SegmentAssumption DEF MinimaInv
<1>2. given' = [given EXCEPT ![x] = w] /\ rangeMin' = updatedMin(x, w) /\ size' = size
  BY DEF updateMin
<1>3. given' \in [0 .. size' - 1 -> Ints]  BY <1>1, <1>2
<1>4. ASSUME size = N
      PROVE  /\ rangeMin' \in Trees(size')
             /\ Shows(Leasts(given', size'), rangeMin', size', Whole(size'))
  <2>1. rangeMin \in Trees(size) /\ Shows(Leasts(given, size), rangeMin, size, Whole(size))
    BY <1>4 DEF MinimaInv
  <2>2. /\ updatedMin(x, w) \in Trees(size)
        /\ Shows(Leasts([given EXCEPT ![x] = w], size), updatedMin(x, w), size, Whole(size))
    BY <1>1, <1>4, <2>1, UpdateMinShows
  <2> QED  BY <1>2, <2>2
<1> QED  BY <1>1, <1>2, <1>3, <1>4 DEF MinimaInv

LEMMA SegmentNextInv ==
  SumsInv /\ MinimaInv /\ [SegmentNext]_segmentVars => SumsInv' /\ MinimaInv'
<1> SUFFICES ASSUME SumsInv, MinimaInv, [SegmentNext]_segmentVars PROVE SumsInv' /\ MinimaInv'
  OBVIOUS
<1>1. ASSUME UNCHANGED <<array, tree>> PROVE SumsInv'  BY <1>1 DEF SumsInv
<1>2. ASSUME UNCHANGED <<size, rangeMin, given>> PROVE MinimaInv'  BY <1>2 DEF MinimaInv
<1>3. ASSUME NEW x \in 0 .. Size - 1, NEW d \in Difs, update(x, d) PROVE SumsInv' /\ MinimaInv'
  <2>1. SumsInv'  BY <1>3, UpdateKeepsSums
  <2> QED  BY <1>2, <1>3, <2>1 DEF update
<1>4. ASSUME NEW x \in 0 .. size - 1, NEW w \in Values, updateMin(x, w)
      PROVE  SumsInv' /\ MinimaInv'
  <2>1. MinimaInv'  BY <1>4, UpdateKeepsMinima
  <2> QED  BY <1>1, <1>4, <2>1 DEF updateMin
<1>5. CASE UNCHANGED segmentVars  BY <1>1, <1>2, <1>5 DEF segmentVars
<1> QED  BY <1>3, <1>4, <1>5 DEF SegmentNext

LEMMA SegmentAlways ==
  SegmentSpec => [](SumsInv /\ MinimaInv)
<1>1. SegmentInit => SumsInv /\ MinimaInv  BY SegmentInitInv
<1>2. SumsInv /\ MinimaInv /\ [SegmentNext]_segmentVars => (SumsInv /\ MinimaInv)'
  BY SegmentNextInv
<1> QED  BY <1>1, <1>2, PTL DEF SegmentSpec

(* After any updates, sum() of segmentTree.c gives every range its          *)
(* elements' sum, whatever the array's size and what is in it.             *)
THEOREM SumsAreRight == SegmentSpec => []SumIsRight
<1>1. SumsInv => SumIsRight
  <2> SUFFICES ASSUME SumsInv, NEW l \in 0 .. Size - 1, NEW r \in l .. Size - 1
               PROVE  sum(l, r) = SumOf(array, l, r)
    BY DEF SumIsRight
  <2>1. r \in 0 .. Size - 1 /\ l <= r  OBVIOUS
  <2> QED  BY <2>1, SumReads DEF SumsInv
<1> QED  BY <1>1, SegmentAlways, PTL

(* After any updates, query() of rmq.cpp gives the least element of every   *)
(* range of a vector that is N elements long, whatever the elements.       *)
THEOREM QueriesAreRight == SegmentSpec => []QueryIsTheMinimum
<1>1. MinimaInv => QueryIsTheMinimum
  <2> SUFFICES ASSUME MinimaInv, size = N, NEW l \in 0 .. size - 1, NEW r \in l .. size - 1
               PROVE  /\ \E x \in l .. r : given[x] = query(l, r)
                      /\ \A x \in l .. r : given[x] >= query(l, r)
    BY DEF QueryIsTheMinimum
  <2>1. /\ size \in Nat \ {0} /\ size \in Nat /\ given \in [0 .. size - 1 -> Ints]
        /\ rangeMin \in Trees(size) /\ Shows(Leasts(given, size), rangeMin, size, Whole(size))
    BY DEF MinimaInv
  <2>2. r \in 0 .. size - 1 /\ l <= r /\ l \in Nat /\ r \in Int /\ r < size /\ l \in l .. r
    BY <2>1
  <2> DEFINE q == query(l, r)
  <2>3. q = LeastOf(given, l, r)  BY <2>1, <2>2, MinReads
  <2> HIDE DEF q
  <2>4. IsLeast(given, q, l, r)  BY <2>1, <2>2, <2>3, LeastExists
  <2>5. given[l] \in Ints  BY <2>1
  <2>6. /\ q \in Int /\ q <= INT_MAX /\ given[l] \in Int /\ given[l] <= INT_MAX
        /\ \A x \in l .. r : given[x] \in Int /\ q <= given[x]
        /\ q = INT_MAX \/ \E x \in l .. r : given[x] = q
        /\ INT_MAX \in Int
    BY <2>4, <2>5, IntsAre DEF IsLeast
  <2>7. \E x \in l .. r : given[x] = q
    <3>1. CASE q = INT_MAX
      <4>1. given[l] = q  BY <2>2, <2>6, <3>1
      <4> QED  BY <2>2, <4>1
    <3> QED  BY <2>6, <3>1
  <2>8. \A x \in l .. r : given[x] >= q  BY <2>6
  <2> QED  BY <2>7, <2>8 DEF q
<1> QED  BY <1>1, SegmentAlways, PTL
=============================================================================
