------------------------------ MODULE WordList ------------------------------
(***************************************************************************)
(* What the suggestion program (Trie/homework1_trie/trie.cpp) and the      *)
(* search server and client (Network/homework_3) have in common: the trie  *)
(* is read from data.txt, and the user edits a line of letters and spaces, *)
(* for which words are shown.                                              *)
(***************************************************************************)
EXTENDS Trie

CONSTANTS Files,           \* the data files: [lines, newline, rest]
          Keys,            \* the letters and the space the user types
          MaxShown,        \* 10: words shown
          MaxQuery         \* bound: characters in the search line

(* The scan %[^0-9] stops at a digit only, so what counts as a line of     *)
(* data.txt are the chars up to and including a number.  They are a word   *)
(* and its frequency when each line of the file has both and nothing       *)
(* more.  In Network/homework_3/data.txt line 52 has no number and line    *)
(* 159 has a space after it: the texts read are "delivery service\ndeal "  *)
(* and "\nprofiling ".                                                     *)
(* fgetc takes the char after a number, if there is one (newline); rest is *)
(* what then follows the last number.  A text is read into data[100]; what *)
(* DeleteChar leaves of it are chars again.                                *)
ASSUME WordListAssumption ==
  /\ MaxShown \in Nat \ {0} /\ MaxQuery \in Nat
  /\ Keys \subseteq Nat \ {0}
  /\ \A f \in Files :
       /\ f.newline \in BOOLEAN
       /\ f.lines \in Seq([text : Seq(Nat), freq : Int]) /\ f.lines # << >>
       /\ f.rest \in Seq(Nat) /\ (~f.newline => f.rest = << >>)
       /\ \A text \in {f.rest} \cup {f.lines[k].text : k \in DOMAIN f.lines} :
            Len(text) < 100 /\ DeleteChar(text, SPACE) \in Seq(Nat)

VARIABLES file,            \* data.txt: its lines [text, freq], newline and rest
          lineno,          \* the line fscanf reads next
          root,            \* the trie
          pq,
          queryStr,
          shown            \* what is on the screen

LastLine == Len(file.lines)

(* Turns of the feof loop.  A char after the last number makes it turn     *)
(* once more: rest is scanned, and freq keeps its value.                   *)
Turns == IF file.newline THEN LastLine + 1 ELSE LastLine

Word(k) == DeleteChar(IF k <= LastLine THEN file.lines[k].text ELSE file.rest, SPACE)
Freq(k) == file.lines[IF k <= LastLine THEN k ELSE LastLine].freq

InitWords == /\ file \in Files /\ lineno = 1
             /\ root = EmptyTrie /\ pq = EmptyBag
             /\ queryStr = << >> /\ shown = << >>

(* One turn of the feof loop. *)
Load == /\ root' = insert(root, Word(lineno), Freq(lineno))
        /\ lineno' = lineno + 1

AnotherTurn == lineno < Turns

(* Where a turn leads, to next as a rule: insert, given a char that is not *)
(* a letter, may take any word of memory for a child, or overwrite it, and *)
(* nothing is said of what the program does then.                          *)
AfterLoad(next) == IF LettersOnly(Word(lineno)) THEN {next} ELSE {next, "crashed", "undefined"}

(* The search line without its last character. *)
Erased == IF queryStr = << >> THEN << >> ELSE Front(queryStr)
-----------------------------------------------------------------------------
(* What the file says: a word, its spaces dropped and its case ignored,    *)
(* has the frequency of its last line.  A text that then is not of letters *)
(* only, two lines run into one for instance, is no word.                  *)
Lower(s)   == [k \in DOMAIN s |-> tolower(s[k])]
IsWord(k)  == Word(k) # << >> /\ LettersOnly(Word(k))
Dictionary == {Lower(Word(k)) : k \in {j \in 1 .. Turns : IsWord(j)}}
FreqOf(w)  == LET last == CHOOSE k \in 1 .. Turns :
                            /\ Lower(Word(k)) = w
                            /\ \A j \in k + 1 .. Turns : Lower(Word(j)) # w
              IN  Freq(last)
=============================================================================
