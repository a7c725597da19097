----------------------------- MODULE MCSuggest ------------------------------
(* Alphabet a, b; files with a word spelled twice, a two-part word, equal  *)
(* frequencies, and more words below one prefix than are shown.  In the    *)
(* last file two lines run into one text, a line begins with the newline   *)
(* its number was not followed by, and a word without a number ends it.    *)
EXTENDS Suggest

a == 97
b == 98
A == 65
LF == 10

Line(t, f) == [text |-> t, freq |-> f]

MCFiles ==
  {[lines |-> <<Line(<<a, SPACE>>, 2), Line(<<A, b, SPACE>>, 3), Line(<<a, SPACE, b, a>>, 3),
                Line(<<b, SPACE>>, 1), Line(<<a, b, SPACE>>, 1)>>, newline |-> n, rest |-> << >>] : n \in BOOLEAN}
  \cup
  {[lines |-> <<Line(<<b, b, SPACE>>, 5), Line(<<b, A, SPACE>>, 5), Line(<<b, SPACE, b, b>>, 7)>>,
    newline |-> FALSE, rest |-> << >>]}
  \cup
  {[lines |-> <<Line(<<a, SPACE>>, 2), Line(<<b, LF, a, SPACE>>, 4), Line(<<b, a, SPACE>>, 1),
                Line(<<LF, a, SPACE>>, 3)>>, newline |-> TRUE, rest |-> <<a, b>>]}

MCKeys == {a, b, A, SPACE}
=============================================================================
