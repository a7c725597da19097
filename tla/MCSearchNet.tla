---------------------------- MODULE MCSearchNet -----------------------------
(* Replies of two words. One dictionary has three words for a, one more     *)
(* than a reply holds, another exactly two and a last line of data.txt     *)
(* that does not end with a newline; the third file has two lines that run *)
(* into one text, and ends with a word without a number.                   *)
EXTENDS SearchNet

a == 97
b == 98
LF == 10

Line(t, f) == [text |-> t, freq |-> f]

Crowded ==
  <<Line(<<a, SPACE>>, 2), Line(<<a, SPACE, b>>, 3), Line(<<a, a>>, 3), Line(<<b, SPACE>>, 1)>>

Full == <<Line(<<a, SPACE>>, 2), Line(<<a, SPACE, b>>, 3), Line(<<b, SPACE>>, 1)>>

Ragged == <<Line(<<a, LF, b, SPACE>>, 4), Line(<<a, SPACE>>, 2)>>

MCFiles == {[lines |-> Crowded, newline |-> TRUE, rest |-> << >>],
            [lines |-> Full, newline |-> FALSE, rest |-> << >>],
            [lines |-> Ragged, newline |-> TRUE, rest |-> <<a, b>>]}

MCKeys       == {a, SPACE}
MCGarbage == {<< >>, <<SPACE>>, <<b>>}
=============================================================================
