----------------------------- MODULE MCScanner -----------------------------
(* Every text of up to three characters of one alphabet, and of up to five *)
(* of a smaller one.                                                       *)
EXTENDS Scanner

MCLetter == {"i", "n"}

\* The one keyword that these letters spell.
MCKeyword == {<<"i", "n">>}

Alphabet == MCLetter \cup {"_", "0", "1", "<", "=", ":", "\"", "'", " ", "\n", "{"}

Few == {"i", "n", "0", "1", "\n", "\""}

AllTexts == UNION {[1..n -> Alphabet] : n \in 0..3} \cup UNION {[1..n -> Few] : n \in 4..5}

MCTexts == AllTexts

\* An int holds 11: of 1, 10, 11, 100, 101, 110, 111, 1000... some fit, some
\* do not, and of these some fit a long of the larger width.
MCLongMaxes == {11, 105}
=============================================================================
