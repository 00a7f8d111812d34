------------------------------ MODULE MCTable -------------------------------
(***************************************************************************)
(* An instance of Table for TLC.                                           *)
(***************************************************************************)
EXTENDS Table, SequencesExt, TLC

CONSTANTS HashValues       \* BOUND: the values a hash may have

AllHashes == [Strings -> HashValues]

(* Rows of one string, and a second column that starts with the first       *)
(* column's values the other way round.                                     *)
SomeRows(columns) == {[c \in 1..columns |-> s] : s \in Strings}
SomeColumns(first) == {Reverse(first)}

Symmetry == Permutations(Strings)
=============================================================================
