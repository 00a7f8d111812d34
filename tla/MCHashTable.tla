----------------------------- MODULE MCHashTable -----------------------------
(***************************************************************************)
(* An instance of HashTable for TLC.                                       *)
(***************************************************************************)
EXTENDS HashTable, TLC

CONSTANTS HashValues       \* BOUND: the values a hash may have

AllHashes == [Keys -> HashValues]

(* What the properties, and the steps that change the table, depend on: not *)
(* where a walk is.                                                         *)
View == <<nodes, number_nodes, used_nodes, hash, status, growing,
          values, adding, latest>>

Symmetry == Permutations(Keys) \union Permutations(Values)
=============================================================================
