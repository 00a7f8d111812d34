------------------------------ MODULE MCHashSet ------------------------------
(***************************************************************************)
(* Instances of HashSet for TLC: the hash functions considered.            *)
(***************************************************************************)
EXTENDS HashSet, TLC

CONSTANTS HashMax          \* BOUND: hash values are 0 .. HashMax

(* Every hash function into 0 .. HashMax. *)
AllHashes == [Keys -> 0 .. HashMax]

KeySymmetry == Permutations(Keys)
=============================================================================
