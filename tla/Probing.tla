------------------------------ MODULE Probing ------------------------------
(***************************************************************************)
(* The open-addressing search that hash_set.c and hash_table.c share: the  *)
(* C function _get_index.  It starts in the slot hash % number_nodes, moves*)
(* on one slot at a time, wraps round at the end of the array, and stops at*)
(* the first slot that is empty or holds the key.                          *)
(*                                                                         *)
(* A set of slots is a function from 0..n-1 to keys or None.  The loop is  *)
(* stated by where it stops, not step by step: StopsAt is a set of at most *)
(* one slot, and it is empty when the loop went all the way round, which is*)
(* where the code calls abort().                                           *)
(***************************************************************************)
EXTENDS Integers

CONSTANT None         \* a NULL slot

(* The slot the loop looks at after j increments. *)
Probe(n, home, j) == (home + j) % n

(* The j slots looked at before this one hold other keys. *)
PassesBy(at, n, home, key, j) ==
  \A i \in 0 .. j-1 : at[Probe(n, home, i)] \notin {None, key}

(* Mutant of StopsAt: the search does not wrap round. *)
StopsBeforeWrap(at, n, home, key) ==
  {Probe(n, home, j) : j \in {i \in 0 .. n-1 - (home % n) :
                                /\ PassesBy(at, n, home, key, i)
                                /\ at[Probe(n, home, i)] \in {None, key}}}

(* Where the search for key returns: the slot stored in *index.  The caller *)
(* learns from what it holds whether the key was found.                     *)
StopsAt(at, n, home, key) ==
  {Probe(n, home, j) : j \in {i \in 0 .. n-1 :
                                /\ PassesBy(at, n, home, key, i)
                                /\ at[Probe(n, home, i)] \in {None, key}}}
=============================================================================
