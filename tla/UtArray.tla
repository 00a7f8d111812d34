------------------------------ MODULE UtArray -------------------------------
(***************************************************************************)
(* detail/utarray.h, as table.c uses it: an array that doubles when it is  *)
(* full.  d is what the n slots hold, Nil where nothing was put, and the   *)
(* first i are in use.  An element pointer is the element's number, and    *)
(* NULL where there is none; strings are copied, so what is in the array   *)
(* is its own.  No memory ends the program (utarray_oom).                  *)
(***************************************************************************)
EXTENDS Naturals, FiniteSets

CONSTANTS Nil, FirstSlots  \* the slots of the first allocation, 8 in the code

utarray_new == [i |-> 0, n |-> 0, d |-> [k \in {} |-> Nil]]

(* FirstSlots doubled until there is room for that many. *)
Doubled(n, needed) ==
  LET size[k \in 0..needed] ==
        IF k = 0 THEN (IF n = 0 THEN FirstSlots ELSE n)
        ELSE IF size[k - 1] < needed THEN 2 * size[k - 1] ELSE size[k - 1]
  IN size[needed]

utarray_reserve(a, by) ==
  IF a.i + by <= a.n THEN a
  ELSE LET n == Doubled(a.n, a.i + by)
       IN [a EXCEPT !.n = n,
                    !.d = [k \in 0..(n - 1) |-> IF k < a.n THEN a.d[k] ELSE Nil]]

(* Mutant of utarray_push_back: nothing is reserved. *)
PushUnreserved(a, p) == [a EXCEPT !.d = [k \in DOMAIN @ |-> IF k = a.i THEN p ELSE @[k]],
                                  !.i = @ + 1]

utarray_push_back(a, p) ==
  LET reserved == utarray_reserve(a, 1)
  IN [reserved EXCEPT !.d[a.i] = p, !.i = @ + 1]

utarray_len(a) == a.i

utarray_eltptr(a, j) == IF j < a.i THEN j ELSE Nil

utarray_front(a) == IF a.i # 0 THEN 0 ELSE Nil

utarray_next(a, e) ==
  IF e = Nil THEN utarray_front(a)
  ELSE IF a.i # e + 1 THEN e + 1 ELSE Nil

(* The elements in use, the first in place 1. *)
Elements(a) == [k \in 1..a.i |-> a.d[k - 1]]
=============================================================================
