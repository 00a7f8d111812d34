------------------------------- MODULE KeySet -------------------------------
(***************************************************************************)
(* What hash_set.h promises its client: a set of strings, and a walk over  *)
(* it with hash_set_next.  No slots, no hashes, no sizes.                  *)
(*                                                                         *)
(* The walk: given is what hash_set_next has returned since the walk began,*)
(* owed what it still has to return: the members that were there when the  *)
(* walk began, are still there and have not been returned.  A key added    *)
(* during a walk may be returned or missed; no key is returned twice unless*)
(* it was removed in between.                                              *)
(***************************************************************************)
CONSTANTS Keys,       \* the strings a client may add
          NoKey,      \* a call that has no key to say, or NULL returned
          OK, ALLOCATION_ERROR

VARIABLES members, given, owed, reply

vars == <<members, given, owed, reply>>

Reply(op, key, result) == [op |-> op, key |-> key, result |-> result]

Init ==
  /\ members = {} /\ given = {} /\ owed = {}
  /\ reply = Reply("init", NoKey, OK)

Add(k) ==
  /\ members' = members \union {k}
  /\ reply' = Reply("add", k, OK)
  /\ UNCHANGED <<given, owed>>

AddFails(k) ==
  /\ k \notin members
  /\ reply' = Reply("add", k, ALLOCATION_ERROR)
  /\ UNCHANGED <<members, given, owed>>

Contains(k) ==
  /\ reply' = Reply("contains", k, k \in members)
  /\ UNCHANGED <<members, given, owed>>

Remove(k) ==
  /\ members' = members \ {k} /\ given' = given \ {k} /\ owed' = owed \ {k}
  /\ reply' = Reply("remove", k, k \in members)

Clear ==
  /\ members' = {} /\ given' = {} /\ owed' = {}
  /\ reply' = Reply("clear", NoKey, OK)

StartWalk ==
  /\ given' = {} /\ owed' = members
  /\ reply' = Reply("start", NoKey, OK)
  /\ UNCHANGED members

NextKey ==
  \E k \in members \ given :
    /\ given' = given \union {k} /\ owed' = owed \ {k}
    /\ reply' = Reply("next", k, OK)
    /\ UNCHANGED members

NextEnd ==
  /\ owed = {}
  /\ reply' = Reply("next", NoKey, OK)
  /\ UNCHANGED <<members, given, owed>>

Next ==
  \/ \E k \in Keys : Add(k) \/ AddFails(k) \/ Contains(k) \/ Remove(k)
  \/ Clear \/ StartWalk \/ NextKey \/ NextEnd

Spec == Init /\ [][Next]_vars
=============================================================================
