----------------------------- MODULE SwigObjects -----------------------------
(***************************************************************************)
(* The Python objects that stand for C pointers (SwigPyObject) in          *)
(* fapolicyanalyzer_wrap.c: what they point to, whether they own it, and   *)
(* the further ones chained to them; and the C memory behind them.         *)
(*                                                                         *)
(* An instance of the Python class field_t is not told apart from the      *)
(* SwigPyObject that is its `this`: the one lives as long as the other.    *)
(***************************************************************************)
EXTENDS SwigTypes

CONSTANTS Objects,         \* BOUND: Python objects at a time
          Blocks           \* BOUND: C blocks at a time

VARIABLES obj,             \* [ptr, ty, own, next] of each object, or NULL
          held,            \* the objects the program has a reference to
          lost,            \* the objects with a reference nobody will give back
          mem,             \* what each block holds, NULL if it is not allocated
          fault            \* what the program met that C leaves undefined, or NULL

objectVars == <<obj, held, lost, mem, fault>>

SwigPyObject ==
  [ptr : Blocks, ty : InitialTypes, own : BOOLEAN, next : Objects \union {NULL}]

ASSUME ObjectsAssumption ==
  IsFiniteSet(Objects) /\ NULL \notin Objects \union SwigPyObject

(* C memory: the key and value of a field or of an array at first, a second *)
(* pair for the object's half of a parser, and what the block goes with.    *)
Block(kind) == [kind |-> kind, first |-> NULL, second |-> NULL, of |-> NULL]

(* A block is used again when nothing points to it any more. *)
Free ==
  {b \in Blocks : mem[b] = NULL}
  \ ({obj[o].ptr : o \in {o \in Objects : obj[o] # NULL}}
     \union {mem[b].of : b \in {b \in Blocks : mem[b] # NULL}})

-----------------------------------------------------------------------------
ObjectsInit ==
  /\ obj = [o \in Objects |-> NULL]
  /\ held = {} /\ lost = {}
  /\ mem = [b \in Blocks |-> NULL]
  /\ fault = NULL

Unused == {o \in Objects : obj[o] = NULL}

(* The object and what is chained to it. *)
Chain(o) ==
  LET at[n \in 0..Cardinality(Objects)] ==
        IF n = 0 THEN o ELSE IF at[n - 1] = NULL THEN NULL ELSE obj[at[n - 1]].next
      length == Cardinality({n \in DOMAIN at : at[n] # NULL})
  IN [k \in 1..length |-> at[k - 1]]

(* Does an object of a type go for one of the named type? *)
Fits(ty, as) == ty = as \/ SWIG_TypeCheck(Name(ty), cast[as]) # 0

(* The object of the chain whose pointer a parameter of that type takes, or *)
(* NULL: the call is refused.                                               *)
SWIG_Python_ConvertPtrAndOwn(o, as) ==
  LET chain == Chain(o)
      fitting == {k \in DOMAIN chain : Fits(obj[chain[k]].ty, as)}
  IN IF fitting = {} THEN NULL ELSE chain[Min(fitting)]

(* Looking for another type puts it in front of what the type accepts. *)
Asked(o, as) ==
  LET to == obj[SWIG_Python_ConvertPtrAndOwn(o, as)].ty
  IN IF to = as THEN cast
     ELSE [cast EXCEPT ![as] = MoveToFront(@, SWIG_TypeCheck(Name(to), @))]

-----------------------------------------------------------------------------
(* A pointer that a wrapper returns: a new object, which the program holds. *)
SWIG_Python_NewPointerObj(ptr, ty, own) ==
  \E o \in Unused :
     /\ obj' = [obj EXCEPT ![o] = [ptr |-> ptr, ty |-> ty, own |-> own, next |-> NULL]]
     /\ held' = held \union {o}

(* A second __init__ of a field_t: the new object is chained to the first;  *)
(* the one that was chained to it before is not given back.                 *)
SwigPyObject_append(o, ptr, ty) ==
  \E new \in Unused :
     /\ obj' = [obj EXCEPT ![new] = [ptr |-> ptr, ty |-> ty, own |-> TRUE, next |-> NULL],
                           ![o].next = new]
     /\ lost' = lost \union ({obj[o].next} \ {NULL})

(* The objects that go when o is given back: its chain up to an object that *)
(* someone else refers to.                                                  *)
Dying(o) ==
  LET chain == Chain(o)
      kept == {k \in DOMAIN chain : chain[k] \in lost \/ (k > 1 /\ chain[k] \in held)}
  IN IF kept = {} THEN chain ELSE SubSeq(chain, 1, Min(kept) - 1)

(* The blocks the destructors of their classes free.  An object of a type   *)
(* whose class is not known leaves its block behind.                        *)
FreedBy(objects) ==
  {k \in DOMAIN objects : obj[objects[k]].own /\ clientdata[obj[objects[k]].ty] # NULL}

(* Mutant of SwigPyObject_dealloc: what an object owns is not looked at. *)
DeallocOwned(o) ==
  LET dying == Dying(o)
      freed == {obj[dying[k]].ptr : k \in DOMAIN dying}
  IN /\ obj' = [p \in Objects |-> IF p \in Range(dying) THEN NULL ELSE obj[p]]
     /\ mem' = [b \in Blocks |-> IF b \in freed THEN NULL ELSE mem[b]]
     /\ held' = held \ {o}
     /\ fault' = IF \E b \in freed : mem[b] = NULL THEN "freed twice" ELSE fault
     /\ UNCHANGED lost

(* The program gives an object back. *)
SwigPyObject_dealloc(o) ==
  LET dying == Dying(o)
      freeing == FreedBy(dying)
      freed == {obj[dying[k]].ptr : k \in freeing}
  IN /\ obj' = [p \in Objects |-> IF p \in Range(dying) THEN NULL ELSE obj[p]]
     /\ mem' = [b \in Blocks |-> IF b \in freed THEN NULL ELSE mem[b]]
     /\ held' = held \ {o}
     /\ fault' = IF \/ Cardinality(freed) # Cardinality(freeing)
                    \/ \E b \in freed : mem[b] = NULL
                 THEN "freed twice" ELSE fault
     /\ UNCHANGED lost

(* thisown of a field_t. *)
SwigPyObject_own(o, own) ==
  /\ obj' = [obj EXCEPT ![o].own = own]
  /\ UNCHANGED <<held, lost, mem, fault>>
=============================================================================
