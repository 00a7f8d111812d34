------------------------------ MODULE ArrayList ------------------------------
(***************************************************************************)
(* util/array_list.c: a vector of values that grows by doubling.  The loop *)
(* that looks for the new capacity is a step for each doubling.            *)
(***************************************************************************)
EXTENDS Integers, Sequences

CONSTANTS Values,          \* the pointers a client keeps in a list
          NULL

ARRAY_LIST_DEFAULT_CAPACITY == 1024

VARIABLES size, capacity,
          values,          \* the cells of the block, NULL in one nobody wrote
          block,           \* whether list->values is a block, and not NULL
          call,            \* the array_list_initialize that runs:
                           \* idle, initialize, or push for one that called it
          asked, value,    \* its size, and the value of the push
          new_capacity,    \* its local
          list,            \* history: what the list should hold
          lost,            \* history: a block was given up when realloc failed
          fault            \* history: a cell outside of the block was used

vars == <<size, capacity, values, block, call, asked, value, new_capacity, list,
          lost, fault>>

Idle == call = "idle" /\ ~ fault

Cells == DOMAIN values
NoCells == [i \in {} |-> NULL]

Init ==
  /\ size = 0 /\ capacity = 0 /\ new_capacity = 0
  /\ values = NoCells /\ block = FALSE
  /\ call = "idle" /\ asked = 0 /\ value = NULL
  /\ list = <<>> /\ lost = FALSE /\ fault = FALSE

-----------------------------------------------------------------------------
(* Writing list->values[index]. *)
Write(index, v) ==
  IF index \in Cells
  THEN values' = [values EXCEPT ![index] = v] /\ UNCHANGED fault
  ELSE fault' = TRUE /\ UNCHANGED values

(* The call of array_list_initialize, by the client or by array_list_push. *)
Initialize(caller, n, v) ==
  /\ Idle
  /\ call' = caller /\ asked' = n /\ value' = v
  /\ new_capacity' = IF capacity < ARRAY_LIST_DEFAULT_CAPACITY
                     THEN ARRAY_LIST_DEFAULT_CAPACITY ELSE capacity
  /\ UNCHANGED <<size, capacity, values, block, list, lost, fault>>

array_list_initialize == \E n \in Nat : Initialize("initialize", n, value)

array_list_push == \E v \in Values : Initialize("push", size + 1, v)

Double ==
  /\ call # "idle" /\ capacity < asked
  /\ new_capacity < asked
  /\ new_capacity' = 2 * new_capacity
  /\ UNCHANGED <<size, capacity, values, block, call, asked, value, list, lost, fault>>

(* What follows the return of array_list_initialize with OK: a push goes on *)
(* to store its value, in the block b.                                      *)
Return(b) ==
  /\ call' = "idle" /\ UNCHANGED <<asked, value>>
  /\ IF call = "initialize"
     THEN values' = b /\ UNCHANGED <<size, list, fault>>
     ELSE /\ IF size \in DOMAIN b
             THEN values' = [b EXCEPT ![size] = value] /\ UNCHANGED fault
             ELSE values' = b /\ fault' = TRUE
          /\ size' = size + 1
          /\ list' = Append(list, value)

(* There is room: nothing is allocated. *)
Enough ==
  /\ call # "idle" /\ capacity >= asked
  /\ Return(values)
  /\ UNCHANGED <<capacity, block, new_capacity, lost>>

(* realloc keeps what fits of the old block; the rest is not written yet. *)
Grown == [i \in 0..(new_capacity - 1) |-> IF i \in Cells THEN values[i] ELSE NULL]

Reallocate ==
  /\ call # "idle" /\ capacity < asked /\ new_capacity >= asked
  /\ Return(Grown)
  /\ block' = TRUE
  /\ capacity' = new_capacity
  /\ UNCHANGED <<new_capacity, lost>>

(* No memory: the only pointer to the old block is overwritten with NULL,   *)
(* size and capacity stay.                                                  *)
ReallocFails ==
  /\ call # "idle" /\ capacity < asked /\ new_capacity >= asked
  /\ values' = NoCells /\ block' = FALSE
  /\ lost' = (lost \/ block)
  /\ call' = "idle"
  /\ UNCHANGED <<asked, value, size, capacity, new_capacity, list, fault>>

(* Only a read outside of the block changes anything. *)
array_list_get ==
  /\ Idle
  /\ \E index \in 0..(size - 1) : index \notin Cells
  /\ fault' = TRUE
  /\ UNCHANGED <<size, capacity, values, block, call, asked, value, new_capacity, list, lost>>

array_list_set ==
  /\ Idle
  /\ \E index \in 0..(size - 1), v \in Values :
       /\ Write(index, v)
       /\ list' = [list EXCEPT ![index + 1] = v]
  /\ UNCHANGED <<size, capacity, block, call, asked, value, new_capacity, lost>>

array_list_pop ==
  /\ Idle
  /\ size > 0
  /\ size' = size - 1
  /\ fault' = (size - 1 \notin Cells)
  /\ list' = SubSeq(list, 1, Len(list) - 1)
  /\ UNCHANGED <<capacity, values, block, call, asked, value, new_capacity, lost>>

array_list_clear ==
  /\ Idle
  /\ size' = 0 /\ list' = <<>>
  /\ UNCHANGED <<capacity, values, block, call, asked, value, new_capacity, lost, fault>>

(* array_list_destroy, and array_list_construct of the next list. *)
array_list_destroy ==
  /\ Idle
  /\ size' = 0 /\ capacity' = 0 /\ new_capacity' = 0
  /\ values' = NoCells /\ block' = FALSE
  /\ list' = <<>> /\ lost' = FALSE
  /\ UNCHANGED <<call, asked, value, fault>>

Next ==
  \/ array_list_initialize \/ array_list_push
  \/ Double \/ Enough \/ Reallocate \/ ReallocFails
  \/ array_list_get \/ array_list_set \/ array_list_pop
  \/ array_list_clear \/ array_list_destroy

Spec == Init /\ [][Next]_vars

-----------------------------------------------------------------------------
TypeOK ==
  /\ size \in Nat /\ capacity \in Nat /\ new_capacity \in Nat
  /\ values \in [(IF block THEN 0..(capacity - 1) ELSE {}) -> Values \union {NULL}]
  /\ call \in {"idle", "initialize", "push"}
  /\ asked \in Nat /\ value \in Values \union {NULL}
  /\ call = "push" => value \in Values
  /\ list \in Seq(Values)
  /\ block \in BOOLEAN /\ lost \in BOOLEAN /\ fault \in BOOLEAN

(* Until a growing list runs out of memory, it holds what was pushed and    *)
(* set, in order, in a block of at least that many cells: no doubling stops *)
(* short of the place a push writes, and no cell outside of the block is    *)
(* used.                                                                    *)
ListIsKept ==
  ~ lost => /\ ~ fault
            /\ size = Len(list)
            /\ \A k \in 1..Len(list) : k - 1 \in Cells /\ values[k - 1] = list[k]
=============================================================================
