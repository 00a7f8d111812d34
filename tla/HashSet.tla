------------------------------- MODULE HashSet -------------------------------
(***************************************************************************)
(* util/hash_set.c: a set of strings in an open-addressing hash table that *)
(* doubles when it is more than 65% full.                                  *)
(*                                                                         *)
(* A node is its key: the stored hash is a function of the key.  That      *)
(* function, FNV-1a in the code, is the rigid variable hash, chosen in Init*)
(* from Hashes, so that what is checked holds for every way keys collide.  *)
(*                                                                         *)
(* One action per public call.  Only an add that grows the array takes     *)
(* several steps: the loop of _rehash_set has one per slot, and no call    *)
(* starts before it ends.  abort() is a status in which nothing is enabled.*)
(***************************************************************************)
EXTENDS Probing, FiniteSets

CONSTANTS Keys,            \* the strings a client uses, None is not one
          Hashes,          \* the hash functions considered, [Keys -> Nat]
          RequestedNodes,  \* argument of hash_set_initialize
          MaxNodes,        \* BOUND: no growth beyond this many slots
          MallocMayFail,   \* whether an allocation may fail
          Calls,           \* the calls this client makes
          OK, ALLOCATION_ERROR

ASSUME NoneAssumption == None \notin Keys
ASSUME HashesAssumption == Hashes \subseteq [Keys -> Nat]
ASSUME NodesAssumption == RequestedNodes \in Nat /\ MaxNodes \in Nat
ASSUME CallsAssumption ==
  Calls \subseteq {"add", "contains", "remove", "clear", "next"}

VARIABLES nodes,           \* set->nodes: slot -> key or None
          number_nodes,    \* set->number_nodes
          used_nodes,      \* set->used_nodes
          hash,            \* the hash function
          status,          \* idle, rehash, or how abort() was reached
          growing,         \* the add in progress: its key, index, loop counter
          cursor,          \* the client's index for hash_set_next
          yielded, late,   \* history: keys returned, keys added in this walk
          reply            \* the last call that returned

vars == <<nodes, number_nodes, used_nodes, hash, status, growing, cursor,
          yielded, late, reply>>

HASH_SET_DEFAULT_NUM_NODES == 1024

InitialNodes ==
  IF RequestedNodes > 0 THEN RequestedNodes ELSE HASH_SET_DEFAULT_NUM_NODES

Slots == 0 .. number_nodes - 1

Occupied == {i \in Slots : nodes[i] # None}

Stored == {nodes[i] : i \in Occupied}

(* _get_index: the slot where the search for a key stops, if it does. *)
Index(key) == StopsAt(nodes, number_nodes, hash[key], key)

(* Mutant of Crowded: waits for an array that is full. *)
CrowdedWhenFull == used_nodes > number_nodes

(* (float)used_nodes / number_nodes > HASH_SET_LOAD_FACTOR *)
Crowded == 100 * used_nodes > 65 * number_nodes

Reply(op, key, result) == [op |-> op, key |-> key, result |-> result]

Replies ==
  [op : {"init", "add", "contains", "remove", "clear", "start", "next"},
   key : Keys \union {None},
   result : {OK, ALLOCATION_ERROR, TRUE, FALSE}]

(* The outcomes an allocation may have. *)
Allocated == IF MallocMayFail THEN BOOLEAN ELSE {TRUE}

Init ==
  /\ number_nodes = InitialNodes
  /\ nodes = [i \in 0 .. InitialNodes - 1 |-> None]
  /\ used_nodes = 0
  /\ hash \in Hashes
  /\ status = "idle"
  /\ growing = [key |-> None, index |-> 0, next |-> 0]
  /\ cursor = 0 /\ yielded = {} /\ late = {}
  /\ reply = Reply("init", None, OK)

(* A public call starts: the program runs and no call is in progress. *)
Call(op) == op \in Calls /\ status = "idle"

-----------------------------------------------------------------------------
(* _get_index went all the way round: "the set is full", abort(). *)
SearchNeverEnds(key) ==
  /\ \E op \in {"add", "contains", "remove"} : Call(op)
  /\ Index(key) = {}
  /\ status' = "full"
  /\ UNCHANGED <<nodes, number_nodes, used_nodes, hash, growing, cursor,
                 yielded, late, reply>>

Contains(key) ==
  /\ Call("contains")
  /\ \E index \in Index(key) :
       reply' = Reply("contains", key, nodes[index] = key)
  /\ UNCHANGED <<nodes, number_nodes, used_nodes, hash, status, growing,
                 cursor, yielded, late>>

(* Mutant of AssignAndCount: the new node is not counted. *)
AssignWithoutCount(key, index) ==
  /\ nodes' = [nodes EXCEPT ![index] = key]
  /\ late' = late \union {key}
  /\ reply' = Reply("add", key, OK)
  /\ UNCHANGED used_nodes

(* The end of _set_add: the result of _assign_node is not looked at. *)
AssignAndCount(key, index) ==
  /\ \E stored \in Allocated :
       /\ nodes' = IF stored THEN [nodes EXCEPT ![index] = key] ELSE nodes
       /\ late' = IF stored THEN late \union {key} ELSE late
  /\ used_nodes' = used_nodes + 1
  /\ reply' = Reply("add", key, OK)

AddPresent(key) ==
  /\ Call("add")
  /\ \E index \in Index(key) : nodes[index] = key
  /\ reply' = Reply("add", key, OK)
  /\ UNCHANGED <<nodes, number_nodes, used_nodes, hash, status, growing,
                 cursor, yielded, late>>

(* Mutants of AddAbsent: the new key goes to its home slot, whoever is there, *)
(* or to any open slot instead of the first one of its probe sequence.        *)
AddAbsentAtHome(key) ==
  /\ Call("add") /\ ~Crowded
  /\ \E index \in Index(key) :
       /\ nodes[index] = None
       /\ AssignAndCount(key, Probe(number_nodes, hash[key], 0))
  /\ UNCHANGED <<number_nodes, hash, status, growing, cursor, yielded>>

AddAbsentAnywhere(key) ==
  /\ Call("add") /\ ~Crowded
  /\ \E index \in Index(key) : nodes[index] = None
  /\ \E index \in Slots : nodes[index] = None /\ AssignAndCount(key, index)
  /\ UNCHANGED <<number_nodes, hash, status, growing, cursor, yielded>>

AddAbsent(key) ==
  /\ Call("add") /\ ~Crowded
  /\ \E index \in Index(key) :
       nodes[index] = None /\ AssignAndCount(key, index)
  /\ UNCHANGED <<number_nodes, hash, status, growing, cursor, yielded>>

(* Mutant of AddGrow: the slots of the new half are not made. *)
AddGrowUnfilled(key) ==
  /\ Call("add") /\ Crowded
  /\ 2 * number_nodes <= MaxNodes
  /\ \E index \in Index(key) :
       /\ nodes[index] = None
       /\ growing' = [key |-> key, index |-> index, next |-> 0]
  /\ number_nodes' = 2 * number_nodes
  /\ status' = "rehash"
  /\ UNCHANGED <<nodes, used_nodes, hash, cursor, yielded, late, reply>>

(* The crowded set doubles; index stays the one found in the old array. *)
AddGrow(key) ==
  /\ Call("add") /\ Crowded
  /\ 2 * number_nodes <= MaxNodes
  /\ \E index \in Index(key) :
       /\ nodes[index] = None
       /\ growing' = [key |-> key, index |-> index, next |-> 0]
  /\ number_nodes' = 2 * number_nodes
  /\ nodes' = [i \in 0 .. 2 * number_nodes - 1 |->
                 IF i < number_nodes THEN nodes[i] ELSE None]
  /\ status' = "rehash"
  /\ UNCHANGED <<used_nodes, hash, cursor, yielded, late, reply>>

AddGrowFails(key) ==
  /\ Call("add") /\ Crowded /\ MallocMayFail
  /\ \E index \in Index(key) : nodes[index] = None
  /\ reply' = Reply("add", key, ALLOCATION_ERROR)
  /\ UNCHANGED <<nodes, number_nodes, used_nodes, hash, status, growing,
                 cursor, yielded, late>>

(* One iteration of the loop of _rehash_set, on slot i.  A node found in   *)
(* another slot replaces the node there, which has the same key; when the  *)
(* copy cannot be allocated the loop is left.  Half the slots are empty, so *)
(* the search always ends.                                                 *)
RehashNode ==
  LET i == growing.next
      key == nodes[i]
      GoTo(next) == growing' = [growing EXCEPT !.next = next]
  IN /\ status = "rehash" /\ i < number_nodes
     /\ \/ /\ key # None => i \in Index(key)
           /\ GoTo(i + 1)
           /\ UNCHANGED <<nodes, status>>
        \/ /\ key # None
           /\ \E index \in Index(key) \ {i} : nodes[index] = None
           /\ status' = "unindexed"
           /\ UNCHANGED <<nodes, growing>>
        \/ /\ key # None
           /\ \E index \in Index(key) \ {i} : nodes[index] = key
           /\ \/ /\ nodes' = [nodes EXCEPT ![i] = None]
                 /\ GoTo(i + 1)
              \/ /\ MallocMayFail
                 /\ GoTo(number_nodes)
                 /\ UNCHANGED nodes
           /\ UNCHANGED status
     /\ UNCHANGED <<number_nodes, used_nodes, hash, cursor, yielded, late, reply>>

(* The rest of _set_add after _rehash_set returned. *)
AddAfterRehash ==
  /\ status = "rehash" /\ growing.next = number_nodes
  /\ AssignAndCount(growing.key, growing.index)
  /\ status' = "idle"
  /\ growing' = [key |-> None, index |-> 0, next |-> 0]
  /\ UNCHANGED <<number_nodes, hash, cursor, yielded>>

RemoveAbsent(key) ==
  /\ Call("remove")
  /\ \E index \in Index(key) : nodes[index] = None
  /\ reply' = Reply("remove", key, FALSE)
  /\ UNCHANGED <<nodes, number_nodes, used_nodes, hash, status, growing,
                 cursor, yielded, late>>

RemovePresent(key) ==
  /\ Call("remove")
  /\ \E index \in Index(key) :
       nodes[index] = key /\ nodes' = [nodes EXCEPT ![index] = None]
  /\ used_nodes' = used_nodes - 1
  /\ yielded' = yielded \ {key}
  /\ reply' = Reply("remove", key, TRUE)
  /\ UNCHANGED <<number_nodes, hash, status, growing, cursor, late>>

Clear ==
  /\ Call("clear")
  /\ nodes' = [i \in Slots |-> None]
  /\ used_nodes' = 0
  /\ yielded' = {} /\ late' = {}
  /\ reply' = Reply("clear", None, OK)
  /\ UNCHANGED <<number_nodes, hash, status, growing, cursor>>

(* The client sets its index to 0: a walk begins. *)
StartWalk ==
  /\ Call("next")
  /\ cursor' = 0 /\ yielded' = {} /\ late' = {}
  /\ reply' = Reply("start", None, OK)
  /\ UNCHANGED <<nodes, number_nodes, used_nodes, hash, status, growing>>

(* Mutant of NextKey: the client's index is left on the slot returned. *)
NextKeyAgain ==
  /\ Call("next")
  /\ \E i \in Occupied :
       /\ i >= cursor /\ \A j \in Occupied : j >= cursor => i <= j
       /\ cursor' = i
       /\ yielded' = yielded \union {nodes[i]}
       /\ reply' = Reply("next", nodes[i], OK)
  /\ UNCHANGED <<nodes, number_nodes, used_nodes, hash, status, growing, late>>

(* hash_set_next: the first node at or after the client's index. *)
NextKey ==
  /\ Call("next")
  /\ \E i \in Occupied :
       /\ i >= cursor /\ \A j \in Occupied : j >= cursor => i <= j
       /\ cursor' = i + 1
       /\ yielded' = yielded \union {nodes[i]}
       /\ reply' = Reply("next", nodes[i], OK)
  /\ UNCHANGED <<nodes, number_nodes, used_nodes, hash, status, growing, late>>

NextEnd ==
  /\ Call("next")
  /\ \A i \in Occupied : i < cursor
  /\ cursor' = IF cursor < number_nodes THEN number_nodes ELSE cursor
  /\ reply' = Reply("next", None, OK)
  /\ UNCHANGED <<nodes, number_nodes, used_nodes, hash, status, growing,
                 yielded, late>>

Next ==
  \/ \E key \in Keys :
       \/ SearchNeverEnds(key) \/ Contains(key)
       \/ AddPresent(key) \/ AddAbsent(key) \/ AddGrow(key) \/ AddGrowFails(key)
       \/ RemoveAbsent(key) \/ RemovePresent(key)
  \/ RehashNode \/ AddAfterRehash
  \/ Clear \/ StartWalk \/ NextKey \/ NextEnd

Spec == Init /\ [][Next]_vars

(* No two keys have the same home slot while the array has its first size.  *)
Spread ==
  \A k, m \in Keys : Probe(InitialNodes, hash[k], 0)
                      = Probe(InitialNodes, hash[m], 0) => k = m

EmptiesASlot == \E i \in Slots : nodes[i] # None /\ nodes'[i] = None

(* Until the array first grows. *)
NotGrown == number_nodes = InitialNodes

(* A client that stays below the size at which the array grows, and removes *)
(* a key only if no two keys meet.                                          *)
CarefulNext == Next /\ NotGrown' /\ (EmptiesASlot => Spread \/ Clear)

CarefulSpec == Init /\ [][CarefulNext]_vars

-----------------------------------------------------------------------------
(* The state is well formed. *)
TypeOK ==
  /\ number_nodes \in Nat /\ number_nodes >= InitialNodes
  /\ nodes \in [Slots -> Keys \union {None}]
  /\ used_nodes \in Nat
  /\ hash \in Hashes
  /\ status \in {"idle", "rehash", "full", "unindexed"}
  /\ growing \in [key : Keys \union {None}, index : Slots, next : Nat]
  /\ cursor \in Nat
  /\ yielded \subseteq Keys /\ late \subseteq Keys
  /\ reply \in Replies

(* The comment in _get_index calls going all the way round "a logic error   *)
(* that should never happen".  It never does with 3 slots or more: whatever *)
(* is added, removed, grown or not allocated, the next add grows the array  *)
(* before the last slot is taken.                                           *)
NeverFull == status # "full"

(* "this means we went all the way around and the set is full": where a     *)
(* set of one or two slots does abort, every slot is in use.                *)
FullMeansNoSlotFree == status = "full" => Occupied = Slots

(* used_nodes, which alone decides when to grow, never lags behind the      *)
(* slots in use.  remove decrements it for a node that exists, so it cannot *)
(* wrap below zero; a failed allocation or a duplicate only makes it larger.*)
UsedCoversNodes == Cardinality(Occupied) <= used_nodes

(* "not here OR first open slot": a search that ends in an empty slot means *)
(* that the key is stored nowhere.                                          *)
EmptySlotMeansAbsent ==
  status = "idle" =>
    \A key \in Stored : \A index \in Index(key) : nodes[index] # None

(* Until the array first grows, that is so for a client that never removes, *)
(* or removes only where no two keys have the same home slot: the reason why*)
(* the set answers as KeySet does, and proved beside that.                  *)
FoundBeforeGrowth == NotGrown => EmptySlotMeansAbsent

Hidden == {key \in Stored : \E index \in Index(key) : nodes[index] = None}

(* Whatever the array has become, a stored key is lost to a search only by  *)
(* growing and by a remove, which hides the keys whose search now ends in   *)
(* the slot it emptied; no add does it, and no allocation that fails.       *)
HiddenByRemove ==
  status = "idle" /\ status' = "idle" =>
    \A key \in Hidden' \ Hidden :
      reply'.op = "remove" /\ \E i \in Occupied \ Occupied' : i \in Index(key)'

OnlyRemovesHide == [][HiddenByRemove]_vars

(* A stored key leaves the set only by a remove of that key or by a clear:  *)
(* growing, rehashing, and assigning at an index found before the growth    *)
(* overwrite no other key, though allocations fail on the way.              *)
LeavesOnRequest ==
  \A key \in Stored \ Stored' :
    \/ reply'.op = "clear"
    \/ reply'.op = "remove" /\ reply'.key = key

KeysLeaveOnRequest == [][LeavesOnRequest]_vars

(* "nodes already in the hash table must have indexes": growing the array   *)
(* never loses the way to a key.                                            *)
RehashFindsNodes == status # "unindexed"

(* hash_set.h's promise, stated by KeySet: the members are the stored keys; *)
(* a walk owes the keys from its cursor on that were not added during it.   *)
Abstract == INSTANCE KeySet WITH
  members <- Stored,
  given   <- yielded,
  owed    <- {nodes[i] : i \in {j \in Occupied : j >= cursor}} \ late,
  NoKey   <- None

KeySetSpec == Abstract!Spec
=============================================================================
