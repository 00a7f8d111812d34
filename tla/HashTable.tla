------------------------------ MODULE HashTable ------------------------------
(***************************************************************************)
(* util/hash_table.c: a map from strings to pointers.  It repeats          *)
(* hash_set.c, function by function, but for the value of a node and for   *)
(* what an add does with a key already there; what is the same is taken    *)
(* from module HashSet, with the state it has here.                        *)
(*                                                                         *)
(* values is the value in each node, None in an empty slot.                *)
(***************************************************************************)
EXTENDS Probing, FiniteSets

CONSTANTS Keys, Values,    \* what a client maps, and to what
          Hashes, RequestedNodes, MaxNodes, MallocMayFail, Calls,
          OK, ALLOCATION_ERROR

ASSUME KeysAssumption == None \notin Keys
ASSUME ValuesAssumption == None \notin Values
ASSUME HashesAssumption == Hashes \subseteq [Keys -> Nat]
ASSUME NodesAssumption == RequestedNodes \in Nat /\ MaxNodes \in Nat

VARIABLES nodes, number_nodes, used_nodes, hash, status, growing, cursor,
          yielded, late, reply,
          values,          \* slot -> value or None
          adding,          \* the value of the add that grows the table
          latest           \* history: the value last given for each key

node_vars == <<nodes, number_nodes, used_nodes, hash, status, growing, cursor,
               yielded, late, reply>>
vars == <<node_vars, values, adding, latest>>

Set == INSTANCE HashSet

(* The values after a step: those of freed nodes and new slots are None,    *)
(* a node that came to be has this one.                                     *)
ValuesNow(value) ==
  [i \in DOMAIN nodes' |->
     CASE nodes'[i] = None -> None
       [] nodes'[i] # None /\ i \in DOMAIN nodes /\ nodes'[i] = nodes[i] -> values[i]
       [] OTHER -> value]

Init ==
  /\ Set!Init
  /\ values = [i \in DOMAIN nodes |-> None]
  /\ adding = None
  /\ latest = [key \in Keys |-> None]

Given(key, value) == latest' = [latest EXCEPT ![key] = value]

AddNew(key, value) ==
  /\ Set!AddAbsent(key)
  /\ values' = ValuesNow(value)
  /\ Given(key, value)
  /\ UNCHANGED adding

(* Mutants of Replace: the count is not taken down for the entry removed;   *)
(* the entry found is left as it is, the way hash_set_add leaves it.        *)
ReplaceUncounted(key, value) ==
  /\ Set!Call("add")
  /\ \E index \in Set!Index(key) :
       /\ nodes[index] = key
       /\ values' = [values EXCEPT ![index] = value]
  /\ status' = IF Set!Crowded THEN "replacing grows" ELSE status
  /\ used_nodes' = used_nodes + 1
  /\ Given(key, value)
  /\ reply' = Set!Reply("add", key, OK)
  /\ UNCHANGED <<nodes, number_nodes, hash, growing, cursor, yielded, late, adding>>

ReplaceKept(key, value) ==
  /\ Set!AddPresent(key)
  /\ Given(key, value)
  /\ UNCHANGED <<values, adding>>

(* "Remove any existing entry": its node is freed and uncounted, and a new  *)
(* one made in its slot, if it can be allocated, and counted in any case.   *)
(* If the table were crowded without the entry it would grow in between.    *)
Replace(key, value) ==
  /\ Set!Call("add")
  /\ \E index \in Set!Index(key), stored \in Set!Allocated :
       /\ nodes[index] = key
       /\ nodes' = [nodes EXCEPT ![index] = IF stored THEN key ELSE None]
       /\ values' = [values EXCEPT ![index] = IF stored THEN value ELSE None]
       /\ yielded' = IF stored THEN yielded ELSE yielded \ {key}
  /\ status' = IF 100 * (used_nodes - 1) > 65 * number_nodes
               THEN "replacing grows" ELSE status
  /\ Given(key, value)
  /\ reply' = Set!Reply("add", key, OK)
  /\ UNCHANGED <<number_nodes, used_nodes, hash, growing, cursor, late, adding>>

AddGrow(key, value) ==
  /\ Set!AddGrow(key)
  /\ values' = ValuesNow(None)
  /\ adding' = value
  /\ Given(key, value)

(* _rehash_table: the values move with their nodes. *)
RehashNode ==
  /\ Set!RehashNode
  /\ LET index == Set!Index(nodes[growing.next])
         i == growing.next
     IN values' = IF nodes' = nodes THEN values
                  ELSE [slot \in DOMAIN values |->
                          CASE slot = i -> None
                            [] slot # i /\ slot \in index -> values[i]
                            [] OTHER -> values[slot]]
  /\ UNCHANGED <<adding, latest>>

AddAfterRehash ==
  /\ Set!AddAfterRehash
  /\ values' = ValuesNow(adding)
  /\ adding' = None
  /\ UNCHANGED latest

(* Mutant of RemovePresent: the value of the freed node is still around. *)
RemovePresentOnly(key) ==
  /\ Set!RemovePresent(key)
  /\ Given(key, None)
  /\ UNCHANGED <<values, adding>>

RemovePresent(key) ==
  /\ Set!RemovePresent(key)
  /\ values' = ValuesNow(None)
  /\ Given(key, None)
  /\ UNCHANGED adding

Clear ==
  /\ Set!Clear
  /\ values' = ValuesNow(None)
  /\ latest' = [key \in Keys |-> None]
  /\ UNCHANGED adding

(* What leaves the nodes alone: contains, next, and the calls that fail.    *)
Look ==
  /\ \/ \E key \in Keys : \/ Set!Contains(key) \/ Set!RemoveAbsent(key)
                          \/ Set!AddGrowFails(key)
     \/ Set!StartWalk \/ Set!NextKey \/ Set!NextEnd
  /\ UNCHANGED <<values, adding, latest>>

(* The search that finds every slot taken, and aborts, is left out: as in   *)
(* HashSet it can occur only in a table made with one slot or two.          *)
Next ==
  \/ \E key \in Keys :
       \/ \E value \in Values : AddNew(key, value) \/ Replace(key, value) \/ AddGrow(key, value)
       \/ RemovePresent(key)
  \/ RehashNode \/ AddAfterRehash \/ Clear \/ Look

Spec == Init /\ [][Next]_vars

(* A client, and memory, that before the table grows empty slots one by one *)
(* only if no two keys meet: by a remove, or by a replacement for which     *)
(* there is no memory.                                                      *)
CarefulNext ==
  Next /\ (Set!EmptiesASlot /\ Set!NotGrown => Set!Spread \/ Clear)

CarefulSpec == Init /\ [][CarefulNext]_vars

-----------------------------------------------------------------------------
TypeOK ==
  /\ nodes \in [Set!Slots -> Keys \union {None}]
  /\ values \in [Set!Slots -> Values \union {None}]
  /\ \A i \in Set!Slots : nodes[i] = None <=> values[i] = None
  /\ used_nodes \in Nat
  /\ latest \in [Keys -> Values \union {None}]

(* An add of a key that is there never grows the table: the entry it takes  *)
(* out first always leaves the load below the threshold, after failed       *)
(* allocations too.  So no slot is empty while the nodes are rehashed that  *)
(* was in use before, and no entry is lost because realloc failed.          *)
ReplacingNeverGrows == status # "replacing grows"

(* The value stored with a key, which hash_table_next hands out, is the one *)
(* last added for it, as long as the table has not grown.                   *)
ValueIsLatest ==
  Set!NotGrown => \A i \in Set!Occupied : values[i] = latest[nodes[i]]

(* No key has two nodes then, and a search that ends in an empty slot means *)
(* that the key is not there.                                               *)
OneNodePerKey ==
  Set!NotGrown => /\ \A i, j \in Set!Occupied : nodes[i] = nodes[j] => i = j
                  /\ Set!EmptySlotMeansAbsent
=============================================================================
