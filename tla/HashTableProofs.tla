--------------------------- MODULE HashTableProofs ---------------------------
(***************************************************************************)
(* Theorems about HashTable, for every set of keys and values, every hash  *)
(* function, every size and whichever allocations fail.                    *)
(***************************************************************************)
EXTENDS HashTable, ProbingProofs, FiniteSetTheorems

(* The load is bounded between the calls, and by one node less while the    *)
(* table grows, as the add that grows it is still to come.                  *)
LoadInv ==
  /\ used_nodes \in Int
  /\ number_nodes \in Int /\ number_nodes >= 1
  /\ 100 * (used_nodes - 1) <= 65 * number_nodes
  /\ status = "rehash" => 100 * used_nodes <= 65 * number_nodes
  /\ ReplacingNeverGrows

(* The arithmetic of it. *)
LEMMA FewerIsLess ==
  ASSUME NEW u \in Int, NEW n \in Int, n >= 1, NEW v \in {u, u - 1, 0}
  PROVE  /\ v \in Int
         /\ 100 * (u - 1) <= 65 * n => 100 * (v - 1) <= 65 * n
         /\ 100 * u <= 65 * n => 100 * v <= 65 * n
OBVIOUS

LEMMA TwiceIsEnough ==
  ASSUME NEW u \in Int, NEW n \in Int, n >= 1, 100 * (u - 1) <= 65 * n
  PROVE  /\ 100 * u <= 65 * (2 * n)
         /\ 100 * (u - 1) <= 65 * (2 * n)
         /\ 2 * n \in Int /\ 2 * n >= 1
<1>1. CASE n = 1  BY <1>1
<1>2. CASE n >= 2  BY <1>2
<1> QED  BY <1>1, <1>2

LEMMA InitLoad == Init => LoadInv
<1> SUFFICES ASSUME Init PROVE LoadInv  OBVIOUS
<1>1. Set!InitialNodes \in Nat /\ Set!InitialNodes >= 1
      BY NodesAssumption DEF Set!InitialNodes, Set!HASH_SET_DEFAULT_NUM_NODES
<1>2. /\ number_nodes = Set!InitialNodes /\ used_nodes = 0
      /\ status = "idle"
      BY DEF Init, Set!Init
<1> QED  BY <1>1, <1>2 DEF LoadInv, ReplacingNeverGrows

(* A step that changes neither the counts nor the status, or only takes a   *)
(* node out.                                                                *)
LEMMA FewerKeepLoad ==
  ASSUME LoadInv, number_nodes' = number_nodes, status' = status,
         \/ used_nodes' = used_nodes
         \/ used_nodes' = used_nodes - 1
         \/ used_nodes' = 0
  PROVE  LoadInv'
<1>1. used_nodes' \in {used_nodes, used_nodes - 1, 0}  OBVIOUS
<1>2. /\ used_nodes' \in Int
      /\ 100 * (used_nodes' - 1) <= 65 * number_nodes
      /\ status = "rehash" => 100 * used_nodes' <= 65 * number_nodes
      BY <1>1, FewerIsLess DEF LoadInv
<1> QED  BY <1>2 DEF LoadInv, ReplacingNeverGrows

LEMMA AddNewKeepsLoad ==
  ASSUME LoadInv, NEW key, NEW value, AddNew(key, value)
  PROVE  LoadInv'
<1>1. /\ status = "idle" /\ status' = status /\ number_nodes' = number_nodes
      /\ used_nodes' = used_nodes + 1
      /\ ~ (100 * used_nodes > 65 * number_nodes)
      BY DEF AddNew, Set!AddAbsent, Set!Call, Set!Crowded, Set!AssignAndCount
<1> QED  BY <1>1 DEF LoadInv, ReplacingNeverGrows

(* The entry found is counted among used_nodes, so that without it the load *)
(* is below the threshold.                                                  *)
LEMMA ReplaceKeepsLoad ==
  ASSUME LoadInv, NEW key, NEW value, Replace(key, value)
  PROVE  LoadInv'
<1>1. ~ (100 * (used_nodes - 1) > 65 * number_nodes)  BY DEF LoadInv
<1>2. /\ status' = status /\ number_nodes' = number_nodes
      /\ used_nodes' = used_nodes
      BY <1>1 DEF Replace
<1> QED  BY <1>2, FewerKeepLoad

(* Twice the slots are enough for one node more.                            *)
LEMMA AddGrowKeepsLoad ==
  ASSUME LoadInv, NEW key, NEW value, AddGrow(key, value)
  PROVE  LoadInv'
<1>1. /\ status' = "rehash" /\ used_nodes' = used_nodes
      /\ number_nodes' = 2 * number_nodes
      BY DEF AddGrow, Set!AddGrow
<1>2. /\ 100 * used_nodes <= 65 * (2 * number_nodes)
      /\ 100 * (used_nodes - 1) <= 65 * (2 * number_nodes)
      /\ 2 * number_nodes \in Int /\ 2 * number_nodes >= 1
      BY TwiceIsEnough DEF LoadInv
<1> QED  BY <1>1, <1>2 DEF LoadInv, ReplacingNeverGrows

LEMMA RehashKeepsLoad ==
  ASSUME LoadInv, RehashNode
  PROVE  LoadInv'
<1>1. /\ status = "rehash" /\ status' \in {"rehash", "unindexed"}
      /\ used_nodes' = used_nodes /\ number_nodes' = number_nodes
      BY DEF RehashNode, Set!RehashNode
<1> QED  BY <1>1 DEF LoadInv, ReplacingNeverGrows

LEMMA AfterRehashKeepsLoad ==
  ASSUME LoadInv, AddAfterRehash
  PROVE  LoadInv'
<1>1. /\ status = "rehash" /\ status' = "idle"
      /\ used_nodes' = used_nodes + 1 /\ number_nodes' = number_nodes
      BY DEF AddAfterRehash, Set!AddAfterRehash, Set!AssignAndCount
<1> QED  BY <1>1 DEF LoadInv, ReplacingNeverGrows

LEMMA LookKeepsLoad ==
  ASSUME LoadInv, Look
  PROVE  LoadInv'
<1>1. /\ used_nodes' = used_nodes /\ number_nodes' = number_nodes
      /\ status' = status
      BY DEF Look, Set!Contains, Set!RemoveAbsent, Set!AddGrowFails,
             Set!StartWalk, Set!NextKey, Set!NextEnd
<1> QED  BY <1>1, FewerKeepLoad

LEMMA NextKeepsLoad == LoadInv /\ [Next]_vars => LoadInv'
<1> SUFFICES ASSUME LoadInv, [Next]_vars PROVE LoadInv'  OBVIOUS
<1>1. ASSUME NEW key \in Keys, RemovePresent(key) PROVE LoadInv'
      BY <1>1, FewerKeepLoad DEF RemovePresent, Set!RemovePresent
<1>2. CASE Clear  BY <1>2, FewerKeepLoad DEF Clear, Set!Clear
<1>3. CASE UNCHANGED vars  BY <1>3, FewerKeepLoad DEF vars, node_vars
<1> QED
  BY <1>1, <1>2, <1>3, AddNewKeepsLoad, ReplaceKeepsLoad, AddGrowKeepsLoad,
     RehashKeepsLoad, AfterRehashKeepsLoad, LookKeepsLoad DEF Next

(* hash_table_add, "Remove any existing entry": an add of a key that is     *)
(* there never grows the table, so that the array is never rehashed with    *)
(* the hole the removed entry left, and a failing realloc loses no entry.   *)
THEOREM ReplacementStaysInPlace == Spec => []ReplacingNeverGrows
<1>1. LoadInv => ReplacingNeverGrows  BY DEF LoadInv
<1> QED  BY <1>1, InitLoad, NextKeepsLoad, PTL DEF Spec

-----------------------------------------------------------------------------
(***************************************************************************)
(* The table is well formed: a node and its value come and go together,    *)
(* through growth and the rehash that moves them.                          *)
(***************************************************************************)
LEMMA InitialNodesPositive == Set!InitialNodes \in Nat /\ Set!InitialNodes >= 1
BY NodesAssumption DEF Set!InitialNodes, Set!HASH_SET_DEFAULT_NUM_NODES

(* The search of the set is the one Probing defines. *)
LEMMA SameSearch ==
  ASSUME NEW key
  PROVE  Set!Index(key) = StopsAt(nodes, number_nodes, hash[key], key)
BY DEF Set!Index, Set!StopsAt, StopsAt, Set!PassesBy, PassesBy, Set!Probe, Probe

GrowthInv ==
  status = "rehash" =>
    /\ growing.key \in Keys /\ growing.index \in Set!Slots
    /\ adding \in Values
    /\ number_nodes >= 2 * Set!InitialNodes

TableInv ==
  /\ TypeOK
  /\ number_nodes \in Nat /\ number_nodes >= Set!InitialNodes
  /\ hash \in Hashes
  /\ growing \in [key : Keys \union {None}, index : Nat, next : Nat]
  /\ Cardinality(Set!Occupied) <= used_nodes
  /\ GrowthInv

LEMMA IndexInSlots ==
  ASSUME TableInv, NEW key \in Keys, NEW index \in Set!Index(key)
  PROVE  /\ index \in Set!Slots /\ nodes[index] \in {None, key}
         /\ Set!Index(key) = {index}
<1>1. hash[key] \in Nat /\ number_nodes \in Nat /\ number_nodes > 0
      BY InitialNodesPositive, HashesAssumption DEF TableInv
<1>2. index \in StopsAt(nodes, number_nodes, hash[key], key)  BY SameSearch
<1>3. index \in Set!Slots /\ nodes[index] \in {None, key}
      BY <1>1, <1>2, StopsAtSlot DEF Set!Slots
<1>4. Reached(nodes, number_nodes, hash[key], key, index)  BY <1>2, StopsWhereReached
<1> QED  BY <1>1, <1>3, <1>4, StopsOnlyThere, SameSearch

(* Slots that come into use and go out of use. *)
LEMMA OccupiedFinite ==
  ASSUME number_nodes \in Nat
  PROVE  IsFiniteSet(Set!Occupied) /\ Cardinality(Set!Occupied) \in Nat
<1>1. IsFiniteSet(0 .. number_nodes - 1)  BY FS_Interval
<1>2. Set!Occupied \in SUBSET (0 .. number_nodes - 1)  BY DEF Set!Occupied, Set!Slots
<1> QED  BY <1>1, <1>2, FS_Subset, FS_CardinalityType

LEMMA FewerOccupied ==
  ASSUME number_nodes \in Nat, Set!Occupied' \subseteq Set!Occupied
  PROVE  /\ Cardinality(Set!Occupied') \in Nat
         /\ Cardinality(Set!Occupied') <= Cardinality(Set!Occupied)
         /\ Set!Occupied' # Set!Occupied =>
              Cardinality(Set!Occupied') < Cardinality(Set!Occupied)
BY OccupiedFinite, FS_Subset, FS_CardinalityType

LEMMA OneMoreOccupied ==
  ASSUME number_nodes \in Nat, NEW index,
         Set!Occupied' \subseteq Set!Occupied \union {index}
  PROVE  /\ Cardinality(Set!Occupied') \in Nat
         /\ Cardinality(Set!Occupied') <= Cardinality(Set!Occupied) + 1
<1> DEFINE O == Set!Occupied
           P == Set!Occupied'
<1>1. IsFiniteSet(O) /\ Cardinality(O) \in Nat  BY OccupiedFinite
<1>2. P \subseteq O \union {index}  OBVIOUS
<1> HIDE DEF O, P
<1>3. /\ IsFiniteSet(O \union {index})
      /\ Cardinality(O \union {index}) =
           IF index \in O THEN Cardinality(O) ELSE Cardinality(O) + 1
      BY <1>1, FS_AddElement
<1>4. Cardinality(O \union {index}) <= Cardinality(O) + 1  BY <1>1, <1>3
<1>5. Cardinality(P) \in Nat /\ Cardinality(P) <= Cardinality(O \union {index})
      BY <1>2, <1>3, FS_Subset, FS_CardinalityType
<1>6. Cardinality(O \union {index}) \in Nat  BY <1>3, FS_CardinalityType
<1> QED  BY <1>1, <1>4, <1>5, <1>6 DEF O, P

(* The values after a step: a node that came to be needs one.               *)
LEMMA ValuesNowTyped ==
  ASSUME TypeOK, nodes' \in [Set!Slots' -> Keys \union {None}],
         NEW value \in Values \union {None}, values' = ValuesNow(value),
         \A i \in Set!Slots' : nodes'[i] # None =>
           value # None \/ (i \in Set!Slots /\ nodes'[i] = nodes[i])
  PROVE  /\ values' \in [Set!Slots' -> Values \union {None}]
         /\ \A i \in Set!Slots' : nodes'[i] = None <=> values'[i] = None
<1>1. DOMAIN nodes = Set!Slots /\ DOMAIN nodes' = Set!Slots'  BY DEF TypeOK
<1>2. ASSUME NEW i \in Set!Slots'
      PROVE  /\ values'[i] \in Values \union {None}
             /\ nodes'[i] = None <=> values'[i] = None
  <2>1. values'[i] = CASE nodes'[i] = None -> None
                       [] nodes'[i] # None /\ i \in Set!Slots /\ nodes'[i] = nodes[i] -> values[i]
                       [] OTHER -> value
        BY <1>1 DEF ValuesNow
  <2>2. CASE nodes'[i] = None  BY <2>1, <2>2
  <2>3. CASE nodes'[i] # None /\ i \in Set!Slots /\ nodes'[i] = nodes[i]
        BY <2>1, <2>3 DEF TypeOK
  <2>4. CASE nodes'[i] # None /\ ~ (i \in Set!Slots /\ nodes'[i] = nodes[i])
        BY <2>1, <2>4
  <2> QED  BY <2>2, <2>3, <2>4
<1> QED  BY <1>1, <1>2 DEF ValuesNow

LEMMA InitTable == Init => TableInv
<1> SUFFICES ASSUME Init PROVE TableInv  OBVIOUS
<1> USE InitialNodesPositive
<1>1. TypeOK  BY DEF Init, Set!Init, TypeOK, Set!Slots
<1>2. Set!Occupied = {}  BY DEF Init, Set!Init, Set!Occupied, Set!Slots
<1>3. Cardinality(Set!Occupied) <= used_nodes
      BY <1>2, FS_EmptySet DEF Init, Set!Init
<1> QED  BY <1>1, <1>3 DEF Init, Set!Init, TableInv, GrowthInv

(* The end of an add, with the array as large as it was. *)
LEMMA AssignKeepsTable ==
  ASSUME TableInv, NEW key \in Keys, NEW index \in Set!Slots, NEW value \in Values,
         Set!AssignAndCount(key, index), values' = ValuesNow(value),
         UNCHANGED <<number_nodes, hash>>, status' # "rehash",
         growing' \in [key : Keys \union {None}, index : Nat, next : Nat],
         latest' \in [Keys -> Values \union {None}]
  PROVE  TableInv'
<1>1. Set!Slots' = Set!Slots  BY DEF Set!Slots
<1>2. /\ nodes' = nodes \/ nodes' = [nodes EXCEPT ![index] = key]
      /\ used_nodes' = used_nodes + 1
      BY DEF Set!AssignAndCount
<1>3. nodes' \in [Set!Slots' -> Keys \union {None}]
      BY <1>1, <1>2 DEF TableInv, TypeOK
<1>4. /\ values' \in [Set!Slots' -> Values \union {None}]
      /\ \A i \in Set!Slots' : nodes'[i] = None <=> values'[i] = None
  <2>1. value # None  BY ValuesAssumption
  <2> QED  BY <1>3, <2>1, ValuesNowTyped DEF TableInv
<1>5. Set!Occupied' \subseteq Set!Occupied \union {index}
      BY <1>1, <1>2 DEF Set!Occupied, TableInv, TypeOK
<1>6. Cardinality(Set!Occupied') <= used_nodes'
      BY <1>2, <1>5, OneMoreOccupied, OccupiedFinite DEF TableInv, TypeOK
<1>7. TypeOK'  BY <1>2, <1>3, <1>4 DEF TypeOK, TableInv
<1> QED  BY <1>6, <1>7 DEF TableInv, GrowthInv
LEMMA GivenTyped ==
  ASSUME TypeOK, NEW key \in Keys, NEW value \in Values \union {None}, Given(key, value)
  PROVE  latest' \in [Keys -> Values \union {None}]
BY DEF Given, TypeOK

LEMMA AddNewTable ==
  ASSUME TableInv, NEW key \in Keys, NEW value \in Values, AddNew(key, value)
  PROVE  TableInv'
<1>1. PICK index \in Set!Index(key) : Set!AssignAndCount(key, index)
      BY DEF AddNew, Set!AddAbsent
<1>2. index \in Set!Slots  BY IndexInSlots
<1>3. /\ UNCHANGED <<number_nodes, hash, status, growing>>
      /\ status = "idle" /\ values' = ValuesNow(value)
      BY DEF AddNew, Set!AddAbsent, Set!Call
<1>4. latest' \in [Keys -> Values \union {None}]
      BY GivenTyped DEF AddNew, TableInv
<1> QED  BY <1>1, <1>2, <1>3, <1>4, AssignKeepsTable DEF TableInv

LEMMA AddAfterRehashTable ==
  ASSUME TableInv, AddAfterRehash
  PROVE  TableInv'
<1>1. /\ Set!AssignAndCount(growing.key, growing.index)
      /\ UNCHANGED <<number_nodes, hash>> /\ status' # "rehash"
      /\ growing' = [key |-> None, index |-> 0, next |-> 0]
      /\ values' = ValuesNow(adding) /\ latest' = latest
      BY DEF AddAfterRehash, Set!AddAfterRehash
<1>2. growing.key \in Keys /\ growing.index \in Set!Slots /\ adding \in Values
      BY DEF AddAfterRehash, Set!AddAfterRehash, TableInv, GrowthInv
<1>3. latest' \in [Keys -> Values \union {None}]  BY <1>1 DEF TableInv, TypeOK
<1> QED  BY <1>1, <1>2, <1>3, AssignKeepsTable

(* A replacement leaves the slots in use as they are, or takes one out.     *)
LEMMA ReplaceTable ==
  ASSUME TableInv, NEW key \in Keys, NEW value \in Values, Replace(key, value)
  PROVE  TableInv'
<1>1. PICK index \in Set!Index(key), stored \in Set!Allocated :
        /\ nodes[index] = key
        /\ nodes' = [nodes EXCEPT ![index] = IF stored THEN key ELSE None]
        /\ values' = [values EXCEPT ![index] = IF stored THEN value ELSE None]
      BY DEF Replace
<1>2. index \in Set!Slots  BY IndexInSlots
<1>3. /\ UNCHANGED <<number_nodes, used_nodes, hash, growing, adding>>
      /\ status = "idle" /\ status' # "rehash"
      BY DEF Replace, Set!Call
<1>4. Set!Slots' = Set!Slots  BY <1>3 DEF Set!Slots
<1>5. latest' \in [Keys -> Values \union {None}]
      BY GivenTyped DEF Replace, TableInv
<1>6. /\ nodes' \in [Set!Slots -> Keys \union {None}]
      /\ values' \in [Set!Slots -> Values \union {None}]
      /\ \A i \in Set!Slots : nodes'[i] = None <=> values'[i] = None
      BY <1>1, <1>2, KeysAssumption, ValuesAssumption DEF TableInv, TypeOK
<1>7. Set!Occupied' \subseteq Set!Occupied
      BY <1>1, <1>2, <1>4, KeysAssumption DEF Set!Occupied, TableInv, TypeOK
<1>8. Cardinality(Set!Occupied') <= used_nodes'
      BY <1>3, <1>7, FewerOccupied, OccupiedFinite DEF TableInv, TypeOK
<1> QED  BY <1>3, <1>4, <1>5, <1>6, <1>8 DEF TableInv, TypeOK, GrowthInv

LEMMA AddGrowTable ==
  ASSUME TableInv, NEW key \in Keys, NEW value \in Values, AddGrow(key, value)
  PROVE  TableInv'
<1>1. PICK index \in Set!Index(key) :
        growing' = [key |-> key, index |-> index, next |-> 0]
      BY DEF AddGrow, Set!AddGrow
<1>2. /\ number_nodes' = 2 * number_nodes /\ UNCHANGED <<used_nodes, hash>>
      /\ nodes' = [i \in 0 .. 2 * number_nodes - 1 |->
                     IF i < number_nodes THEN nodes[i] ELSE None]
      /\ values' = ValuesNow(None) /\ adding' = value
      BY DEF AddGrow, Set!AddGrow
<1>3. index \in Set!Slots  BY IndexInSlots
<1>4. number_nodes \in Nat /\ number_nodes >= Set!InitialNodes /\ Set!InitialNodes >= 1
      /\ Set!InitialNodes \in Nat
      BY InitialNodesPositive DEF TableInv
<1>5. /\ nodes' \in [Set!Slots' -> Keys \union {None}]
      /\ \A i \in Set!Slots' : nodes'[i] # None => i \in Set!Slots /\ nodes'[i] = nodes[i]
      BY <1>2, <1>4 DEF TableInv, TypeOK, Set!Slots
<1>6. /\ values' \in [Set!Slots' -> Values \union {None}]
      /\ \A i \in Set!Slots' : nodes'[i] = None <=> values'[i] = None
      BY <1>2, <1>5, ValuesNowTyped DEF TableInv
<1>7. latest' \in [Keys -> Values \union {None}]
      BY GivenTyped DEF AddGrow, TableInv
<1>8. Set!Occupied' \subseteq Set!Occupied  BY <1>5 DEF Set!Occupied
<1>9. Cardinality(Set!Occupied') <= used_nodes'
      BY <1>2, <1>8, FewerOccupied, OccupiedFinite DEF TableInv, TypeOK
<1>10. growing' \in [key : Keys \union {None}, index : Nat, next : Nat]
       BY <1>1, <1>3 DEF Set!Slots
<1>11. GrowthInv'
  <2>1. index \in Set!Slots'  BY <1>2, <1>3, <1>4 DEF Set!Slots
  <2> QED  BY <2>1, <1>1, <1>2, <1>4 DEF GrowthInv
<1>12. TypeOK'  BY <1>2, <1>5, <1>6, <1>7 DEF TypeOK, TableInv
<1> QED  BY <1>2, <1>4, <1>9, <1>10, <1>11, <1>12 DEF TableInv

(* Where a node moves its value moves with it: to the slot where the search *)
(* for its key stops, which holds the same key.                             *)
LEMMA RehashTable ==
  ASSUME TableInv, RehashNode
  PROVE  TableInv'
<1> DEFINE i == growing.next
<1>1. /\ UNCHANGED <<number_nodes, used_nodes, hash, adding, latest>>
      /\ status = "rehash" /\ i \in Set!Slots /\ number_nodes \in Nat
      BY DEF RehashNode, Set!RehashNode, TableInv, Set!Slots
<1>2. Set!Slots' = Set!Slots  BY <1>1 DEF Set!Slots
<1>3. /\ growing' \in [key : Keys \union {None}, index : Nat, next : Nat]
      /\ growing'.key = growing.key /\ growing'.index = growing.index
      BY <1>1 DEF RehashNode, Set!RehashNode, TableInv
<1>4. /\ nodes' \in [Set!Slots -> Keys \union {None}]
      /\ values' \in [Set!Slots -> Values \union {None}]
      /\ \A s \in Set!Slots : nodes'[s] = None <=> values'[s] = None
      /\ Set!Occupied' \subseteq Set!Occupied
  <2>1. CASE nodes' = nodes
    <3>1. values' = values  BY <2>1 DEF RehashNode
    <3> QED  BY <2>1, <3>1, <1>2 DEF TableInv, TypeOK, Set!Occupied
  <2>2. CASE nodes' # nodes
    <3>1. /\ nodes[i] # None /\ nodes' = [nodes EXCEPT ![i] = None]
          /\ \E index \in Set!Index(nodes[i]) \ {i} : nodes[index] = nodes[i]
          BY <2>2 DEF RehashNode, Set!RehashNode
    <3>2. nodes[i] \in Keys  BY <1>1, <3>1 DEF TableInv, TypeOK
    <3>3. PICK index \in Set!Index(nodes[i]) : index # i /\ nodes[index] = nodes[i]
          BY <3>1
    <3>4. index \in Set!Slots /\ Set!Index(nodes[i]) = {index}
          BY <3>2, <3>3, IndexInSlots
    <3>5. values' = [slot \in DOMAIN values |->
                       CASE slot = i -> None
                         [] slot # i /\ slot \in {index} -> values[i]
                         [] OTHER -> values[slot]]
          BY <2>2, <3>4 DEF RehashNode
    <3>6. ASSUME NEW s \in Set!Slots
          PROVE  /\ values'[s] \in Values \union {None}
                 /\ nodes'[s] = None <=> values'[s] = None
      <4> HIDE DEF i
      <4>1. values'[s] = CASE s = i -> None
                           [] s # i /\ s = index -> values[i]
                           [] OTHER -> values[s]
            BY <3>5 DEF TableInv, TypeOK
      <4>2. nodes'[s] = IF s = i THEN None ELSE nodes[s]
            BY <3>1, <1>1 DEF TableInv, TypeOK
      <4>3. CASE s = i  BY <4>1, <4>2, <4>3
      <4>4. CASE s # i /\ s = index
            BY <4>1, <4>2, <4>4, <3>1, <3>3, <1>1 DEF TableInv, TypeOK
      <4>5. CASE s # i /\ s # index
            BY <4>1, <4>2, <4>5 DEF TableInv, TypeOK
      <4> QED  BY <4>3, <4>4, <4>5
    <3>7. values' \in [Set!Slots -> Values \union {None}]
          BY <3>5, <3>6 DEF TableInv, TypeOK
    <3> QED  BY <3>1, <3>6, <3>7, <1>1, <1>2 DEF TableInv, TypeOK, Set!Occupied
  <2> QED  BY <2>1, <2>2
<1>5. Cardinality(Set!Occupied') <= used_nodes'
      BY <1>1, <1>4, FewerOccupied, OccupiedFinite DEF TableInv, TypeOK
<1>6. GrowthInv'  BY <1>1, <1>2, <1>3 DEF TableInv, GrowthInv
<1> QED  BY <1>1, <1>2, <1>3, <1>4, <1>5, <1>6 DEF TableInv, TypeOK

LEMMA RemoveTable ==
  ASSUME TableInv, NEW key \in Keys, RemovePresent(key)
  PROVE  TableInv'
<1>1. PICK index \in Set!Index(key) :
        nodes[index] = key /\ nodes' = [nodes EXCEPT ![index] = None]
      BY DEF RemovePresent, Set!RemovePresent
<1>2. index \in Set!Slots  BY IndexInSlots
<1>3. /\ UNCHANGED <<number_nodes, hash, status, growing, adding>>
      /\ used_nodes' = used_nodes - 1 /\ values' = ValuesNow(None)
      BY DEF RemovePresent, Set!RemovePresent
<1>4. Set!Slots' = Set!Slots  BY <1>3 DEF Set!Slots
<1>5. /\ nodes' \in [Set!Slots' -> Keys \union {None}]
      /\ \A i \in Set!Slots' : nodes'[i] # None => nodes'[i] = nodes[i]
      BY <1>1, <1>2, <1>4 DEF TableInv, TypeOK
<1>6. /\ values' \in [Set!Slots' -> Values \union {None}]
      /\ \A i \in Set!Slots' : nodes'[i] = None <=> values'[i] = None
      BY <1>3, <1>4, <1>5, ValuesNowTyped DEF TableInv
<1>7. Set!Occupied' \subseteq Set!Occupied /\ Set!Occupied' # Set!Occupied
  <2>1. index \in Set!Occupied /\ index \notin Set!Occupied'
        BY <1>1, <1>2, KeysAssumption DEF Set!Occupied, TableInv, TypeOK
  <2> QED  BY <2>1, <1>4, <1>5 DEF Set!Occupied
<1>8. used_nodes' \in Nat /\ Cardinality(Set!Occupied') <= used_nodes'
      BY <1>3, <1>7, FewerOccupied, OccupiedFinite DEF TableInv, TypeOK
<1>9. latest' \in [Keys -> Values \union {None}]
      BY GivenTyped DEF RemovePresent, TableInv
<1> QED  BY <1>3, <1>4, <1>5, <1>6, <1>8, <1>9 DEF TableInv, TypeOK, GrowthInv

LEMMA ClearTable ==
  ASSUME TableInv, Clear
  PROVE  TableInv'
<1>1. /\ UNCHANGED <<number_nodes, hash, status, growing, adding>>
      /\ used_nodes' = 0 /\ values' = ValuesNow(None)
      /\ nodes' = [i \in Set!Slots |-> None]
      /\ latest' = [key \in Keys |-> None] /\ status = "idle"
      BY DEF Clear, Set!Clear, Set!Call
<1>2. Set!Slots' = Set!Slots  BY <1>1 DEF Set!Slots
<1>3. /\ values' \in [Set!Slots' -> Values \union {None}]
      /\ \A i \in Set!Slots' : nodes'[i] = None <=> values'[i] = None
      BY <1>1, <1>2, ValuesNowTyped DEF TableInv
<1>4. Set!Occupied' = {}  BY <1>1, <1>2 DEF Set!Occupied
<1>5. Cardinality(Set!Occupied') <= used_nodes'  BY <1>1, <1>4, FS_EmptySet
<1> QED  BY <1>1, <1>2, <1>3, <1>5 DEF TableInv, TypeOK, GrowthInv

LEMMA SameTable ==
  ASSUME TableInv,
         UNCHANGED <<nodes, number_nodes, used_nodes, hash, growing, values, adding, latest>>,
         status' = status \/ status' # "rehash"
  PROVE  TableInv'
<1>1. Set!Slots' = Set!Slots /\ Set!Occupied' = Set!Occupied
      BY DEF Set!Slots, Set!Occupied
<1> QED  BY <1>1 DEF TableInv, TypeOK, GrowthInv

LEMMA LookTable ==
  ASSUME TableInv, Look
  PROVE  TableInv'
<1>1. /\ UNCHANGED <<nodes, number_nodes, used_nodes, hash, growing, values, adding, latest>>
      /\ status' = status
      BY DEF Look, Set!Contains, Set!RemoveAbsent, Set!AddGrowFails,
             Set!StartWalk, Set!NextKey, Set!NextEnd
<1> QED  BY <1>1, SameTable

LEMMA NextTable == TableInv /\ [Next]_vars => TableInv'
<1> SUFFICES ASSUME TableInv, [Next]_vars PROVE TableInv'  OBVIOUS
<1>1. CASE UNCHANGED vars  BY <1>1, SameTable DEF vars, node_vars
<1> QED
  BY <1>1, AddNewTable, ReplaceTable, AddGrowTable, RehashTable,
     AddAfterRehashTable, RemoveTable, ClearTable, LookTable DEF Next

(* The state of hash_table.c stays well formed: there is a value exactly    *)
(* where there is a node, through growth, rehashing and failed allocations. *)
THEOREM TypeCorrect == Spec => []TypeOK
<1>1. TableInv => TypeOK  BY DEF TableInv
<1> QED  BY <1>1, InitTable, NextTable, PTL DEF Spec
-----------------------------------------------------------------------------
(***************************************************************************)
(* The client that cuts no probe sequence, until the table grows: every    *)
(* node is on the way of the search for its key, at home if no two keys    *)
(* have the same home; and its value is the last one given.                *)
(***************************************************************************)
HomeOf(key) == Probe(number_nodes, hash[key], 0)

OnTheWay(slot) ==
  Reached(nodes, number_nodes, hash[nodes[slot]], nodes[slot], slot)

MapInv ==
  Set!NotGrown => \A slot \in Set!Occupied :
                    /\ OnTheWay(slot)
                    /\ Set!Spread => slot = HomeOf(nodes[slot])
                    /\ values[slot] = latest[nodes[slot]]

LEMMA SpreadIsRigid ==
  ASSUME UNCHANGED hash
  PROVE  Set!Spread' <=> Set!Spread
BY DEF Set!Spread, Set!Probe, Set!InitialNodes, Set!HASH_SET_DEFAULT_NUM_NODES

(* The search for a key that has a node on its way finds that node.         *)
LEMMA NodeIsFound ==
  ASSUME TableInv, NEW slot \in Set!Occupied, OnTheWay(slot)
  PROVE  nodes[slot] \in Keys /\ Set!Index(nodes[slot]) = {slot}
<1>1. nodes[slot] \in Keys  BY DEF TableInv, TypeOK, Set!Occupied
<1>2. hash[nodes[slot]] \in Nat /\ number_nodes \in Nat
      BY <1>1, HashesAssumption DEF TableInv
<1> QED  BY <1>1, <1>2, StopsOnlyThere, SameSearch DEF OnTheWay

(* So the node where the search stops is the only one of its key, and when  *)
(* it stops at an empty slot there is none.                                 *)
LEMMA OnlyNode ==
  ASSUME TableInv, MapInv, Set!NotGrown, NEW key \in Keys,
         NEW index \in Set!Index(key), NEW slot \in Set!Occupied, nodes[slot] = key
  PROVE  slot = index
BY NodeIsFound DEF MapInv

(* Where a new node goes: the first open slot of its probe sequence, which  *)
(* is its home if no two keys have the same.                                *)
LEMMA NewNodePlace ==
  ASSUME TableInv, MapInv, Set!NotGrown, NEW key \in Keys,
         NEW index \in Set!Index(key)
  PROVE  /\ Reached(nodes, number_nodes, hash[key], key, index)
         /\ Set!Spread => index = HomeOf(key)
<1>1. Reached(nodes, number_nodes, hash[key], key, index)
      BY SameSearch, StopsWhereReached
<1>2. ASSUME Set!Spread PROVE index = HomeOf(key)
  <2> DEFINE home == HomeOf(key)
  <2>1. hash[key] \in Nat /\ number_nodes \in Nat /\ number_nodes > 0
        BY InitialNodesPositive, HashesAssumption DEF TableInv
  <2>2. home \in Set!Slots  BY <2>1, ProbeInSlots DEF HomeOf, Set!Slots
  <2>3. nodes[home] \in {None, key}
    <3>1. SUFFICES ASSUME nodes[home] # None PROVE nodes[home] = key  OBVIOUS
    <3>2. home \in Set!Occupied  BY <2>2, <3>1 DEF Set!Occupied
    <3>3. HomeOf(nodes[home]) = home /\ nodes[home] \in Keys
          BY <3>2, <1>2 DEF MapInv, TableInv, TypeOK, Set!Occupied
    <3> QED  BY <3>3, <1>2 DEF Set!Spread, Set!Probe, Probe, HomeOf, Set!NotGrown
  <2>4. Reached(nodes, number_nodes, hash[key], key, home)
        BY <2>1, HomeIsReached DEF HomeOf
  <2> HIDE DEF home
  <2>5. StopsAt(nodes, number_nodes, hash[key], key) = {home}
        BY <2>1, <2>3, <2>4, StopsOnlyThere
  <2> QED  BY <2>5, SameSearch DEF home
<1> QED  BY <1>1, <1>2

LEMMA AddNewMap ==
  ASSUME TableInv, MapInv, NEW key \in Keys, NEW value \in Values, AddNew(key, value)
  PROVE  MapInv'
<1> SUFFICES ASSUME Set!NotGrown', NEW slot \in Set!Occupied'
             PROVE  /\ OnTheWay(slot)'
                    /\ Set!Spread' => slot = HomeOf(nodes[slot])'
                    /\ (values[slot] = latest[nodes[slot]])'
    BY DEF MapInv
<1>1. PICK index \in Set!Index(key) :
        nodes[index] = None /\ Set!AssignAndCount(key, index)
      BY DEF AddNew, Set!AddAbsent
<1>2. index \in Set!Slots  BY IndexInSlots
<1>3. /\ UNCHANGED <<number_nodes, hash>> /\ Set!NotGrown
      /\ values' = ValuesNow(value) /\ latest' = [latest EXCEPT ![key] = value]
      BY DEF AddNew, Set!AddAbsent, Set!NotGrown, Given
<1>4. nodes' = nodes \/ nodes' = [nodes EXCEPT ![index] = key]
      BY <1>1 DEF Set!AssignAndCount
<1>5. /\ slot \in Set!Slots /\ nodes'[slot] # None /\ nodes'[slot] \in Keys
      /\ \A s \in Set!Slots : s # index => nodes'[s] = nodes[s]
      BY <1>2, <1>3, <1>4 DEF Set!Occupied, Set!Slots, TableInv, TypeOK
<1>6. number_nodes \in Nat /\ number_nodes > 0 /\ hash[nodes'[slot]] \in Nat
      BY <1>5, InitialNodesPositive, HashesAssumption DEF TableInv
<1>7. values'[slot] = IF slot # index \/ nodes'[slot] = nodes[slot]
                      THEN values[slot] ELSE value
  <2>1. DOMAIN nodes' = Set!Slots /\ DOMAIN nodes = Set!Slots
        BY <1>4 DEF TableInv, TypeOK
  <2> QED  BY <2>1, <1>3, <1>5 DEF ValuesNow
<1>8. /\ Reached(nodes, number_nodes, hash[nodes'[slot]], nodes'[slot], slot)
      /\ Set!Spread => slot = HomeOf(nodes'[slot])
      /\ values'[slot] = latest'[nodes'[slot]]
  <2>1. CASE slot # index
    <3>1. nodes'[slot] = nodes[slot] /\ slot \in Set!Occupied
          BY <1>5, <2>1 DEF Set!Occupied
    <3>2. nodes[slot] # key  BY <3>1, <1>1, <1>3, <2>1, OnlyNode
    <3> QED  BY <3>1, <3>2, <1>3, <1>5, <1>7, <2>1 DEF MapInv, OnTheWay, TableInv, TypeOK
  <2>2. CASE slot = index
    <3>1. nodes'[slot] = key /\ nodes'[slot] # nodes[slot]
          BY <2>2, <1>1, <1>2, <1>4, <1>5, KeysAssumption DEF TableInv, TypeOK
    <3>2. values'[slot] = value  BY <3>1, <1>7, <2>2
    <3> QED  BY <3>1, <3>2, <2>2, <1>3, NewNodePlace DEF TableInv, TypeOK
  <2> QED  BY <2>1, <2>2
<1>9. Reached(nodes', number_nodes, hash[nodes'[slot]], nodes'[slot], slot)
      BY <1>1, <1>5, <1>6, <1>8, FillingKeepsPath DEF Set!Slots
<1> QED  BY <1>3, <1>8, <1>9, SpreadIsRigid DEF OnTheWay, HomeOf

(* A step that leaves the other nodes, and what was given for their keys,   *)
(* and takes one node out at most when no two keys meet.                    *)
LEMMA OthersStay ==
  ASSUME TableInv, MapInv, UNCHANGED <<number_nodes, hash>>,
         \A slot \in Set!Occupied' :
           /\ slot \in Set!Occupied /\ nodes'[slot] = nodes[slot]
           /\ values'[slot] = latest'[nodes[slot]],
         nodes' = nodes \/ Set!Spread
  PROVE  MapInv'
<1> SUFFICES ASSUME Set!NotGrown', NEW slot \in Set!Occupied'
             PROVE  /\ OnTheWay(slot)'
                    /\ Set!Spread' => slot = HomeOf(nodes[slot])'
                    /\ (values[slot] = latest[nodes[slot]])'
    BY DEF MapInv
<1>1. Set!NotGrown  BY DEF Set!NotGrown
<1>2. slot \in Set!Occupied /\ nodes'[slot] = nodes[slot]  OBVIOUS
<1>3. OnTheWay(slot) /\ (Set!Spread => slot = HomeOf(nodes[slot]))
      BY <1>1, <1>2 DEF MapInv
<1>4. number_nodes \in Nat /\ number_nodes > 0
      BY InitialNodesPositive DEF TableInv
<1>5. OnTheWay(slot)'
  <2>1. CASE nodes' = nodes  BY <2>1, <1>2, <1>3 DEF OnTheWay
  <2>2. CASE Set!Spread
        BY <2>2, <1>2, <1>3, <1>4, HomeIsReached DEF OnTheWay, HomeOf
  <2> QED  BY <2>1, <2>2
<1> QED  BY <1>2, <1>3, <1>5, SpreadIsRigid DEF HomeOf

LEMMA ReplaceMap ==
  ASSUME TableInv, MapInv, NEW key \in Keys, NEW value \in Values, Replace(key, value),
         Set!EmptiesASlot /\ Set!NotGrown => Set!Spread
  PROVE  MapInv'
<1>1. PICK index \in Set!Index(key), stored \in Set!Allocated :
        /\ nodes[index] = key
        /\ nodes' = [nodes EXCEPT ![index] = IF stored THEN key ELSE None]
        /\ values' = [values EXCEPT ![index] = IF stored THEN value ELSE None]
      BY DEF Replace
<1>2. index \in Set!Slots  BY IndexInSlots
<1>3. /\ UNCHANGED <<number_nodes, hash>>
      /\ latest' = [latest EXCEPT ![key] = value]
      BY DEF Replace, Given
<1>4. Set!Slots' = Set!Slots  BY <1>3 DEF Set!Slots
<1>5. CASE ~ Set!NotGrown  BY <1>3, <1>5 DEF MapInv, Set!NotGrown
<1>6. CASE Set!NotGrown
  <2>1. nodes' = nodes \/ Set!Spread
    <3>1. CASE stored  BY <3>1, <1>1, <1>2 DEF TableInv, TypeOK
    <3>2. CASE ~stored
      <4>1. nodes[index] # None /\ nodes'[index] = None
            BY <3>2, <1>1, <1>2, KeysAssumption DEF TableInv, TypeOK
      <4> QED  BY <4>1, <1>2, <1>6 DEF Set!EmptiesASlot
    <3> QED  BY <3>1, <3>2
  <2>2. ASSUME NEW slot \in Set!Occupied'
        PROVE  /\ slot \in Set!Occupied /\ nodes'[slot] = nodes[slot]
               /\ values'[slot] = latest'[nodes[slot]]
    <3>1. slot \in Set!Slots /\ nodes'[slot] # None
          BY <1>4 DEF Set!Occupied
    <3>2. nodes'[slot] = nodes[slot] /\ slot \in Set!Occupied
          BY <3>1, <1>1, <1>2, KeysAssumption DEF Set!Occupied, TableInv, TypeOK
    <3>3. CASE slot = index
          BY <3>1, <3>2, <3>3, <1>1, <1>2, <1>3 DEF TableInv, TypeOK
    <3>4. CASE slot # index
      <4>1. nodes[slot] # key  BY <3>2, <3>4, <1>1, <1>6, OnlyNode
      <4>2. values'[slot] = values[slot] /\ latest'[nodes[slot]] = latest[nodes[slot]]
            BY <3>1, <3>2, <3>4, <4>1, <1>1, <1>3 DEF TableInv, TypeOK
      <4> QED  BY <4>2, <3>2, <1>6 DEF MapInv
    <3> QED  BY <3>2, <3>3, <3>4
  <2> QED  BY <2>1, <2>2, <1>3, OthersStay
<1> QED  BY <1>5, <1>6

LEMMA RemoveMap ==
  ASSUME TableInv, MapInv, NEW key \in Keys, RemovePresent(key),
         Set!EmptiesASlot /\ Set!NotGrown => Set!Spread
  PROVE  MapInv'
<1>1. PICK index \in Set!Index(key) :
        nodes[index] = key /\ nodes' = [nodes EXCEPT ![index] = None]
      BY DEF RemovePresent, Set!RemovePresent
<1>2. index \in Set!Slots  BY IndexInSlots
<1>3. /\ UNCHANGED <<number_nodes, hash>> /\ values' = ValuesNow(None)
      /\ latest' = [latest EXCEPT ![key] = None]
      BY DEF RemovePresent, Set!RemovePresent, Given
<1>4. Set!Slots' = Set!Slots  BY <1>3 DEF Set!Slots
<1>5. CASE ~ Set!NotGrown  BY <1>3, <1>5 DEF MapInv, Set!NotGrown
<1>6. CASE Set!NotGrown
  <2>1. Set!Spread
    <3>1. nodes[index] # None /\ nodes'[index] = None
          BY <1>1, <1>2, KeysAssumption DEF TableInv, TypeOK
    <3> QED  BY <3>1, <1>2, <1>6 DEF Set!EmptiesASlot
  <2>2. ASSUME NEW slot \in Set!Occupied'
        PROVE  /\ slot \in Set!Occupied /\ nodes'[slot] = nodes[slot]
               /\ values'[slot] = latest'[nodes[slot]]
    <3>1. slot \in Set!Slots /\ nodes'[slot] # None
          BY <1>4 DEF Set!Occupied
    <3>2. nodes'[slot] = nodes[slot] /\ slot \in Set!Occupied /\ slot # index
          BY <3>1, <1>1, <1>2 DEF Set!Occupied, TableInv, TypeOK
    <3>3. nodes[slot] # key  BY <3>2, <1>1, <1>6, OnlyNode
    <3>4. values'[slot] = values[slot]
      <4>1. DOMAIN nodes' = Set!Slots /\ DOMAIN nodes = Set!Slots
            BY <1>1 DEF TableInv, TypeOK
      <4> QED  BY <4>1, <3>1, <3>2, <1>3 DEF ValuesNow
    <3>5. latest'[nodes[slot]] = latest[nodes[slot]]
          BY <3>1, <3>2, <3>3, <1>3 DEF TableInv, TypeOK
    <3> QED  BY <3>2, <3>4, <3>5, <1>6 DEF MapInv
  <2> QED  BY <2>1, <2>2, <1>3, OthersStay
<1> QED  BY <1>5, <1>6

(* The array that has grown is not spoken of. *)
LEMMA GrownMap ==
  ASSUME TableInv, RehashNode \/ AddAfterRehash \/
                   \E key \in Keys, value \in Values : AddGrow(key, value)
  PROVE  MapInv'
<1>1. number_nodes \in Nat /\ number_nodes >= Set!InitialNodes
      /\ Set!InitialNodes \in Nat /\ Set!InitialNodes >= 1
      BY InitialNodesPositive DEF TableInv
<1>2. CASE RehashNode \/ AddAfterRehash
  <2>1. number_nodes' = number_nodes /\ number_nodes >= 2 * Set!InitialNodes
        BY <1>2 DEF RehashNode, Set!RehashNode, AddAfterRehash, Set!AddAfterRehash,
                    TableInv, GrowthInv
  <2> QED  BY <1>1, <2>1 DEF MapInv, Set!NotGrown
<1>3. CASE \E key \in Keys, value \in Values : AddGrow(key, value)
  <2>1. number_nodes' = 2 * number_nodes  BY <1>3 DEF AddGrow, Set!AddGrow
  <2> QED  BY <1>1, <2>1 DEF MapInv, Set!NotGrown
<1> QED  BY <1>2, <1>3

LEMMA SameMap ==
  ASSUME MapInv, UNCHANGED <<nodes, number_nodes, hash, values, latest>>
  PROVE  MapInv'
<1>1. Set!Occupied' = Set!Occupied  BY DEF Set!Slots, Set!Occupied
<1> QED  BY <1>1, SpreadIsRigid DEF MapInv, Set!NotGrown, OnTheWay, HomeOf

LEMMA NextMap == TableInv /\ MapInv /\ [CarefulNext]_vars => MapInv'
<1> SUFFICES ASSUME TableInv, MapInv, [CarefulNext]_vars PROVE MapInv'  OBVIOUS
<1>1. CASE UNCHANGED vars  BY <1>1, SameMap DEF vars, node_vars
<1>2. CASE Clear
  <2>1. Set!Occupied' = {}  BY <1>2 DEF Clear, Set!Clear, Set!Occupied, Set!Slots
  <2> QED  BY <2>1 DEF MapInv
<1>3. CASE Look
  <2>1. UNCHANGED <<nodes, number_nodes, hash, values, latest>>
        BY <1>3 DEF Look, Set!Contains, Set!RemoveAbsent, Set!AddGrowFails,
                    Set!StartWalk, Set!NextKey, Set!NextEnd
  <2> QED  BY <2>1, SameMap
<1> QED
  BY <1>1, <1>2, <1>3, AddNewMap, ReplaceMap, RemoveMap, GrownMap
  DEF CarefulNext, Next

LEMMA InitMap == Init => MapInv
<1>1. Init => Set!Occupied = {}  BY DEF Init, Set!Init, Set!Occupied, Set!Slots
<1> QED  BY <1>1 DEF MapInv

LEMMA CarefulInvariant == CarefulSpec => [](TableInv /\ MapInv)
<1>1. Init => TableInv /\ MapInv  BY InitTable, InitMap
<1>2. TableInv /\ MapInv /\ [CarefulNext]_vars => TableInv' /\ MapInv'
      BY NextTable, NextMap DEF CarefulNext
<1> QED  BY <1>1, <1>2, PTL DEF CarefulSpec

(* hash_table_next hands out, for every key, the value last added for it:   *)
(* until the table grows, and as long as slots are only emptied, by a       *)
(* remove or by a replacement without memory, when no two keys meet.        *)
THEOREM LastValueIsKept == CarefulSpec => []ValueIsLatest
<1>1. TableInv /\ MapInv => ValueIsLatest  BY DEF MapInv, ValueIsLatest
<1> QED  BY <1>1, CarefulInvariant, PTL

(* Until then no key has two nodes, and a search that ends in an empty slot *)
(* means that the key is not there.                                         *)
THEOREM OneNodeForAKey == CarefulSpec => []OneNodePerKey
<1>1. TableInv /\ MapInv => OneNodePerKey
  <2> SUFFICES ASSUME TableInv, MapInv, Set!NotGrown
               PROVE  /\ \A i, j \in Set!Occupied : nodes[i] = nodes[j] => i = j
                      /\ Set!EmptySlotMeansAbsent
      BY DEF OneNodePerKey
  <2>1. ASSUME NEW slot \in Set!Occupied
        PROVE  nodes[slot] \in Keys /\ Set!Index(nodes[slot]) = {slot}
        BY NodeIsFound DEF MapInv
  <2>2. \A i, j \in Set!Occupied : nodes[i] = nodes[j] => i = j  BY <2>1
  <2>3. Set!EmptySlotMeansAbsent
        BY <2>1 DEF Set!EmptySlotMeansAbsent, Set!Stored, Set!Occupied
  <2> QED  BY <2>2, <2>3
<1> QED  BY <1>1, CarefulInvariant, PTL
(* A client that never removes, with memory for every node, is careful: it  *)
(* empties slots by a clear, and when nodes are moved after the table grew. *)
LEMMA NeverRemovingIsCareful ==
  ASSUME "remove" \notin Calls, ~MallocMayFail, TableInv, [Next]_vars
  PROVE  [CarefulNext]_vars
<1> SUFFICES ASSUME Next, Set!EmptiesASlot, Set!NotGrown PROVE Clear
    BY DEF CarefulNext
<1>1. PICK i \in Set!Slots : nodes[i] # None /\ nodes'[i] = None  BY DEF Set!EmptiesASlot
<1>2. ASSUME NEW key \in Keys, NEW value \in Values, AddNew(key, value) PROVE FALSE
  <2>1. PICK index \in Set!Index(key) : nodes' = [nodes EXCEPT ![index] = key] \/ nodes' = nodes
        BY <1>2 DEF AddNew, Set!AddAbsent, Set!AssignAndCount
  <2> QED  BY <2>1, <1>1, KeysAssumption DEF TableInv, TypeOK
<1>3. ASSUME NEW key \in Keys, NEW value \in Values, Replace(key, value) PROVE FALSE
  <2>1. PICK index \in Set!Index(key) : nodes[index] = key /\ nodes' = [nodes EXCEPT ![index] = key]
        BY <1>3 DEF Replace, Set!Allocated
  <2> QED  BY <2>1, <1>1, KeysAssumption DEF TableInv, TypeOK
<1>4. ASSUME NEW key \in Keys, NEW value \in Values, AddGrow(key, value) PROVE FALSE
  <2>1. nodes'[i] = nodes[i]
        BY <1>4, <1>1 DEF AddGrow, Set!AddGrow, Set!Slots, TableInv
  <2> QED  BY <2>1, <1>1
<1>5. CASE RehashNode \/ AddAfterRehash
  <2>1. number_nodes >= 2 * Set!InitialNodes
        BY <1>5 DEF RehashNode, Set!RehashNode, AddAfterRehash, Set!AddAfterRehash,
                    TableInv, GrowthInv
  <2> QED  BY <2>1, InitialNodesPositive DEF Set!NotGrown
<1>6. ASSUME NEW key \in Keys PROVE ~ RemovePresent(key)
      BY DEF RemovePresent, Set!RemovePresent, Set!Call
<1>7. CASE Look
  <2>1. nodes' = nodes
        BY <1>7 DEF Look, Set!Contains, Set!RemoveAbsent, Set!AddGrowFails,
                    Set!StartWalk, Set!NextKey, Set!NextEnd
  <2> QED  BY <2>1, <1>1
<1> QED  BY <1>2, <1>3, <1>4, <1>5, <1>6, <1>7 DEF Next

(* So for a client that never removes, and with memory for every node, the  *)
(* table is a map until it grows, however the keys collide.                 *)
THEOREM MapUntilItGrows ==
  "remove" \notin Calls /\ ~MallocMayFail => (Spec => [](ValueIsLatest /\ OneNodePerKey))
<1> SUFFICES ASSUME "remove" \notin Calls, ~MallocMayFail
             PROVE  Spec => [](ValueIsLatest /\ OneNodePerKey)
    OBVIOUS
<1>1. TableInv /\ [Next]_vars => [CarefulNext]_vars  BY NeverRemovingIsCareful
<1>2. Spec => CarefulSpec
      BY <1>1, InitTable, NextTable, PTL DEF Spec, CarefulSpec
<1> QED  BY <1>2, LastValueIsKept, OneNodeForAKey, PTL
=============================================================================
