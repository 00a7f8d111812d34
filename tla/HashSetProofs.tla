---------------------------- MODULE HashSetProofs ----------------------------
(***************************************************************************)
(* Theorems about HashSet, for every set of keys, every hash function and  *)
(* every size of the array.                                                *)
(***************************************************************************)
EXTENDS HashSet, ProbingProofs, FiniteSetTheorems

USE HashesAssumption, NodesAssumption, NoneAssumption

(* A set has at least one slot. *)
LEMMA InitialNodesPositive == InitialNodes \in Nat /\ InitialNodes >= 1
BY DEF InitialNodes, HASH_SET_DEFAULT_NUM_NODES

(* A search for a key ends in a slot that is empty or holds the key. *)
LEMMA IndexInSlots ==
  ASSUME TypeOK, NEW key \in Keys, NEW index \in Index(key)
  PROVE  index \in Slots /\ nodes[index] \in {None, key}
<1>1. hash[key] \in Nat  BY DEF TypeOK
<1>2. number_nodes \in Nat /\ number_nodes > 0
      BY InitialNodesPositive DEF TypeOK
<1> QED  BY <1>1, <1>2, StopsAtSlot DEF Index, Slots

(* The occupied slots are finitely many. *)
LEMMA OccupiedFinite ==
  ASSUME number_nodes \in Nat
  PROVE  IsFiniteSet(Occupied) /\ Cardinality(Occupied) \in Nat
<1>1. IsFiniteSet(0 .. number_nodes - 1)  BY FS_Interval
<1>2. Occupied \in SUBSET (0 .. number_nodes - 1)  BY DEF Occupied, Slots
<1> QED  BY <1>1, <1>2, FS_Subset, FS_CardinalityType

(* An add puts at most one more slot to use, and counts it. *)
LEMMA AssignKeepsTypeAndCount ==
  ASSUME TypeOK, UsedCoversNodes, number_nodes' = number_nodes,
         NEW key \in Keys, NEW index \in Slots, AssignAndCount(key, index)
  PROVE  /\ nodes' \in [Slots -> Keys \union {None}]
         /\ used_nodes' = used_nodes + 1
         /\ late' \subseteq Keys
         /\ UsedCoversNodes'
<1>1. nodes' \in [Slots -> Keys \union {None}] /\ late' \subseteq Keys
      BY DEF AssignAndCount, TypeOK
<1>2. Occupied' \subseteq Occupied \union {index}
      BY DEF AssignAndCount, Occupied, Slots, TypeOK
<1>3. IsFiniteSet(Occupied) /\ Cardinality(Occupied) \in Nat
      BY OccupiedFinite DEF TypeOK
<1>4. /\ IsFiniteSet(Occupied \union {index})
      /\ Cardinality(Occupied \union {index}) \in Nat
      /\ Cardinality(Occupied \union {index}) <= Cardinality(Occupied) + 1
  <2>1. /\ IsFiniteSet(Occupied \union {index})
        /\ Cardinality(Occupied \union {index}) =
             IF index \in Occupied THEN Cardinality(Occupied)
                                  ELSE Cardinality(Occupied) + 1
        BY <1>3, FS_AddElement
  <2> QED  BY <1>3, <2>1
<1>5. /\ Cardinality(Occupied') \in Nat
      /\ Cardinality(Occupied') <= Cardinality(Occupied \union {index})
      BY <1>2, <1>4, FS_Subset, FS_CardinalityType
<1>6. used_nodes' = used_nodes + 1 /\ used_nodes \in Nat
      BY DEF AssignAndCount, TypeOK
<1> QED  BY <1>1, <1>3, <1>4, <1>5, <1>6 DEF UsedCoversNodes

(* Freeing a node takes its slot, and only its slot, out of use. *)
LEMMA FreeingSlot ==
  ASSUME TypeOK, number_nodes' = number_nodes, NEW index \in Occupied,
         nodes' = [nodes EXCEPT ![index] = None]
  PROVE  /\ nodes' \in [Slots -> Keys \union {None}]
         /\ Cardinality(Occupied') = Cardinality(Occupied) - 1
         /\ Cardinality(Occupied) \in Nat
<1>1. index \in Slots  BY DEF Occupied
<1>2. Occupied' = Occupied \ {index}
      BY <1>1 DEF Occupied, Slots, TypeOK
<1>3. IsFiniteSet(Occupied) /\ Cardinality(Occupied) \in Nat
      BY OccupiedFinite DEF TypeOK
<1> QED  BY <1>1, <1>2, <1>3, FS_RemoveElement DEF TypeOK

-----------------------------------------------------------------------------
(***************************************************************************)
(* The inductive invariant.  The load is bounded because an add looks at   *)
(* used_nodes before it takes a slot; while the array grows, the slot the  *)
(* add is going to use stays empty.                                        *)
(***************************************************************************)
LoadBounded ==
  InitialNodes >= 3 => 100 * (used_nodes - 1) <= 65 * number_nodes

GrowthInv ==
  status = "rehash" =>
    /\ growing.key \in Keys
    /\ nodes[growing.index] = None
    /\ growing.next \in 0 .. number_nodes
    /\ number_nodes >= 2 * InitialNodes
    /\ InitialNodes >= 3 => 100 * used_nodes <= 65 * number_nodes

SafeInv == TypeOK /\ UsedCoversNodes /\ LoadBounded /\ GrowthInv

(* The answers a call may give. *)
LEMMA ReplyTyped ==
  ASSUME NEW op \in {"init", "add", "contains", "remove", "clear", "start", "next"},
         NEW key \in Keys \union {None},
         NEW result \in {OK, ALLOCATION_ERROR, TRUE, FALSE}
  PROVE  Reply(op, key, result) \in Replies
BY DEF Reply, Replies

LEMMA InitSafe == Init => SafeInv
<1> SUFFICES ASSUME Init PROVE SafeInv  OBVIOUS
<1> USE InitialNodesPositive
<1>1. TypeOK
  <2>1. reply \in Replies  BY ReplyTyped DEF Init
  <2>2. growing \in [key : Keys \union {None}, index : Slots, next : Nat]
        BY DEF Init, Slots
  <2> QED  BY <2>1, <2>2 DEF Init, TypeOK, Slots
<1>2. Occupied = {}  BY DEF Init, Occupied, Slots
<1>3. UsedCoversNodes  BY <1>2, FS_EmptySet DEF Init, UsedCoversNodes
<1> QED  BY <1>1, <1>3 DEF Init, SafeInv, LoadBounded, GrowthInv

LEMMA ContainsSafe ==
  ASSUME SafeInv, NEW key \in Keys, Contains(key)
  PROVE  SafeInv'
<1>1. PICK index \in Index(key) : reply' = Reply("contains", key, nodes[index] = key)
      BY DEF Contains
<1>2. (nodes[index] = key) \in {OK, ALLOCATION_ERROR, TRUE, FALSE}  BY Zenon
<1>3. reply' \in Replies
      BY <1>1, <1>2, ReplyTyped
<1>4. TypeOK'  BY <1>3 DEF Contains, SafeInv, TypeOK, Slots
<1> QED  BY <1>4 DEF Contains, SafeInv, UsedCoversNodes, Occupied, Slots,
                     LoadBounded, GrowthInv

(* A call that changes only the answer. *)
LEMMA AnswerSafe ==
  ASSUME SafeInv, NEW key \in Keys,
         AddPresent(key) \/ AddGrowFails(key) \/ RemoveAbsent(key)
  PROVE  SafeInv'
<1>1. reply' \in Replies
      BY ReplyTyped DEF AddPresent, AddGrowFails, RemoveAbsent
<1>2. TypeOK'
      BY <1>1 DEF AddPresent, AddGrowFails, RemoveAbsent, SafeInv, TypeOK, Slots
<1> QED  BY <1>2 DEF AddPresent, AddGrowFails, RemoveAbsent, SafeInv,
              UsedCoversNodes, Occupied, Slots, LoadBounded, GrowthInv

LEMMA AddAbsentSafe ==
  ASSUME SafeInv, NEW key \in Keys, AddAbsent(key)
  PROVE  SafeInv'
<1>1. PICK index \in Index(key) : nodes[index] = None /\ AssignAndCount(key, index)
      BY DEF AddAbsent
<1>2. index \in Slots  BY IndexInSlots DEF SafeInv
<1>3. /\ nodes' \in [Slots -> Keys \union {None}]
      /\ used_nodes' = used_nodes + 1
      /\ late' \subseteq Keys
      /\ UsedCoversNodes'
      BY <1>1, <1>2, AssignKeepsTypeAndCount DEF SafeInv, AddAbsent
<1>4. reply' \in Replies  BY <1>1, ReplyTyped DEF AssignAndCount
<1>5. TypeOK'  BY <1>3, <1>4 DEF AddAbsent, SafeInv, TypeOK, Slots
<1>6. LoadBounded'
      BY <1>3 DEF AddAbsent, Crowded, SafeInv, TypeOK, LoadBounded
<1>7. GrowthInv'  BY DEF AddAbsent, Call, GrowthInv
<1> QED  BY <1>3, <1>5, <1>6, <1>7 DEF SafeInv

LEMMA AddGrowSafe ==
  ASSUME SafeInv, NEW key \in Keys, AddGrow(key)
  PROVE  SafeInv'
<1>1. PICK index \in Index(key) :
        /\ nodes[index] = None
        /\ growing' = [key |-> key, index |-> index, next |-> 0]
      BY DEF AddGrow
<1>2. index \in Slots  BY IndexInSlots DEF SafeInv
<1>3. /\ number_nodes \in Nat /\ number_nodes >= 1 /\ number_nodes >= InitialNodes
      /\ number_nodes' = 2 * number_nodes
      BY InitialNodesPositive DEF SafeInv, TypeOK, AddGrow
<1>4. nodes' = [i \in 0 .. 2 * number_nodes - 1 |->
                  IF i < number_nodes THEN nodes[i] ELSE None]
      BY DEF AddGrow
<1>5. TypeOK'
  <2>1. nodes' \in [Slots' -> Keys \union {None}]
        BY <1>3, <1>4 DEF SafeInv, TypeOK, Slots
  <2>2. index \in Slots'  BY <1>2, <1>3 DEF Slots
  <2>3. growing' \in [key : Keys \union {None}, index : Slots', next : Nat]
        BY <1>1, <2>2
  <2> QED  BY <2>1, <2>3, <1>3, InitialNodesPositive DEF SafeInv, TypeOK, AddGrow
<1>6. Occupied' = Occupied
      BY <1>3, <1>4 DEF Occupied, Slots
<1>7. UsedCoversNodes'  BY <1>6 DEF UsedCoversNodes, SafeInv, AddGrow
<1>8. used_nodes' = used_nodes /\ used_nodes \in Nat
      BY DEF AddGrow, SafeInv, TypeOK
<1>9. InitialNodes >= 3 => 100 * used_nodes' <= 65 * number_nodes'
      BY <1>3, <1>8, InitialNodesPositive DEF SafeInv, LoadBounded
<1>10. LoadBounded'  BY <1>3, <1>8, <1>9 DEF LoadBounded
<1>11. GrowthInv'
  <2>1. nodes'[growing'.index] = None
        BY <1>1, <1>2, <1>3, <1>4 DEF Slots
  <2> QED  BY <2>1, <1>1, <1>3, <1>9, InitialNodesPositive DEF GrowthInv
<1> QED  BY <1>5, <1>7, <1>10, <1>11 DEF SafeInv

LEMMA RehashSafe ==
  ASSUME SafeInv, RehashNode
  PROVE  SafeInv'
<1> DEFINE i == growing.next

<1>1. /\ i \in Slots /\ i \in 0 .. number_nodes - 1
      /\ number_nodes \in Nat /\ status = "rehash"
      BY DEF RehashNode, SafeInv, TypeOK, Slots
<1>2. /\ \/ nodes' = nodes
         \/ i \in Occupied /\ nodes' = [nodes EXCEPT ![i] = None]
      /\ \/ growing' = growing
         \/ growing' = [growing EXCEPT !.next = i + 1]
         \/ growing' = [growing EXCEPT !.next = number_nodes]
      /\ status' \in {"rehash", "unindexed"}
      BY <1>1 DEF RehashNode, Occupied
<1>3. UNCHANGED <<number_nodes, used_nodes, hash, cursor, yielded, late, reply>>
      BY DEF RehashNode
<1>4. /\ nodes' \in [Slots -> Keys \union {None}]
      /\ UsedCoversNodes'
  <2>1. CASE nodes' = nodes
        BY <2>1, <1>3 DEF SafeInv, TypeOK, UsedCoversNodes, Occupied, Slots
  <2>2. CASE i \in Occupied /\ nodes' = [nodes EXCEPT ![i] = None]
    <3>1. /\ nodes' \in [Slots -> Keys \union {None}]
          /\ Cardinality(Occupied') = Cardinality(Occupied) - 1
          /\ Cardinality(Occupied) \in Nat
          BY <2>2, <1>3, FreeingSlot DEF SafeInv
    <3> QED  BY <3>1, <1>3 DEF SafeInv, UsedCoversNodes, TypeOK
  <2> QED  BY <2>1, <2>2, <1>2
<1>5. TypeOK'
  <2>1. growing' \in [key : Keys \union {None}, index : Slots, next : Nat]
        BY <1>1, <1>2 DEF SafeInv, TypeOK
  <2> QED  BY <2>1, <1>2, <1>3, <1>4 DEF SafeInv, TypeOK, Slots
<1>6. GrowthInv'
  <2>1. growing'.key = growing.key /\ growing'.index = growing.index
        BY <1>2 DEF SafeInv, TypeOK
  <2>2. growing'.next \in 0 .. number_nodes
        BY <1>1, <1>2 DEF SafeInv, TypeOK, GrowthInv
  <2>3. nodes'[growing.index] = None
        BY <1>1, <1>2 DEF SafeInv, TypeOK, GrowthInv
  <2> QED  BY <2>1, <2>2, <2>3, <1>1, <1>3 DEF SafeInv, GrowthInv
<1> QED  BY <1>3, <1>4, <1>5, <1>6 DEF SafeInv, LoadBounded

LEMMA AddAfterRehashSafe ==
  ASSUME SafeInv, AddAfterRehash
  PROVE  SafeInv'
<1>1. growing.key \in Keys /\ growing.index \in Slots
      BY DEF AddAfterRehash, SafeInv, GrowthInv, TypeOK
<1>2. /\ nodes' \in [Slots -> Keys \union {None}]
      /\ used_nodes' = used_nodes + 1
      /\ late' \subseteq Keys
      /\ UsedCoversNodes'
      BY <1>1, AssignKeepsTypeAndCount DEF SafeInv, AddAfterRehash
<1>3. reply' \in Replies
      BY <1>1, ReplyTyped DEF AddAfterRehash, AssignAndCount
<1>4. growing' \in [key : Keys \union {None}, index : Slots, next : Nat]
      BY InitialNodesPositive DEF AddAfterRehash, SafeInv, TypeOK, Slots
<1>5. TypeOK'  BY <1>2, <1>3, <1>4 DEF AddAfterRehash, SafeInv, TypeOK, Slots
<1>6. LoadBounded'
      BY <1>2 DEF AddAfterRehash, SafeInv, TypeOK, GrowthInv, LoadBounded
<1>7. GrowthInv'  BY DEF AddAfterRehash, GrowthInv
<1> QED  BY <1>2, <1>5, <1>6, <1>7 DEF SafeInv

LEMMA RemovePresentSafe ==
  ASSUME SafeInv, NEW key \in Keys, RemovePresent(key)
  PROVE  SafeInv'
<1>1. PICK index \in Index(key) :
        nodes[index] = key /\ nodes' = [nodes EXCEPT ![index] = None]
      BY DEF RemovePresent
<1>2. index \in Occupied
      BY <1>1, IndexInSlots DEF SafeInv, Occupied
<1>3. /\ nodes' \in [Slots -> Keys \union {None}]
      /\ Cardinality(Occupied') = Cardinality(Occupied) - 1
      /\ Cardinality(Occupied) \in Nat
      BY <1>1, <1>2, FreeingSlot DEF SafeInv, RemovePresent
<1>4. Occupied # {} /\ Cardinality(Occupied) >= 1
      BY <1>2, <1>3, OccupiedFinite, FS_EmptySet DEF SafeInv, TypeOK
<1>5. used_nodes' = used_nodes - 1 /\ used_nodes \in Nat /\ used_nodes' \in Nat
      BY <1>3, <1>4 DEF RemovePresent, SafeInv, TypeOK, UsedCoversNodes
<1>6. UsedCoversNodes'  BY <1>3, <1>5 DEF SafeInv, UsedCoversNodes
<1>7. reply' \in Replies  BY ReplyTyped DEF RemovePresent
<1>8. TypeOK'  BY <1>3, <1>5, <1>7 DEF RemovePresent, SafeInv, TypeOK, Slots
<1>9. LoadBounded'
      BY <1>5 DEF RemovePresent, SafeInv, TypeOK, LoadBounded
<1>10. GrowthInv'  BY DEF RemovePresent, Call, GrowthInv
<1> QED  BY <1>6, <1>8, <1>9, <1>10 DEF SafeInv

LEMMA ClearSafe ==
  ASSUME SafeInv, Clear
  PROVE  SafeInv'
<1>1. Occupied' = {}  BY DEF Clear, Occupied, Slots
<1>2. UsedCoversNodes'  BY <1>1, FS_EmptySet DEF Clear, UsedCoversNodes
<1>3. reply' \in Replies  BY ReplyTyped DEF Clear
<1>4. TypeOK'  BY <1>3 DEF Clear, SafeInv, TypeOK, Slots
<1>5. LoadBounded'  BY DEF Clear, SafeInv, TypeOK, LoadBounded
<1>6. GrowthInv'  BY DEF Clear, Call, GrowthInv
<1> QED  BY <1>2, <1>4, <1>5, <1>6 DEF SafeInv

LEMMA WalkSafe ==
  ASSUME SafeInv, StartWalk \/ NextKey \/ NextEnd
  PROVE  SafeInv'
<1>1. /\ reply' \in Replies /\ cursor' \in Nat
      /\ yielded' \subseteq Keys /\ late' \subseteq Keys
  <2>1. CASE StartWalk
        BY <2>1, ReplyTyped DEF StartWalk
  <2>2. CASE NextKey
    <3>1. PICK i \in Occupied : /\ cursor' = i + 1
                                /\ yielded' = yielded \union {nodes[i]}
                                /\ reply' = Reply("next", nodes[i], OK)
          BY <2>2 DEF NextKey
    <3>2. i \in Nat /\ nodes[i] \in Keys
          BY DEF Occupied, Slots, SafeInv, TypeOK
    <3>3. reply' \in Replies  BY <3>1, <3>2, ReplyTyped
    <3>4. cursor' \in Nat /\ yielded' \subseteq Keys
          BY <3>1, <3>2 DEF SafeInv, TypeOK
    <3> QED  BY <3>3, <3>4, <2>2 DEF NextKey, SafeInv, TypeOK
  <2>3. CASE NextEnd
        BY <2>3, ReplyTyped DEF NextEnd, SafeInv, TypeOK
  <2> QED  BY <2>1, <2>2, <2>3
<1>2. UNCHANGED <<nodes, number_nodes, used_nodes, hash, status, growing>>
      BY DEF StartWalk, NextKey, NextEnd
<1> QED  BY <1>1, <1>2 DEF SafeInv, TypeOK, UsedCoversNodes, Occupied, Slots,
                           LoadBounded, GrowthInv

LEMMA SearchNeverEndsSafe ==
  ASSUME SafeInv, NEW key \in Keys, SearchNeverEnds(key)
  PROVE  SafeInv'
BY DEF SearchNeverEnds, SafeInv, TypeOK, UsedCoversNodes, Occupied, Slots,
       LoadBounded, GrowthInv

(* Every step keeps the invariant. *)
LEMMA NextSafe == SafeInv /\ [Next]_vars => SafeInv'
<1> SUFFICES ASSUME SafeInv, [Next]_vars PROVE SafeInv'  OBVIOUS
<1>1. ASSUME NEW key \in Keys, SearchNeverEnds(key) PROVE SafeInv'
      BY <1>1, SearchNeverEndsSafe
<1>2. ASSUME NEW key \in Keys, Contains(key) PROVE SafeInv'
      BY <1>2, ContainsSafe
<1>3. ASSUME NEW key \in Keys, AddPresent(key) \/ AddGrowFails(key) \/ RemoveAbsent(key)
      PROVE SafeInv'
      BY <1>3, AnswerSafe
<1>4. ASSUME NEW key \in Keys, AddAbsent(key) PROVE SafeInv'
      BY <1>4, AddAbsentSafe
<1>5. ASSUME NEW key \in Keys, AddGrow(key) PROVE SafeInv'
      BY <1>5, AddGrowSafe
<1>6. ASSUME NEW key \in Keys, RemovePresent(key) PROVE SafeInv'
      BY <1>6, RemovePresentSafe
<1>7. CASE RehashNode  BY <1>7, RehashSafe
<1>8. CASE AddAfterRehash  BY <1>8, AddAfterRehashSafe
<1>9. CASE Clear  BY <1>9, ClearSafe
<1>10. CASE StartWalk \/ NextKey \/ NextEnd  BY <1>10, WalkSafe
<1>11. CASE UNCHANGED vars
       BY <1>11 DEF vars, SafeInv, TypeOK, UsedCoversNodes, Occupied, Slots,
                    LoadBounded, GrowthInv
<1> QED  BY <1>1, <1>2, <1>3, <1>4, <1>5, <1>6, <1>7, <1>8, <1>9, <1>10, <1>11
         DEF Next

LEMMA SafeInvariant == Spec => []SafeInv
BY InitSafe, NextSafe, PTL DEF Spec

(* The state of hash_set.c stays well formed. *)
THEOREM TypeCorrect == Spec => []TypeOK
<1>1. SafeInv => TypeOK  BY DEF SafeInv
<1> QED  BY <1>1, SafeInvariant, PTL

(* used_nodes never lags behind the slots in use, whatever fails. *)
THEOREM CountCovers == Spec => []UsedCoversNodes
<1>1. SafeInv => UsedCoversNodes  BY DEF SafeInv
<1> QED  BY <1>1, SafeInvariant, PTL

-----------------------------------------------------------------------------
(* While fewer nodes are counted than there are slots, a slot is empty. *)
LEMMA SlotLeft ==
  ASSUME SafeInv, used_nodes < number_nodes
  PROVE  \E slot \in Slots : nodes[slot] = None
<1>1. number_nodes \in Nat /\ used_nodes \in Nat  BY DEF SafeInv, TypeOK
<1>2. IsFiniteSet(Slots) /\ Cardinality(Slots) = number_nodes
      BY <1>1, FS_Interval DEF Slots
<1>3. Cardinality(Occupied) \in Nat /\ Cardinality(Occupied) < Cardinality(Slots)
      BY <1>1, <1>2, OccupiedFinite DEF SafeInv, UsedCoversNodes
<1>4. Occupied # Slots  BY <1>2, <1>3
<1> QED  BY <1>4 DEF Occupied

(* A set made with three slots or more never has its last slot taken, so   *)
(* the search of _get_index never goes all the way round.                  *)
THEOREM NeverGoesRound == InitialNodes >= 3 => (Spec => []NeverFull)
<1> SUFFICES ASSUME InitialNodes >= 3 PROVE Spec => []NeverFull  OBVIOUS
<1>1. Init => NeverFull  BY DEF Init, NeverFull
<1>2. SafeInv /\ NeverFull /\ [Next]_vars => NeverFull'
  <2> SUFFICES ASSUME SafeInv, NeverFull, [Next]_vars PROVE NeverFull'  OBVIOUS
  <2>1. used_nodes < number_nodes
        BY InitialNodesPositive DEF SafeInv, TypeOK, LoadBounded
  <2>2. ASSUME NEW key \in Keys PROVE Index(key) # {}
    <3>1. PICK slot \in Slots : nodes[slot] = None  BY <2>1, SlotLeft
    <3>2. hash[key] \in Nat /\ number_nodes \in Nat /\ number_nodes > 0
          BY InitialNodesPositive DEF SafeInv, TypeOK
    <3> QED  BY <3>1, <3>2, SearchEnds DEF Index, Slots
  <2>3. ASSUME NEW key \in Keys PROVE ~ SearchNeverEnds(key)
        BY <2>2 DEF SearchNeverEnds
  <2> QED
    BY <2>3 DEF Next, vars, NeverFull, Contains, AddPresent, AddAbsent, AddGrow,
        AddGrowFails, RemoveAbsent, RemovePresent, RehashNode, AddAfterRehash,
        Clear, StartWalk, NextKey, NextEnd
<1> QED  BY <1>1, <1>2, SafeInvariant, PTL DEF Spec

(* "this means we went all the way around and the set is full": a search    *)
(* aborts, in a set of any size, only when every slot is in use.            *)
THEOREM RoundMeansFull == Spec => []FullMeansNoSlotFree
<1>1. Init => FullMeansNoSlotFree  BY DEF Init, FullMeansNoSlotFree
<1>2. SafeInv /\ FullMeansNoSlotFree /\ [Next]_vars => FullMeansNoSlotFree'
  <2> SUFFICES ASSUME SafeInv, FullMeansNoSlotFree, [Next]_vars, status' = "full"
               PROVE  Occupied' = Slots'
      BY DEF FullMeansNoSlotFree
  <2>1. ASSUME NEW key \in Keys, SearchNeverEnds(key)  PROVE Occupied' = Slots'
    <3>1. UNCHANGED <<nodes, number_nodes>> /\ Index(key) = {}
          BY <2>1 DEF SearchNeverEnds
    <3>2. hash[key] \in Nat /\ number_nodes \in Nat /\ number_nodes > 0
          BY InitialNodesPositive DEF SafeInv, TypeOK
    <3>3. \A slot \in Slots : nodes[slot] # None
          BY <3>1, <3>2, SearchEnds DEF Index, Slots
    <3> QED  BY <3>1, <3>3 DEF Occupied, Slots
  <2>2. CASE status = "full"
    <3>1. UNCHANGED vars
          BY <2>2 DEF Next, vars, Call, SearchNeverEnds, Contains, AddPresent, AddAbsent,
             AddGrow, AddGrowFails, RemoveAbsent, RemovePresent, RehashNode,
             AddAfterRehash, Clear, StartWalk, NextKey, NextEnd
    <3> QED  BY <2>2, <3>1 DEF vars, FullMeansNoSlotFree, Occupied, Slots
  <2> QED
    BY <2>1, <2>2 DEF Next, vars, Contains, AddPresent, AddAbsent, AddGrow,
        AddGrowFails, RemoveAbsent, RemovePresent, RehashNode, AddAfterRehash,
        Clear, StartWalk, NextKey, NextEnd
<1> QED  BY <1>1, <1>2, SafeInvariant, PTL DEF Spec

-----------------------------------------------------------------------------
(***************************************************************************)
(* Without a remove, and until the array grows, every stored key is on the *)
(* way of the search for it.                                               *)
(***************************************************************************)
PathsKept ==
  NotGrown => \A slot \in Occupied :
                Reached(nodes, number_nodes, hash[nodes[slot]], nodes[slot], slot)

(* A step of a client that never removes keeps the paths. *)
LEMMA NextKeepsPaths ==
  ASSUME "remove" \notin Calls, SafeInv, PathsKept, [Next]_vars
  PROVE  PathsKept'
<1>1. number_nodes \in Nat /\ number_nodes > 0
      BY InitialNodesPositive DEF SafeInv, TypeOK
<1>2. CASE UNCHANGED <<nodes, number_nodes, hash>>
      BY <1>2 DEF PathsKept, NotGrown, Occupied, Slots
<1>3. ASSUME NEW key \in Keys, AddAbsent(key) PROVE PathsKept'
  <2> SUFFICES ASSUME NotGrown', NEW slot \in Occupied'
               PROVE  Reached(nodes, number_nodes, hash[nodes[slot]], nodes[slot], slot)'
      BY DEF PathsKept
  <2>1. PICK index \in Index(key) : nodes[index] = None /\ AssignAndCount(key, index)
        BY <1>3 DEF AddAbsent
  <2>2. index \in Slots  BY IndexInSlots DEF SafeInv
  <2>3. UNCHANGED <<number_nodes, hash>> /\ NotGrown
        BY <1>3 DEF AddAbsent, NotGrown
  <2>4. nodes' = nodes \/ nodes' = [nodes EXCEPT ![index] = key]
        BY <2>1 DEF AssignAndCount
  <2>5. \A s \in 0 .. number_nodes - 1 : s # index => nodes'[s] = nodes[s]
        BY <2>4 DEF SafeInv, TypeOK, Slots
  <2>6. slot \in 0 .. number_nodes - 1 /\ nodes'[slot] \in Keys /\ nodes'[slot] # None
        BY <2>2, <2>3, <2>4 DEF Occupied, Slots, SafeInv, TypeOK
  <2>7. hash[nodes'[slot]] \in Nat  BY <2>6 DEF SafeInv, TypeOK
  <2>8. Reached(nodes, number_nodes, hash[nodes'[slot]], nodes'[slot], slot)
    <3>1. CASE slot # index
      <4>1. nodes'[slot] = nodes[slot]  BY <2>5, <2>6, <3>1
      <4>2. slot \in Occupied  BY <4>1, <2>6 DEF Occupied, Slots
      <4> QED  BY <4>1, <4>2, <2>3 DEF PathsKept
    <3>2. CASE slot = index
      <4>1. nodes'[slot] = key
            BY <3>2, <2>1, <2>2, <2>4, <2>6 DEF SafeInv, TypeOK
      <4> QED  BY <4>1, <3>2, StopsWhereReached DEF Index
    <3> QED  BY <3>1, <3>2
  <2>9. Reached(nodes', number_nodes, hash[nodes'[slot]], nodes'[slot], slot)
        BY <1>1, <2>1, <2>5, <2>7, <2>8, FillingKeepsPath
  <2> QED  BY <2>3, <2>9
<1>4. CASE \/ RehashNode \/ AddAfterRehash
           \/ \E key \in Keys : AddGrow(key)
  <2>1. number_nodes' >= 2 * InitialNodes /\ number_nodes' \in Nat
    <3>1. CASE RehashNode \/ AddAfterRehash
          BY <1>1, <3>1 DEF RehashNode, AddAfterRehash, SafeInv, GrowthInv
    <3>2. CASE \E key \in Keys : AddGrow(key)
          BY <1>1, <3>2, InitialNodesPositive DEF AddGrow, SafeInv, TypeOK
    <3> QED  BY <1>4, <3>1, <3>2
  <2> QED  BY <2>1, InitialNodesPositive DEF PathsKept, NotGrown
<1>5. CASE Clear
  <2>1. Occupied' = {}  BY <1>5 DEF Clear, Occupied, Slots
  <2> QED  BY <2>1 DEF PathsKept
<1>6. ASSUME NEW key \in Keys PROVE ~ RemovePresent(key)
      BY DEF RemovePresent, Call
<1>7. ASSUME NEW key \in Keys,
             \/ SearchNeverEnds(key) \/ Contains(key) \/ AddPresent(key)
             \/ AddGrowFails(key) \/ RemoveAbsent(key)
      PROVE UNCHANGED <<nodes, number_nodes, hash>>
      BY <1>7 DEF SearchNeverEnds, Contains, AddPresent, AddGrowFails, RemoveAbsent
<1>8. CASE StartWalk \/ NextKey \/ NextEnd
      BY <1>2, <1>8 DEF StartWalk, NextKey, NextEnd
<1>9. CASE UNCHANGED vars  BY <1>2, <1>9 DEF vars
<1> QED  BY <1>2, <1>3, <1>4, <1>5, <1>6, <1>7, <1>8, <1>9 DEF Next

(* Where the paths are kept, an empty slot means that the key is absent. *)
LEMMA PathsFindKeys ==
  ASSUME SafeInv, PathsKept
  PROVE  FoundBeforeGrowth
<1> SUFFICES ASSUME NotGrown, NEW key \in Stored, NEW index \in Index(key)
             PROVE  nodes[index] # None
    BY DEF FoundBeforeGrowth, EmptySlotMeansAbsent
<1>1. PICK slot \in Occupied : nodes[slot] = key  BY DEF Stored
<1>2. key \in Keys /\ key # None
      BY <1>1 DEF Occupied, Slots, SafeInv, TypeOK
<1>3. hash[key] \in Nat /\ number_nodes \in Nat
      BY <1>2 DEF SafeInv, TypeOK
<1>4. Reached(nodes, number_nodes, hash[key], key, slot)
      BY <1>1 DEF PathsKept
<1>5. Index(key) = {slot}
      BY <1>1, <1>3, <1>4, StopsOnlyThere DEF Index
<1> QED  BY <1>1, <1>2, <1>5

(* "not here OR first open slot": for a client that never removes, until   *)
(* the array grows, a search that ends in an empty slot is right: the key  *)
(* is stored nowhere.                                                      *)
THEOREM EmptySlotIsAnAnswer == "remove" \notin Calls => (Spec => []FoundBeforeGrowth)
<1> SUFFICES ASSUME "remove" \notin Calls PROVE Spec => []FoundBeforeGrowth  OBVIOUS
<1>1. Init => PathsKept
  <2>1. Init => Occupied = {}  BY DEF Init, Occupied, Slots
  <2> QED  BY <2>1 DEF PathsKept
<1>2. SafeInv /\ PathsKept /\ [Next]_vars => PathsKept'  BY NextKeepsPaths
<1>3. SafeInv /\ PathsKept => FoundBeforeGrowth  BY PathsFindKeys
<1> QED  BY <1>1, <1>2, <1>3, SafeInvariant, PTL DEF Spec

-----------------------------------------------------------------------------
(* Filling a slot that was empty loses no key. *)
LEMMA FillingLosesNoKey ==
  ASSUME SafeInv, number_nodes' = number_nodes,
         NEW key \in Keys, NEW index \in Slots, nodes[index] = None,
         AssignAndCount(key, index)
  PROVE  Stored \subseteq Stored'
<1>1. nodes' = nodes \/ nodes' = [nodes EXCEPT ![index] = key]
      BY DEF AssignAndCount
<1>2. ASSUME NEW slot \in Occupied
      PROVE  slot \in Occupied' /\ nodes'[slot] = nodes[slot]
      BY <1>1 DEF Occupied, Slots, SafeInv, TypeOK
<1> QED  BY <1>2 DEF Stored

(* No step loses a key it was not asked to remove. *)
LEMMA StepLeavesOnRequest ==
  ASSUME SafeInv, [Next]_vars
  PROVE  LeavesOnRequest
<1>1. CASE UNCHANGED <<nodes, number_nodes>>
      BY <1>1 DEF LeavesOnRequest, Stored, Occupied, Slots
<1>2. ASSUME NEW key \in Keys, AddAbsent(key) PROVE LeavesOnRequest
  <2>1. PICK index \in Index(key) : nodes[index] = None /\ AssignAndCount(key, index)
        BY <1>2 DEF AddAbsent
  <2>2. index \in Slots  BY IndexInSlots DEF SafeInv
  <2>3. Stored \subseteq Stored'
        BY <1>2, <2>1, <2>2, FillingLosesNoKey DEF AddAbsent
  <2> QED  BY <2>3 DEF LeavesOnRequest
<1>3. ASSUME NEW key \in Keys, AddGrow(key) PROVE LeavesOnRequest
  <2>1. ASSUME NEW slot \in Occupied
        PROVE  slot \in Occupied' /\ nodes'[slot] = nodes[slot]
        BY <1>3 DEF AddGrow, Occupied, Slots, SafeInv, TypeOK
  <2> QED  BY <2>1 DEF LeavesOnRequest, Stored
<1>4. CASE RehashNode
  <2>1. CASE nodes' = nodes
        BY <1>1, <1>4, <2>1 DEF RehashNode
  <2>2. CASE nodes' # nodes
    <3> DEFINE i == growing.next
    <3>1. /\ i \in 0 .. number_nodes - 1 /\ nodes[i] \in Keys /\ nodes[i] # None
          /\ number_nodes' = number_nodes
          /\ nodes' = [nodes EXCEPT ![i] = None]
          /\ \E index \in Index(nodes[i]) \ {i} : nodes[index] = nodes[i]
          BY <1>4, <2>2 DEF RehashNode, SafeInv, TypeOK, Slots
    <3>2. PICK index \in Index(nodes[i]) : index # i /\ nodes[index] = nodes[i]
          BY <3>1
    <3>3. index \in Slots  BY <3>1, IndexInSlots DEF SafeInv
    <3> HIDE DEF i
    <3>4. ASSUME NEW slot \in Occupied PROVE nodes[slot] \in Stored'
      <4>1. CASE slot = i
        <5>1. nodes'[index] = nodes[i] /\ index \in Occupied'
              BY <3>1, <3>2, <3>3 DEF Occupied, Slots, SafeInv, TypeOK
        <5> QED  BY <5>1, <4>1 DEF Stored
      <4>2. CASE slot # i
        <5>1. nodes'[slot] = nodes[slot] /\ slot \in Occupied'
              BY <3>1, <4>2 DEF Occupied, Slots, SafeInv, TypeOK
        <5> QED  BY <5>1 DEF Stored
      <4> QED  BY <4>1, <4>2
    <3> QED  BY <3>4 DEF LeavesOnRequest, Stored
  <2> QED  BY <2>1, <2>2
<1>5. CASE AddAfterRehash
  <2>1. /\ growing.key \in Keys /\ growing.index \in Slots
        /\ nodes[growing.index] = None /\ number_nodes' = number_nodes
        /\ AssignAndCount(growing.key, growing.index)
        BY <1>5 DEF AddAfterRehash, SafeInv, GrowthInv, TypeOK
  <2>2. Stored \subseteq Stored'  BY <2>1, FillingLosesNoKey
  <2> QED  BY <2>2 DEF LeavesOnRequest
<1>6. ASSUME NEW key \in Keys, RemovePresent(key) PROVE LeavesOnRequest
  <2>1. PICK index \in Index(key) :
          nodes[index] = key /\ nodes' = [nodes EXCEPT ![index] = None]
        BY <1>6 DEF RemovePresent
  <2>2. number_nodes' = number_nodes /\ reply' = Reply("remove", key, TRUE)
        BY <1>6 DEF RemovePresent
  <2>3. ASSUME NEW slot \in Occupied, nodes[slot] # key
        PROVE  nodes[slot] \in Stored'
    <3>1. nodes'[slot] = nodes[slot] /\ slot \in Occupied'
          BY <2>1, <2>2, <2>3 DEF Occupied, Slots, SafeInv, TypeOK
    <3> QED  BY <3>1 DEF Stored
  <2>4. reply'.op = "remove" /\ reply'.key = key  BY <2>2 DEF Reply
  <2> QED  BY <2>3, <2>4 DEF LeavesOnRequest, Stored
<1>7. CASE Clear
  <2>1. reply'.op = "clear"  BY <1>7 DEF Clear, Reply
  <2> QED  BY <2>1 DEF LeavesOnRequest
<1>8. ASSUME NEW key \in Keys,
             \/ SearchNeverEnds(key) \/ Contains(key) \/ AddPresent(key)
             \/ AddGrowFails(key) \/ RemoveAbsent(key)
      PROVE UNCHANGED <<nodes, number_nodes>>
      BY <1>8 DEF SearchNeverEnds, Contains, AddPresent, AddGrowFails, RemoveAbsent
<1>9. CASE StartWalk \/ NextKey \/ NextEnd
      BY <1>1, <1>9 DEF StartWalk, NextKey, NextEnd
<1>10. CASE UNCHANGED vars  BY <1>1, <1>10 DEF vars
<1> QED  BY <1>1, <1>2, <1>3, <1>4, <1>5, <1>6, <1>7, <1>8, <1>9, <1>10 DEF Next

(* A stored key leaves the set only by a remove of that key or by a clear: *)
(* through failed allocations, growth and the rehash that follows it.      *)
THEOREM NoKeyIsLost == Spec => KeysLeaveOnRequest
<1>1. SafeInv /\ [Next]_vars => [LeavesOnRequest]_vars
      BY StepLeavesOnRequest
<1> QED  BY <1>1, SafeInvariant, PTL DEF Spec, KeysLeaveOnRequest

-----------------------------------------------------------------------------
(* What a search of a key of the set goes by.                               *)
LEMMA SearchTyped ==
  ASSUME SafeInv
  PROVE  /\ number_nodes \in Nat /\ number_nodes > 0
         /\ \A key \in Stored : key \in Keys /\ key # None
         /\ \A key \in Keys : hash[key] \in Nat
<1>1. Stored \subseteq Keys  BY DEF SafeInv, TypeOK, Stored, Occupied
<1> QED  BY <1>1, InitialNodesPositive, NoneAssumption, HashesAssumption
         DEF SafeInv, TypeOK

(* A new key in the slot where its search ended is found there, and whoever *)
(* was found still is.                                                      *)
LEMMA FillingHidesNone ==
  ASSUME SafeInv, UNCHANGED <<number_nodes, hash>>,
         NEW key \in Keys, NEW index \in Index(key), nodes[index] = None,
         nodes' = [nodes EXCEPT ![index] = key]
  PROVE  Hidden' \subseteq Hidden
<1> SUFFICES ASSUME NEW k \in Hidden' PROVE k \in Hidden
    OBVIOUS
<1> DEFINE n == number_nodes
<1>1. /\ index \in Slots
      /\ \A s \in Slots : nodes'[s] = IF s = index THEN key ELSE nodes[s]
      /\ key # None /\ hash[key] \in Nat /\ n \in Nat /\ n > 0 /\ Slots = 0 .. n-1
      BY IndexInSlots, SearchTyped, NoneAssumption DEF SafeInv, TypeOK, Slots
<1>2. /\ k \in Stored'
      /\ \E s \in StopsAt(nodes', n, hash[k], k) : nodes'[s] = None
      BY DEF Hidden, Index
<1>3. PICK t \in Slots : nodes'[t] = k /\ k # None
      BY <1>2 DEF Stored, Occupied, Slots
<1>4. k # key
  <2>1. Reached(nodes, n, hash[key], key, index)  BY StopsWhereReached DEF Index
  <2>2. Reached(nodes', n, hash[key], key, index)  BY <1>1, <2>1, FillingKeepsPath
  <2>3. nodes'[index] \in {None, key} /\ nodes'[index] # None  BY <1>1
  <2>4. hash[key] \in Nat /\ n \in Nat  BY <1>1
  <2> HIDE DEF n
  <2>5. StopsAt(nodes', n, hash[key], key) = {index}
    <3>1. PICK filled : filled = nodes'  OBVIOUS
    <3>2. filled[index] \in {None, key} /\ Reached(filled, n, hash[key], key, index)
          BY <2>2, <2>3, <3>1
    <3>3. StopsAt(filled, n, hash[key], key) = {index}
          BY <2>4, <3>2, StopsOnlyThere
    <3> QED  BY <3>1, <3>3
  <2> QED  BY <1>2, <2>3, <2>5
<1>5. k \in Stored /\ k \in Keys /\ hash[k] \in Nat
  <2>1. t # index /\ nodes[t] = k  BY <1>1, <1>3, <1>4
  <2>2. k \in Stored  BY <1>3, <2>1 DEF Stored, Occupied
  <2> QED  BY <2>2, SearchTyped
<1>6. PICK x \in Index(k) : TRUE
  <2>1. index \in 0 .. n-1 /\ n \in Nat /\ n > 0 /\ hash[k] \in Nat
        BY <1>1, <1>5
  <2> HIDE DEF n
  <2>2. StopsAt(nodes, n, hash[k], k) # {}  BY <2>1, SearchEnds
  <2> QED  BY <2>2 DEF Index, n
<1>7. x \in Slots /\ nodes[x] \in {None, k}  BY <1>1, <1>5, StopsAtSlot DEF Index
<1>8. ASSUME nodes[x] = k PROVE FALSE
  <2>1. x # index /\ nodes'[x] = k  BY <1>1, <1>3, <1>7, <1>8
  <2>2. Reached(nodes, n, hash[k], k, x)  BY StopsWhereReached DEF Index
  <2>3. Reached(nodes', n, hash[k], k, x)  BY <1>1, <1>5, <2>2, FillingKeepsPath
  <2>4. /\ nodes'[x] \in {None, k} /\ nodes'[x] # None
        /\ hash[k] \in Nat /\ n \in Nat
        BY <1>1, <1>3, <1>5, <2>1
  <2> HIDE DEF n
  <2>5. StopsAt(nodes', n, hash[k], k) = {x}
    <3>1. PICK filled : filled = nodes'  OBVIOUS
    <3>2. filled[x] \in {None, k} /\ Reached(filled, n, hash[k], k, x)
          BY <2>3, <2>4, <3>1
    <3>3. StopsAt(filled, n, hash[k], k) = {x}
          BY <2>4, <3>2, StopsOnlyThere
    <3> QED  BY <3>1, <3>3
  <2> QED  BY <1>2, <2>4, <2>5
<1> QED  BY <1>5, <1>7, <1>8 DEF Hidden

(* A key that emptying a slot hides is now looked for no further than there.*)
LEMMA EmptyingHides ==
  ASSUME SafeInv, UNCHANGED <<number_nodes, hash>>,
         NEW i \in Slots, nodes[i] # None, nodes' = [nodes EXCEPT ![i] = None],
         NEW k \in Hidden' \ Hidden
  PROVE  i \in Occupied \ Occupied' /\ i \in Index(k)'
<1> DEFINE n == number_nodes
<1>1. /\ \A s \in Slots : nodes'[s] = IF s = i THEN None ELSE nodes[s]
      /\ n \in Nat /\ n > 0 /\ Slots = 0 .. n-1 /\ Slots' = Slots
      BY SearchTyped DEF SafeInv, TypeOK, Slots
<1>2. PICK s \in StopsAt(nodes', n, hash[k], k) : nodes'[s] = None
      BY DEF Hidden, Index
<1>3. PICK t \in Slots : nodes'[t] = k /\ k # None
      BY DEF Hidden, Stored, Occupied, Slots
<1>4. k \in Stored /\ k \in Keys /\ hash[k] \in Nat
  <2>1. k \in Stored  BY <1>1, <1>3 DEF Stored, Occupied
  <2> QED  BY <2>1, SearchTyped
<1>5. s \in Slots  BY <1>1, <1>4, StopsAtSlot
<1>6. ASSUME s # i PROVE FALSE
  <2>1. nodes[s] = None  BY <1>1, <1>2, <1>5, <1>6
  <2>2. Reached(nodes', n, hash[k], k, s)  BY StopsWhereReached
  <2>3. Reached(nodes, n, hash[k], k, s)  BY <1>1, <1>4, <2>2, FillingKeepsPath
  <2>4. Index(k) = {s}  BY <1>1, <1>4, <2>1, <2>3, StopsOnlyThere DEF Index
  <2> QED  BY <1>4, <2>1, <2>4 DEF Hidden
<1>7. i \in Occupied \ Occupied'  BY <1>1 DEF Occupied
<1> QED  BY <1>2, <1>6, <1>7 DEF Index

LEMMA StepHides ==
  ASSUME SafeInv, [Next]_vars
  PROVE  HiddenByRemove
<1> SUFFICES ASSUME status = "idle", status' = "idle", NEW k \in Hidden' \ Hidden
             PROVE  reply'.op = "remove" /\ \E i \in Occupied \ Occupied' : i \in Index(k)'
    BY DEF HiddenByRemove
<1>1. CASE UNCHANGED <<nodes, number_nodes, hash>>
      BY <1>1 DEF Hidden, Stored, Occupied, Slots, Index
<1>2. ASSUME NEW key \in Keys, AddAbsent(key) PROVE FALSE
  <2>1. PICK index \in Index(key) : nodes[index] = None /\ AssignAndCount(key, index)
        BY <1>2 DEF AddAbsent
  <2>2. UNCHANGED <<number_nodes, hash>>  BY <1>2 DEF AddAbsent
  <2>3. CASE nodes' = [nodes EXCEPT ![index] = key]  BY <2>1, <2>2, <2>3, FillingHidesNone
  <2>4. CASE nodes' = nodes
        BY <2>2, <2>4 DEF Hidden, Stored, Occupied, Slots, Index
  <2> QED  BY <2>1, <2>3, <2>4 DEF AssignAndCount
<1>3. ASSUME NEW key \in Keys, RemovePresent(key)
      PROVE  reply'.op = "remove" /\ \E i \in Occupied \ Occupied' : i \in Index(k)'
  <2>1. PICK i \in Index(key) : nodes[i] = key /\ nodes' = [nodes EXCEPT ![i] = None]
        BY <1>3 DEF RemovePresent
  <2>2. UNCHANGED <<number_nodes, hash>> /\ reply'.op = "remove"
        BY <1>3 DEF RemovePresent, Reply
  <2>3. i \in Slots /\ nodes[i] # None  BY <2>1, IndexInSlots, NoneAssumption DEF SafeInv
  <2> QED  BY <2>1, <2>2, <2>3, EmptyingHides
<1>4. CASE Clear
  <2>1. Occupied' = {}  BY <1>4 DEF Clear, Occupied, Slots
  <2> QED  BY <2>1 DEF Hidden, Stored
<1>5. ASSUME NEW key \in Keys,
             \/ Contains(key) \/ AddPresent(key) \/ AddGrowFails(key) \/ RemoveAbsent(key)
      PROVE  UNCHANGED <<nodes, number_nodes, hash>>
      BY <1>5 DEF Contains, AddPresent, AddGrowFails, RemoveAbsent
<1>6. CASE StartWalk \/ NextKey \/ NextEnd
      BY <1>1, <1>6 DEF StartWalk, NextKey, NextEnd
<1>7. CASE UNCHANGED vars  BY <1>1, <1>7 DEF vars
<1>8. ASSUME NEW key \in Keys, SearchNeverEnds(key) \/ AddGrow(key) PROVE FALSE
      BY <1>8 DEF SearchNeverEnds, AddGrow
<1>9. ~ RehashNode /\ ~ AddAfterRehash  BY DEF RehashNode, AddAfterRehash
<1> QED  BY <1>1, <1>2, <1>3, <1>4, <1>5, <1>6, <1>7, <1>8, <1>9 DEF Next

(* No call but a remove hides a key that is stored, and it hides only keys  *)
(* whose search passed the slot it empties, until the array grows and after.*)
THEOREM KeysHideBehindRemoves == Spec => OnlyRemovesHide
<1>1. SafeInv /\ [Next]_vars => [HiddenByRemove]_vars
      BY StepHides
<1> QED  BY <1>1, SafeInvariant, PTL DEF Spec, OnlyRemovesHide
-----------------------------------------------------------------------------
(***************************************************************************)
(* Below the size at which it grows, and as long as removes cut no probe   *)
(* sequence, the set is the one hash_set.h promises: HashSet implements    *)
(* KeySet.  The invariant: every node is on the way of the search for its  *)
(* key, at home if no two keys have the same home; what a walk has returned*)
(* is still there, in front of the client's index.                         *)
(***************************************************************************)
AtHome(slot) == slot = Probe(number_nodes, hash[nodes[slot]], 0)

PlacesInv ==
  \A slot \in Occupied :
    /\ Reached(nodes, number_nodes, hash[nodes[slot]], nodes[slot], slot)
    /\ Spread => AtHome(slot)

WalkInv ==
  /\ yielded \subseteq Stored
  /\ \A slot \in Occupied : nodes[slot] \in yielded => slot < cursor

CareInv == SafeInv /\ NotGrown /\ PlacesInv /\ WalkInv

(* The state of the walk in KeySet. *)
Owed == {nodes[i] : i \in {j \in Occupied : j >= cursor}} \ late

(* What the invariant says of a stored key, and of a search. *)
LEMMA StoredKeyIsFound ==
  ASSUME CareInv, NEW slot \in Occupied
  PROVE  /\ slot \in Slots /\ nodes[slot] \in Keys /\ nodes[slot] \in Stored
         /\ Index(nodes[slot]) = {slot}
<1>1. slot \in Slots /\ nodes[slot] \in Keys /\ nodes[slot] \in Stored
      BY DEF CareInv, SafeInv, TypeOK, Occupied, Stored
<1>2. hash[nodes[slot]] \in Nat /\ number_nodes \in Nat
      BY <1>1 DEF CareInv, SafeInv, TypeOK
<1> QED  BY <1>1, <1>2, StopsOnlyThere DEF CareInv, PlacesInv, Index

LEMMA SearchTellsMembers ==
  ASSUME CareInv, NEW key \in Keys, NEW index \in Index(key)
  PROVE  /\ index \in Slots
         /\ \/ /\ nodes[index] = key /\ index \in Occupied /\ key \in Stored
               /\ \A slot \in Occupied : nodes[slot] = key => slot = index
            \/ nodes[index] = None /\ key \notin Stored
<1>1. index \in Slots /\ nodes[index] \in {None, key}
      BY IndexInSlots DEF CareInv, SafeInv
<1>2. ASSUME NEW slot \in Occupied, nodes[slot] = key PROVE slot = index
      BY <1>2, StoredKeyIsFound
<1>3. CASE nodes[index] = key
      BY <1>1, <1>2, <1>3 DEF Occupied, Stored
<1>4. CASE nodes[index] = None
      BY <1>1, <1>2, <1>4 DEF Occupied, Stored
<1> QED  BY <1>1, <1>3, <1>4

(* The place a new key takes. *)
LEMMA NewKeyPlace ==
  ASSUME CareInv, NEW key \in Keys, NEW index \in Index(key)
  PROVE  /\ Reached(nodes, number_nodes, hash[key], key, index)
         /\ Spread => index = Probe(number_nodes, hash[key], 0)
<1>1. Reached(nodes, number_nodes, hash[key], key, index)
      BY StopsWhereReached DEF Index
<1>2. ASSUME Spread PROVE index = Probe(number_nodes, hash[key], 0)
  <2> DEFINE home == Probe(number_nodes, hash[key], 0)
  <2>1. hash[key] \in Nat /\ number_nodes \in Nat /\ number_nodes > 0
        BY InitialNodesPositive DEF CareInv, SafeInv, TypeOK
  <2>2. home \in Slots  BY <2>1, ProbeInSlots DEF Slots
  <2>3. Reached(nodes, number_nodes, hash[key], key, home)  BY <2>1, HomeIsReached
  <2> HIDE DEF home
  <2>4. nodes[home] \in {None, key}
    <3> SUFFICES ASSUME nodes[home] # None PROVE nodes[home] = key  OBVIOUS
    <3>1. home \in Occupied  BY <2>2 DEF Occupied
    <3>2. home = Probe(number_nodes, hash[nodes[home]], 0) /\ nodes[home] \in Keys
          BY <3>1, <1>2, StoredKeyIsFound DEF CareInv, PlacesInv, AtHome
    <3> QED  BY <3>2, <1>2 DEF home, Spread, CareInv, NotGrown
  <2>5. Index(key) = {home}  BY <2>1, <2>3, <2>4, StopsOnlyThere DEF Index
  <2> QED  BY <2>5 DEF home
<1> QED  BY <1>1, <1>2

LEMMA SpreadIsRigid ==
  ASSUME UNCHANGED hash
  PROVE  Spread' <=> Spread
BY DEF Spread, InitialNodes, HASH_SET_DEFAULT_NUM_NODES

(* An add of a new key, with memory for its node. *)
LEMMA AddAbsentEffect ==
  ASSUME CareInv, ~MallocMayFail, NEW key \in Keys, AddAbsent(key)
  PROVE  \E index \in Index(key) :
           /\ index \in Slots /\ index \notin Occupied /\ key \notin Stored
           /\ nodes' = [nodes EXCEPT ![index] = key]
           /\ Occupied' = Occupied \union {index}
           /\ \A slot \in Occupied : nodes'[slot] = nodes[slot]
           /\ nodes'[index] = key
           /\ Stored' = Stored \union {key}
           /\ late' = late \union {key} /\ reply' = Reply("add", key, OK)
           /\ UNCHANGED <<number_nodes, hash, cursor, yielded>>
<1>1. PICK index \in Index(key) : nodes[index] = None /\ AssignAndCount(key, index)
      BY DEF AddAbsent
<1>2. index \in Slots /\ key \notin Stored
      BY <1>1, SearchTellsMembers
<1>3. /\ nodes' = [nodes EXCEPT ![index] = key]
      /\ late' = late \union {key} /\ reply' = Reply("add", key, OK)
      BY <1>1 DEF AssignAndCount, Allocated
<1>4. UNCHANGED <<number_nodes, hash, cursor, yielded>>  BY DEF AddAbsent
<1>5. index \notin Occupied /\ Slots' = Slots  BY <1>1, <1>4 DEF Occupied, Slots
<1>6. \A s \in Slots : nodes'[s] = IF s = index THEN key ELSE nodes[s]
      BY <1>2, <1>3 DEF CareInv, SafeInv, TypeOK
<1>7. Occupied' = Occupied \union {index}
      BY <1>2, <1>5, <1>6 DEF Occupied
<1>8. \A slot \in Occupied : nodes'[slot] = nodes[slot]
      BY <1>5, <1>6 DEF Occupied
<1>9. nodes'[index] = key  BY <1>2, <1>6
<1>10. Stored' = Stored \union {key}  BY <1>7, <1>8, <1>9 DEF Stored
<1> QED  BY <1>1, <1>2, <1>3, <1>4, <1>5, <1>7, <1>8, <1>9, <1>10

LEMMA AddAbsentCare ==
  ASSUME CareInv, ~MallocMayFail, NEW key \in Keys, AddAbsent(key)
  PROVE  PlacesInv' /\ WalkInv' /\ Abstract!Add(key)
<1>1. PICK index \in Index(key) :
           /\ index \in Slots /\ index \notin Occupied /\ key \notin Stored
           /\ nodes' = [nodes EXCEPT ![index] = key]
           /\ Occupied' = Occupied \union {index}
           /\ \A slot \in Occupied : nodes'[slot] = nodes[slot]
           /\ nodes'[index] = key
           /\ Stored' = Stored \union {key}
           /\ late' = late \union {key} /\ reply' = Reply("add", key, OK)
           /\ UNCHANGED <<number_nodes, hash, cursor, yielded>>
      BY AddAbsentEffect
<1>2. number_nodes \in Nat /\ number_nodes > 0 /\ nodes[index] = None
      BY <1>1, InitialNodesPositive DEF CareInv, SafeInv, TypeOK, Occupied
<1>3. PlacesInv'
  <2> SUFFICES ASSUME NEW slot \in Occupied'
               PROVE  /\ Reached(nodes', number_nodes, hash[nodes'[slot]], nodes'[slot], slot)
                      /\ Spread => slot = Probe(number_nodes, hash[nodes'[slot]], 0)
      BY <1>1, SpreadIsRigid DEF PlacesInv, AtHome
  <2>1. /\ Reached(nodes, number_nodes, hash[nodes'[slot]], nodes'[slot], slot)
        /\ Spread => slot = Probe(number_nodes, hash[nodes'[slot]], 0)
        /\ nodes'[slot] \in Keys
    <3>1. CASE slot \in Occupied
          BY <3>1, <1>1, StoredKeyIsFound DEF CareInv, PlacesInv, AtHome
    <3>2. CASE slot = index  BY <3>2, <1>1, NewKeyPlace
    <3> QED  BY <3>1, <3>2, <1>1
  <2>2. hash[nodes'[slot]] \in Nat  BY <2>1 DEF CareInv, SafeInv, TypeOK
  <2>3. \A s \in 0 .. number_nodes - 1 : s # index => nodes'[s] = nodes[s]
        BY <1>1 DEF CareInv, SafeInv, TypeOK, Slots
  <2> QED  BY <1>2, <2>1, <2>2, <2>3, FillingKeepsPath
<1>4. WalkInv'
  <2>1. key \notin yielded  BY <1>1 DEF CareInv, WalkInv
  <2> QED  BY <2>1, <1>1 DEF CareInv, WalkInv
<1>5. Owed' = Owed
  <2> DEFINE Ahead == {nodes[i] : i \in {j \in Occupied : j >= cursor}}
  <2>1. Ahead \subseteq Stored  BY DEF Stored
  <2>2. Ahead' \subseteq Ahead \union {key} /\ Ahead \subseteq Ahead'
        BY <1>1
  <2>3. Owed = Ahead \ late /\ Owed' = Ahead' \ late'  BY DEF Owed
  <2> HIDE DEF Ahead
  <2> QED  BY <2>1, <2>2, <2>3, <1>1
<1> QED  BY <1>1, <1>3, <1>4, <1>5 DEF Abstract!Add, Owed, Reply, Abstract!Reply

(* A remove of a key that is there: no other slot holds it. *)
LEMMA RemovePresentCare ==
  ASSUME CareInv, NEW key \in Keys, RemovePresent(key), EmptiesASlot => Spread
  PROVE  PlacesInv' /\ WalkInv' /\ Abstract!Remove(key)
<1>1. PICK index \in Index(key) :
        nodes[index] = key /\ nodes' = [nodes EXCEPT ![index] = None]
      BY DEF RemovePresent
<1>2. /\ UNCHANGED <<number_nodes, hash, cursor, late>>
      /\ yielded' = yielded \ {key} /\ reply' = Reply("remove", key, TRUE)
      BY DEF RemovePresent
<1>3. /\ index \in Slots /\ index \in Occupied /\ key \in Stored
      /\ \A slot \in Occupied : nodes[slot] = key => slot = index
      BY <1>1, SearchTellsMembers
<1>4. \A s \in Slots : nodes'[s] = IF s = index THEN None ELSE nodes[s]
      BY <1>1, <1>3 DEF CareInv, SafeInv, TypeOK
<1>5. Occupied' = Occupied \ {index}
      BY <1>2, <1>3, <1>4 DEF Occupied, Slots
<1>6. \A slot \in Occupied' : slot \in Occupied /\ nodes'[slot] = nodes[slot] /\ nodes[slot] # key
      BY <1>3, <1>4, <1>5 DEF Occupied
<1>7. Stored' = Stored \ {key}
      BY <1>1, <1>3, <1>5, <1>6 DEF Stored
<1>8. Spread  BY <1>3, <1>4 DEF EmptiesASlot, Occupied
<1>9. PlacesInv'
  <2> SUFFICES ASSUME NEW slot \in Occupied'
               PROVE  /\ Reached(nodes', number_nodes, hash[nodes'[slot]], nodes'[slot], slot)
                      /\ slot = Probe(number_nodes, hash[nodes'[slot]], 0)
      BY <1>2 DEF PlacesInv, AtHome
  <2>1. slot = Probe(number_nodes, hash[nodes'[slot]], 0)
        BY <1>6, <1>8 DEF CareInv, PlacesInv, AtHome
  <2>2. number_nodes \in Nat /\ number_nodes > 0
        BY InitialNodesPositive DEF CareInv, SafeInv, TypeOK
  <2>3. Reached(nodes', number_nodes, hash[nodes'[slot]], nodes'[slot],
                Probe(number_nodes, hash[nodes'[slot]], 0))
        BY <2>2, HomeIsReached
  <2> QED  BY <2>1, <2>3
<1>10. WalkInv'  BY <1>2, <1>6, <1>7 DEF CareInv, WalkInv
<1>11. Owed' = Owed \ {key}
  <2> DEFINE Ahead == {nodes[i] : i \in {j \in Occupied : j >= cursor}}
  <2>1. Ahead' \subseteq Ahead \ {key}  BY <1>2, <1>6
  <2>2. Ahead \ {key} \subseteq Ahead'  BY <1>1, <1>2, <1>4, <1>5 DEF Occupied
  <2>3. Owed = Ahead \ late /\ Owed' = Ahead' \ late'  BY DEF Owed
  <2> HIDE DEF Ahead
  <2> QED  BY <2>1, <2>2, <2>3, <1>2
<1>12. (key \in Stored) = TRUE  BY <1>3
<1> QED  BY <1>2, <1>7, <1>9, <1>10, <1>11, <1>12
         DEF Abstract!Remove, Owed, Reply, Abstract!Reply
(* Calls that leave the nodes alone: the answer is about the members. *)
LEMMA SameNodes ==
  ASSUME UNCHANGED <<nodes, number_nodes, hash>>
  PROVE  /\ Occupied' = Occupied /\ Stored' = Stored
         /\ PlacesInv' <=> PlacesInv
<1>1. Occupied' = Occupied /\ Stored' = Stored  BY DEF Occupied, Slots, Stored
<1> QED  BY <1>1, SpreadIsRigid DEF PlacesInv, AtHome

LEMMA AnswerCare ==
  ASSUME CareInv, NEW key \in Keys,
         Contains(key) \/ AddPresent(key) \/ RemoveAbsent(key)
  PROVE  /\ PlacesInv' /\ WalkInv'
         /\ Abstract!Contains(key) \/ Abstract!Add(key) \/ Abstract!Remove(key)
<1>1. UNCHANGED <<nodes, number_nodes, hash, cursor, yielded, late>>
      BY DEF Contains, AddPresent, RemoveAbsent
<1>2. /\ Occupied' = Occupied /\ Stored' = Stored /\ Owed' = Owed
      /\ PlacesInv' /\ WalkInv'
      BY <1>1, SameNodes DEF CareInv, WalkInv, Owed
<1>3. CASE Contains(key)
  <2>1. PICK index \in Index(key) : reply' = Reply("contains", key, nodes[index] = key)
        BY <1>3 DEF Contains
  <2>2. nodes[index] = key <=> key \in Stored
        BY SearchTellsMembers, NoneAssumption
  <2>3. (nodes[index] = key) = (key \in Stored)  BY <2>2
  <2>4. reply' = Reply("contains", key, key \in Stored)  BY <2>1, <2>3
  <2> QED  BY <2>4, <1>1, <1>2 DEF Abstract!Contains, Owed, Reply, Abstract!Reply
<1>4. CASE AddPresent(key)
  <2>1. key \in Stored  BY <1>4, SearchTellsMembers, NoneAssumption DEF AddPresent
  <2>2. Stored = Stored \union {key} /\ reply' = Reply("add", key, OK)
        BY <1>4, <2>1 DEF AddPresent
  <2> QED  BY <2>2, <1>1, <1>2 DEF Abstract!Add, Owed, Reply, Abstract!Reply
<1>5. CASE RemoveAbsent(key)
  <2>1. key \notin Stored
        BY <1>5, SearchTellsMembers, NoneAssumption DEF RemoveAbsent
  <2>2. /\ Stored = Stored \ {key} /\ yielded = yielded \ {key} /\ Owed = Owed \ {key}
        /\ (key \in Stored) = FALSE /\ reply' = Reply("remove", key, FALSE)
        BY <1>5, <2>1 DEF RemoveAbsent, CareInv, WalkInv, Owed, Stored
  <2> QED  BY <2>2, <1>1, <1>2 DEF Abstract!Remove, Owed, Reply, Abstract!Reply
<1> QED  BY <1>2, <1>3, <1>4, <1>5

LEMMA ClearCare ==
  ASSUME CareInv, Clear
  PROVE  PlacesInv' /\ WalkInv' /\ Abstract!Clear
<1>1. Occupied' = {}  BY DEF Clear, Occupied, Slots
<1>2. Stored' = {} /\ Owed' = {}  BY <1>1 DEF Stored, Owed
<1> QED  BY <1>1, <1>2 DEF Clear, PlacesInv, WalkInv, Abstract!Clear, Owed, Reply,
                           Abstract!Reply

LEMMA StartWalkCare ==
  ASSUME CareInv, StartWalk
  PROVE  PlacesInv' /\ WalkInv' /\ Abstract!StartWalk
<1>1. /\ UNCHANGED <<nodes, number_nodes, hash>>
      /\ cursor' = 0 /\ yielded' = {} /\ late' = {}
      BY DEF StartWalk
<1>2. Occupied' = Occupied /\ Stored' = Stored /\ PlacesInv'
      BY <1>1, SameNodes DEF CareInv
<1>3. Owed' = Stored
      BY <1>1, <1>2 DEF Owed, Stored, Occupied, Slots
<1> QED  BY <1>1, <1>2, <1>3 DEF StartWalk, WalkInv, Abstract!StartWalk, Owed, Reply,
                                 Abstract!Reply

(* hash_set_next returns a member it has not returned yet. *)
LEMMA NextKeyCare ==
  ASSUME CareInv, NextKey
  PROVE  PlacesInv' /\ WalkInv' /\ Abstract!NextKey
<1>1. PICK i \in Occupied :
        /\ i >= cursor /\ \A j \in Occupied : j >= cursor => i <= j
        /\ cursor' = i + 1
        /\ yielded' = yielded \union {nodes[i]}
        /\ reply' = Reply("next", nodes[i], OK)
      BY DEF NextKey
<1>2. UNCHANGED <<nodes, number_nodes, hash, late>>  BY DEF NextKey
<1>3. Occupied' = Occupied /\ Stored' = Stored /\ PlacesInv'
      BY <1>2, SameNodes DEF CareInv
<1>4. i \in Nat /\ cursor \in Nat /\ Occupied \subseteq Nat
      BY DEF Occupied, Slots, CareInv, SafeInv, TypeOK
<1>5. \A j \in Occupied : nodes[j] = nodes[i] => j = i
  <2> SUFFICES ASSUME NEW j \in Occupied, nodes[j] = nodes[i] PROVE j = i  OBVIOUS
  <2>1. Index(nodes[j]) = {j} /\ Index(nodes[i]) = {i}  BY StoredKeyIsFound
  <2> QED  BY <2>1
<1>6. nodes[i] \in Stored \ yielded
  <2>1. ~ (i < cursor)  BY <1>1, <1>4
  <2> QED  BY <2>1, StoredKeyIsFound DEF CareInv, WalkInv
<1>7. WalkInv'
  <2>1. yielded' \subseteq Stored'  BY <1>1, <1>3, <1>6 DEF CareInv, WalkInv
  <2>2. ASSUME NEW slot \in Occupied, nodes[slot] \in yielded' PROVE slot < cursor'
    <3>1. CASE nodes[slot] \in yielded
      <4>1. slot < cursor  BY <3>1 DEF CareInv, WalkInv
      <4> QED  BY <4>1, <1>1, <1>4
    <3>2. CASE nodes[slot] = nodes[i]  BY <3>2, <1>1, <1>4, <1>5
    <3> QED  BY <3>1, <3>2, <2>2, <1>1
  <2> QED  BY <2>1, <2>2, <1>2, <1>3 DEF WalkInv
<1>8. Owed' = Owed \ {nodes[i]}
  <2> DEFINE Ahead == {nodes[j] : j \in {k \in Occupied : k >= cursor}}
  <2>1. Ahead' = {nodes[j] : j \in {k \in Occupied : k >= i + 1}}
        BY <1>1, <1>2, <1>3
  <2>2. \A k \in Occupied : k >= i + 1 <=> k >= cursor /\ k # i
        BY <1>1, <1>4
  <2>3. Ahead' = Ahead \ {nodes[i]}  BY <2>1, <2>2, <1>5
  <2>4. Owed = Ahead \ late /\ Owed' = Ahead' \ late'  BY DEF Owed
  <2> HIDE DEF Ahead
  <2> QED  BY <2>3, <2>4, <1>2
<1> QED  BY <1>1, <1>3, <1>6, <1>7, <1>8
         DEF Abstract!NextKey, Owed, Reply, Abstract!Reply

(* It returns NULL only when nothing is owed. *)
LEMMA NextEndCare ==
  ASSUME CareInv, NextEnd
  PROVE  PlacesInv' /\ WalkInv' /\ Abstract!NextEnd
<1>1. /\ \A i \in Occupied : i < cursor
      /\ cursor' = IF cursor < number_nodes THEN number_nodes ELSE cursor
      /\ reply' = Reply("next", None, OK)
      /\ UNCHANGED <<nodes, number_nodes, hash, yielded, late>>
      BY DEF NextEnd
<1>2. Occupied' = Occupied /\ Stored' = Stored /\ PlacesInv'
      BY <1>1, SameNodes DEF CareInv
<1>3. Occupied \subseteq Nat /\ cursor \in Nat /\ number_nodes \in Nat
      BY DEF Occupied, Slots, CareInv, SafeInv, TypeOK
<1>4. \A i \in Occupied : i < cursor'  BY <1>1, <1>3
<1>5. WalkInv'  BY <1>1, <1>2, <1>4 DEF CareInv, WalkInv
<1>6. cursor' \in Nat  BY <1>1, <1>3
<1>7. Owed = {} /\ Owed' = {}
  <2>1. \A i \in Occupied : ~ (i >= cursor)  BY <1>1, <1>3
  <2>2. \A i \in Occupied' : ~ (i >= cursor')  BY <1>2, <1>3, <1>4, <1>6
  <2> QED  BY <2>1, <2>2, <1>2 DEF Owed
<1> QED  BY <1>1, <1>2, <1>5, <1>7 DEF Abstract!NextEnd, Owed, Reply, Abstract!Reply

(* A step that neither the walk nor the members, nor the answer, show. *)
LEMMA StutterCare ==
  ASSUME CareInv, UNCHANGED <<nodes, number_nodes, hash, cursor, yielded, late, reply>>
  PROVE  PlacesInv' /\ WalkInv' /\ UNCHANGED Abstract!vars
<1>1. Occupied' = Occupied /\ Stored' = Stored /\ PlacesInv'
      BY SameNodes DEF CareInv
<1>2. Owed' = Owed /\ WalkInv'  BY <1>1 DEF CareInv, WalkInv, Owed
<1> QED  BY <1>1, <1>2 DEF Abstract!vars, Owed

(* Every step of the careful client keeps the invariant and is a step of    *)
(* KeySet, or none.                                                         *)
LEMMA CarefulStep ==
  ASSUME ~MallocMayFail, CareInv, [CarefulNext]_vars
  PROVE  CareInv' /\ [Abstract!Next]_Abstract!vars
<1>1. SafeInv'  BY NextSafe DEF CareInv, CarefulNext
<1>2. CASE UNCHANGED vars
  <2>1. NotGrown'  BY <1>2 DEF CareInv, NotGrown, vars
  <2> QED  BY <1>1, <1>2, <2>1, StutterCare DEF CareInv, vars
<1>3. CASE CarefulNext
  <2>1. NotGrown' /\ Next /\ (EmptiesASlot => Spread \/ Clear)  BY <1>3 DEF CarefulNext
  <2> SUFFICES PlacesInv' /\ WalkInv' /\ [Abstract!Next]_Abstract!vars
      BY <1>1, <2>1 DEF CareInv
  <2>2. ASSUME NEW key \in Keys, SearchNeverEnds(key)
        PROVE  PlacesInv' /\ WalkInv' /\ UNCHANGED Abstract!vars
        BY <2>2, StutterCare DEF SearchNeverEnds
  <2>3. ASSUME NEW key \in Keys, Contains(key) \/ AddPresent(key) \/ RemoveAbsent(key)
        PROVE  PlacesInv' /\ WalkInv' /\ Abstract!Next
        BY <2>3, AnswerCare DEF Abstract!Next
  <2>4. ASSUME NEW key \in Keys, AddAbsent(key)
        PROVE  PlacesInv' /\ WalkInv' /\ Abstract!Next
        BY <2>4, AddAbsentCare DEF Abstract!Next
  <2>5. ASSUME NEW key \in Keys, RemovePresent(key)
        PROVE  PlacesInv' /\ WalkInv' /\ Abstract!Next
    <3>1. ~ Clear
      <4>1. reply' = Reply("remove", key, TRUE)  BY <2>5 DEF RemovePresent
      <4>2. Clear => reply' = Reply("clear", None, OK)  BY DEF Clear
      <4>3. Reply("remove", key, TRUE).op = "remove" /\ Reply("clear", None, OK).op = "clear"
            BY DEF Reply
      <4> QED  BY <4>1, <4>2, <4>3
    <3> QED  BY <3>1, <2>1, <2>5, RemovePresentCare DEF Abstract!Next
  <2>6. CASE \/ RehashNode \/ AddAfterRehash
             \/ \E key \in Keys : AddGrow(key)
    <3>1. number_nodes' >= 2 * InitialNodes /\ number_nodes' \in Nat
      <4>1. number_nodes \in Nat /\ number_nodes = InitialNodes
            BY DEF CareInv, SafeInv, TypeOK, NotGrown
      <4>2. CASE RehashNode \/ AddAfterRehash
            BY <4>1, <4>2 DEF RehashNode, AddAfterRehash, CareInv, SafeInv, GrowthInv
      <4>3. CASE \E key \in Keys : AddGrow(key)
            BY <4>1, <4>3 DEF AddGrow
      <4> QED  BY <2>6, <4>2, <4>3
    <3> QED  BY <3>1, <2>1, InitialNodesPositive DEF NotGrown, InitialNodes,
                HASH_SET_DEFAULT_NUM_NODES
  <2>7. ASSUME NEW key \in Keys PROVE ~ AddGrowFails(key)
        BY DEF AddGrowFails
  <2>8. CASE Clear  BY <2>8, ClearCare DEF Abstract!Next
  <2>9. CASE StartWalk  BY <2>9, StartWalkCare DEF Abstract!Next
  <2>10. CASE NextKey  BY <2>10, NextKeyCare DEF Abstract!Next
  <2>11. CASE NextEnd  BY <2>11, NextEndCare DEF Abstract!Next
  <2> QED
    BY <2>1, <2>2, <2>3, <2>4, <2>5, <2>6, <2>7, <2>8, <2>9, <2>10, <2>11 DEF Next
<1> QED  BY <1>2, <1>3

LEMMA InitCare == Init => CareInv /\ Abstract!Init
<1> SUFFICES ASSUME Init PROVE CareInv /\ Abstract!Init  OBVIOUS
<1>1. SafeInv  BY InitSafe
<1>2. Occupied = {}  BY DEF Init, Occupied, Slots
<1>3. Stored = {} /\ Owed = {}  BY <1>2 DEF Stored, Owed
<1>4. CareInv
      BY <1>1, <1>2, <1>3 DEF Init, CareInv, NotGrown, PlacesInv, WalkInv
<1>5. Abstract!Init
      BY <1>3 DEF Init, Abstract!Init, Owed, Reply, Abstract!Reply
<1> QED  BY <1>4, <1>5

(* hash_set.h: with memory for the nodes, below the size at which the array *)
(* grows, and when removes are made only if no two keys meet, the program   *)
(* of hash_set.c is a set of strings and a walk over it.                    *)
THEOREM SetImplementsKeySet == ~MallocMayFail => (CarefulSpec => KeySetSpec)
<1> SUFFICES ASSUME ~MallocMayFail PROVE CarefulSpec => KeySetSpec  OBVIOUS
<1>1. CareInv /\ [CarefulNext]_vars => CareInv' /\ [Abstract!Next]_Abstract!vars
      BY CarefulStep
<1> QED  BY <1>1, InitCare, PTL DEF CarefulSpec, KeySetSpec, Abstract!Spec

(* For that client too, a search that ends in an empty slot is right about  *)
(* the key being stored nowhere.                                            *)
THEOREM KeysAreFound == ~MallocMayFail => (CarefulSpec => []FoundBeforeGrowth)
<1> SUFFICES ASSUME ~MallocMayFail PROVE CarefulSpec => []FoundBeforeGrowth  OBVIOUS
<1>1. CareInv /\ [CarefulNext]_vars => CareInv'  BY CarefulStep
<1>2. CareInv => FoundBeforeGrowth
  <2>1. ASSUME CareInv, NEW key \in Stored, NEW index \in Index(key)
        PROVE  nodes[index] # None
    <3>1. key \in Keys /\ key # None
          BY <2>1 DEF CareInv, SafeInv, TypeOK, Stored, Occupied, Slots
    <3>2. nodes[index] = key  BY <2>1, <3>1, SearchTellsMembers, NoneAssumption
    <3> QED  BY <3>1, <3>2
  <2> QED  BY <2>1 DEF FoundBeforeGrowth, EmptySlotMeansAbsent
<1> QED  BY <1>1, <1>2, InitCare, PTL DEF CarefulSpec
=============================================================================
