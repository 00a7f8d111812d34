------------------------------ MODULE SwigTypes ------------------------------
(***************************************************************************)
(* The part of fapolicyanalyzer_wrap.c that modules made by SWIG share in  *)
(* one interpreter: a ring of modules, and for every type the types that   *)
(* are accepted in its place.  A module that is imported later takes the   *)
(* types that are there already for its own and adds to what they accept.  *)
(*                                                                         *)
(* A type is known by the module and the place it comes from, <<m, i>>.    *)
(***************************************************************************)
EXTENDS Integers, Sequences, SequencesExt

CONSTANTS SwigModules,     \* the modules of the interpreter
          NameOrder,       \* all names of types, in the order of strcmp
          type_initial,    \* [SwigModules -> Seq(names)], sorted: their types,
          cast_initial,    \* [SwigModules -> Seq(Seq(names))]: for each the
                           \* types that are accepted in its place
          NULL

VARIABLES next,            \* the ring: the module after each one, or NULL
          type_pointer,    \* the module the interpreter keeps for all, or NULL
          types,           \* the types of each module, <<>> before its import
          cast,            \* what each type accepts, first the last one asked for
          clientdata       \* the class of each type, or NULL

typeVars == <<next, type_pointer, types, cast, clientdata>>

InitialTypes == UNION {{m} \X (1..Len(type_initial[m])) : m \in SwigModules}

Name(type) == type_initial[type[1]][type[2]]

Places(names) == [n \in Range(names) |-> CHOOSE k \in DOMAIN names : names[k] = n]

Order == Places(NameOrder)

strcmp(a, b) == Order[a] - Order[b]

(* The place of a name in the initial types of a module. *)
Initially == [m \in SwigModules |-> Places(type_initial[m])]

(* SWIG sorts the types of a module by their names, and has a row of         *)
(* different types for each.                                                 *)
ASSUME ModulesAssumption == IsFiniteSet(SwigModules) /\ NULL \notin SwigModules \union InitialTypes
ASSUME NamesAssumption ==
  /\ NameOrder \in Seq(Range(NameOrder))
  /\ type_initial \in [SwigModules -> Seq(Range(NameOrder))]
  /\ \A m \in SwigModules : \A j, k \in DOMAIN type_initial[m] :
        j < k => strcmp(type_initial[m][j], type_initial[m][k]) < 0
ASSUME CastsAssumption ==
  \A m \in SwigModules : \A i \in DOMAIN type_initial[m] :
     /\ cast_initial[m][i] \in Seq(Range(type_initial[m]))
     /\ IsInjective(cast_initial[m][i])

-----------------------------------------------------------------------------
(* Mutant of Look: a step to the left forgets the place beside it. *)
LookLeft(list, name, at) ==
  LET i == (at.l + at.r) \div 2
      compare == strcmp(name, Name(list[i + 1]))
  IN IF at.ret # NULL \/ at.l > at.r THEN at
     ELSE IF compare = 0 THEN [at EXCEPT !.ret = list[i + 1]]
     ELSE IF compare > 0 THEN [at EXCEPT !.l = i + 1]
     ELSE [at EXCEPT !.r = i - 2]

(* A round of the binary search in a list of types, from l to r.  That the  *)
(* place is before the first one ends it: r is -1 then.                     *)
Look(list, name, at) ==
  LET i == (at.l + at.r) \div 2
      compare == strcmp(name, Name(list[i + 1]))
  IN IF at.ret # NULL \/ at.l > at.r THEN at
     ELSE IF compare = 0 THEN [at EXCEPT !.ret = list[i + 1]]
     ELSE IF compare > 0 THEN [at EXCEPT !.l = i + 1]
     ELSE [at EXCEPT !.r = i - 1]

(* What the binary search finds: no list takes more rounds than it is long. *)
Searched(list, name) ==
  LET at[n \in 0..Len(list)] ==
        IF n = 0 THEN [l |-> 0, r |-> Len(list) - 1, ret |-> NULL]
        ELSE Look(list, name, at[n - 1])
  IN at[Len(list)].ret

(* The binary search in the types of a module. *)
InModule(m, name) == Searched(types[m], name)

(* The module after at.iter, unless that is the end or something was found. *)
LookFurther(ring, end, name, at) ==
  IF at.ret # NULL \/ ring[at.iter] = end THEN at
  ELSE [iter |-> ring[at.iter], ret |-> InModule(ring[at.iter], name)]

(* The search in the modules of the ring from start up to end. *)
SWIG_MangledTypeQueryModule(ring, start, end, name) ==
  LET at[n \in 0..Cardinality(SwigModules)] ==
        IF n = 0 THEN [iter |-> start, ret |-> InModule(start, name)]
        ELSE LookFurther(ring, end, name, at[n - 1])
  IN at[Cardinality(SwigModules)].ret

(* What a type accepts, after it was asked for the one at place k. *)
MoveToFront(list, k) == <<list[k]>> \o RemoveAt(list, k)

(* The place of a name in what a type accepts, 0 if it is not there. *)
SWIG_TypeCheck(name, list) ==
  LET found == {k \in DOMAIN list : Name(list[k]) = name}
  IN IF found = {} THEN 0 ELSE CHOOSE k \in found : \A j \in found : k <= j

-----------------------------------------------------------------------------
TypesInit ==
  /\ next = [m \in SwigModules |-> NULL]
  /\ type_pointer = NULL
  /\ types = [m \in SwigModules |-> <<>>]
  /\ cast = [type \in InitialTypes |-> <<>>]
  /\ clientdata = [type \in InitialTypes |-> NULL]

(* A type of that name in the modules imported before m. *)
Known(m, ring, name) ==
  IF ring[m] = m THEN NULL ELSE SWIG_MangledTypeQueryModule(ring, ring[m], m, name)

(* One entry of a row of cast_initial, and what its type accepts so far:    *)
(* the entry is added if there is none of that name.  A type that is new     *)
(* goes by the types that are known.                                         *)
InsertCast(m, ring, type, name, list) ==
  LET own == <<m, Initially[m][name]>>
      ret == Known(m, ring, name)
      k == SWIG_TypeCheck(name, list)
  IN IF ret # NULL /\ type[1] # m /\ k # 0
     THEN MoveToFront(list, k)
     ELSE <<IF ret # NULL /\ type[1] = m THEN ret ELSE own>> \o list

(* What a type accepts after the row of that place. *)
AddRow(m, ring, type, i) ==
  LET row == cast_initial[m][i]
      list[n \in 0..Len(row)] ==
        IF n = 0 THEN cast[type] ELSE InsertCast(m, ring, type, row[n], list[n - 1])
  IN list[Len(row)]

(* The types of a module that joins the ring. *)
TypesOf(m, ring) ==
  [i \in DOMAIN type_initial[m] |->
     LET known == Known(m, ring, type_initial[m][i])
     IN IF known # NULL THEN known ELSE <<m, i>>]

(* The import of a module, SWIG_init: it joins the ring, fills its types and *)
(* adds its casts, a row for each type.  An interpreter calls it once for a  *)
(* module.                                                                   *)
SWIG_InitializeModule(m) ==
  LET ring == IF type_pointer = NULL THEN [next EXCEPT ![m] = m]
              ELSE [next EXCEPT ![m] = next[type_pointer], ![type_pointer] = m]
      mine == TypesOf(m, ring)
      rows(type) == {i \in DOMAIN mine : mine[i] = type}
  IN /\ next[m] = NULL
     /\ next' = ring
     /\ type_pointer' = IF type_pointer = NULL THEN m ELSE type_pointer
     /\ types' = [types EXCEPT ![m] = mine]
     /\ cast' = [type \in InitialTypes |->
                   IF rows(type) = {} THEN cast[type]
                   ELSE AddRow(m, ring, type, CHOOSE i \in rows(type) : TRUE)]
     /\ UNCHANGED clientdata

(* swigregister tells a type, and the types it accepts as they are, of the   *)
(* class made for it.  Here a type accepts as it is only itself.             *)
SWIG_TypeClientData(type, class) ==
  /\ clientdata' = [clientdata EXCEPT ![type] = class]
  /\ UNCHANGED <<next, type_pointer, types, cast>>

(* The type of a module by its name, as SWIGTYPE_p_... *)
TypeOf(m, name) == types[m][Initially[m][name]]

-----------------------------------------------------------------------------
(* Two modules that name the same type mean the same one, whichever came     *)
(* first, every module finds all its types by their names, and no type       *)
(* accepts the same name twice: what one module makes, the others take.      *)
OneTypePerName ==
  /\ \A m \in SwigModules : \A k \in DOMAIN types[m] :
        LET name == type_initial[m][k]
        IN /\ Name(types[m][k]) = name
           /\ InModule(m, name) = types[m][k]
           /\ \A l \in SwigModules \ {m} :
                 types[l] # <<>> /\ name \in DOMAIN Initially[l]
                   => TypeOf(l, name) = types[m][k]
  /\ \A type \in InitialTypes : \A j, k \in DOMAIN cast[type] :
        j # k => Name(cast[type][j]) # Name(cast[type][k])
=============================================================================
