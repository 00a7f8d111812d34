------------------------- MODULE PythonBindingProofs -------------------------
(***************************************************************************)
(* Theorems about PythonBinding, for every set of modules made by SWIG,    *)
(* whatever their types and casts, and any number of objects and blocks.   *)
(***************************************************************************)
EXTENDS PythonBinding, FiniteSetTheorems, SequenceTheorems, TLAPS

NaturalNumbers == INSTANCE ProbingProofs WITH None <- NULL

-----------------------------------------------------------------------------
(* The types. *)

Imported == {m \in SwigModules : next[m] # NULL}

TypesTyped ==
  /\ next \in [SwigModules -> SwigModules \union {NULL}]
  /\ type_pointer \in SwigModules \union {NULL}
  /\ types \in [SwigModules -> Seq(InitialTypes)]
  /\ cast \in [InitialTypes -> Seq(InitialTypes)]

(* The modules in the order of the ring, the one the interpreter keeps last. *)
IsRing(n, s) ==
  /\ n \in Nat
  /\ s \in [1 .. n -> SwigModules]
  /\ \A j, k \in 1 .. n : s[j] = s[k] => j = k
  /\ \A m \in SwigModules : next[m] # NULL <=> \E k \in 1 .. n : s[k] = m
  /\ type_pointer = IF n = 0 THEN NULL ELSE s[n]
  /\ \A k \in 1 .. n : next[s[k]] = IF k = n THEN s[1] ELSE s[k + 1]

Ring == \E n \in Nat : \E s \in [1 .. n -> SwigModules] : IsRing(n, s)

(* The types of a module that was imported have its names, in its order. *)
Named ==
  \A m \in SwigModules :
    IF next[m] = NULL THEN types[m] = <<>>
    ELSE /\ Len(types[m]) = Len(type_initial[m])
         /\ \A k \in 1 .. Len(type_initial[m]) :
              /\ Name(types[m][k]) = type_initial[m][k]
              /\ types[m][k][1] \in Imported

Shared ==
  \A l, m \in Imported :
    \A j \in 1 .. Len(type_initial[l]), k \in 1 .. Len(type_initial[m]) :
      type_initial[l][j] = type_initial[m][k] => types[l][j] = types[m][k]

DistinctNames(list) ==
  \A j, k \in 1 .. Len(list) : Name(list[j]) = Name(list[k]) => j = k

(* A module that was imported has a type of that name. *)
IsKnown(name) ==
  \E l \in Imported : \E k \in 1 .. Len(type_initial[l]) : type_initial[l][k] = name

(* Some module says that a type of the second name goes for one of the first. *)
Accepts(name, other) ==
  \E m \in SwigModules : \E i \in 1 .. Len(type_initial[m]) :
    type_initial[m][i] = name /\ other \in Range(cast_initial[m][i])

CastsRight ==
  \A type \in InitialTypes :
    /\ DistinctNames(cast[type])
    /\ \A k \in 1 .. Len(cast[type]) :
         /\ type[1] \in Imported
         /\ IsKnown(Name(cast[type][k]))
         /\ Accepts(Name(type), Name(cast[type][k]))

TypesInv == TypesTyped /\ Ring /\ Named /\ Shared /\ CastsRight

-----------------------------------------------------------------------------
(* The objects. *)

IsField(type) == Name(type) \in {Field, Rich}

(* The kind of block an object of a type stands for. *)
Expects(name) == IF name = Rich THEN Field ELSE Kind(name)

Live == {o \in Objects : obj[o] # NULL}

ObjectsTyped ==
  /\ obj \in [Objects -> SwigPyObject \union {NULL}]
  /\ held \subseteq Live
  /\ lost \subseteq Live
  /\ mem \in [Blocks -> Cells \union {NULL}]

(* A field has its pair of texts, and a parser that was taught has both. *)
Shaped(cell) ==
  /\ cell.kind = Field => cell.first # NULL
  /\ cell.kind = Context /\ cell.of = Taught => cell.first # NULL /\ cell.second # NULL

CellsRight == \A b \in Blocks : mem[b] # NULL => Shaped(mem[b])

PointersRight ==
  \A o \in Live :
    /\ mem[obj[o].ptr] # NULL => mem[obj[o].ptr].kind = Expects(Name(obj[o].ty))
    /\ obj[o].own => IsField(obj[o].ty) /\ mem[obj[o].ptr] # NULL
    /\ IsField(obj[o].ty) => \A p \in Live : obj[p].ptr = obj[o].ptr => p = o

(* Only an object the program holds has one chained to it, and only one: a  *)
(* field like itself that nobody else refers to.                            *)
Chained(o) ==
  LET q == obj[o].next
  IN /\ o \in held
     /\ q \in Live /\ q \notin held /\ q \notin lost
     /\ obj[q].next = NULL
     /\ obj[q].ty = obj[o].ty /\ IsField(obj[q].ty)
     /\ \A p \in Live : obj[p].next = q => p = o

ChainsRight ==
  /\ \A o \in lost : o \notin held /\ IsField(obj[o].ty)
  /\ \A o \in Live : obj[o].next # NULL => Chained(o)

ObjectsInv ==
  /\ ObjectsTyped /\ CellsRight /\ PointersRight /\ ChainsRight
  /\ fault # "freed twice"

-----------------------------------------------------------------------------
(* Names, and the places they have. *)

LEMMA PlaceIs ==
  ASSUME NEW names, NEW k \in DOMAIN names,
         \A j \in DOMAIN names : names[j] = names[k] => j = k
  PROVE  Places(names)[names[k]] = k
<1>1. names[k] \in Range(names)  BY DEF Range
<1>2. Places(names)[names[k]] = CHOOSE j \in DOMAIN names : names[j] = names[k]
      BY <1>1, Zenon DEF Places
<1> QED  BY <1>2

(* strcmp orders the names, and takes no two for the same. *)
LEMMA NamesCompare ==
  ASSUME NEW a \in Range(NameOrder), NEW b \in Range(NameOrder)
  PROVE  /\ Order[a] \in Int
         /\ strcmp(a, b) = Order[a] - Order[b]
         /\ Order[a] = Order[b] => a = b
<1> DEFINE at(n) == CHOOSE k \in DOMAIN NameOrder : NameOrder[k] = n
<1>1. \A n \in Range(NameOrder) : Order[n] = at(n)  BY Zenon DEF Order, Places
<1>2. \A n \in Range(NameOrder) : \E k \in DOMAIN NameOrder : NameOrder[k] = n
      BY DEF Range
<1>3. \A n \in Range(NameOrder) : at(n) \in DOMAIN NameOrder /\ NameOrder[at(n)] = n
      BY <1>2
<1>4. DOMAIN NameOrder \subseteq Int  BY NamesAssumption
<1> HIDE DEF at
<1> QED  BY <1>1, <1>3, <1>4 DEF strcmp

LEMMA InitialNames ==
  ASSUME NEW m \in SwigModules
  PROVE  /\ Len(type_initial[m]) \in Nat
         /\ DOMAIN type_initial[m] = 1 .. Len(type_initial[m])
         /\ \A k \in 1 .. Len(type_initial[m]) :
              /\ type_initial[m][k] \in Range(NameOrder)
              /\ <<m, k>> \in InitialTypes
              /\ Name(<<m, k>>) = type_initial[m][k]
              /\ Initially[m][type_initial[m][k]] = k
         /\ \A j, k \in 1 .. Len(type_initial[m]) :
              /\ type_initial[m][j] = type_initial[m][k] => j = k
              /\ j < k => strcmp(type_initial[m][j], type_initial[m][k]) < 0
<1> DEFINE names == type_initial[m]
           L == Len(names)
<1>1. names \in Seq(Range(NameOrder))  BY NamesAssumption
<1>2. L \in Nat /\ DOMAIN names = 1 .. L
      /\ \A k \in 1 .. L : names[k] \in Range(NameOrder)
      BY <1>1
<1>3. \A j, k \in 1 .. L : j < k => strcmp(names[j], names[k]) < 0
      BY <1>2, NamesAssumption
<1>4. \A k \in 1 .. L : <<m, k>> \in InitialTypes /\ Name(<<m, k>>) = names[k]
      BY DEF InitialTypes, Name
<1>5. Initially[m] = Places(names)  BY DEF Initially
<1> HIDE DEF names, L
<1>6. ASSUME NEW j \in 1 .. L, NEW k \in 1 .. L, names[j] = names[k] PROVE j = k
  <2>1. strcmp(names[j], names[k]) = 0 /\ strcmp(names[k], names[j]) = 0
        BY <1>2, <1>6, NamesCompare
  <2>2. ~ (j < k) /\ ~ (k < j)  BY <2>1, <1>3
  <2> QED  BY <2>2, <1>2
<1>7. ASSUME NEW k \in 1 .. L PROVE Initially[m][names[k]] = k
      BY <1>2, <1>5, <1>6, PlaceIs
<1> QED  BY <1>2, <1>3, <1>4, <1>6, <1>7 DEF names, L

LEMMA TypesHaveNames ==
  ASSUME NEW type \in InitialTypes
  PROVE  /\ type[1] \in SwigModules /\ type[2] \in 1 .. Len(type_initial[type[1]])
         /\ type = <<type[1], type[2]>>
         /\ Name(type) = type_initial[type[1]][type[2]]
         /\ Name(type) \in Range(NameOrder)
         /\ type # NULL
<1>1. PICK m \in SwigModules : type \in {m} \X (1 .. Len(type_initial[m]))
      BY DEF InitialTypes
<1>2. type[1] = m /\ type[2] \in 1 .. Len(type_initial[m]) /\ type = <<type[1], type[2]>>
      BY <1>1
<1>3. type # NULL  BY ModulesAssumption
<1> QED  BY <1>2, <1>3, InitialNames DEF Name

-----------------------------------------------------------------------------
(* The binary search. *)

SortedTypes(list) ==
  /\ list \in Seq(InitialTypes)
  /\ \A j, k \in 1 .. Len(list) : j < k => strcmp(Name(list[j]), Name(list[k])) < 0

Rounds(list) ==
  [l : 0 .. Len(list), r : -1 .. Len(list) - 1, ret : InitialTypes \union {NULL}]

(* After n rounds the type of that name was found, or can only lie from l to *)
(* r, and these are fewer by n.                                              *)
Narrowed(list, name, n, at) ==
  IF at.ret = NULL
  THEN /\ \A k \in 1 .. Len(list) : Name(list[k]) = name => at.l < k /\ k <= at.r + 1
       /\ at.l > at.r \/ at.r - at.l + 1 <= Len(list) - n
  ELSE \E k \in 1 .. Len(list) : at.ret = list[k] /\ Name(list[k]) = name

LEMMA LookTyped ==
  ASSUME NEW list \in Seq(InitialTypes), NEW name, NEW at \in Rounds(list)
  PROVE  Look(list, name, at) \in Rounds(list)
<1> DEFINE L == Len(list)
           l == at.l
           r == at.r
           i == (l + r) \div 2
<1>1. /\ L \in Nat /\ l \in 0 .. L /\ r \in -1 .. L - 1
      /\ at.ret \in InitialTypes \union {NULL}
      /\ at = [l |-> l, r |-> r, ret |-> at.ret]
      BY DEF Rounds
<1> HIDE DEF L, l, r
<1>2. CASE at.ret # NULL \/ l > r
      BY <1>2 DEF Look, l, r
<1>3. CASE at.ret = NULL /\ ~ (l > r)
  <2>1. i \in 0 .. L - 1 /\ i + 1 \in 1 .. L  BY <1>1, <1>3
  <2>2. list[i + 1] \in InitialTypes  BY <2>1 DEF L
  <2> DEFINE c == strcmp(name, Name(list[i + 1]))
  <2>3. Look(list, name, at) =
          IF c = 0 THEN [at EXCEPT !.ret = list[i + 1]]
          ELSE IF c > 0 THEN [at EXCEPT !.l = i + 1] ELSE [at EXCEPT !.r = i - 1]
        BY <1>3 DEF Look, l, r
  <2> HIDE DEF c, i
  <2>4. i + 1 \in 0 .. L /\ i - 1 \in -1 .. L - 1  BY <2>1, <1>1
  <2>5. [at EXCEPT !.ret = list[i + 1]] \in Rounds(list)  BY <2>2 DEF Rounds
  <2>6. [at EXCEPT !.l = i + 1] \in Rounds(list)  BY <2>4 DEF Rounds, L
  <2>7. [at EXCEPT !.r = i - 1] \in Rounds(list)  BY <2>4 DEF Rounds, L
  <2> QED  BY <2>3, <2>5, <2>6, <2>7
<1> QED  BY <1>2, <1>3

LEMMA LookNarrows ==
  ASSUME NEW list, SortedTypes(list), NEW name \in Range(NameOrder),
         NEW n \in Nat, NEW at \in Rounds(list), Narrowed(list, name, n, at)
  PROVE  Narrowed(list, name, n + 1, Look(list, name, at))
<1> DEFINE L == Len(list)
           l == at.l
           r == at.r
           i == (l + r) \div 2
           order(k) == Order[Name(list[k])]
<1>1. /\ L \in Nat /\ l \in 0 .. L /\ r \in -1 .. L - 1
      /\ \A k \in 1 .. L : list[k] \in InitialTypes /\ list[k] # NULL
      BY TypesHaveNames DEF Rounds, SortedTypes
<1>2. /\ Order[name] \in Int
      /\ \A k \in 1 .. L :
           /\ order(k) \in Int
           /\ strcmp(name, Name(list[k])) = Order[name] - order(k)
           /\ Order[name] = order(k) <=> Name(list[k]) = name
      BY <1>1, TypesHaveNames, NamesCompare
<1>3. \A j, k \in 1 .. L : j < k => order(j) < order(k)
  <2> SUFFICES ASSUME NEW j \in 1 .. L, NEW k \in 1 .. L, j < k PROVE order(j) < order(k)
      OBVIOUS
  <2>1. strcmp(Name(list[j]), Name(list[k])) < 0  BY DEF SortedTypes
  <2>2. strcmp(Name(list[j]), Name(list[k])) = order(j) - order(k)
        BY <1>1, TypesHaveNames, NamesCompare
  <2> QED  BY <2>1, <2>2, <1>2
<1> HIDE DEF order
<1>4. CASE at.ret # NULL
      BY <1>4 DEF Look, Narrowed
<1>5. CASE at.ret = NULL /\ l > r
      BY <1>5 DEF Look, Narrowed
<1>6. CASE at.ret = NULL /\ ~ (l > r)
  <2>1. i \in 0 .. L - 1 /\ i + 1 \in 1 .. L /\ l <= i /\ i <= r
        BY <1>1, <1>6
  <2> DEFINE c == strcmp(name, Name(list[i + 1]))
  <2>2. Look(list, name, at) =
          IF c = 0 THEN [at EXCEPT !.ret = list[i + 1]]
          ELSE IF c > 0 THEN [at EXCEPT !.l = i + 1] ELSE [at EXCEPT !.r = i - 1]
        BY <1>6 DEF Look
  <2>3. c = Order[name] - order(i + 1)  BY <2>1, <1>2
  <2>4. /\ \A k \in 1 .. L : Name(list[k]) = name => l < k /\ k <= r + 1
        /\ r - l + 1 <= L - n
        BY <1>6 DEF Narrowed
  <2> HIDE DEF c, i
  <2>5. CASE c = 0
    <3>1. Name(list[i + 1]) = name /\ list[i + 1] # NULL
          BY <2>1, <2>3, <2>5, <1>1, <1>2
    <3>2. [at EXCEPT !.ret = list[i + 1]].ret = list[i + 1]  BY DEF Rounds
    <3> QED  BY <3>1, <3>2, <2>1, <2>2, <2>5 DEF Narrowed
  <2>6. CASE c > 0
    <3> DEFINE new == [at EXCEPT !.l = i + 1]
    <3>1. new.l = i + 1 /\ new.r = r /\ new.ret = NULL  BY <1>6 DEF Rounds
    <3>2. ASSUME NEW k \in 1 .. L, Name(list[k]) = name PROVE i + 1 < k /\ k <= r + 1
      <4>1. order(k) > order(i + 1)  BY <3>2, <1>2, <2>1, <2>3, <2>6
      <4>2. ~ (k < i + 1) /\ k # i + 1  BY <4>1, <2>1, <1>2, <1>3
      <4> QED  BY <4>2, <3>2, <2>4, <2>1
    <3>3. r - (i + 1) + 1 <= L - (n + 1)  BY <2>1, <2>4, <1>1
    <3> HIDE DEF new
    <3>4. Narrowed(list, name, n + 1, new)  BY <3>1, <3>2, <3>3 DEF Narrowed
    <3> QED  BY <3>4, <2>2, <2>6 DEF new
  <2>7. CASE c < 0
    <3> DEFINE new == [at EXCEPT !.r = i - 1]
    <3>1. new.l = l /\ new.r = i - 1 /\ new.ret = NULL  BY <1>6 DEF Rounds
    <3>2. ASSUME NEW k \in 1 .. L, Name(list[k]) = name PROVE l < k /\ k <= (i - 1) + 1
      <4>1. order(k) < order(i + 1)  BY <3>2, <1>2, <2>1, <2>3, <2>7
      <4>2. ~ (i + 1 < k) /\ k # i + 1  BY <4>1, <2>1, <1>2, <1>3
      <4> QED  BY <4>2, <3>2, <2>4, <2>1
    <3>3. (i - 1) - l + 1 <= L - (n + 1)  BY <2>1, <2>4, <1>1
    <3> HIDE DEF new
    <3>4. Narrowed(list, name, n + 1, new)  BY <3>1, <3>2, <3>3 DEF Narrowed
    <3>5. ~ (c = 0) /\ ~ (c > 0)  BY <2>7, <2>3, <1>2, <2>1
    <3> QED  BY <3>4, <3>5, <2>2 DEF new
  <2>8. c = 0 \/ c > 0 \/ c < 0  BY <2>3, <1>2, <2>1
  <2> QED  BY <2>5, <2>6, <2>7, <2>8
<1> QED  BY <1>4, <1>5, <1>6

LEMMA SearchFinds ==
  ASSUME NEW list, SortedTypes(list), NEW name \in Range(NameOrder)
  PROVE  /\ \A k \in 1 .. Len(list) : Name(list[k]) = name => Searched(list, name) = list[k]
         /\ (\A k \in 1 .. Len(list) : Name(list[k]) # name) => Searched(list, name) = NULL
<1> DEFINE L == Len(list)
           base == [l |-> 0, r |-> L - 1, ret |-> NULL]
           step == [n \in 1 .. L |-> [at \in Rounds(list) |-> Look(list, name, at)]]
           Is(f) == f = [n \in 0 .. L |-> IF n = 0 THEN base ELSE Look(list, name, f[n-1])]
<1>1. L \in Nat /\ list \in Seq(InitialTypes)  BY DEF SortedTypes
<1>2. base \in Rounds(list) /\ Narrowed(list, name, 0, base)
      BY <1>1 DEF Rounds, Narrowed
<1>3. step \in [1 .. L -> [Rounds(list) -> Rounds(list)]]
  <2>1. \A at \in Rounds(list) : Look(list, name, at) \in Rounds(list)
        BY <1>1, LookTyped
  <2> QED  BY <2>1
<1> HIDE DEF step, base
<1>4. PICK f : f \in NaturalNumbers!Run(L, Rounds(list), base, step)
      BY <1>1, <1>2, <1>3, NaturalNumbers!Recursion
<1>5. /\ f \in [0 .. L -> Rounds(list)] /\ f[0] = base
      /\ \A n \in 1 .. L : f[n] = step[n][f[n-1]]
      BY <1>4 DEF NaturalNumbers!Run
<1>6. ASSUME NEW n \in 1 .. L PROVE f[n] = Look(list, name, f[n-1])
  <2>1. f[n-1] \in Rounds(list)  BY <1>1, <1>5
  <2> QED  BY <1>5, <2>1 DEF step
<1>7. Is(f)
  <2>1. \A n \in 0 .. L : f[n] = IF n = 0 THEN base ELSE Look(list, name, f[n-1])
        BY <1>1, <1>5, <1>6
  <2> QED  BY <1>5, <2>1
<1> DEFINE g == CHOOSE g : Is(g)
<1>8. Is(g)  BY <1>7
<1>9. Searched(list, name) = g[L].ret  BY DEF Searched, base
<1> HIDE DEF g
<1> DEFINE Good(n, at) == at \in Rounds(list) /\ Narrowed(list, name, n, at)
           good == {n \in 0 .. L : Good(n, g[n])}
<1>10. 0 \in good  BY <1>1, <1>2, <1>8
<1>11. ASSUME NEW n \in 1 .. L, n - 1 \in good PROVE n \in good
  <2>1. g[n] = Look(list, name, g[n-1])
    <3>1. \A k \in 0 .. L : g[k] = IF k = 0 THEN base ELSE Look(list, name, g[k-1])
          BY <1>8
    <3>2. n \in 0 .. L /\ n # 0  BY <1>1
    <3> QED  BY <3>1, <3>2
  <2>2. Good(n - 1, g[n-1]) /\ n - 1 \in Nat /\ (n - 1) + 1 = n  BY <1>1, <1>11
  <2>3. Good(n, Look(list, name, g[n-1]))
        BY <2>2, <1>1, LookTyped, LookNarrows
  <2> HIDE DEF Good
  <2> QED  BY <2>1, <2>3, <1>1
<1>12. 0 .. L \subseteq good
  <2> HIDE DEF good
  <2> QED  BY <1>1, <1>10, <1>11, NaturalNumbers!UpTo
<1>13. g[L] \in Rounds(list) /\ Narrowed(list, name, L, g[L])
       BY <1>1, <1>12
<1> DEFINE found == g[L]
<1>14. found.ret = NULL => \A k \in 1 .. L : Name(list[k]) # name
  <2> HIDE DEF found
  <2>1. found \in Rounds(list) /\ Narrowed(list, name, L, found)  BY <1>13 DEF found
  <2>2. found.l \in Int /\ found.r \in Int  BY <2>1, <1>1 DEF Rounds
  <2>3. ASSUME found.ret = NULL, NEW k \in 1 .. L, Name(list[k]) = name PROVE FALSE
    <3>1. found.l < k /\ k <= found.r + 1
          /\ (found.l > found.r \/ found.r - found.l + 1 <= L - L)
          BY <2>1, <2>3 DEF Narrowed
    <3> QED  BY <3>1, <2>2, <1>1
  <2> QED  BY <2>3
<1>15. found.ret # NULL => \E k \in 1 .. L : found.ret = list[k] /\ Name(list[k]) = name
       BY <1>13 DEF Narrowed
<1>16. \A j, k \in 1 .. L : Name(list[j]) = name /\ Name(list[k]) = name => j = k
  <2> SUFFICES ASSUME NEW j \in 1 .. L, NEW k \in 1 .. L,
                      Name(list[j]) = name, Name(list[k]) = name
               PROVE  j = k
      OBVIOUS
  <2>1. strcmp(Name(list[j]), Name(list[k])) = 0 /\ strcmp(Name(list[k]), Name(list[j])) = 0
        BY NamesCompare
  <2>2. ~ (j < k) /\ ~ (k < j)  BY <2>1 DEF SortedTypes
  <2> QED  BY <2>2, <1>1
<1> HIDE DEF found
<1> QED  BY <1>9, <1>14, <1>15, <1>16 DEF found

-----------------------------------------------------------------------------
(* The ring. *)

LEMMA ImportedOrNot ==
  ASSUME NEW m \in SwigModules
  PROVE  m # NULL
BY ModulesAssumption

(* The ring with a module that joins it. *)
Joined(m) ==
  IF type_pointer = NULL THEN [next EXCEPT ![m] = m]
  ELSE [next EXCEPT ![m] = next[type_pointer], ![type_pointer] = m]

(* The modules of a ring from the one that just joined to the one kept. *)
IsJoined(ring, m, n, t) ==
  /\ n \in Nat \ {0}
  /\ t \in [1 .. n -> SwigModules] /\ t[1] = m
  /\ \A j, k \in 1 .. n : t[j] = t[k] => j = k
  /\ ring \in [SwigModules -> SwigModules \union {NULL}]
  /\ \A k \in 1 .. n : ring[t[k]] = IF k = n THEN t[1] ELSE t[k + 1]
  /\ \A l \in SwigModules : ring[l] # NULL <=> next[l] # NULL \/ l = m
  /\ \A l \in Imported : \E k \in 2 .. n : t[k] = l
  /\ \A k \in 2 .. n : t[k] \in Imported
  /\ t[n] = IF type_pointer = NULL THEN m ELSE type_pointer

LEMMA JoinedRing ==
  ASSUME TypesTyped, Ring, NEW m \in SwigModules, next[m] = NULL
  PROVE  \E n, t : IsJoined(Joined(m), m, n, t)
<1>1. PICK n \in Nat : \E s \in [1 .. n -> SwigModules] : IsRing(n, s)  BY DEF Ring
<1>2. PICK s \in [1 .. n -> SwigModules] : IsRing(n, s)  BY <1>1
<1> DEFINE t == [k \in 1 .. n + 1 |-> IF k = 1 THEN m ELSE s[k - 1]]
           ring == Joined(m)
<1>3. /\ \A k \in 1 .. n : s[k] \in SwigModules /\ next[s[k]] # NULL /\ s[k] # m
      /\ \A l \in Imported : \E k \in 1 .. n : s[k] = l
      BY <1>2 DEF IsRing, Imported
<1>4. /\ t \in [1 .. n + 1 -> SwigModules] /\ t[1] = m
      /\ \A k \in 1 .. n : t[k + 1] = s[k]
      /\ \A k \in 2 .. n + 1 : t[k] = s[k - 1] /\ k - 1 \in 1 .. n
      BY <1>3
<1> HIDE DEF t
<1>5. ASSUME NEW j \in 1 .. n + 1, NEW k \in 1 .. n + 1, t[j] = t[k] PROVE j = k
  <2>1. (j = 1 \/ j \in 2 .. n + 1) /\ (k = 1 \/ k \in 2 .. n + 1)  OBVIOUS
  <2>2. CASE j = 1 /\ k = 1  BY <2>2
  <2>3. CASE j = 1 /\ k \in 2 .. n + 1  BY <2>3, <1>3, <1>4, <1>5
  <2>4. CASE k = 1 /\ j \in 2 .. n + 1  BY <2>4, <1>3, <1>4, <1>5
  <2>5. CASE j \in 2 .. n + 1 /\ k \in 2 .. n + 1
    <3>1. s[j - 1] = s[k - 1] /\ j - 1 \in 1 .. n /\ k - 1 \in 1 .. n
          BY <2>5, <1>4, <1>5
    <3>2. j - 1 = k - 1  BY <3>1, <1>2 DEF IsRing
    <3> QED  BY <3>2
  <2> QED  BY <2>1, <2>2, <2>3, <2>4, <2>5
<1>6. CASE n = 0
  <2>1. type_pointer = NULL /\ ring = [next EXCEPT ![m] = m]
        BY <1>2, <1>6 DEF IsRing, Joined
  <2>2. Imported = {}  BY <1>3, <1>6
  <2>3. ring \in [SwigModules -> SwigModules \union {NULL}] /\ ring[m] = m
        BY <2>1 DEF TypesTyped
  <2>4. \A l \in SwigModules : ring[l] # NULL <=> next[l] # NULL \/ l = m
        BY <2>1, <2>2, ImportedOrNot DEF TypesTyped, Imported
  <2> HIDE DEF ring
  <2>5. IsJoined(ring, m, n + 1, t)
        BY <2>1, <2>2, <2>3, <2>4, <1>4, <1>5, <1>6 DEF IsJoined
  <2> QED  BY <2>5 DEF ring
<1>7. CASE n # 0
  <2>1. /\ n \in 1 .. n /\ 1 \in 1 .. n /\ type_pointer = s[n]
        /\ next[s[n]] = s[1] /\ s[n] \in SwigModules /\ s[1] \in SwigModules
        BY <1>2, <1>3, <1>7 DEF IsRing
  <2>2. ring = [next EXCEPT ![m] = s[1], ![s[n]] = m]
        BY <2>1, ImportedOrNot DEF Joined
  <2>3. /\ ring \in [SwigModules -> SwigModules \union {NULL}]
        /\ ring[m] = s[1] /\ ring[s[n]] = m
        /\ \A l \in SwigModules \ {m, s[n]} : ring[l] = next[l]
    <3>1. m # s[n]  BY <2>1, <1>3
    <3>2. next \in [SwigModules -> SwigModules \union {NULL}]  BY DEF TypesTyped
    <3> HIDE DEF ring
    <3> QED  BY <3>1, <3>2, <2>1, <2>2
  <2> HIDE DEF ring
  <2>4. \A l \in SwigModules : ring[l] # NULL <=> next[l] # NULL \/ l = m
        BY <2>1, <2>3, <1>3, ImportedOrNot
  <2>5. ASSUME NEW k \in 1 .. n + 1
        PROVE  ring[t[k]] = IF k = n + 1 THEN t[1] ELSE t[k + 1]
    <3>1. CASE k = 1
      <4>1. t[2] = s[1] /\ k # n + 1  BY <3>1, <1>4, <1>7, <2>1
      <4> QED  BY <3>1, <4>1, <1>4, <2>3
    <3>2. CASE k = n + 1
      <4>1. t[k] = s[n]  BY <3>2, <1>4, <2>1
      <4> QED  BY <3>2, <4>1, <1>4, <2>3
    <3>3. CASE k # 1 /\ k # n + 1
      <4>1. k - 1 \in 1 .. n /\ k - 1 # n /\ k \in 1 .. n /\ (k - 1) + 1 = k
            /\ t[k] = s[k - 1] /\ t[k + 1] = s[k]
            BY <3>3, <1>4
      <4>2. next[s[k - 1]] = s[k] /\ s[k - 1] # s[n]
            BY <4>1, <2>1, <1>2 DEF IsRing
      <4>3. s[k - 1] \in SwigModules \ {m, s[n]}  BY <4>1, <4>2, <1>3
      <4>4. ring[t[k]] = s[k]  BY <4>1, <4>2, <4>3, <2>3
      <4> QED  BY <3>3, <4>1, <4>4
    <3> QED  BY <3>1, <3>2, <3>3
  <2>6. \A k \in 2 .. n + 1 : t[k] \in Imported
        BY <1>3, <1>4 DEF Imported
  <2>7. \A l \in Imported : \E k \in 2 .. n + 1 : t[k] = l
    <3> TAKE l \in Imported
    <3>1. PICK k \in 1 .. n : s[k] = l  BY <1>3
    <3>2. k + 1 \in 2 .. n + 1 /\ t[k + 1] = l  BY <3>1, <1>4
    <3> QED  BY <3>2
  <2>8. type_pointer # NULL /\ t[n + 1] = type_pointer /\ n + 1 \in Nat \ {0}
        BY <2>1, <1>4, ImportedOrNot
  <2>9. IsJoined(ring, m, n + 1, t)
        BY <2>3, <2>4, <2>5, <2>6, <2>7, <2>8, <1>4, <1>5 DEF IsJoined
  <2> QED  BY <2>9 DEF ring
<1> QED  BY <1>6, <1>7

LEMMA JoinedFits ==
  ASSUME NEW ring, NEW m, NEW n, NEW t, IsJoined(ring, m, n, t)
  PROVE  Cardinality(SwigModules) \in Nat /\ n <= Cardinality(SwigModules)
<1>1. n \in Nat /\ t \in [1 .. n -> SwigModules]
      /\ \A j, k \in 1 .. n : t[j] = t[k] => j = k
      BY DEF IsJoined
<1>2. t \in Injection(1 .. n, SwigModules)  BY <1>1 DEF Injection, IsInjective
<1>3. IsFiniteSet(SwigModules)  BY ModulesAssumption
<1>4. Cardinality(1 .. n) <= Cardinality(SwigModules)  BY <1>2, <1>3, FS_Injection
<1>5. Cardinality(1 .. n) = n  BY <1>1, FS_Interval
<1>6. Cardinality(SwigModules) \in Nat  BY <1>3, FS_CardinalityType
<1> QED  BY <1>4, <1>5, <1>6

(* What the search in one module finds. *)
LEMMA InModuleIs ==
  ASSUME TypesTyped, Named, NEW l \in SwigModules, NEW name \in Range(NameOrder)
  PROVE  /\ InModule(l, name) \in InitialTypes \union {NULL}
         /\ InModule(l, name) = NULL =>
              ~ \E k \in 1 .. Len(type_initial[l]) : next[l] # NULL /\ type_initial[l][k] = name
         /\ \A k \in 1 .. Len(type_initial[l]) :
              next[l] # NULL /\ type_initial[l][k] = name => InModule(l, name) = types[l][k]
         /\ InModule(l, name) # NULL =>
              \E k \in 1 .. Len(type_initial[l]) :
                 /\ next[l] # NULL /\ type_initial[l][k] = name
                 /\ InModule(l, name) = types[l][k]
<1> DEFINE list == types[l]
           names == type_initial[l]
<1>1. /\ list \in Seq(InitialTypes) /\ Len(list) \in Nat
      /\ \A k \in 1 .. Len(list) : list[k] \in InitialTypes /\ list[k] # NULL
      BY TypesHaveNames DEF TypesTyped
<1>2. CASE next[l] = NULL
  <2>1. list = <<>> /\ Len(list) = 0  BY <1>2 DEF Named
  <2>2. SortedTypes(list)  BY <2>1, <1>1 DEF SortedTypes
  <2>3. InModule(l, name) = NULL  BY <2>1, <2>2, SearchFinds DEF InModule
  <2> QED  BY <2>3, <1>2
<1>3. CASE next[l] # NULL
  <2>1. Len(list) = Len(names) /\ \A k \in 1 .. Len(names) : Name(list[k]) = names[k]
        BY <1>3 DEF Named
  <2>2. \A j, k \in 1 .. Len(names) :
          /\ names[j] = names[k] => j = k
          /\ j < k => strcmp(names[j], names[k]) < 0
        BY InitialNames
  <2> HIDE DEF list, names
  <2>3. SortedTypes(list)  BY <2>1, <2>2, <1>1 DEF SortedTypes
  <2>4. InModule(l, name) = Searched(list, name)  BY DEF InModule, list
  <2>5. \A k \in 1 .. Len(names) : names[k] = name => InModule(l, name) = list[k]
        BY <2>1, <2>3, <2>4, SearchFinds
  <2>6. (\A k \in 1 .. Len(names) : names[k] # name) => InModule(l, name) = NULL
        BY <2>1, <2>3, <2>4, SearchFinds
  <2> QED  BY <1>1, <1>3, <2>1, <2>5, <2>6 DEF list, names
<1> QED  BY <1>2, <1>3

-----------------------------------------------------------------------------
(* The search in the modules imported before. *)

HasName(l, name) == \E k \in 1 .. Len(type_initial[l]) : type_initial[l][k] = name

(* A type of that name in a module that was imported. *)
IsOneOf(type, name) ==
  \E l \in Imported : \E k \in 1 .. Len(type_initial[l]) :
    type_initial[l][k] = name /\ type = types[l][k]

(* After j steps the type was found, or the modules up to t[p] have none. *)
Passed(t, n, name, j, at) ==
  IF at.ret = NULL
  THEN \E p \in 2 .. n : /\ p >= j + 2 \/ p = n
                         /\ at.iter = t[p]
                         /\ \A q \in 2 .. p : ~ HasName(t[q], name)
  ELSE IsOneOf(at.ret, name)

LEMMA InModuleFinds ==
  ASSUME TypesTyped, Named, NEW l \in Imported, NEW name \in Range(NameOrder)
  PROVE  /\ InModule(l, name) \in InitialTypes \union {NULL}
         /\ InModule(l, name) = NULL => ~ HasName(l, name)
         /\ InModule(l, name) # NULL => IsOneOf(InModule(l, name), name)
<1>1. l \in SwigModules /\ next[l] # NULL  BY DEF Imported
<1>2. /\ InModule(l, name) \in InitialTypes \union {NULL}
      /\ InModule(l, name) = NULL =>
           ~ \E k \in 1 .. Len(type_initial[l]) : next[l] # NULL /\ type_initial[l][k] = name
      /\ InModule(l, name) # NULL =>
           \E k \in 1 .. Len(type_initial[l]) :
              /\ next[l] # NULL /\ type_initial[l][k] = name
              /\ InModule(l, name) = types[l][k]
      BY <1>1, InModuleIs
<1> QED  BY <1>1, <1>2 DEF HasName, IsOneOf

LEMMA FurtherTyped ==
  ASSUME TypesTyped, Named, NEW m \in SwigModules, next[m] = NULL, NEW ring, NEW n, NEW t,
         IsJoined(ring, m, n, t), NEW name \in Range(NameOrder),
         NEW at \in [iter : Imported, ret : InitialTypes \union {NULL}]
  PROVE  LookFurther(ring, m, name, at) \in [iter : Imported, ret : InitialTypes \union {NULL}]
<1>1. at.iter \in Imported  OBVIOUS
<1>2. CASE at.ret # NULL \/ ring[at.iter] = m
      BY <1>2 DEF LookFurther
<1>3. CASE ~ (at.ret # NULL \/ ring[at.iter] = m)
  <2>1. LookFurther(ring, m, name, at) =
          [iter |-> ring[at.iter], ret |-> InModule(ring[at.iter], name)]
        BY <1>3 DEF LookFurther
  <2>2. PICK k \in 2 .. n : t[k] = at.iter  BY <1>1 DEF IsJoined
  <2>3. n \in Nat /\ t[1] = m /\ ring[t[k]] = IF k = n THEN t[1] ELSE t[k + 1]
        BY <2>2 DEF IsJoined
  <2>4. k # n /\ k + 1 \in 2 .. n /\ ring[at.iter] = t[k + 1]
        BY <2>2, <2>3, <1>3
  <2>5. ring[at.iter] \in Imported  BY <2>4 DEF IsJoined
  <2>6. InModule(ring[at.iter], name) \in InitialTypes \union {NULL}
        BY <2>5, InModuleFinds
  <2> QED  BY <2>1, <2>5, <2>6
<1> QED  BY <1>2, <1>3

LEMMA FurtherPasses ==
  ASSUME TypesTyped, Named, NEW m \in SwigModules, next[m] = NULL, NEW ring, NEW n, NEW t,
         IsJoined(ring, m, n, t), NEW name \in Range(NameOrder),
         NEW j \in Nat,
         NEW at \in [iter : Imported, ret : InitialTypes \union {NULL}],
         Passed(t, n, name, j, at)
  PROVE  Passed(t, n, name, j + 1, LookFurther(ring, m, name, at))
<1>1. CASE at.ret # NULL
      BY <1>1 DEF Passed, LookFurther
<1>2. CASE at.ret = NULL
  <2>1. PICK p \in 2 .. n : /\ p >= j + 2 \/ p = n
                            /\ at.iter = t[p]
                            /\ \A q \in 2 .. p : ~ HasName(t[q], name)
        BY <1>2 DEF Passed
  <2>2. /\ n \in Nat /\ t[1] = m /\ ring[t[p]] = IF p = n THEN t[1] ELSE t[p + 1]
        /\ \A k \in 2 .. n : t[k] \in Imported
        BY DEF IsJoined
  <2>3. m \notin Imported  BY DEF Imported
  <2>4. CASE p = n
    <3>1. LookFurther(ring, m, name, at) = at  BY <2>1, <2>2, <2>4 DEF LookFurther
    <3> QED  BY <3>1, <2>1, <2>4, <1>2 DEF Passed
  <2>5. CASE p # n
    <3>1. p + 1 \in 2 .. n /\ t[p + 1] \in Imported /\ ring[at.iter] = t[p + 1]
          BY <2>1, <2>2, <2>5
    <3> DEFINE l == t[p + 1]
               new == [iter |-> l, ret |-> InModule(l, name)]
    <3>2. LookFurther(ring, m, name, at) = new
          BY <3>1, <2>3, <1>2 DEF LookFurther
    <3>3. CASE InModule(l, name) = NULL
      <4>1. ~ HasName(l, name)  BY <3>1, <3>3, InModuleFinds
      <4>2. \A q \in 2 .. p + 1 : ~ HasName(t[q], name)
        <5> TAKE q \in 2 .. p + 1
        <5>1. q = p + 1 \/ q \in 2 .. p  BY <2>2
        <5> QED  BY <5>1, <4>1, <2>1
      <4>3. (p + 1) >= (j + 1) + 2  BY <2>1, <2>5, <2>2
      <4>4. new.iter = t[p + 1] /\ new.ret = NULL  BY <3>3
      <4> HIDE DEF new, l
      <4> QED  BY <4>2, <4>3, <4>4, <3>1, <3>2 DEF Passed
    <3>4. CASE InModule(l, name) # NULL
      <4>1. IsOneOf(InModule(l, name), name)  BY <3>1, <3>4, InModuleFinds
      <4>2. new.ret = InModule(l, name)  OBVIOUS
      <4> HIDE DEF new
      <4> QED  BY <4>1, <4>2, <3>2, <3>4 DEF Passed
    <3> QED  BY <3>3, <3>4
  <2> QED  BY <2>4, <2>5
<1> QED  BY <1>1, <1>2

LEMMA QueryFinds ==
  ASSUME TypesTyped, Named, NEW m \in SwigModules, next[m] = NULL, NEW ring, NEW n, NEW t,
         IsJoined(ring, m, n, t), n # 1, NEW name \in Range(NameOrder)
  PROVE  LET ret == SWIG_MangledTypeQueryModule(ring, ring[m], m, name)
         IN /\ ret \in InitialTypes \union {NULL}
            /\ ret = NULL => ~ IsKnown(name)
            /\ ret # NULL => IsOneOf(ret, name)
<1> DEFINE C == Cardinality(SwigModules)
           S == [iter : Imported, ret : InitialTypes \union {NULL}]
           start == ring[m]
           base == [iter |-> start, ret |-> InModule(start, name)]
           more(at) == LookFurther(ring, m, name, at)
           step == [j \in 1 .. C |-> [at \in S |-> more(at)]]
           Is(f) == f = [j \in 0 .. C |-> IF j = 0 THEN base ELSE more(f[j-1])]
<1>1. /\ C \in Nat /\ n \in Nat /\ 2 \in 2 .. n /\ n <= C
      /\ start = t[2] /\ start \in Imported
  <2>1. n \in Nat \ {0} /\ t[1] = m  BY DEF IsJoined
  <2>2. 1 \in 1 .. n /\ 2 \in 2 .. n /\ ring[t[1]] = t[1 + 1]  BY <2>1 DEF IsJoined
  <2>3. t[2] \in Imported  BY <2>2 DEF IsJoined
  <2> QED  BY <2>1, <2>2, <2>3, JoinedFits
<1> HIDE DEF C, start
<1>2. base \in S /\ Passed(t, n, name, 0, base)
  <2>1. /\ InModule(start, name) \in InitialTypes \union {NULL}
        /\ InModule(start, name) = NULL => ~ HasName(start, name)
        /\ InModule(start, name) # NULL => IsOneOf(InModule(start, name), name)
        BY <1>1, InModuleFinds
  <2>2. base.iter = start /\ base.ret = InModule(start, name) /\ base \in S
        BY <1>1, <2>1
  <2> HIDE DEF base
  <2>3. CASE InModule(start, name) = NULL
    <3>1. \A q \in 2 .. 2 : ~ HasName(t[q], name)  BY <2>1, <2>3, <1>1
    <3> QED  BY <3>1, <2>2, <2>3, <1>1 DEF Passed
  <2>4. CASE InModule(start, name) # NULL
        BY <2>1, <2>2, <2>4 DEF Passed
  <2> QED  BY <2>2, <2>3, <2>4
<1>3. step \in [1 .. C -> [S -> S]]
  <2>1. \A at \in S : more(at) \in S  BY FurtherTyped
  <2> HIDE DEF S, more
  <2> QED  BY <2>1
<1> HIDE DEF base, step
<1>4. PICK f : f \in NaturalNumbers!Run(C, S, base, step)
  <2> HIDE DEF S
  <2> QED  BY <1>1, <1>2, <1>3, NaturalNumbers!Recursion
<1>5. /\ f \in [0 .. C -> S] /\ f[0] = base
      /\ \A j \in 1 .. C : f[j] = step[j][f[j-1]]
      BY <1>4 DEF NaturalNumbers!Run
<1> HIDE DEF S, more
<1>6. ASSUME NEW j \in 1 .. C PROVE f[j] = more(f[j-1])
  <2>1. f[j-1] \in S  BY <1>1, <1>5
  <2> QED  BY <1>5, <2>1 DEF step
<1>7. Is(f)
  <2>1. \A j \in 0 .. C : f[j] = IF j = 0 THEN base ELSE more(f[j-1])
        BY <1>1, <1>5, <1>6
  <2> QED  BY <1>5, <2>1
<1> DEFINE g == CHOOSE g : Is(g)
<1>8. Is(g)  BY <1>7
<1>9. SWIG_MangledTypeQueryModule(ring, ring[m], m, name) = g[C].ret
      BY DEF SWIG_MangledTypeQueryModule, base, C, start, more
<1> HIDE DEF g
<1> DEFINE good == {j \in 0 .. C : g[j] \in S /\ Passed(t, n, name, j, g[j])}
<1>10. 0 \in good  BY <1>1, <1>2, <1>8
<1>11. ASSUME NEW j \in 1 .. C, j - 1 \in good PROVE j \in good
  <2>1. g[j] = more(g[j-1])
    <3>1. \A k \in 0 .. C : g[k] = IF k = 0 THEN base ELSE more(g[k-1])
          BY <1>8
    <3>2. j \in 0 .. C /\ j # 0  BY <1>1
    <3> QED  BY <3>1, <3>2
  <2>2. g[j-1] \in S /\ Passed(t, n, name, j - 1, g[j-1]) /\ j - 1 \in Nat /\ (j - 1) + 1 = j
        BY <1>1, <1>11
  <2>3. more(g[j-1]) \in S  BY <2>2, FurtherTyped DEF S, more
  <2>4. Passed(t, n, name, j, more(g[j-1]))
    <3>1. Passed(t, n, name, (j - 1) + 1, more(g[j-1]))
          BY <2>2, FurtherPasses DEF S, more
    <3> QED  BY <3>1, <2>2
  <2> QED  BY <2>1, <2>3, <2>4, <1>1
<1>12. 0 .. C \subseteq good
  <2> HIDE DEF good
  <2> QED  BY <1>1, <1>10, <1>11, NaturalNumbers!UpTo
<1> DEFINE found == g[C]
<1>13. found \in S /\ Passed(t, n, name, C, found)  BY <1>1, <1>12
<1> HIDE DEF found
<1>14. found.ret \in InitialTypes \union {NULL}  BY <1>13 DEF S
<1>15. found.ret # NULL => IsOneOf(found.ret, name)  BY <1>13 DEF Passed
<1>16. ASSUME found.ret = NULL PROVE ~ IsKnown(name)
  <2>1. PICK p \in 2 .. n : /\ p >= C + 2 \/ p = n
                            /\ \A q \in 2 .. p : ~ HasName(t[q], name)
        BY <1>13, <1>16 DEF Passed
  <2>2. p = n  BY <2>1, <1>1
  <2>3. \A l \in Imported : \E q \in 2 .. n : t[q] = l  BY DEF IsJoined
  <2> QED  BY <2>1, <2>2, <2>3 DEF IsKnown, HasName
<1> QED  BY <1>9, <1>14, <1>15, <1>16 DEF found

(* What a module that joins knows from the ones before. *)
LEMMA KnownIs ==
  ASSUME TypesTyped, Ring, Named, NEW m \in SwigModules, next[m] = NULL,
         NEW name \in Range(NameOrder)
  PROVE  LET ret == Known(m, Joined(m), name)
         IN /\ ret \in InitialTypes \union {NULL}
            /\ ret = NULL => ~ IsKnown(name)
            /\ ret # NULL => IsOneOf(ret, name)
<1> DEFINE ring == Joined(m)
<1>1. PICK n, t : IsJoined(ring, m, n, t)  BY JoinedRing
<1> HIDE DEF ring
<1>2. /\ n \in Nat \ {0} /\ t[1] = m /\ 1 \in 1 .. n
      /\ ring[m] = IF n = 1 THEN m ELSE t[2]
      /\ n # 1 => t[2] # m
  <2>1. n \in Nat \ {0} /\ t[1] = m  BY <1>1 DEF IsJoined
  <2>2. 1 \in 1 .. n /\ (n # 1 => 2 \in 1 .. n)  BY <2>1
  <2>3. ring[t[1]] = IF 1 = n THEN t[1] ELSE t[1 + 1]  BY <2>2, <1>1 DEF IsJoined
  <2>4. n # 1 => t[2] # t[1]  BY <2>2, <1>1 DEF IsJoined
  <2> QED  BY <2>1, <2>2, <2>3, <2>4
<1>3. CASE n = 1
  <2>1. Known(m, ring, name) = NULL  BY <1>2, <1>3 DEF Known
  <2>2. Imported = {}
    <3>1. \A l \in Imported : \E k \in 2 .. n : t[k] = l  BY <1>1 DEF IsJoined
    <3> QED  BY <3>1, <1>3
  <2> QED  BY <2>1, <2>2 DEF IsKnown, ring
<1>4. CASE n # 1
  <2>1. Known(m, ring, name) = SWIG_MangledTypeQueryModule(ring, ring[m], m, name)
        BY <1>2, <1>4 DEF Known
  <2> QED  BY <2>1, <1>1, <1>4, QueryFinds DEF ring
<1> QED  BY <1>3, <1>4

-----------------------------------------------------------------------------
(* What a type accepts. *)

LEMMA TypeCheckIs ==
  ASSUME NEW list \in Seq(InitialTypes), NEW name
  PROVE  LET k == SWIG_TypeCheck(name, list)
         IN \/ k = 0 /\ \A j \in 1 .. Len(list) : Name(list[j]) # name
            \/ k \in 1 .. Len(list) /\ Name(list[k]) = name
<1> DEFINE found == {k \in DOMAIN list : Name(list[k]) = name}
<1>1. DOMAIN list = 1 .. Len(list)  OBVIOUS
<1>2. SWIG_TypeCheck(name, list) =
        IF found = {} THEN 0 ELSE CHOOSE k \in found : \A j \in found : k <= j
      BY DEF SWIG_TypeCheck
<1>3. CASE found = {}
      BY <1>1, <1>2, <1>3
<1>4. CASE found # {}
  <2>1. found \in SUBSET Nat  BY <1>1
  <2> HIDE DEF found
  <2>2. \E k \in found : \A j \in found : k <= j
        BY <2>1, <1>4, NaturalNumbers!LeastNatural
  <2>3. SWIG_TypeCheck(name, list) \in found  BY <1>2, <1>4, <2>2
  <2> QED  BY <2>3, <1>1 DEF found
<1> QED  BY <1>3, <1>4

(* Moved to the front, everything else keeps its order. *)
LEMMA MovedToFront ==
  ASSUME NEW list \in Seq(InitialTypes), NEW k \in 1 .. Len(list)
  PROVE  LET new == MoveToFront(list, k)
         IN /\ new \in Seq(InitialTypes) /\ Len(new) = Len(list)
            /\ \A j \in 1 .. Len(list) :
                 new[j] = list[IF j = 1 THEN k ELSE IF j <= k THEN j - 1 ELSE j]
<1> DEFINE L == Len(list)
           a == SubSeq(list, 1, k - 1)
           b == SubSeq(list, k + 1, L)
           first == <<list[k]>>
           rest == a \o b
           new == first \o rest
<1>1. /\ L \in Nat /\ k \in 1 .. L
      /\ \A j \in 1 .. L : list[j] \in InitialTypes
      OBVIOUS
<1>2. new = MoveToFront(list, k)  BY DEF MoveToFront, RemoveAt
<1>3. /\ a \in Seq(InitialTypes) /\ Len(a) = k - 1
      /\ \A j \in 1 .. k - 1 : a[j] = list[j]
  <2>1. \A j \in 1 .. k - 1 : list[j] \in InitialTypes  BY <1>1
  <2>2. /\ a \in Seq(InitialTypes)
        /\ Len(a) = IF 1 <= k - 1 THEN (k - 1) - 1 + 1 ELSE 0
        /\ \A j \in 1 .. (k - 1) - 1 + 1 : a[j] = list[1 + j - 1]
        BY <2>1, <1>1, SubSeqProperties
  <2> QED  BY <2>2, <1>1
<1>4. /\ b \in Seq(InitialTypes) /\ Len(b) = L - k
      /\ \A j \in 1 .. L - k : b[j] = list[k + j]
  <2>1. \A j \in k + 1 .. L : list[j] \in InitialTypes  BY <1>1
  <2>2. /\ b \in Seq(InitialTypes)
        /\ Len(b) = IF k + 1 <= L THEN L - (k + 1) + 1 ELSE 0
        /\ \A j \in 1 .. L - (k + 1) + 1 : b[j] = list[(k + 1) + j - 1]
        BY <2>1, <1>1, SubSeqProperties
  <2> QED  BY <2>2, <1>1
<1>5. first \in Seq(InitialTypes) /\ Len(first) = 1 /\ first[1] = list[k]
      BY <1>1
<1> HIDE DEF a, b, L, first
<1>6. /\ rest \in Seq(InitialTypes) /\ Len(rest) = Len(a) + Len(b)
      /\ \A j \in 1 .. Len(a) + Len(b) :
            rest[j] = IF j <= Len(a) THEN a[j] ELSE b[j - Len(a)]
      BY <1>3, <1>4, ConcatProperties
<1>7. /\ Len(rest) = L - 1
      /\ \A j \in 1 .. L - 1 : rest[j] = IF j <= k - 1 THEN list[j] ELSE list[j + 1]
      BY <1>1, <1>3, <1>4, <1>6
<1> HIDE DEF rest
<1>8. /\ new \in Seq(InitialTypes) /\ Len(new) = 1 + Len(rest)
      /\ \A j \in 1 .. 1 + Len(rest) :
            new[j] = IF j <= 1 THEN first[j] ELSE rest[j - 1]
  <2>1. first \in Seq(InitialTypes) /\ rest \in Seq(InitialTypes)  BY <1>5, <1>6
  <2>2. /\ new \in Seq(InitialTypes) /\ Len(new) = Len(first) + Len(rest)
        /\ \A j \in 1 .. Len(first) + Len(rest) :
              new[j] = IF j <= Len(first) THEN first[j] ELSE rest[j - Len(first)]
        BY <2>1, ConcatProperties
  <2> QED  BY <2>2, <1>5
<1> HIDE DEF new
<1>9. ASSUME NEW j \in 1 .. L
      PROVE  new[j] = list[IF j = 1 THEN k ELSE IF j <= k THEN j - 1 ELSE j]
  <2>1. CASE j = 1  BY <2>1, <1>1, <1>5, <1>7, <1>8
  <2>2. CASE j # 1
    <3>1. j - 1 \in 1 .. L - 1 /\ j \in 1 .. 1 + Len(rest) /\ ~ (j <= 1) /\ (j - 1) + 1 = j
          BY <2>2, <1>1, <1>7
    <3>2. new[j] = IF j - 1 <= k - 1 THEN list[j - 1] ELSE list[j]
          BY <3>1, <1>7, <1>8
    <3>3. j - 1 <= k - 1 <=> j <= k  BY <3>1, <1>1
    <3> QED  BY <3>2, <3>3, <2>2
  <2> QED  BY <2>1, <2>2
<1>10. Len(new) = L  BY <1>1, <1>7, <1>8
<1> QED  BY <1>2, <1>8, <1>9, <1>10 DEF L

(* The names a list has, each of them once, are the same after it. *)
LEMMA MovedKeepsNames ==
  ASSUME NEW list \in Seq(InitialTypes), DistinctNames(list), NEW k \in 1 .. Len(list)
  PROVE  LET new == MoveToFront(list, k)
         IN /\ new \in Seq(InitialTypes) /\ Len(new) = Len(list) /\ DistinctNames(new)
            /\ \A j \in 1 .. Len(new) : \E i \in 1 .. Len(list) : new[j] = list[i]
<1> DEFINE new == MoveToFront(list, k)
           at(j) == IF j = 1 THEN k ELSE IF j <= k THEN j - 1 ELSE j
<1>1. /\ new \in Seq(InitialTypes) /\ Len(new) = Len(list)
      /\ \A j \in 1 .. Len(list) : new[j] = list[at(j)]
      BY MovedToFront
<1>2. Len(list) \in Nat /\ \A j \in 1 .. Len(list) : at(j) \in 1 .. Len(list)
      OBVIOUS
<1>3. \A i, j \in 1 .. Len(list) : at(i) = at(j) => i = j
      BY <1>2
<1> HIDE DEF new, at
<1>4. DistinctNames(new)
  <2> SUFFICES ASSUME NEW i \in 1 .. Len(list), NEW j \in 1 .. Len(list),
                      Name(new[i]) = Name(new[j])
               PROVE  i = j
      BY <1>1 DEF DistinctNames
  <2>1. Name(list[at(i)]) = Name(list[at(j)])  BY <1>1
  <2>2. at(i) = at(j)  BY <2>1, <1>2 DEF DistinctNames
  <2> QED  BY <2>2, <1>3
<1> QED  BY <1>1, <1>2, <1>4 DEF new

(* A type of a new name in front. *)
LEMMA PutInFront ==
  ASSUME NEW list \in Seq(InitialTypes), DistinctNames(list), NEW type \in InitialTypes,
         \A j \in 1 .. Len(list) : Name(list[j]) # Name(type)
  PROVE  LET new == <<type>> \o list
         IN /\ new \in Seq(InitialTypes) /\ DistinctNames(new)
            /\ \A j \in 1 .. Len(new) :
                 new[j] = type \/ \E i \in 1 .. Len(list) : new[j] = list[i]
<1> DEFINE first == <<type>>
           new == first \o list
<1>1. first \in Seq(InitialTypes) /\ Len(first) = 1 /\ first[1] = type  OBVIOUS
<1> HIDE DEF first
<1>2. /\ new \in Seq(InitialTypes) /\ Len(new) = 1 + Len(list)
      /\ \A j \in 1 .. 1 + Len(list) : new[j] = IF j <= 1 THEN first[j] ELSE list[j - 1]
  <2>1. /\ new \in Seq(InitialTypes) /\ Len(new) = Len(first) + Len(list)
        /\ \A j \in 1 .. Len(first) + Len(list) :
              new[j] = IF j <= Len(first) THEN first[j] ELSE list[j - Len(first)]
        BY <1>1, ConcatProperties
  <2> QED  BY <2>1, <1>1
<1>3. Len(list) \in Nat  OBVIOUS
<1> HIDE DEF new
<1>4. ASSUME NEW j \in 1 .. Len(new)
      PROVE  \/ j = 1 /\ new[j] = type
             \/ j # 1 /\ j - 1 \in 1 .. Len(list) /\ new[j] = list[j - 1]
      BY <1>1, <1>2, <1>3
<1>5. DistinctNames(new)
  <2> SUFFICES ASSUME NEW i \in 1 .. Len(new), NEW j \in 1 .. Len(new),
                      Name(new[i]) = Name(new[j])
               PROVE  i = j
      BY DEF DistinctNames
  <2>1. CASE i = 1 /\ j = 1  BY <2>1
  <2>2. CASE i = 1 /\ j # 1  BY <2>2, <1>4
  <2>3. CASE i # 1 /\ j = 1  BY <2>3, <1>4
  <2>4. CASE i # 1 /\ j # 1
    <3>1. i - 1 \in 1 .. Len(list) /\ new[i] = list[i - 1]  BY <2>4, <1>4
    <3>2. j - 1 \in 1 .. Len(list) /\ new[j] = list[j - 1]  BY <2>4, <1>4
    <3>3. i - 1 = j - 1  BY <3>1, <3>2 DEF DistinctNames
    <3> QED  BY <3>3
  <2> QED  BY <2>1, <2>2, <2>3, <2>4
<1> QED  BY <1>2, <1>4, <1>5 DEF new, first

(* An entry of a row is added to what a type accepts, if none has its name. *)
LEMMA Inserted ==
  ASSUME TypesTyped, Ring, Named, NEW m \in SwigModules, next[m] = NULL,
         NEW p \in 1 .. Len(type_initial[m]), NEW type \in InitialTypes,
         NEW list \in Seq(InitialTypes), DistinctNames(list),
         NEW name, name = type_initial[m][p],
         \A j \in 1 .. Len(list) :
            Name(list[j]) = name => type[1] # m /\ IsKnown(name)
  PROVE  LET new == InsertCast(m, Joined(m), type, name, list)
         IN /\ new \in Seq(InitialTypes) /\ DistinctNames(new)
            /\ \A j \in 1 .. Len(new) :
                 \/ Name(new[j]) = name
                 \/ \E i \in 1 .. Len(list) : new[j] = list[i]
<1> DEFINE own == <<m, Initially[m][name]>>
           ret == Known(m, Joined(m), name)
           k == SWIG_TypeCheck(name, list)
           new == InsertCast(m, Joined(m), type, name, list)
           put == IF ret # NULL /\ type[1] = m THEN ret ELSE own
<1>1. name \in Range(NameOrder) /\ own = <<m, p>> /\ own \in InitialTypes /\ Name(own) = name
  <2>1. /\ type_initial[m][p] \in Range(NameOrder)
        /\ <<m, p>> \in InitialTypes /\ Name(<<m, p>>) = type_initial[m][p]
        /\ Initially[m][type_initial[m][p]] = p
        BY InitialNames
  <2> QED  BY <2>1
<1>2. /\ ret \in InitialTypes \union {NULL}
      /\ ret = NULL => ~ IsKnown(name)
      /\ ret # NULL => IsOneOf(ret, name)
      BY <1>1, KnownIs
<1>3. \/ k = 0 /\ \A j \in 1 .. Len(list) : Name(list[j]) # name
      \/ k \in 1 .. Len(list) /\ Name(list[k]) = name
      BY TypeCheckIs
<1>4. new = IF ret # NULL /\ type[1] # m /\ k # 0 THEN MoveToFront(list, k)
            ELSE <<put>> \o list
      BY DEF InsertCast
<1>5. ret # NULL => ret \in InitialTypes /\ Name(ret) = name
      BY <1>2 DEF IsOneOf, Named, Imported
<1> HIDE DEF ret, k, own
<1>6. CASE ret # NULL /\ type[1] # m /\ k # 0
  <2>1. k \in 1 .. Len(list) /\ new = MoveToFront(list, k)  BY <1>3, <1>4, <1>6
  <2> HIDE DEF new
  <2>2. /\ new \in Seq(InitialTypes) /\ DistinctNames(new)
        /\ \A j \in 1 .. Len(new) : \E i \in 1 .. Len(list) : new[j] = list[i]
        BY <2>1, MovedKeepsNames
  <2> QED  BY <2>2 DEF new
<1>7. CASE ~ (ret # NULL /\ type[1] # m /\ k # 0)
  <2>1. new = <<put>> \o list  BY <1>4, <1>7
  <2>2. put \in InitialTypes /\ Name(put) = name  BY <1>1, <1>5
  <2>3. \A j \in 1 .. Len(list) : Name(list[j]) # name
        BY <1>2, <1>3, <1>7
  <2> HIDE DEF new, put
  <2>4. /\ new \in Seq(InitialTypes) /\ DistinctNames(new)
        /\ \A j \in 1 .. Len(new) :
              new[j] = put \/ \E i \in 1 .. Len(list) : new[j] = list[i]
        BY <2>1, <2>2, <2>3, PutInFront
  <2>5. \A j \in 1 .. Len(new) :
          Name(new[j]) = name \/ \E i \in 1 .. Len(list) : new[j] = list[i]
        BY <2>2, <2>4
  <2> QED  BY <2>4, <2>5 DEF new
<1> QED  BY <1>6, <1>7

(* What a type accepts after the first n entries of a row, or did before. *)
RowsAdded(row, type, n, list) ==
  /\ list \in Seq(InitialTypes)
  /\ DistinctNames(list)
  /\ \A j \in 1 .. Len(list) :
       \/ \E q \in 1 .. n : Name(list[j]) = row[q]
       \/ \E q \in 1 .. Len(cast[type]) : list[j] = cast[type][q]

LEMMA RowIs ==
  ASSUME NEW m \in SwigModules, NEW i \in 1 .. Len(type_initial[m])
  PROVE  /\ Len(cast_initial[m][i]) \in Nat
         /\ DOMAIN cast_initial[m][i] = 1 .. Len(cast_initial[m][i])
         /\ \A n \in 1 .. Len(cast_initial[m][i]) :
              \E p \in 1 .. Len(type_initial[m]) : cast_initial[m][i][n] = type_initial[m][p]
         /\ \A j, k \in 1 .. Len(cast_initial[m][i]) :
              cast_initial[m][i][j] = cast_initial[m][i][k] => j = k
<1> DEFINE row == cast_initial[m][i]
<1>1. DOMAIN type_initial[m] = 1 .. Len(type_initial[m])  BY InitialNames
<1>2. row \in Seq(Range(type_initial[m])) /\ IsInjective(row)
      BY <1>1, CastsAssumption
<1> HIDE DEF row
<1>3. Len(row) \in Nat /\ DOMAIN row = 1 .. Len(row)
      /\ \A n \in 1 .. Len(row) : row[n] \in Range(type_initial[m])
      BY <1>2
<1>4. \A n \in 1 .. Len(row) : \E p \in 1 .. Len(type_initial[m]) : row[n] = type_initial[m][p]
      BY <1>1, <1>3 DEF Range
<1> QED  BY <1>2, <1>3, <1>4 DEF row, IsInjective

LEMMA EntryAdded ==
  ASSUME TypesTyped, Ring, Named, CastsRight, NEW m \in SwigModules, next[m] = NULL,
         NEW i \in 1 .. Len(type_initial[m]), NEW type \in InitialTypes,
         NEW n \in 1 .. Len(cast_initial[m][i]),
         NEW list, RowsAdded(cast_initial[m][i], type, n - 1, list)
  PROVE  RowsAdded(cast_initial[m][i], type, n,
                   InsertCast(m, Joined(m), type, cast_initial[m][i][n], list))
<1> DEFINE row == cast_initial[m][i]
           name == row[n]
           new == InsertCast(m, Joined(m), type, name, list)
           old == cast[type]
<1>1. /\ Len(row) \in Nat
      /\ \A j, k \in 1 .. Len(row) : row[j] = row[k] => j = k
      BY RowIs
<1>2. PICK p \in 1 .. Len(type_initial[m]) : name = type_initial[m][p]
  <2>1. \A q \in 1 .. Len(row) :
          \E p \in 1 .. Len(type_initial[m]) : row[q] = type_initial[m][p]
        BY RowIs
  <2> QED  BY <2>1
<1>3. /\ list \in Seq(InitialTypes) /\ DistinctNames(list)
      /\ \A j \in 1 .. Len(list) :
           \/ \E q \in 1 .. n - 1 : Name(list[j]) = row[q]
           \/ \E q \in 1 .. Len(old) : list[j] = old[q]
      BY DEF RowsAdded
<1>4. \A q \in 1 .. Len(old) : type[1] \in Imported /\ IsKnown(Name(old[q]))
      BY DEF CastsRight
<1>5. n \in 1 .. Len(row) /\ name = row[n]  OBVIOUS
<1> HIDE DEF row, old, name
<1>6. ASSUME NEW j \in 1 .. Len(list), Name(list[j]) = name
      PROVE  type[1] # m /\ IsKnown(name)
  <2>1. ~ \E q \in 1 .. n - 1 : Name(list[j]) = row[q]
    <3> SUFFICES ASSUME NEW q \in 1 .. n - 1, row[n] = row[q] PROVE FALSE
        BY <1>5, <1>6
    <3>1. q \in 1 .. Len(row) /\ q # n  BY <1>1, <1>5
    <3> QED  BY <3>1, <1>1, <1>5
  <2>2. PICK q \in 1 .. Len(old) : list[j] = old[q]  BY <1>3, <2>1
  <2>3. type[1] \in Imported /\ IsKnown(Name(list[j]))  BY <2>2, <1>4
  <2> QED  BY <2>3, <1>6 DEF Imported
<1>7. /\ new \in Seq(InitialTypes) /\ DistinctNames(new)
      /\ \A j \in 1 .. Len(new) :
           Name(new[j]) = name \/ \E q \in 1 .. Len(list) : new[j] = list[q]
  <2>1. list \in Seq(InitialTypes) /\ DistinctNames(list)  BY <1>3
  <2>2. \A j \in 1 .. Len(list) : Name(list[j]) = name => type[1] # m /\ IsKnown(name)
        BY <1>6
  <2> QED  BY <2>1, <2>2, <1>2, Inserted
<1> HIDE DEF new
<1>8. ASSUME NEW j \in 1 .. Len(new)
      PROVE  \/ \E q \in 1 .. n : Name(new[j]) = row[q]
             \/ \E q \in 1 .. Len(old) : new[j] = old[q]
  <2>1. CASE Name(new[j]) = name
    <3>1. n \in 1 .. n  BY <1>1, <1>5
    <3> QED  BY <3>1, <2>1, <1>5
  <2>2. CASE \E q \in 1 .. Len(list) : new[j] = list[q]
    <3>1. PICK q \in 1 .. Len(list) : new[j] = list[q]  BY <2>2
    <3>2. 1 .. n - 1 \subseteq 1 .. n  BY <1>1, <1>5
    <3> QED  BY <3>1, <3>2, <1>3
  <2> QED  BY <2>1, <2>2, <1>7
<1>9. RowsAdded(row, type, n, new)  BY <1>7, <1>8 DEF RowsAdded, old
<1> QED  BY <1>9 DEF new, row, name

LEMMA RowAdded ==
  ASSUME TypesTyped, Ring, Named, CastsRight, NEW m \in SwigModules, next[m] = NULL,
         NEW i \in 1 .. Len(type_initial[m]), NEW type \in InitialTypes
  PROVE  RowsAdded(cast_initial[m][i], type, Len(cast_initial[m][i]),
                   AddRow(m, Joined(m), type, i))
<1> DEFINE row == cast_initial[m][i]
           L == Len(row)
           S == Seq(InitialTypes)
           base == cast[type]
           more(n, list) == InsertCast(m, Joined(m), type, row[n], list)
           Good(n) == {list \in S : RowsAdded(row, type, n, list)}
           Is(f) == f = [n \in 0 .. L |-> IF n = 0 THEN base ELSE more(n, f[n-1])]
<1>1. L \in Nat  BY RowIs
<1>2. base \in S /\ RowsAdded(row, type, 0, base)
  <2>1. base \in S /\ DistinctNames(base)  BY DEF TypesTyped, CastsRight
  <2> QED  BY <2>1 DEF RowsAdded
<1>3. \A n \in 1 .. L : \A list :
        RowsAdded(row, type, n - 1, list) => RowsAdded(row, type, n, more(n, list))
      BY EntryAdded
<1>4. \A n, list : RowsAdded(row, type, n, list) => list \in S
      BY DEF RowsAdded
<1> HIDE DEF row, L, S, base, more
<1> DEFINE default(n, list) ==
             IF RowsAdded(row, type, n - 1, list) THEN more(n, list) ELSE base
           step == [n \in 1 .. L |-> [list \in S |-> default(n, list)]]
<1>5. step \in [1 .. L -> [S -> S]]
  <2>1. \A n \in 1 .. L : \A list \in S : default(n, list) \in S
        BY <1>2, <1>3, <1>4
  <2> HIDE DEF default
  <2> QED  BY <2>1
<1> HIDE DEF step
<1>6. PICK f : f \in NaturalNumbers!Run(L, S, base, step)
      BY <1>1, <1>2, <1>5, NaturalNumbers!Recursion
<1>7. /\ f \in [0 .. L -> S] /\ f[0] = base
      /\ \A n \in 1 .. L : f[n] = step[n][f[n-1]]
      BY <1>6 DEF NaturalNumbers!Run
<1> DEFINE fine == {n \in 0 .. L : RowsAdded(row, type, n, f[n])}
<1>8. ASSUME NEW n \in 1 .. L, RowsAdded(row, type, n - 1, f[n-1])
      PROVE  f[n] = more(n, f[n-1]) /\ RowsAdded(row, type, n, f[n])
  <2>1. f[n-1] \in S  BY <1>4, <1>8
  <2>2. f[n] = default(n, f[n-1])  BY <2>1, <1>7 DEF step
  <2>3. f[n] = more(n, f[n-1])  BY <2>2, <1>8
  <2> QED  BY <2>3, <1>3, <1>8
<1>9. 0 .. L \subseteq fine
  <2>1. 0 \in fine  BY <1>1, <1>2, <1>7
  <2>2. \A n \in 1 .. L : n - 1 \in fine => n \in fine
        BY <1>1, <1>8
  <2> HIDE DEF fine
  <2> QED  BY <2>1, <2>2, <1>1, NaturalNumbers!UpTo
<1>10. \A n \in 0 .. L : RowsAdded(row, type, n, f[n])  BY <1>9
<1>11. \A n \in 1 .. L : f[n] = more(n, f[n-1])
  <2> TAKE n \in 1 .. L
  <2>1. n - 1 \in 0 .. L  BY <1>1
  <2> QED  BY <2>1, <1>8, <1>10
<1>12. Is(f)
  <2>1. \A n \in 0 .. L : f[n] = IF n = 0 THEN base ELSE more(n, f[n-1])
        BY <1>1, <1>7, <1>11
  <2> QED  BY <1>7, <2>1
<1> DEFINE g == CHOOSE g : Is(g)
<1>13. Is(g)  BY <1>12
<1>14. AddRow(m, Joined(m), type, i) = g[L]  BY DEF AddRow, L, row, base, more
<1> HIDE DEF g
<1>15. g[0] = base /\ \A n \in 1 .. L : g[n] = more(n, g[n-1])
  <2>1. \A k \in 0 .. L : g[k] = IF k = 0 THEN base ELSE more(k, g[k-1])
        BY <1>13
  <2> QED  BY <2>1, <1>1
<1> DEFINE same == {n \in 0 .. L : RowsAdded(row, type, n, g[n])}
<1>16. 0 .. L \subseteq same
  <2>1. 0 \in same  BY <1>1, <1>2, <1>15
  <2>2. \A n \in 1 .. L : n - 1 \in same => n \in same
        BY <1>1, <1>3, <1>15
  <2> HIDE DEF same
  <2> QED  BY <2>1, <2>2, <1>1, NaturalNumbers!UpTo
<1>17. RowsAdded(row, type, L, g[L])  BY <1>1, <1>16
<1> QED  BY <1>14, <1>17 DEF row, L

-----------------------------------------------------------------------------
(* The import of a module. *)

LEMMA MineIs ==
  ASSUME TypesInv, NEW m \in SwigModules, next[m] = NULL
  PROVE  LET mine == TypesOf(m, Joined(m))
         IN /\ mine \in Seq(InitialTypes) /\ Len(mine) = Len(type_initial[m])
            /\ DOMAIN mine = 1 .. Len(type_initial[m])
            /\ \A k \in 1 .. Len(type_initial[m]) :
                 /\ Name(mine[k]) = type_initial[m][k]
                 /\ mine[k][1] \in Imported \union {m}
                 /\ \A l \in Imported : \A j \in 1 .. Len(type_initial[l]) :
                      type_initial[l][j] = type_initial[m][k] => mine[k] = types[l][j]
<1> DEFINE mine == TypesOf(m, Joined(m))
           L == Len(type_initial[m])
           known(k) == Known(m, Joined(m), type_initial[m][k])
<1>1. /\ L \in Nat /\ DOMAIN type_initial[m] = 1 .. L
      /\ \A k \in 1 .. L : /\ type_initial[m][k] \in Range(NameOrder)
                           /\ <<m, k>> \in InitialTypes
                           /\ Name(<<m, k>>) = type_initial[m][k]
      BY InitialNames
<1>2. mine = [k \in 1 .. L |-> IF known(k) # NULL THEN known(k) ELSE <<m, k>>]
      BY <1>1 DEF TypesOf
<1>3. ASSUME NEW k \in 1 .. L
      PROVE  /\ mine[k] \in InitialTypes
             /\ Name(mine[k]) = type_initial[m][k]
             /\ mine[k][1] \in Imported \union {m}
             /\ \A l \in Imported : \A j \in 1 .. Len(type_initial[l]) :
                  type_initial[l][j] = type_initial[m][k] => mine[k] = types[l][j]
  <2> DEFINE name == type_initial[m][k]
  <2>1. mine[k] = IF known(k) # NULL THEN known(k) ELSE <<m, k>>  BY <1>2
  <2>2. /\ known(k) \in InitialTypes \union {NULL}
        /\ known(k) = NULL => ~ IsKnown(name)
        /\ known(k) # NULL => IsOneOf(known(k), name)
        BY <1>1, KnownIs DEF TypesInv
  <2> HIDE DEF known, mine
  <2>3. CASE known(k) = NULL
    <3>1. mine[k] = <<m, k>>  BY <2>1, <2>3
    <3>2. ~ \E l \in Imported : \E j \in 1 .. Len(type_initial[l]) : type_initial[l][j] = name
          BY <2>2, <2>3 DEF IsKnown
    <3> QED  BY <3>1, <3>2, <1>1
  <2>4. CASE known(k) # NULL
    <3>1. mine[k] = known(k) /\ mine[k] \in InitialTypes  BY <2>1, <2>2, <2>4
    <3>2. PICK l \in Imported : \E j \in 1 .. Len(type_initial[l]) :
                 type_initial[l][j] = name /\ mine[k] = types[l][j]
          BY <2>2, <2>4, <3>1 DEF IsOneOf
    <3>3. PICK j \in 1 .. Len(type_initial[l]) :
                 type_initial[l][j] = name /\ mine[k] = types[l][j]
          BY <3>2
    <3>4. Name(types[l][j]) = type_initial[l][j] /\ types[l][j][1] \in Imported
          BY DEF TypesInv, Named, Imported
    <3>5. \A o \in Imported : \A i \in 1 .. Len(type_initial[o]) :
            type_initial[o][i] = name => types[o][i] = types[l][j]
          BY <3>3 DEF TypesInv, Shared
    <3> QED  BY <3>1, <3>3, <3>4, <3>5
  <2> QED  BY <2>3, <2>4
<1>4. mine \in Seq(InitialTypes) /\ Len(mine) = L /\ DOMAIN mine = 1 .. L
  <2>1. mine \in [1 .. L -> InitialTypes]  BY <1>2, <1>3
  <2> HIDE DEF mine
  <2> QED  BY <2>1, <1>1
<1> QED  BY <1>3, <1>4

LEMMA JoinKeepsTypes ==
  ASSUME TypesInv, NEW m \in SwigModules, SWIG_InitializeModule(m)
  PROVE  TypesInv'
<1> DEFINE mine == TypesOf(m, Joined(m))
           rows(type) == {i \in DOMAIN mine : mine[i] = type}
           old(type) == cast[type]
           row(type) == CHOOSE i \in rows(type) : TRUE
           added(type) == AddRow(m, Joined(m), type, row(type))
           knownThen(name) ==
             \E l \in Imported' : \E k \in 1 .. Len(type_initial[l]) : type_initial[l][k] = name
<1>1. /\ next[m] = NULL /\ m # NULL
      /\ next' = Joined(m)
      /\ type_pointer' = IF type_pointer = NULL THEN m ELSE type_pointer
      /\ types' = [types EXCEPT ![m] = mine]
      /\ cast' = [type \in InitialTypes |->
                    IF rows(type) = {} THEN old(type) ELSE added(type)]
      BY ImportedOrNot DEF SWIG_InitializeModule, Joined
<1>2. TypesTyped /\ Ring /\ Named /\ Shared /\ CastsRight  BY DEF TypesInv
<1>3. PICK n, t : IsJoined(Joined(m), m, n, t)  BY <1>1, <1>2, JoinedRing
<1>4. /\ mine \in Seq(InitialTypes) /\ Len(mine) = Len(type_initial[m])
      /\ DOMAIN mine = 1 .. Len(type_initial[m])
      /\ \A k \in 1 .. Len(type_initial[m]) :
           /\ Name(mine[k]) = type_initial[m][k]
           /\ mine[k][1] \in Imported \union {m}
           /\ \A l \in Imported : \A j \in 1 .. Len(type_initial[l]) :
                type_initial[l][j] = type_initial[m][k] => mine[k] = types[l][j]
      BY <1>1, MineIs
<1>5. Imported' = Imported \union {m}
  <2>1. \A l \in SwigModules : next'[l] # NULL <=> next[l] # NULL \/ l = m
        BY <1>1, <1>3 DEF IsJoined
  <2> QED  BY <2>1 DEF Imported
<1>6. /\ types'[m] = mine
      /\ \A l \in Imported : types'[l] = types[l] /\ l # m /\ l \in SwigModules
      /\ \A l \in SwigModules \ {m} : types'[l] = types[l]
      BY <1>1, <1>2 DEF TypesTyped, Imported
<1>7. ASSUME NEW type \in InitialTypes, rows(type) # {}
      PROVE  /\ row(type) \in 1 .. Len(type_initial[m]) /\ mine[row(type)] = type
             /\ RowsAdded(cast_initial[m][row(type)], type,
                          Len(cast_initial[m][row(type)]), added(type))
  <2>1. row(type) \in rows(type)  BY <1>7
  <2> HIDE DEF mine
  <2>2. row(type) \in 1 .. Len(type_initial[m]) /\ mine[row(type)] = type
        BY <2>1, <1>4
  <2> HIDE DEF row
  <2> QED  BY <2>2, <1>1, <1>2, RowAdded
<1> HIDE DEF mine
<1>8. Ring'
  <2>1. /\ n \in Nat \ {0} /\ t \in [1 .. n -> SwigModules] /\ t[1] = m
        /\ \A j, k \in 1 .. n : t[j] = t[k] => j = k
        /\ \A k \in 1 .. n : next'[t[k]] = IF k = n THEN t[1] ELSE t[k + 1]
        /\ \A l \in Imported : \E k \in 2 .. n : t[k] = l
        /\ \A k \in 2 .. n : t[k] \in Imported
        /\ t[n] = type_pointer'
        BY <1>1, <1>3 DEF IsJoined
  <2>2. ASSUME NEW l \in SwigModules PROVE next'[l] # NULL <=> \E k \in 1 .. n : t[k] = l
    <3>1. next'[l] # NULL <=> l \in Imported \union {m}  BY <1>5 DEF Imported
    <3>2. 1 \in 1 .. n /\ 1 .. n = {1} \union (2 .. n)  BY <2>1
    <3>3. l \in Imported \union {m} <=> \E k \in 1 .. n : t[k] = l
          BY <2>1, <3>2
    <3> QED  BY <3>1, <3>3
  <2>3. IsRing(n, t)'
        BY <2>1, <2>2 DEF IsRing
  <2> QED  BY <2>1, <2>3 DEF Ring
<1>9. TypesTyped'
  <2>1. next' \in [SwigModules -> SwigModules \union {NULL}]
        BY <1>1, <1>3 DEF IsJoined
  <2>2. type_pointer' \in SwigModules \union {NULL}  BY <1>1, <1>2 DEF TypesTyped
  <2>3. types' \in [SwigModules -> Seq(InitialTypes)]
        BY <1>1, <1>2, <1>4 DEF TypesTyped
  <2>4. \A type \in InitialTypes :
          (IF rows(type) = {} THEN old(type) ELSE added(type)) \in Seq(InitialTypes)
        BY <1>2, <1>7 DEF TypesTyped, RowsAdded
  <2> HIDE DEF rows, old, added
  <2>5. cast' \in [InitialTypes -> Seq(InitialTypes)]  BY <1>1, <2>4
  <2> QED  BY <2>1, <2>2, <2>3, <2>5 DEF TypesTyped
<1>10. Named'
  <2> SUFFICES ASSUME NEW l \in SwigModules
               PROVE  IF next'[l] = NULL THEN types'[l] = <<>>
                      ELSE /\ Len(types'[l]) = Len(type_initial[l])
                           /\ \A k \in 1 .. Len(type_initial[l]) :
                                /\ Name(types'[l][k]) = type_initial[l][k]
                                /\ types'[l][k][1] \in Imported'
      BY DEF Named
  <2>1. next'[l] # NULL <=> l \in Imported \union {m}  BY <1>5 DEF Imported
  <2>2. CASE l = m  BY <2>1, <2>2, <1>4, <1>5, <1>6
  <2>3. CASE l # m
    <3>1. types'[l] = types[l] /\ (next'[l] # NULL <=> next[l] # NULL)
          BY <2>1, <2>3, <1>6 DEF Imported
    <3> QED  BY <3>1, <1>2, <1>5 DEF Named
  <2> QED  BY <2>2, <2>3
<1>11. Shared'
  <2> SUFFICES ASSUME NEW k \in Imported', NEW l \in Imported',
                      NEW i \in 1 .. Len(type_initial[k]), NEW j \in 1 .. Len(type_initial[l]),
                      type_initial[k][i] = type_initial[l][j]
               PROVE  types'[k][i] = types'[l][j]
      BY DEF Shared
  <2>1. CASE k = m /\ l = m
    <3>1. i = j  BY <2>1, InitialNames
    <3> QED  BY <2>1, <3>1
  <2>2. CASE k = m /\ l # m
    <3>1. l \in Imported  BY <2>2, <1>5
    <3>2. i \in 1 .. Len(type_initial[m]) /\ type_initial[l][j] = type_initial[m][i]
          BY <2>2
    <3>3. mine[i] = types[l][j]  BY <3>1, <3>2, <1>4
    <3> QED  BY <3>1, <3>3, <2>2, <1>6
  <2>3. CASE k # m /\ l = m
    <3>1. k \in Imported  BY <2>3, <1>5
    <3>2. j \in 1 .. Len(type_initial[m]) /\ type_initial[k][i] = type_initial[m][j]
          BY <2>3
    <3>3. mine[j] = types[k][i]  BY <3>1, <3>2, <1>4
    <3> QED  BY <3>1, <3>3, <2>3, <1>6
  <2>4. CASE k # m /\ l # m
    <3>1. k \in Imported /\ l \in Imported  BY <2>4, <1>5
    <3> QED  BY <3>1, <1>2, <1>6 DEF Shared
  <2> QED  BY <2>1, <2>2, <2>3, <2>4
<1>12. /\ \A name : IsKnown(name) => knownThen(name)
       /\ \A p \in 1 .. Len(type_initial[m]) : knownThen(type_initial[m][p])
       BY <1>5 DEF IsKnown
<1>13. CastsRight'
  <2> SUFFICES ASSUME NEW type \in InitialTypes
               PROVE  /\ DistinctNames(cast'[type])
                      /\ \A k \in 1 .. Len(cast'[type]) :
                           /\ type[1] \in Imported'
                           /\ knownThen(Name(cast'[type][k]))
                           /\ Accepts(Name(type), Name(cast'[type][k]))
      BY DEF CastsRight, DistinctNames, IsKnown
  <2> HIDE DEF knownThen
  <2>1. /\ DistinctNames(old(type))
        /\ \A k \in 1 .. Len(old(type)) :
             /\ type[1] \in Imported /\ IsKnown(Name(old(type)[k]))
             /\ Accepts(Name(type), Name(old(type)[k]))
        BY <1>2 DEF CastsRight
  <2>2. cast'[type] = IF rows(type) = {} THEN old(type) ELSE added(type)  BY <1>1
  <2>3. CASE rows(type) = {}
    <3>1. cast'[type] = old(type)  BY <2>2, <2>3
    <3> HIDE DEF old
    <3> QED  BY <3>1, <2>1, <1>5, <1>12
  <2>4. CASE rows(type) # {}
    <3> DEFINE i == row(type)
               r == cast_initial[m][i]
    <3>1. cast'[type] = added(type)  BY <2>2, <2>4
    <3>2. /\ i \in 1 .. Len(type_initial[m]) /\ mine[i] = type
          /\ RowsAdded(r, type, Len(r), added(type))
          BY <2>4, <1>7
    <3> HIDE DEF added, i
    <3>3. type[1] \in Imported' /\ Name(type) = type_initial[m][i]
          BY <3>2, <1>4, <1>5
    <3>4. /\ DOMAIN r = 1 .. Len(r)
          /\ \A q \in 1 .. Len(r) : \E p \in 1 .. Len(type_initial[m]) : r[q] = type_initial[m][p]
          BY <3>2, RowIs
    <3>5. ASSUME NEW k \in 1 .. Len(added(type))
          PROVE  /\ knownThen(Name(added(type)[k]))
                 /\ Accepts(Name(type), Name(added(type)[k]))
      <4>1. CASE \E q \in 1 .. Len(r) : Name(added(type)[k]) = r[q]
        <5>1. PICK q \in 1 .. Len(r) : Name(added(type)[k]) = r[q]  BY <4>1
        <5>2. knownThen(r[q])
          <6>1. PICK p \in 1 .. Len(type_initial[m]) : r[q] = type_initial[m][p]  BY <3>4
          <6>2. knownThen(type_initial[m][p])  BY <1>12
          <6> QED  BY <6>1, <6>2
        <5>3. r[q] \in Range(r)  BY <3>4 DEF Range
        <5>4. Accepts(Name(type), r[q])  BY <3>2, <3>3, <5>3 DEF Accepts
        <5> QED  BY <5>1, <5>2, <5>4
      <4>2. CASE \E q \in 1 .. Len(old(type)) : added(type)[k] = old(type)[q]
        <5>1. PICK q \in 1 .. Len(old(type)) : added(type)[k] = old(type)[q]  BY <4>2
        <5> HIDE DEF old
        <5> QED  BY <5>1, <2>1, <1>12
      <4> QED  BY <3>2, <4>1, <4>2 DEF RowsAdded
    <3>6. DistinctNames(added(type))  BY <3>2 DEF RowsAdded
    <3> QED  BY <3>1, <3>3, <3>5, <3>6
  <2> QED  BY <2>3, <2>4
<1> QED  BY <1>8, <1>9, <1>10, <1>11, <1>13 DEF TypesInv

-----------------------------------------------------------------------------
(* The other steps, and the property. *)

LEMMA TypesInvAtFirst ==
  ASSUME TypesInit
  PROVE  TypesInv
<1>1. /\ next = [m \in SwigModules |-> NULL] /\ type_pointer = NULL
      /\ types = [m \in SwigModules |-> <<>>]
      /\ cast = [type \in InitialTypes |-> <<>>]
      BY DEF TypesInit
<1>2. Imported = {}  BY <1>1 DEF Imported
<1>3. TypesTyped  BY <1>1 DEF TypesTyped
<1>4. Ring
  <2>1. IsRing(0, <<>>)  BY <1>1 DEF IsRing
  <2>2. <<>> \in [1 .. 0 -> SwigModules]  OBVIOUS
  <2> QED  BY <2>1, <2>2 DEF Ring
<1>5. Named /\ Shared  BY <1>1, <1>2 DEF Named, Shared
<1>6. CastsRight  BY <1>1 DEF CastsRight, DistinctNames
<1> QED  BY <1>3, <1>4, <1>5, <1>6 DEF TypesInv

LEMMA SameTypesKeep ==
  ASSUME TypesInv, UNCHANGED <<next, type_pointer, types>>, TypesTyped', CastsRight'
  PROVE  TypesInv'
<1>1. Imported' = Imported  BY DEF Imported
<1>2. Ring'  BY DEF TypesInv, Ring, IsRing
<1>3. Named'  BY <1>1 DEF TypesInv, Named
<1>4. Shared'  BY <1>1 DEF TypesInv, Shared
<1> QED  BY <1>2, <1>3, <1>4 DEF TypesInv

LEMMA AskingKeepsTypes ==
  ASSUME TypesInv, NEW type \in InitialTypes, NEW k \in 1 .. Len(cast[type]),
         UNCHANGED <<next, type_pointer, types>>,
         cast' = [cast EXCEPT ![type] = MoveToFront(@, k)]
  PROVE  TypesInv'
<1>1. TypesTyped /\ CastsRight  BY DEF TypesInv
<1>2. Imported' = Imported  BY DEF Imported
<1> DEFINE old == cast[type]
           new == MoveToFront(old, k)
<1>3. old \in Seq(InitialTypes) /\ DistinctNames(old)  BY <1>1 DEF TypesTyped, CastsRight
<1>4. /\ new \in Seq(InitialTypes) /\ Len(new) = Len(old) /\ DistinctNames(new)
      /\ \A j \in 1 .. Len(new) : \E i \in 1 .. Len(old) : new[j] = old[i]
      BY <1>3, MovedKeepsNames
<1>5. cast' = [cast EXCEPT ![type] = new]  OBVIOUS
<1> HIDE DEF new
<1>6. TypesTyped'  BY <1>1, <1>4, <1>5 DEF TypesTyped
<1>7. cast'[type] = new /\ \A other \in InitialTypes \ {type} : cast'[other] = cast[other]
      BY <1>1, <1>5 DEF TypesTyped
<1>8. ASSUME NEW other \in InitialTypes
      PROVE  /\ DistinctNames(cast'[other])
             /\ \A j \in 1 .. Len(cast'[other]) :
                  \E i \in 1 .. Len(cast[other]) : cast'[other][j] = cast[other][i]
  <2>1. CASE other = type
    <3>1. cast'[other] = new /\ cast[other] = old  BY <2>1, <1>7
    <3> HIDE DEF old
    <3>2. DistinctNames(cast'[other])
      <4>1. DistinctNames(new)  BY <1>4
      <4> QED  BY <3>1, <4>1, Zenon
    <3>3. \A j \in 1 .. Len(cast'[other]) :
            \E i \in 1 .. Len(cast[other]) : cast'[other][j] = cast[other][i]
          BY <3>1, <1>4
    <3> QED  BY <3>2, <3>3
  <2>2. CASE other # type  BY <2>2, <1>1, <1>7 DEF CastsRight
  <2> QED  BY <2>1, <2>2
<1>9. CastsRight'
  <2> SUFFICES ASSUME NEW other \in InitialTypes
               PROVE  /\ DistinctNames(cast'[other])
                      /\ \A j \in 1 .. Len(cast'[other]) :
                           /\ other[1] \in Imported
                           /\ \E l \in Imported : \E p \in 1 .. Len(type_initial[l]) :
                                type_initial[l][p] = Name(cast'[other][j])
                           /\ Accepts(Name(other), Name(cast'[other][j]))
      BY <1>2 DEF CastsRight, DistinctNames, IsKnown
  <2>1. \A i \in 1 .. Len(cast[other]) :
          /\ other[1] \in Imported
          /\ \E l \in Imported : \E p \in 1 .. Len(type_initial[l]) :
                type_initial[l][p] = Name(cast[other][i])
          /\ Accepts(Name(other), Name(cast[other][i]))
        BY <1>1 DEF CastsRight, IsKnown
  <2>2. ASSUME NEW j \in 1 .. Len(cast'[other])
        PROVE  /\ other[1] \in Imported
               /\ \E l \in Imported : \E p \in 1 .. Len(type_initial[l]) :
                     type_initial[l][p] = Name(cast'[other][j])
               /\ Accepts(Name(other), Name(cast'[other][j]))
    <3>1. PICK i \in 1 .. Len(cast[other]) : cast'[other][j] = cast[other][i]  BY <1>8
    <3> QED  BY <3>1, <2>1
  <2> QED  BY <2>2, <1>8
<1> QED  BY <1>6, <1>9, SameTypesKeep

LEMMA TypesInvUnchanged ==
  ASSUME TypesInv, UNCHANGED <<next, type_pointer, types, cast>>
  PROVE  TypesInv'
<1>1. TypesTyped'  BY DEF TypesInv, TypesTyped
<1>2. CastsRight'
  <2>1. Imported' = Imported  BY DEF Imported
  <2> QED  BY <2>1 DEF TypesInv, CastsRight, DistinctNames, IsKnown
<1> QED  BY <1>1, <1>2, SameTypesKeep

LEMMA TypesInvMeansOne ==
  ASSUME TypesInv
  PROVE  OneTypePerName
<1>1. TypesTyped /\ Named /\ Shared /\ CastsRight  BY DEF TypesInv
<1>2. ASSUME NEW m \in SwigModules, NEW k \in DOMAIN types[m]
      PROVE  LET name == type_initial[m][k]
             IN /\ Name(types[m][k]) = name
                /\ InModule(m, name) = types[m][k]
                /\ \A l \in SwigModules \ {m} :
                     types[l] # <<>> /\ name \in DOMAIN Initially[l]
                       => TypeOf(l, name) = types[m][k]
  <2> DEFINE name == type_initial[m][k]
  <2>1. types[m] \in Seq(InitialTypes) /\ k \in 1 .. Len(types[m])  BY <1>1 DEF TypesTyped
  <2>2. next[m] # NULL /\ k \in 1 .. Len(type_initial[m])
    <3>1. types[m] # <<>>  BY <2>1
    <3>2. next[m] # NULL  BY <3>1, <1>1 DEF Named
    <3> QED  BY <3>2, <2>1, <1>1 DEF Named
  <2>3. Name(types[m][k]) = name  BY <2>2, <1>1 DEF Named
  <2>4. name \in Range(NameOrder)  BY <2>2, InitialNames
  <2>5. InModule(m, name) = types[m][k]  BY <2>2, <2>4, <1>1, InModuleIs
  <2>6. ASSUME NEW l \in SwigModules, types[l] # <<>>, name \in DOMAIN Initially[l]
        PROVE  TypeOf(l, name) = types[m][k]
    <3>1. next[l] # NULL  BY <2>6, <1>1 DEF Named
    <3>2. /\ DOMAIN type_initial[l] = 1 .. Len(type_initial[l])
          /\ \A j \in 1 .. Len(type_initial[l]) : Initially[l][type_initial[l][j]] = j
          BY InitialNames
    <3>3. DOMAIN Initially[l] = Range(type_initial[l])  BY DEF Initially, Places
    <3>4. PICK j \in 1 .. Len(type_initial[l]) : type_initial[l][j] = name
          BY <2>6, <3>2, <3>3 DEF Range
    <3>5. Initially[l][name] = j  BY <3>2, <3>4
    <3>6. types[l][j] = types[m][k]
      <4>1. l \in Imported /\ m \in Imported  BY <3>1, <2>2 DEF Imported
      <4> QED  BY <4>1, <3>4, <2>2, <1>1 DEF Shared
    <3> QED  BY <3>5, <3>6 DEF TypeOf
  <2> QED  BY <2>3, <2>5, <2>6
<1>3. ASSUME NEW type \in InitialTypes, NEW j \in DOMAIN cast[type], NEW k \in DOMAIN cast[type],
             j # k
      PROVE  Name(cast[type][j]) # Name(cast[type][k])
  <2>1. cast[type] \in Seq(InitialTypes)  BY <1>1 DEF TypesTyped
  <2>2. j \in 1 .. Len(cast[type]) /\ k \in 1 .. Len(cast[type])  BY <2>1
  <2> QED  BY <2>2, <1>1, <1>3 DEF CastsRight, DistinctNames
<1> QED  BY <1>2, <1>3 DEF OneTypePerName

(* The types that the wrappers of a module go by. *)
LEMMA TypeOfIs ==
  ASSUME TypesInv, NEW m \in SwigModules, types[m] # <<>>,
         NEW name \in Range(type_initial[m])
  PROVE  TypeOf(m, name) \in InitialTypes /\ Name(TypeOf(m, name)) = name
<1>1. /\ DOMAIN type_initial[m] = 1 .. Len(type_initial[m])
      /\ \A j \in 1 .. Len(type_initial[m]) : Initially[m][type_initial[m][j]] = j
      BY InitialNames
<1>2. PICK j \in 1 .. Len(type_initial[m]) : type_initial[m][j] = name
      BY <1>1 DEF Range
<1>3. Initially[m][name] = j  BY <1>1, <1>2
<1>4. next[m] # NULL  BY DEF TypesInv, Named
<1>5. Len(types[m]) = Len(type_initial[m]) /\ Name(types[m][j]) = type_initial[m][j]
      BY <1>4 DEF TypesInv, Named
<1>6. types[m][j] \in InitialTypes
  <2>1. types[m] \in Seq(InitialTypes)  BY DEF TypesInv, TypesTyped
  <2> QED  BY <2>1, <1>5
<1> QED  BY <1>2, <1>3, <1>5, <1>6 DEF TypeOf

-----------------------------------------------------------------------------
(* Chains and conversions. *)

LEMMA ObjectsAre ==
  ASSUME ObjectsTyped, NEW o \in Live
  PROVE  /\ o \in Objects /\ o # NULL /\ obj[o] # NULL /\ obj[o] \in SwigPyObject
         /\ obj[o].ptr \in Blocks /\ obj[o].ty \in InitialTypes /\ obj[o].own \in BOOLEAN
         /\ obj[o].next \in Objects \union {NULL}
<1>1. o \in Objects /\ obj[o] # NULL  BY DEF Live
<1>2. obj[o] \in SwigPyObject  BY <1>1 DEF ObjectsTyped
<1>3. o # NULL  BY <1>1, ObjectsAssumption
<1> QED  BY <1>1, <1>2, <1>3 DEF SwigPyObject

(* The chain of an object has one link at most. *)
LEMMA ChainIs ==
  ASSUME ObjectsTyped, NEW o \in Live,
         obj[o].next # NULL => obj[o].next \in Live /\ obj[obj[o].next].next = NULL
  PROVE  LET length == IF obj[o].next = NULL THEN 1 ELSE 2
         IN Chain(o) = [k \in 1 .. length |-> IF k = 1 THEN o ELSE obj[o].next]
<1> DEFINE C == Cardinality(Objects)
           q == obj[o].next
           S == {o, q, NULL}
           on(x) == IF x = NULL THEN NULL ELSE obj[x].next
           step == [n \in 1 .. C |-> [x \in S |-> on(x)]]
           Is(f) == f = [n \in 0 .. C |-> IF n = 0 THEN o
                                         ELSE IF f[n-1] = NULL THEN NULL ELSE obj[f[n-1]].next]
<1>1. /\ C \in Nat /\ C >= 1
      /\ o # NULL /\ (q # NULL => obj[q].next = NULL)
  <2>1. o \in Objects /\ o # NULL  BY ObjectsAre
  <2>2. IsFiniteSet(Objects)  BY ObjectsAssumption
  <2>3. C \in Nat /\ (C = 0 <=> Objects = {})  BY <2>2, FS_CardinalityType, FS_EmptySet
  <2> QED  BY <2>1, <2>3
<1>2. step \in [1 .. C -> [S -> S]]
  <2>1. on(o) = q /\ on(NULL) = NULL /\ (q # NULL => on(q) = NULL)  BY <1>1
  <2>2. \A x \in S : on(x) \in S  BY <2>1
  <2> HIDE DEF on, S
  <2> QED  BY <2>2
<1> HIDE DEF C, step
<1>3. PICK f : f \in NaturalNumbers!Run(C, S, o, step)
  <2>1. o \in S  OBVIOUS
  <2> HIDE DEF S
  <2> QED  BY <2>1, <1>1, <1>2, NaturalNumbers!Recursion
<1>4. /\ f \in [0 .. C -> S] /\ f[0] = o
      /\ \A n \in 1 .. C : f[n] = step[n][f[n-1]]
      BY <1>3 DEF NaturalNumbers!Run
<1> HIDE DEF S
<1>5. ASSUME NEW n \in 1 .. C PROVE f[n] = on(f[n-1])
  <2>1. f[n-1] \in S  BY <1>1, <1>4
  <2> QED  BY <1>4, <2>1 DEF step
<1>6. Is(f)
  <2>1. \A n \in 0 .. C : f[n] = IF n = 0 THEN o
                                 ELSE IF f[n-1] = NULL THEN NULL ELSE obj[f[n-1]].next
        BY <1>1, <1>4, <1>5
  <2> QED  BY <1>4, <2>1
<1> DEFINE g == CHOOSE g : Is(g)
<1>7. Is(g)  BY <1>6
<1> DEFINE there == {n \in DOMAIN g : g[n] # NULL}
<1>8. Chain(o) = [k \in 1 .. Cardinality(there) |-> g[k - 1]]  BY DEF Chain, C
<1>9. DOMAIN g = 0 .. C  BY <1>7
<1>10. g[0] = o /\ \A n \in 1 .. C : g[n] = on(g[n-1])
  <2>1. \A n \in 0 .. C : g[n] = IF n = 0 THEN o
                                 ELSE IF g[n-1] = NULL THEN NULL ELSE obj[g[n-1]].next
        BY <1>7
  <2> QED  BY <2>1, <1>1
<1> HIDE DEF g
<1>11. g[1] = q
  <2>1. g[1] = on(g[1 - 1])  BY <1>1, <1>10
  <2> QED  BY <2>1, <1>1, <1>10
<1> HIDE DEF q
<1>12. \A n \in 2 .. C : g[n] = NULL
  <2> DEFINE gone == {n \in 0 .. C : n >= 2 => g[n] = NULL}
  <2>1. 0 \in gone  BY <1>1
  <2>2. ASSUME NEW n \in 1 .. C, n - 1 \in gone PROVE n \in gone
    <3>1. CASE n = 1  BY <3>1
    <3>2. CASE n = 2
      <4>1. g[2] = on(g[2 - 1])  BY <3>2, <1>10
      <4>2. g[2] = on(q)  BY <4>1, <1>11
      <4>3. on(q) = NULL  BY <1>1 DEF q
      <4> QED  BY <3>2, <4>2, <4>3, <1>1
    <3>3. CASE n > 2
      <4>1. g[n-1] = NULL /\ g[n] = on(g[n-1])  BY <2>2, <3>3, <1>10, <1>1
      <4> QED  BY <4>1, <1>1
    <3> QED  BY <3>1, <3>2, <3>3, <1>1
  <2>3. 0 .. C \subseteq gone
    <3> HIDE DEF gone
    <3> QED  BY <2>1, <2>2, <1>1, NaturalNumbers!UpTo
  <2> QED  BY <2>3, <1>1
<1>13. CASE q = NULL
  <2>1. there = {0}
    <3>1. \A n \in 0 .. C : n = 0 \/ n = 1 \/ n \in 2 .. C  BY <1>1
    <3> QED  BY <3>1, <1>1, <1>9, <1>10, <1>11, <1>12, <1>13
  <2>2. Cardinality(there) = 1  BY <2>1, FS_Singleton
  <2>3. \A k \in 1 .. 1 : g[k - 1] = IF k = 1 THEN o ELSE q  BY <1>10
  <2> HIDE DEF there
  <2> QED  BY <2>2, <2>3, <1>8, <1>13 DEF q
<1>14. CASE q # NULL
  <2>1. there = {0} \union {1}
    <3>1. \A n \in 0 .. C : n = 0 \/ n = 1 \/ n \in 2 .. C  BY <1>1
    <3> QED  BY <3>1, <1>1, <1>9, <1>10, <1>11, <1>12, <1>14
  <2>2. IsFiniteSet({0}) /\ Cardinality({0}) = 1  BY FS_Singleton
  <2>3. Cardinality(there) = 2
    <3>1. Cardinality({0} \union {1}) = IF 1 \in {0} THEN 1 ELSE 1 + 1
          BY <2>2, FS_AddElement
    <3> QED  BY <3>1, <2>1
  <2>4. \A k \in 1 .. 2 : g[k - 1] = IF k = 1 THEN o ELSE q
        BY <1>10, <1>11
  <2> HIDE DEF there
  <2> QED  BY <2>3, <2>4, <1>8, <1>14 DEF q
<1> QED  BY <1>13, <1>14

(* A parameter takes an object, never one that is chained to it. *)
LEMMA ConvertIs ==
  ASSUME ObjectsTyped, ChainsRight, NEW o \in held, NEW as
  PROVE  SWIG_Python_ConvertPtrAndOwn(o, as) = IF Fits(obj[o].ty, as) THEN o ELSE NULL
<1> DEFINE q == obj[o].next
           length == IF q = NULL THEN 1 ELSE 2
           chain == Chain(o)
           fitting == {k \in DOMAIN chain : Fits(obj[chain[k]].ty, as)}
<1>1. o \in Live  BY DEF ObjectsTyped
<1>2. q # NULL => q \in Live /\ obj[q].next = NULL /\ obj[q].ty = obj[o].ty
      BY <1>1 DEF ChainsRight, Chained
<1>3. chain = [k \in 1 .. length |-> IF k = 1 THEN o ELSE q]
      BY <1>1, <1>2, ChainIs
<1>4. DOMAIN chain = 1 .. length /\ length \in {1, 2} /\ chain[1] = o
      /\ \A k \in 1 .. length : obj[chain[k]].ty = obj[o].ty
      BY <1>2, <1>3
<1>5. SWIG_Python_ConvertPtrAndOwn(o, as) =
        IF fitting = {} THEN NULL ELSE chain[Min(fitting)]
      BY DEF SWIG_Python_ConvertPtrAndOwn
<1> HIDE DEF chain, length
<1>6. CASE Fits(obj[o].ty, as)
  <2>1. fitting = 1 .. length  BY <1>4, <1>6
  <2>2. Min(1 .. length) = 1
    <3>1. 1 \in 1 .. length /\ \A k \in 1 .. length : 1 <= k  BY <1>4
    <3>2. \A x \in 1 .. length : (\A k \in 1 .. length : x <= k) => x = 1
          BY <3>1, <1>4
    <3> QED  BY <3>1, <3>2 DEF Min
  <2> HIDE DEF fitting
  <2>3. 1 \in fitting
    <3>1. 1 \in 1 .. length  BY <1>4
    <3> QED  BY <3>1, <2>1
  <2> QED  BY <2>1, <2>2, <2>3, <1>4, <1>5, <1>6
<1>7. CASE ~ Fits(obj[o].ty, as)
  <2>1. fitting = {}  BY <1>4, <1>7
  <2> QED  BY <2>1, <1>5, <1>7
<1> QED  BY <1>6, <1>7

(* What goes for a parameter of the library has its type, or is a rich field *)
(* for a field.                                                              *)
LEMMA FitsMeans ==
  ASSUME TypesInv, types[Module] # <<>>, NEW as \in Parameters, NEW ty \in InitialTypes,
         Fits(ty, SWIGTYPE(as))
  PROVE  /\ Name(ty) = as \/ (as = Field /\ Name(ty) = Rich)
         /\ ty # SWIGTYPE(as) =>
              SWIG_TypeCheck(Name(ty), cast[SWIGTYPE(as)]) \in 1 .. Len(cast[SWIGTYPE(as)])
<1> DEFINE to == SWIGTYPE(as)
           list == cast[to]
           k == SWIG_TypeCheck(Name(ty), list)
<1>1. Module \in SwigModules /\ as \in Range(type_initial[Module])
      BY ProgramAssumption
<1>2. to \in InitialTypes /\ Name(to) = as
      BY <1>1, TypeOfIs DEF SWIGTYPE
<1> HIDE DEF to
<1>3. ty = to \/ k # 0  BY DEF Fits, to
<1>4. list \in Seq(InitialTypes)  BY <1>2 DEF TypesInv, TypesTyped
<1>5. CASE ty = to
      BY <1>2, <1>5 DEF to
<1>6. CASE ty # to
  <2>1. k \in 1 .. Len(list) /\ Name(list[k]) = Name(ty)
        BY <1>3, <1>4, <1>6, TypeCheckIs
  <2>2. Accepts(as, Name(ty))
    <3>1. Accepts(Name(to), Name(list[k]))  BY <2>1, <1>2 DEF TypesInv, CastsRight
    <3> QED  BY <3>1, <2>1, <1>2
  <2>3. PICK m \in SwigModules : \E i \in 1 .. Len(type_initial[m]) :
               type_initial[m][i] = as /\ Name(ty) \in Range(cast_initial[m][i])
        BY <2>2 DEF Accepts
  <2>4. PICK i \in 1 .. Len(type_initial[m]) :
               type_initial[m][i] = as /\ Name(ty) \in Range(cast_initial[m][i])
        BY <2>3
  <2>5. i \in DOMAIN type_initial[m]  BY InitialNames
  <2>6. Name(ty) = as \/ (as = Field /\ Name(ty) = Rich)
        BY <2>4, <2>5, ProgramAssumption
  <2> QED  BY <2>1, <2>6 DEF to
<1> QED  BY <1>5, <1>6

(* What a usable object points to: a block of the kind that is expected. *)
LEMMA UsableIs ==
  ASSUME TypesInv, ObjectsInv, NEW o, NEW as \in Parameters, Usable(o, as)
  PROVE  /\ o \in held /\ o \in Live /\ types[Module] # <<>>
         /\ SWIG_Python_ConvertPtrAndOwn(o, SWIGTYPE(as)) = o
         /\ Fits(obj[o].ty, SWIGTYPE(as))
         /\ Pointer(o, as) = obj[o].ptr /\ obj[o].ptr \in Blocks
         /\ mem[obj[o].ptr] # NULL /\ mem[obj[o].ptr] \in Cells
         /\ mem[obj[o].ptr].kind = Kind(as) /\ Shaped(mem[obj[o].ptr])
         /\ IsField(obj[o].ty) <=> as = Field
<1> DEFINE c == SWIG_Python_ConvertPtrAndOwn(o, SWIGTYPE(as))
           b == obj[o].ptr
<1>1. /\ types[Module] # <<>> /\ o \in held /\ c # NULL
      /\ obj[c].own \/ mem[obj[c].ptr] # NULL
      BY DEF Usable
<1>2. ObjectsTyped /\ CellsRight /\ PointersRight /\ ChainsRight  BY DEF ObjectsInv
<1>3. c = o /\ Fits(obj[o].ty, SWIGTYPE(as))  BY <1>1, <1>2, ConvertIs
<1>4. Pointer(o, as) = b  BY <1>3 DEF Pointer
<1>5. o \in Live /\ b \in Blocks /\ obj[o].ty \in InitialTypes
  <2>1. o \in Live  BY <1>1, <1>2 DEF ObjectsTyped
  <2> QED  BY <2>1, <1>2, ObjectsAre
<1>6. Name(obj[o].ty) = as \/ (as = Field /\ Name(obj[o].ty) = Rich)
      BY <1>1, <1>3, <1>5, FitsMeans
<1> HIDE DEF c
<1>7. mem[b] # NULL  BY <1>1, <1>2, <1>3, <1>5 DEF PointersRight
<1>8. mem[b] \in Cells  BY <1>2, <1>5, <1>7 DEF ObjectsTyped
<1>9. mem[b].kind = Expects(Name(obj[o].ty))  BY <1>2, <1>5, <1>7 DEF PointersRight
<1>10. as # Rich /\ Kind(Field) = Field
       BY DEF Parameters, Rich, Kind, Field, Array, Context, TableType, Digest, IndexType, Row,
              RowNumber
<1> DEFINE name == Name(obj[o].ty)
<1>11. /\ name = as \/ (as = Field /\ name = Rich)
       /\ mem[b].kind = IF name = Rich THEN Field ELSE Kind(name)
       /\ IsField(obj[o].ty) <=> name \in {Field, Rich}
       BY <1>6, <1>9, Zenon DEF Expects, IsField
<1> HIDE DEF name
<1>12. mem[b].kind = Kind(as) /\ (IsField(obj[o].ty) <=> as = Field)
  <2> HIDE DEF b
  <2>1. CASE name = as
    <3>1. name # Rich  BY <2>1, <1>10
    <3>2. mem[b].kind = Kind(as)  BY <2>1, <3>1, <1>11
    <3>3. IsField(obj[o].ty) <=> as = Field  BY <2>1, <3>1, <1>11
    <3> QED  BY <3>2, <3>3
  <2>2. CASE as = Field /\ name = Rich
    <3>1. mem[b].kind = Field  BY <2>2, <1>11
    <3>2. IsField(obj[o].ty)  BY <2>2, <1>11
    <3> QED  BY <2>2, <3>1, <3>2, <1>10
  <2> QED  BY <2>1, <2>2, <1>11
<1>13. Shaped(mem[b])  BY <1>2, <1>5, <1>7 DEF CellsRight
<1> QED  BY <1>1, <1>3, <1>4, <1>5, <1>7, <1>8, <1>12, <1>13 DEF c

LEMMA ConvertedKeepsTypes ==
  ASSUME TypesInv, ObjectsInv, NEW o, NEW as \in Parameters, Converted(o, as)
  PROVE  Usable(o, as) /\ TypesInv'
<1>1. /\ Usable(o, as) /\ cast' = Asked(o, SWIGTYPE(as))
      /\ UNCHANGED <<next, type_pointer, types>>
      BY DEF Converted
<1> DEFINE to == obj[o].ty
           type == SWIGTYPE(as)
           k == SWIG_TypeCheck(Name(to), cast[type])
<1>2. /\ o \in Live /\ types[Module] # <<>> /\ Fits(to, type)
      /\ SWIG_Python_ConvertPtrAndOwn(o, type) = o
      BY <1>1, UsableIs
<1>3. to \in InitialTypes  BY <1>2, ObjectsAre DEF ObjectsInv
<1>4. type \in InitialTypes
  <2>1. Module \in SwigModules /\ as \in Range(type_initial[Module])
        BY ProgramAssumption
  <2> QED  BY <2>1, <1>2, TypeOfIs DEF SWIGTYPE
<1>5. CASE to = type
  <2>1. cast' = cast  BY <1>1, <1>2, <1>5 DEF Asked
  <2> QED  BY <2>1, <1>1, TypesInvUnchanged
<1>6. CASE to # type
  <2>1. cast' = [cast EXCEPT ![type] = MoveToFront(@, k)]
        BY <1>1, <1>2, <1>6 DEF Asked
  <2>2. k \in 1 .. Len(cast[type])  BY <1>2, <1>3, <1>6, FitsMeans
  <2> HIDE DEF type, k
  <2>3. TypesInv'  BY <2>1, <2>2, <1>1, <1>4, AskingKeepsTypes
  <2> QED  BY <2>3, <1>1
<1> QED  BY <1>5, <1>6

-----------------------------------------------------------------------------
(* What calls do to objects and blocks. *)

(* C only reads, or a text is shown. *)
LEMMA ReadingKeeps ==
  ASSUME ObjectsInv, UNCHANGED <<obj, held, lost, mem>>, fault' # "freed twice"
  PROVE  ObjectsInv'
<1>1. Live' = Live  BY DEF Live
<1> USE DEF ObjectsInv
<1>2. ObjectsTyped'  BY <1>1 DEF ObjectsTyped
<1>3. CellsRight'  BY DEF CellsRight, Shaped
<1>4. PointersRight'  BY <1>1 DEF PointersRight
<1>5. ChainsRight'  BY <1>1 DEF ChainsRight, Chained
<1> QED  BY <1>2, <1>3, <1>4, <1>5

(* C writes to a block that stays of its kind. *)
LEMMA WritingKeeps ==
  ASSUME ObjectsInv, NEW b \in Blocks, mem[b] # NULL,
         NEW cell \in Cells, cell.kind = mem[b].kind, Shaped(cell),
         mem' = [mem EXCEPT ![b] = cell], UNCHANGED <<obj, held, lost, fault>>
  PROVE  ObjectsInv'
<1>1. Live' = Live  BY DEF Live
<1>2. ObjectsTyped /\ CellsRight /\ PointersRight /\ ChainsRight  BY DEF ObjectsInv
<1>3. cell # NULL  BY ProgramAssumption
<1>4. mem'[b] = cell /\ \A c \in Blocks \ {b} : mem'[c] = mem[c]
      BY <1>2 DEF ObjectsTyped
<1>5. ObjectsTyped'
  <2>1. mem' \in [Blocks -> Cells \union {NULL}]  BY <1>2 DEF ObjectsTyped
  <2> QED  BY <2>1, <1>1, <1>2 DEF ObjectsTyped
<1>6. CellsRight'
  <2>1. \A c \in Blocks : mem'[c] # NULL => Shaped(mem'[c])
        BY <1>2, <1>4 DEF CellsRight
  <2> QED  BY <2>1 DEF CellsRight, Shaped
<1>7. PointersRight'
  <2> SUFFICES ASSUME NEW o \in Live
               PROVE  /\ mem'[obj[o].ptr] # NULL =>
                            mem'[obj[o].ptr].kind = Expects(Name(obj[o].ty))
                      /\ obj[o].own => IsField(obj[o].ty) /\ mem'[obj[o].ptr] # NULL
                      /\ IsField(obj[o].ty) => \A p \in Live : obj[p].ptr = obj[o].ptr => p = o
      BY <1>1 DEF PointersRight
  <2>1. obj[o].ptr \in Blocks  BY <1>2, ObjectsAre
  <2>2. /\ mem'[obj[o].ptr] # NULL <=> mem[obj[o].ptr] # NULL
        /\ mem'[obj[o].ptr] # NULL => mem'[obj[o].ptr].kind = mem[obj[o].ptr].kind
        BY <2>1, <1>3, <1>4
  <2>3. /\ mem[obj[o].ptr] # NULL =>
               mem[obj[o].ptr].kind = Expects(Name(obj[o].ty))
        /\ obj[o].own => IsField(obj[o].ty) /\ mem[obj[o].ptr] # NULL
        /\ IsField(obj[o].ty) => \A p \in Live : obj[p].ptr = obj[o].ptr => p = o
        BY <1>2 DEF PointersRight
  <2> QED  BY <2>2, <2>3
<1>8. ChainsRight'  BY <1>1, <1>2 DEF ChainsRight, Chained
<1> QED  BY <1>5, <1>6, <1>7, <1>8 DEF ObjectsInv

(* A new object for a block nobody points to, or for one that no field is in. *)
LEMMA AddingKeeps ==
  ASSUME ObjectsInv, NEW new \in Unused, NEW ptr \in Blocks, NEW ty \in InitialTypes,
         NEW own \in BOOLEAN,
         obj' = [obj EXCEPT ![new] = [ptr |-> ptr, ty |-> ty, own |-> own, next |-> NULL]],
         held' = held \union {new}, UNCHANGED <<lost, fault>>,
         mem' \in [Blocks -> Cells \union {NULL}],
         \A b \in Blocks : mem'[b] # NULL => Shaped(mem'[b]),
         \A b \in Blocks \ {ptr} : mem'[b] = mem[b],
         mem'[ptr] # NULL => mem'[ptr].kind = Expects(Name(ty)),
         own => IsField(ty) /\ mem'[ptr] # NULL,
         \A p \in Live : obj[p].ptr = ptr =>
            ~ IsField(ty) /\ ~ IsField(obj[p].ty) /\ mem'[ptr] = mem[ptr]
  PROVE  ObjectsInv'
<1> DEFINE rec == [ptr |-> ptr, ty |-> ty, own |-> own, next |-> NULL]
<1>1. ObjectsTyped /\ CellsRight /\ PointersRight /\ ChainsRight /\ fault # "freed twice"
      BY DEF ObjectsInv
<1>2. new \in Objects /\ obj[new] = NULL /\ new \notin Live  BY DEF Unused, Live
<1>3. rec \in SwigPyObject /\ rec # NULL
  <2>1. rec \in SwigPyObject  BY DEF SwigPyObject
  <2> QED  BY <2>1, ObjectsAssumption
<1>4. rec.ptr = ptr /\ rec.ty = ty /\ rec.own = own /\ rec.next = NULL  OBVIOUS
<1> HIDE DEF rec
<1>5. obj' = [obj EXCEPT ![new] = rec]  BY DEF rec
<1>6. /\ obj' \in [Objects -> SwigPyObject \union {NULL}]
      /\ obj'[new] = rec /\ \A p \in Objects \ {new} : obj'[p] = obj[p]
      BY <1>1, <1>2, <1>3, <1>5 DEF ObjectsTyped
<1>7. Live' = Live \union {new} /\ \A p \in Live : obj'[p] = obj[p]
      BY <1>2, <1>3, <1>6 DEF Live
<1>8. \A p \in Live : obj[p].next # new
  <2> TAKE p \in Live
  <2>1. obj[p].next # NULL => obj[p].next \in Live  BY <1>1 DEF ChainsRight, Chained
  <2>2. new # NULL  BY <1>2, ObjectsAssumption
  <2> QED  BY <2>1, <2>2, <1>2
<1>9. new \notin lost  BY <1>1, <1>2 DEF ObjectsTyped
<1>10. ObjectsTyped'  BY <1>1, <1>6, <1>7 DEF ObjectsTyped
<1>11. CellsRight'  BY DEF CellsRight, Shaped
<1>12. PointersRight'
  <2> SUFFICES ASSUME NEW o \in Live \union {new}
               PROVE  /\ mem'[obj'[o].ptr] # NULL =>
                            mem'[obj'[o].ptr].kind = Expects(Name(obj'[o].ty))
                      /\ obj'[o].own => IsField(obj'[o].ty) /\ mem'[obj'[o].ptr] # NULL
                      /\ IsField(obj'[o].ty) =>
                            \A p \in Live \union {new} : obj'[p].ptr = obj'[o].ptr => p = o
      BY <1>7 DEF PointersRight
  <2>1. CASE o = new
    <3>1. \A p \in Live : obj[p].ptr = ptr => ~ IsField(ty)  OBVIOUS
    <3> QED  BY <2>1, <3>1, <1>4, <1>6, <1>7
  <2>2. CASE o \in Live
    <3>1. obj'[o] = obj[o] /\ obj[o].ptr \in Blocks  BY <2>2, <1>1, <1>7, ObjectsAre
    <3>2. mem'[obj[o].ptr] = mem[obj[o].ptr]  BY <2>2, <3>1
    <3>3. /\ mem[obj[o].ptr] # NULL =>
                 mem[obj[o].ptr].kind = Expects(Name(obj[o].ty))
          /\ obj[o].own => IsField(obj[o].ty) /\ mem[obj[o].ptr] # NULL
          /\ IsField(obj[o].ty) => \A p \in Live : obj[p].ptr = obj[o].ptr => p = o
          BY <2>2, <1>1 DEF PointersRight
    <3>4. IsField(obj[o].ty) => obj[o].ptr # ptr  BY <2>2
    <3> QED  BY <3>1, <3>2, <3>3, <3>4, <1>4, <1>6, <1>7
  <2> QED  BY <2>1, <2>2
<1>13. ChainsRight'
  <2>1. \A o \in lost : o \notin held' /\ IsField(obj'[o].ty)
    <3> TAKE o \in lost
    <3>1. o \in Live /\ o # new  BY <1>1, <1>9 DEF ObjectsTyped
    <3> QED  BY <3>1, <1>1, <1>7 DEF ChainsRight, Chained
  <2>2. ASSUME NEW o \in Live \union {new}, obj'[o].next # NULL
        PROVE  LET q == obj'[o].next
               IN /\ o \in held'
                  /\ q \in Live' /\ q \notin held' /\ q \notin lost
                  /\ obj'[q].next = NULL
                  /\ obj'[q].ty = obj'[o].ty /\ IsField(obj'[q].ty)
                  /\ \A p \in Live \union {new} : obj'[p].next = q => p = o
    <3>1. o \in Live /\ obj'[o] = obj[o]  BY <2>2, <1>4, <1>6, <1>7
    <3> DEFINE q == obj[o].next
    <3>2. /\ o \in held /\ q \in Live /\ q \notin held /\ q \notin lost
          /\ obj[q].next = NULL /\ obj[q].ty = obj[o].ty /\ IsField(obj[q].ty)
          /\ \A p \in Live : obj[p].next = q => p = o
          BY <3>1, <2>2, <1>1 DEF ChainsRight, Chained
    <3>3. q # new /\ obj'[q] = obj[q] /\ q # NULL  BY <3>1, <3>2, <1>7, <1>8, <2>2
    <3> QED  BY <3>1, <3>2, <3>3, <1>4, <1>6, <1>7
  <2> QED  BY <2>1, <2>2, <1>7 DEF ChainsRight, Chained
<1> QED  BY <1>1, <1>10, <1>11, <1>12, <1>13 DEF ObjectsInv

(* Objects go, and with them the fields that only they point to. *)
LEMMA RemovingKeeps ==
  ASSUME ObjectsInv, NEW gone \in SUBSET Live,
         obj' = [p \in Objects |-> IF p \in gone THEN NULL ELSE obj[p]],
         held' = held \ gone, UNCHANGED lost, fault' # "freed twice",
         gone \intersect lost = {},
         \A p \in Live \ gone : obj[p].next \notin gone,
         mem' \in [Blocks -> Cells \union {NULL}],
         \A b \in Blocks : mem'[b] # NULL => Shaped(mem'[b]),
         \A p \in Live \ gone :
            /\ mem'[obj[p].ptr] # NULL =>
                 mem[obj[p].ptr] # NULL /\ mem'[obj[p].ptr].kind = mem[obj[p].ptr].kind
            /\ obj[p].own => mem'[obj[p].ptr] # NULL
  PROVE  ObjectsInv'
<1>1. ObjectsTyped /\ PointersRight /\ ChainsRight  BY DEF ObjectsInv
<1>2. /\ obj' \in [Objects -> SwigPyObject \union {NULL}]
      /\ \A p \in Objects \ gone : obj'[p] = obj[p]
      /\ \A p \in gone : obj'[p] = NULL
      BY <1>1 DEF ObjectsTyped, Live
<1>3. Live' = Live \ gone /\ \A p \in Live \ gone : obj'[p] = obj[p]
      BY <1>2 DEF Live
<1>4. held' \subseteq Live' /\ lost' \subseteq Live' /\ held' \subseteq held
      BY <1>1, <1>3 DEF ObjectsTyped
<1>5. ObjectsTyped'  BY <1>2, <1>4 DEF ObjectsTyped
<1>6. CellsRight'  BY DEF CellsRight, Shaped
<1>7. PointersRight'
  <2> SUFFICES ASSUME NEW o \in Live \ gone
               PROVE  /\ mem'[obj[o].ptr] # NULL =>
                            mem'[obj[o].ptr].kind = Expects(Name(obj[o].ty))
                      /\ obj[o].own => IsField(obj[o].ty) /\ mem'[obj[o].ptr] # NULL
                      /\ IsField(obj[o].ty) =>
                            \A p \in Live \ gone : obj[p].ptr = obj[o].ptr => p = o
      BY <1>3 DEF PointersRight
  <2>1. /\ mem[obj[o].ptr] # NULL =>
               mem[obj[o].ptr].kind = Expects(Name(obj[o].ty))
        /\ obj[o].own => IsField(obj[o].ty)
        /\ IsField(obj[o].ty) => \A p \in Live : obj[p].ptr = obj[o].ptr => p = o
        BY <1>1 DEF PointersRight
  <2>2. /\ mem'[obj[o].ptr] # NULL =>
             mem[obj[o].ptr] # NULL /\ mem'[obj[o].ptr].kind = mem[obj[o].ptr].kind
        /\ obj[o].own => mem'[obj[o].ptr] # NULL
        OBVIOUS
  <2> QED  BY <2>1, <2>2
<1>8. ChainsRight'
  <2>1. \A o \in lost : o \notin held' /\ IsField(obj'[o].ty)
    <3> TAKE o \in lost
    <3>1. o \in Live \ gone  BY <1>1 DEF ObjectsTyped
    <3> QED  BY <3>1, <1>1, <1>3, <1>4 DEF ChainsRight, Chained
  <2>2. ASSUME NEW o \in Live \ gone, NEW q, q = obj'[o].next, q # NULL
        PROVE  /\ o \in held'
               /\ q \in Live' /\ q \notin held' /\ q \notin lost
               /\ obj'[q].next = NULL
               /\ obj'[q].ty = obj'[o].ty /\ IsField(obj'[q].ty)
               /\ \A p \in Live \ gone : obj'[p].next = q => p = o
    <3>1. obj'[o] = obj[o] /\ q = obj[o].next /\ q \notin gone  BY <2>2, <1>3
    <3> DEFINE n == obj[o].next
    <3>2. /\ o \in held /\ n \in Live /\ n \notin held /\ n \notin lost
          /\ obj[n].next = NULL /\ obj[n].ty = obj[o].ty /\ IsField(obj[n].ty)
          /\ \A p \in Live : obj[p].next = n => p = o
          BY <3>1, <2>2, <1>1 DEF ChainsRight, Chained
    <3>3. obj'[q] = obj[q] /\ q \in Live' /\ o \in held'  BY <3>1, <3>2, <1>3
    <3> QED  BY <3>1, <3>2, <3>3, <1>3, <1>4
  <2>3. ASSUME NEW o \in Live \ gone, obj'[o].next # NULL PROVE Chained(o)'
    <3> DEFINE q == obj'[o].next
    <3>1. /\ o \in held' /\ q \in Live' /\ q \notin held' /\ q \notin lost
          /\ obj'[q].next = NULL
          /\ obj'[q].ty = obj'[o].ty /\ IsField(obj'[q].ty)
          BY <2>2, <2>3, Zenon
    <3>2. \A p \in Live' : obj'[p].next = q => p = o
      <4>1. Live' = Live \ gone  BY <1>3
      <4>2. \A p \in Live \ gone : obj'[p].next = q => p = o
            BY <2>2, <2>3, Zenon
      <4> QED  BY <4>1, <4>2, Zenon
    <3>3. lost' = lost  OBVIOUS
    <3> QED  BY <3>1, <3>2, <3>3, Zenon DEF Chained
  <2>4. \A o \in Live' : obj'[o].next # NULL => Chained(o)'
        BY <2>3, <1>3
  <2> QED  BY <2>1, <2>4 DEF ChainsRight
<1> QED  BY <1>5, <1>6, <1>7, <1>8 DEF ObjectsInv

(* An object owns its block from now on, or no longer; its block may go. *)
LEMMA OwningKeeps ==
  ASSUME ObjectsInv, NEW o \in Live, NEW own \in BOOLEAN,
         obj' = [obj EXCEPT ![o].own = own], UNCHANGED <<held, lost, fault>>,
         mem' \in [Blocks -> Cells \union {NULL}],
         \A b \in Blocks \ {obj[o].ptr} : mem'[b] = mem[b],
         mem'[obj[o].ptr] \in {NULL, mem[obj[o].ptr]},
         mem'[obj[o].ptr] # mem[obj[o].ptr] => IsField(obj[o].ty),
         own => IsField(obj[o].ty) /\ mem'[obj[o].ptr] # NULL
  PROVE  ObjectsInv'
<1>1. ObjectsTyped /\ CellsRight /\ PointersRight /\ ChainsRight /\ fault # "freed twice"
      BY DEF ObjectsInv
<1>2. o \in Objects /\ obj[o] \in SwigPyObject /\ obj[o].ptr \in Blocks
      BY <1>1, ObjectsAre
<1> DEFINE rec == [obj[o] EXCEPT !.own = own]
<1>3. /\ rec \in SwigPyObject /\ rec.own = own
      /\ rec.ptr = obj[o].ptr /\ rec.ty = obj[o].ty /\ rec.next = obj[o].next
      BY <1>2 DEF SwigPyObject
<1> HIDE DEF rec
<1>4. obj' = [obj EXCEPT ![o] = rec]  BY DEF rec
<1>5. rec # NULL  BY <1>3, ObjectsAssumption
<1>6. /\ obj' \in [Objects -> SwigPyObject \union {NULL}]
      /\ obj'[o] = rec /\ \A p \in Objects \ {o} : obj'[p] = obj[p]
      BY <1>1, <1>2, <1>3, <1>4 DEF ObjectsTyped
<1>7. Live' = Live  BY <1>5, <1>6 DEF Live
<1>8. \A p \in Live : /\ obj'[p].ptr = obj[p].ptr /\ obj'[p].ty = obj[p].ty
                      /\ obj'[p].next = obj[p].next
                      /\ p # o => obj'[p].own = obj[p].own
      BY <1>3, <1>6 DEF Live
<1>9. ObjectsTyped'  BY <1>1, <1>6, <1>7 DEF ObjectsTyped
<1>10. CellsRight'
  <2>1. \A b \in Blocks : mem'[b] # NULL => Shaped(mem'[b])
        BY <1>1, <1>2 DEF CellsRight
  <2> QED  BY <2>1 DEF CellsRight, Shaped
<1>11. PointersRight'
  <2> SUFFICES ASSUME NEW p \in Live
               PROVE  /\ mem'[obj'[p].ptr] # NULL =>
                            mem'[obj'[p].ptr].kind = Expects(Name(obj'[p].ty))
                      /\ obj'[p].own => IsField(obj'[p].ty) /\ mem'[obj'[p].ptr] # NULL
                      /\ IsField(obj'[p].ty) =>
                            \A q \in Live : obj'[q].ptr = obj'[p].ptr => q = p
      BY <1>7 DEF PointersRight
  <2>1. /\ mem[obj[p].ptr] # NULL =>
               mem[obj[p].ptr].kind = Expects(Name(obj[p].ty))
        /\ obj[p].own => IsField(obj[p].ty) /\ mem[obj[p].ptr] # NULL
        /\ IsField(obj[p].ty) => \A q \in Live : obj[q].ptr = obj[p].ptr => q = p
        BY <1>1 DEF PointersRight
  <2>2. /\ obj'[p].ptr = obj[p].ptr /\ obj'[p].ty = obj[p].ty
        /\ \A q \in Live : obj'[q].ptr = obj[q].ptr
        /\ obj[p].ptr \in Blocks
        BY <1>1, <1>8, ObjectsAre
  <2>3. mem'[obj[p].ptr] \in {NULL, mem[obj[p].ptr]}
        BY <2>2
  <2>4. obj'[p].own => IsField(obj[p].ty) /\ mem'[obj[p].ptr] # NULL
    <3>1. CASE p = o  BY <3>1, <1>3, <1>6
    <3>2. CASE p # o
      <4> SUFFICES ASSUME obj[p].own PROVE IsField(obj[p].ty) /\ mem'[obj[p].ptr] # NULL
          BY <3>2, <1>8
      <4>1. IsField(obj[p].ty) /\ mem[obj[p].ptr] # NULL /\ obj[p].ptr # obj[o].ptr
            BY <2>1, <3>2
      <4> QED  BY <4>1, <2>2
    <3> QED  BY <3>1, <3>2
  <2>5. mem'[obj[p].ptr] # NULL => mem'[obj[p].ptr].kind = Expects(Name(obj[p].ty))
        BY <2>1, <2>3
  <2> QED  BY <2>1, <2>2, <2>4, <2>5
<1>12. ChainsRight'
  <2>1. \A p \in lost : p \notin held' /\ IsField(obj'[p].ty)
        BY <1>1, <1>8 DEF ChainsRight, Chained, ObjectsTyped
  <2>2. ASSUME NEW p \in Live, obj'[p].next # NULL
        PROVE  LET q == obj'[p].next
               IN /\ p \in held'
                  /\ q \in Live' /\ q \notin held' /\ q \notin lost
                  /\ obj'[q].next = NULL
                  /\ obj'[q].ty = obj'[p].ty /\ IsField(obj'[q].ty)
                  /\ \A r \in Live : obj'[r].next = q => r = p
    <3> DEFINE q == obj[p].next
    <3>1. /\ p \in held /\ q \in Live /\ q \notin held /\ q \notin lost
          /\ obj[q].next = NULL /\ obj[q].ty = obj[p].ty /\ IsField(obj[q].ty)
          /\ \A r \in Live : obj[r].next = q => r = p
          BY <2>2, <1>1, <1>8 DEF ChainsRight, Chained
    <3> QED  BY <3>1, <1>7, <1>8
  <2> QED  BY <2>1, <2>2, <1>7 DEF ChainsRight, Chained
<1> QED  BY <1>1, <1>9, <1>10, <1>11, <1>12 DEF ObjectsInv

(* A field object is chained to another; the one before it is lost. *)
LEMMA AppendingKeeps ==
  ASSUME ObjectsInv, NEW o \in held, IsField(obj[o].ty), NEW new \in Unused, NEW ptr \in Blocks,
         obj' = [obj EXCEPT ![new] = [ptr |-> ptr, ty |-> obj[o].ty, own |-> TRUE, next |-> NULL],
                            ![o].next = new],
         lost' = lost \union ({obj[o].next} \ {NULL}), UNCHANGED <<held, fault>>,
         \A p \in Live : obj[p].ptr # ptr,
         mem' \in [Blocks -> Cells \union {NULL}],
         \A b \in Blocks : mem'[b] # NULL => Shaped(mem'[b]),
         \A b \in Blocks \ {ptr} : mem'[b] = mem[b],
         mem'[ptr] # NULL, mem'[ptr].kind = Expects(Name(obj[o].ty))
  PROVE  ObjectsInv'
<1> DEFINE ty == obj[o].ty
           rec == [ptr |-> ptr, ty |-> ty, own |-> TRUE, next |-> NULL]
           linked == [obj[o] EXCEPT !.next = new]
           before == obj[o].next
<1>1. ObjectsTyped /\ CellsRight /\ PointersRight /\ ChainsRight /\ fault # "freed twice"
      BY DEF ObjectsInv
<1>2. /\ o \in Live /\ o \in Objects /\ obj[o] \in SwigPyObject /\ ty \in InitialTypes
      /\ obj[o].ptr \in Blocks
      BY <1>1, ObjectsAre DEF ObjectsTyped
<1>3. new \in Objects /\ obj[new] = NULL /\ new \notin Live /\ new # o /\ new # NULL
      BY <1>2, ObjectsAssumption DEF Unused, Live
<1>4. rec \in SwigPyObject /\ linked \in SwigPyObject
      BY <1>2, <1>3 DEF SwigPyObject
<1>5. rec # NULL /\ linked # NULL  BY <1>4, ObjectsAssumption
<1>6. /\ rec.ptr = ptr /\ rec.ty = ty /\ rec.own = TRUE /\ rec.next = NULL
      /\ linked.ptr = obj[o].ptr /\ linked.ty = ty /\ linked.own = obj[o].own
      /\ linked.next = new
      BY <1>2 DEF SwigPyObject
<1>7. obj' = [obj EXCEPT ![new] = rec, ![o] = linked]
  <2>1. [obj EXCEPT ![new] = rec][o] = obj[o]  BY <1>1, <1>2, <1>3 DEF ObjectsTyped
  <2> QED  BY <2>1
<1> HIDE DEF rec, linked
<1>8. /\ obj' \in [Objects -> SwigPyObject \union {NULL}]
      /\ obj'[new] = rec /\ obj'[o] = linked
      /\ \A p \in Objects \ {new, o} : obj'[p] = obj[p]
  <2> DEFINE e == [obj EXCEPT ![new] = rec]
  <2>1. /\ e \in [Objects -> SwigPyObject \union {NULL}] /\ e[new] = rec
        /\ \A p \in Objects \ {new} : e[p] = obj[p]
        BY <1>1, <1>3, <1>4 DEF ObjectsTyped
  <2>2. obj' = [e EXCEPT ![o] = linked]  BY <1>7
  <2> HIDE DEF e
  <2> QED  BY <2>1, <2>2, <1>2, <1>3, <1>4
<1>9. Live' = Live \union {new}
      BY <1>2, <1>3, <1>5, <1>8 DEF Live
<1>10. /\ \A p \in Live : /\ obj'[p].ptr = obj[p].ptr /\ obj'[p].ty = obj[p].ty
                          /\ obj'[p].own = obj[p].own
       /\ \A p \in Live \ {o} : obj'[p].next = obj[p].next
   <2> SUFFICES ASSUME NEW p \in Live
               PROVE  /\ obj'[p].ptr = obj[p].ptr /\ obj'[p].ty = obj[p].ty
                      /\ obj'[p].own = obj[p].own
                      /\ p # o => obj'[p].next = obj[p].next
      OBVIOUS
  <2>1. CASE p = o  BY <2>1, <1>6, <1>8
  <2>2. CASE p # o
    <3>1. p \in Objects \ {new, o}  BY <2>2, <1>3 DEF Live
    <3> QED  BY <2>2, <3>1, <1>8
  <2> QED  BY <2>1, <2>2
<1>11. before # NULL =>
         /\ before \in Live /\ before \notin held /\ before \notin lost
         /\ obj[before].next = NULL /\ IsField(obj[before].ty)
         /\ \A p \in Live : obj[p].next = before => p = o
       BY <1>1, <1>2 DEF ChainsRight, Chained
<1>12. ObjectsTyped'
  <2>1. held' \subseteq Live' /\ lost' \subseteq Live'
        BY <1>1, <1>9, <1>11 DEF ObjectsTyped
  <2> QED  BY <2>1, <1>8 DEF ObjectsTyped
<1>13. CellsRight'  BY DEF CellsRight, Shaped
<1>14. PointersRight'
  <2> SUFFICES ASSUME NEW p \in Live \union {new}
               PROVE  /\ mem'[obj'[p].ptr] # NULL =>
                            mem'[obj'[p].ptr].kind = Expects(Name(obj'[p].ty))
                      /\ obj'[p].own => IsField(obj'[p].ty) /\ mem'[obj'[p].ptr] # NULL
                      /\ IsField(obj'[p].ty) =>
                            \A q \in Live \union {new} : obj'[q].ptr = obj'[p].ptr => q = p
      BY <1>9 DEF PointersRight
  <2>1. CASE p = new
    <3>1. obj'[p] = rec  BY <2>1, <1>8
    <3> QED  BY <2>1, <3>1, <1>6, <1>10
  <2>2. CASE p \in Live
    <3>1. /\ mem[obj[p].ptr] # NULL =>
                 mem[obj[p].ptr].kind = Expects(Name(obj[p].ty))
          /\ obj[p].own => IsField(obj[p].ty) /\ mem[obj[p].ptr] # NULL
          /\ IsField(obj[p].ty) => \A q \in Live : obj[q].ptr = obj[p].ptr => q = p
          BY <2>2, <1>1 DEF PointersRight
    <3>2. obj[p].ptr \in Blocks /\ obj[p].ptr # ptr  BY <2>2, <1>1, ObjectsAre
    <3>3. /\ obj'[p].ptr = obj[p].ptr /\ obj'[p].ty = obj[p].ty /\ obj'[p].own = obj[p].own
          /\ \A q \in Live : obj'[q].ptr = obj[q].ptr
          /\ obj'[new].ptr = ptr
          BY <2>2, <1>6, <1>8, <1>10
    <3>4. mem'[obj[p].ptr] = mem[obj[p].ptr]  BY <3>2
    <3> QED  BY <3>1, <3>2, <3>3, <3>4
  <2> QED  BY <2>1, <2>2
<1>15. ChainsRight'
  <2>1. ASSUME NEW p \in lost' PROVE p \notin held' /\ IsField(obj'[p].ty)
    <3>1. CASE p \in lost
      <4>1. p \in Live /\ p \notin held /\ IsField(obj[p].ty)
            BY <3>1, <1>1 DEF ObjectsTyped, ChainsRight, Chained
      <4> QED  BY <4>1, <1>10
    <3>2. CASE p = before /\ before # NULL
          BY <3>2, <1>10, <1>11
    <3> QED  BY <3>1, <3>2
  <2>2. ASSUME NEW p \in Live \union {new}, NEW q, q = obj'[p].next, q # NULL
        PROVE  /\ p \in held'
               /\ q \in Live' /\ q \notin held' /\ q \notin lost'
               /\ obj'[q].next = NULL
               /\ obj'[q].ty = obj'[p].ty /\ IsField(obj'[q].ty)
               /\ \A r \in Live \union {new} : obj'[r].next = q => r = p
    <3>1. CASE p = new  BY <3>1, <2>2, <1>6, <1>8
    <3>2. CASE p = o
      <4>1. q = new /\ obj'[new].next = NULL /\ obj'[new].ty = ty /\ obj'[o].ty = ty
            BY <2>2, <3>2, <1>6, <1>8
      <4>2. new \notin held /\ new \notin lost /\ new # before
            BY <1>1, <1>3, <1>11 DEF ObjectsTyped
      <4>3. \A r \in Live \ {o} : obj'[r].next # new
        <5> TAKE r \in Live \ {o}
        <5>1. obj'[r].next = obj[r].next  BY <1>10
        <5>2. obj[r].next # NULL => obj[r].next \in Live  BY <1>1 DEF ChainsRight, Chained
        <5> QED  BY <5>1, <5>2, <1>3
      <4>4. /\ p \in held' /\ q \in Live' /\ q \notin held' /\ q \notin lost'
            /\ obj'[q].next = NULL
            BY <3>2, <4>1, <4>2, <1>9
      <4>5. obj'[q].ty = obj'[p].ty /\ IsField(obj'[q].ty)  BY <3>2, <4>1
      <4>6. \A r \in Live \union {new} : obj'[r].next = q => r = p
            BY <3>2, <4>1, <4>3, <1>3
      <4> QED  BY <4>4, <4>5, <4>6
    <3>3. CASE p \in Live \ {o}
      <4>1. obj[p].next = q /\ q # NULL  BY <3>3, <2>2, <1>10
      <4>2. /\ p \in held /\ q \in Live /\ q \notin held /\ q \notin lost
            /\ obj[q].next = NULL /\ obj[q].ty = obj[p].ty /\ IsField(obj[q].ty)
            /\ \A r \in Live : obj[r].next = q => r = p
            BY <3>3, <4>1, <1>1 DEF ChainsRight, Chained
      <4>3. q # o /\ q # new /\ q # before  BY <3>3, <4>2, <1>3, <1>2
      <4>4. obj'[q].next = NULL /\ obj'[q].ty = obj[q].ty /\ obj'[p].ty = obj[p].ty
            BY <3>3, <4>2, <4>3, <1>10
      <4>5. \A r \in Live \union {new} : obj'[r].next = q => r = p
        <5> SUFFICES ASSUME NEW r \in Live \union {new}, obj'[r].next = q PROVE r = p
            OBVIOUS
        <5>1. r # new /\ r # o  BY <2>2, <4>3, <1>6, <1>8
        <5>2. r \in Live \ {o}  BY <5>1
        <5> QED  BY <5>2, <4>2, <1>10
      <4>6. q \in Live' /\ q \notin lost'  BY <4>2, <4>3, <1>9
      <4> QED  BY <4>2, <4>4, <4>5, <4>6
    <3> QED  BY <3>1, <3>2, <3>3
  <2>3. ASSUME NEW p \in Live \union {new}, obj'[p].next # NULL PROVE Chained(p)'
        BY <2>2, <2>3, <1>9 DEF Chained
  <2>4. \A p \in Live' : obj'[p].next # NULL => Chained(p)'
        BY <2>3, <1>9
  <2> QED  BY <2>1, <2>4 DEF ChainsRight
<1> QED  BY <1>1, <1>12, <1>13, <1>14, <1>15 DEF ObjectsInv

-----------------------------------------------------------------------------
(* The steps that calls are made of. *)

LEMMA LinkIs ==
  ASSUME ObjectsInv, NEW o \in Live, obj[o].next # NULL
  PROVE  /\ o \in held
         /\ obj[o].next \in Live /\ obj[o].next \notin held /\ obj[o].next \notin lost
         /\ obj[obj[o].next].next = NULL
         /\ obj[obj[o].next].ty = obj[o].ty /\ IsField(obj[obj[o].next].ty)
         /\ \A p \in Live : obj[p].next = obj[o].next => p = o
BY DEF ObjectsInv, ChainsRight, Chained

LEMMA AloneInBlock ==
  ASSUME ObjectsInv, NEW o \in Live, NEW p \in Live, obj[p].ptr = obj[o].ptr, IsField(obj[o].ty)
  PROVE  p = o
BY DEF ObjectsInv, PointersRight

LEMMA CellsAre ==
  ASSUME ObjectsInv, NEW b \in Blocks, mem[b] # NULL
  PROVE  mem[b] \in Cells /\ Shaped(mem[b])
BY DEF ObjectsInv, ObjectsTyped, CellsRight

LEMMA TakingOf ==
  ASSUME NEW cell \in Cells, Shaped(cell)
  PROVE  LET new == [cell EXCEPT !.of = Gone]
         IN new \in Cells /\ new.kind = cell.kind /\ Shaped(new) /\ new # NULL
<1> DEFINE new == [cell EXCEPT !.of = Gone]
<1>1. new \in Cells  BY DEF Cells
<1>2. new.kind = cell.kind /\ new.first = cell.first /\ new.of = Gone  BY DEF Cells
<1>3. Gone # Taught  BY DEF Gone, Taught
<1>4. new # NULL  BY <1>1, ProgramAssumption
<1> HIDE DEF new
<1>5. Shaped(new)  BY <1>2, <1>3 DEF Shaped
<1> QED  BY <1>1, <1>2, <1>4, <1>5 DEF new

(* C frees a block that no field is in. *)
LEMMA DestroyingKeeps ==
  ASSUME TypesInv, ObjectsInv, NEW o, NEW as \in Parameters, as # Field, Destroys(o, as)
  PROVE  ObjectsInv'
<1> DEFINE b == obj[o].ptr
           gone == {p \in Objects : obj[p] # NULL /\ obj[p].ptr = b}
           new(c) == [mem[c] EXCEPT !.of = Gone]
           after(c) == IF c = b THEN NULL
                       ELSE IF mem[c] # NULL /\ mem[c].of = b THEN new(c) ELSE mem[c]
<1>1. Converted(o, as)  BY DEF Destroys
<1>2. Usable(o, as)  BY <1>1 DEF Converted
<1>3. /\ o \in Live /\ b \in Blocks /\ Pointer(o, as) = b /\ ~ IsField(obj[o].ty)
      BY <1>2, UsableIs
<1>4. /\ mem' = [c \in Blocks |-> after(c)]
      /\ obj' = [p \in Objects |-> IF p \in gone THEN NULL ELSE obj[p]]
      /\ held' = held \ gone /\ lost' = lost /\ fault' = fault
      BY <1>3 DEF Destroys
<1>5. gone \subseteq Live /\ \A p \in Live \ gone : obj[p].ptr # b
      BY DEF Live
<1>6. \A p \in gone : ~ IsField(obj[p].ty)
  <2> SUFFICES ASSUME NEW p \in gone, IsField(obj[p].ty) PROVE FALSE
      OBVIOUS
  <2>1. p \in Live /\ obj[o].ptr = obj[p].ptr  BY <1>5
  <2>2. o = p  BY <2>1, <1>3, AloneInBlock
  <2> QED  BY <2>2, <1>3
<1> HIDE DEF gone
<1>7. gone \intersect lost = {}
  <2>1. \A p \in lost : IsField(obj[p].ty)  BY DEF ObjectsInv, ChainsRight
  <2> QED  BY <2>1, <1>6
<1>8. \A p \in Live \ gone : obj[p].next \notin gone
  <2> TAKE p \in Live \ gone
  <2>1. CASE obj[p].next = NULL
    <3>1. \A g \in gone : g \in Objects  BY <1>5 DEF Live
    <3> QED  BY <3>1, <2>1, ObjectsAssumption
  <2>2. CASE obj[p].next # NULL
    <3>1. IsField(obj[obj[p].next].ty)  BY <2>2, LinkIs
    <3> QED  BY <3>1, <1>6
  <2> QED  BY <2>1, <2>2
<1>9. ASSUME NEW c \in Blocks
      PROVE  /\ after(c) \in Cells \union {NULL}
             /\ after(c) # NULL => Shaped(after(c)) /\ mem[c] # NULL /\ after(c).kind = mem[c].kind
             /\ c # b /\ mem[c] # NULL => after(c) # NULL
  <2>1. CASE c = b \/ mem[c] = NULL
    <3>1. after(c) = NULL  BY <2>1
    <3> QED  BY <2>1, <3>1
  <2>2. CASE c # b /\ mem[c] # NULL
    <3>1. mem[c] \in Cells /\ Shaped(mem[c])  BY <2>2, CellsAre
    <3>2. new(c) \in Cells /\ new(c).kind = mem[c].kind /\ Shaped(new(c)) /\ new(c) # NULL
          BY <3>1, TakingOf
    <3>3. after(c) = new(c) \/ after(c) = mem[c]  BY <2>2
    <3> HIDE DEF after, new
    <3> QED  BY <2>2, <3>1, <3>2, <3>3
  <2> QED  BY <2>1, <2>2
<1> HIDE DEF after, b
<1>10. /\ mem' \in [Blocks -> Cells \union {NULL}]
       /\ \A c \in Blocks : mem'[c] = after(c)
       BY <1>4, <1>9
<1>11. \A p \in Live \ gone :
         /\ mem'[obj[p].ptr] # NULL =>
              mem[obj[p].ptr] # NULL /\ mem'[obj[p].ptr].kind = mem[obj[p].ptr].kind
         /\ obj[p].own => mem'[obj[p].ptr] # NULL
  <2> TAKE p \in Live \ gone
  <2>1. obj[p].ptr \in Blocks /\ obj[p].ptr # b  BY <1>5, ObjectsAre DEF ObjectsInv
  <2>2. obj[p].own => mem[obj[p].ptr] # NULL  BY DEF ObjectsInv, PointersRight
  <2> QED  BY <2>1, <2>2, <1>9, <1>10
<1>12. \A c \in Blocks : mem'[c] # NULL => Shaped(mem'[c])  BY <1>9, <1>10
<1>13. fault' # "freed twice"  BY <1>4 DEF ObjectsInv
<1> QED  BY <1>4, <1>5, <1>7, <1>8, <1>10, <1>11, <1>12, <1>13, RemovingKeeps

LEMMA OneTo ==
  ASSUME NEW n \in Nat
  PROVE  IsFiniteSet(1 .. n)
<1>1. 1 \in Int /\ n \in Int  OBVIOUS
<1> QED  BY <1>1, FS_Interval

(* No two of the numbers 1 and 2 are lost when they stand for different things. *)
LEMMA CountedApart ==
  ASSUME NEW freeing \in SUBSET (1 .. 2), NEW f, 1 \in freeing /\ 2 \in freeing => f[1] # f[2]
  PROVE  Cardinality({f[k] : k \in freeing}) = Cardinality(freeing)
<1> DEFINE freed == {f[k] : k \in freeing}
           g == [k \in freeing |-> f[k]]
<1>1. g \in [freeing -> freed]  OBVIOUS
<1>2. \A j, k \in freeing : g[j] = g[k] => j = k
  <2> TAKE j, k \in freeing
  <2>1. (j = 1 \/ j = 2) /\ (k = 1 \/ k = 2)  OBVIOUS
  <2> QED  BY <2>1
<1>3. \A x \in freed : \E k \in freeing : g[k] = x  OBVIOUS
<1> HIDE DEF g, freed
<1>4. g \in Bijection(freeing, freed)
      BY <1>1, <1>2, <1>3 DEF Bijection, Injection, Surjection, IsInjective
<1>5. ExistsBijection(freeing, freed)  BY <1>4 DEF ExistsBijection
<1>6. IsFiniteSet(1 .. 2)
  <2> DEFINE n == 2
  <2>1. n \in Nat  OBVIOUS
  <2> HIDE DEF n
  <2>2. IsFiniteSet(1 .. n)  BY <2>1, OneTo
  <2> QED  BY <2>2 DEF n
<1>7. IsFiniteSet(freeing)  BY <1>6, FS_Subset
<1>8. Cardinality(freed) = Cardinality(freeing)  BY <1>5, <1>7, FS_Bijection
<1> QED  BY <1>8 DEF freed

(* All of a chain goes when the program gives its object back. *)
LEMMA DyingIs ==
  ASSUME ObjectsInv, NEW o \in held
  PROVE  LET length == IF obj[o].next = NULL THEN 1 ELSE 2
         IN Dying(o) = [k \in 1 .. length |-> IF k = 1 THEN o ELSE obj[o].next]
<1> DEFINE q == obj[o].next
           length == IF q = NULL THEN 1 ELSE 2
           chain == Chain(o)
           kept == {k \in DOMAIN chain : chain[k] \in lost \/ (k > 1 /\ chain[k] \in held)}
<1>1. o \in Live /\ o \notin lost  BY DEF ObjectsInv, ObjectsTyped, ChainsRight
<1>2. q # NULL => /\ q \in Live /\ q \notin held /\ q \notin lost /\ obj[q].next = NULL
      BY <1>1, LinkIs
<1>3. chain = [k \in 1 .. length |-> IF k = 1 THEN o ELSE q]
      BY <1>1, <1>2, ChainIs DEF ObjectsInv
<1>4. Dying(o) = IF kept = {} THEN chain ELSE SubSeq(chain, 1, Min(kept) - 1)
      BY DEF Dying
<1>5. kept = {}
  <2> SUFFICES ASSUME NEW k \in 1 .. length,
                      chain[k] \in lost \/ (k > 1 /\ chain[k] \in held)
               PROVE  FALSE
      BY <1>3
  <2>1. CASE k = 1  BY <2>1, <1>1, <1>3
  <2>2. CASE k # 1
    <3>1. q # NULL /\ chain[k] = q  BY <2>2, <1>3
    <3> QED  BY <3>1, <1>2
  <2> QED  BY <2>1, <2>2
<1> HIDE DEF chain, kept
<1> QED  BY <1>3, <1>4, <1>5

(* The program gives an object back. *)
LEMMA DroppingKeeps ==
  ASSUME ObjectsInv, NEW o \in held, SwigPyObject_dealloc(o)
  PROVE  ObjectsInv'
<1> DEFINE q == obj[o].next
           length == IF q = NULL THEN 1 ELSE 2
           dying == Dying(o)
           freeing == FreedBy(dying)
           ptr(k) == obj[dying[k]].ptr
           freed == {ptr(k) : k \in freeing}
           gone == {o, q} \ {NULL}
<1>1. /\ o \in Live /\ o \in Objects /\ o # NULL /\ o \notin lost
  <2>1. o \in Live /\ o \notin lost  BY DEF ObjectsInv, ObjectsTyped, ChainsRight
  <2> QED  BY <2>1, ObjectsAre DEF ObjectsInv
<1>2. q # NULL => /\ q \in Live /\ q \notin held /\ q \notin lost /\ IsField(obj[q].ty)
                  /\ \A p \in Live : obj[p].next = q => p = o
      BY <1>1, LinkIs
<1>3. dying = [k \in 1 .. length |-> IF k = 1 THEN o ELSE q]  BY DyingIs
<1>4. /\ obj' = [p \in Objects |-> IF p \in Range(dying) THEN NULL ELSE obj[p]]
      /\ mem' = [b \in Blocks |-> IF b \in freed THEN NULL ELSE mem[b]]
      /\ held' = held \ {o} /\ lost' = lost
      /\ fault' = IF \/ Cardinality(freed) # Cardinality(freeing)
                     \/ \E b \in freed : mem[b] = NULL
                  THEN "freed twice" ELSE fault
      BY DEF SwigPyObject_dealloc
<1>5. Range(dying) = gone /\ DOMAIN dying = 1 .. length
      /\ \A k \in 1 .. length : dying[k] \in gone
  <2>1. DOMAIN dying = 1 .. length /\ dying[1] = o /\ (q # NULL => dying[2] = q)
        BY <1>3
  <2>2. CASE q = NULL
    <3>1. \A k \in 1 .. length : k = 1  BY <2>2
    <3>2. 1 \in 1 .. length  BY <2>2
    <3> HIDE DEF dying, length
    <3> QED  BY <3>1, <3>2, <2>1, <2>2, <1>1 DEF Range
  <2>3. CASE q # NULL
    <3>1. \A k \in 1 .. length : k = 1 \/ k = 2  BY <2>3
    <3>2. 1 \in 1 .. length /\ 2 \in 1 .. length  BY <2>3
    <3> HIDE DEF dying, length
    <3> QED  BY <3>1, <3>2, <2>1, <2>3, <1>1 DEF Range
  <2> QED  BY <2>2, <2>3
<1>6. freeing \subseteq 1 .. length
      /\ \A k \in freeing : obj[dying[k]].own /\ dying[k] \in gone
      BY <1>5 DEF FreedBy
<1>7. gone \subseteq Live  BY <1>1, <1>2
<1> HIDE DEF freeing
<1>8. Cardinality(freed) = Cardinality(freeing)
  <2> DEFINE f == [k \in 1 .. 2 |-> ptr(k)]
  <2>1. freeing \in SUBSET (1 .. 2)  BY <1>6
  <2>2. ASSUME 1 \in freeing, 2 \in freeing PROVE f[1] # f[2]
    <3>1. q # NULL /\ dying[1] = o /\ dying[2] = q  BY <2>2, <1>3, <1>6
    <3>2. obj[o].ptr # obj[q].ptr  BY <3>1, <1>1, <1>2, AloneInBlock
    <3> QED  BY <3>1, <3>2
  <2>3. \A k \in freeing : f[k] = ptr(k)  BY <2>1
  <2> HIDE DEF f, dying
  <2>4. freed = {f[k] : k \in freeing}  BY <2>3
  <2> HIDE DEF freed
  <2> QED  BY <2>1, <2>2, <2>4, CountedApart
<1>9. ASSUME NEW b \in freed
      PROVE  /\ b \in Blocks /\ mem[b] # NULL
             /\ \A p \in Live \ gone : obj[p].own => obj[p].ptr # b
  <2>1. PICK k \in freeing : b = ptr(k)  OBVIOUS
  <2> DEFINE r == dying[k]
  <2>2. r \in gone /\ r \in Live /\ obj[r].own /\ b = obj[r].ptr  BY <2>1, <1>6, <1>7
  <2> HIDE DEF r
  <2>3. b \in Blocks /\ mem[b] # NULL /\ IsField(obj[r].ty)
        BY <2>2, ObjectsAre DEF ObjectsInv, PointersRight
  <2>4. \A p \in Live \ gone : obj[p].ptr # b  BY <2>2, <2>3, AloneInBlock
  <2> QED  BY <2>3, <2>4
<1> HIDE DEF dying, length, freed
<1>10. fault' = fault  BY <1>4, <1>8, <1>9
<1>11. held' = held \ gone
  <2>1. NULL \notin held  BY ObjectsAssumption DEF ObjectsInv, ObjectsTyped, Live
  <2>2. q \notin held  BY <2>1, <1>2
  <2>3. held \ gone = held \ {o}  BY <2>1, <2>2
  <2> QED  BY <2>3, <1>4
<1>12. gone \intersect lost = {}  BY <1>1, <1>2
<1>13. \A p \in Live \ gone : obj[p].next \notin gone
  <2> TAKE p \in Live \ gone
  <2>1. CASE obj[p].next = NULL  BY <2>1
  <2>2. CASE obj[p].next # NULL
    <3>1. obj[p].next \notin held  BY <2>2, LinkIs
    <3>2. obj[p].next # o  BY <3>1
    <3>3. obj[p].next # q
      <4>1. CASE q = NULL  BY <2>2, <4>1
      <4>2. CASE q # NULL
        <5>1. \A r \in Live : obj[r].next = q => r = o  BY <4>2, <1>2
        <5>2. p # o  BY <1>1
        <5> QED  BY <5>1, <5>2
      <4> QED  BY <4>1, <4>2
    <3> QED  BY <3>2, <3>3
  <2> QED  BY <2>1, <2>2
<1>14. /\ mem' \in [Blocks -> Cells \union {NULL}]
       /\ \A b \in Blocks : mem'[b] = IF b \in freed THEN NULL ELSE mem[b]
       BY <1>4 DEF ObjectsInv, ObjectsTyped
<1>15. \A b \in Blocks : mem'[b] # NULL => Shaped(mem'[b])
       BY <1>14, CellsAre
<1>16. \A p \in Live \ gone :
         /\ mem'[obj[p].ptr] # NULL =>
              mem[obj[p].ptr] # NULL /\ mem'[obj[p].ptr].kind = mem[obj[p].ptr].kind
         /\ obj[p].own => mem'[obj[p].ptr] # NULL
  <2> TAKE p \in Live \ gone
  <2>1. obj[p].ptr \in Blocks  BY ObjectsAre DEF ObjectsInv
  <2>2. obj[p].own => mem[obj[p].ptr] # NULL  BY DEF ObjectsInv, PointersRight
  <2>3. obj[p].own => obj[p].ptr \notin freed  BY <1>9
  <2> QED  BY <2>1, <2>2, <2>3, <1>14
<1>17. fault' # "freed twice"  BY <1>10 DEF ObjectsInv
<1> HIDE DEF gone
<1>18. obj' = [p \in Objects |-> IF p \in gone THEN NULL ELSE obj[p]]
       BY <1>4, <1>5
<1> QED  BY <1>4, <1>7, <1>11, <1>12, <1>13, <1>14, <1>15, <1>16, <1>17, <1>18, RemovingKeeps

(* A block nobody points to is filled, and an object made for it. *)
LEMMA FreeIs ==
  ASSUME NEW b \in Free
  PROVE  b \in Blocks /\ mem[b] = NULL /\ \A p \in Live : obj[p].ptr # b
BY DEF Free, Live

LEMMA FilledCells ==
  ASSUME ObjectsInv, NEW b \in Blocks, NEW cell \in Cells, Shaped(cell),
         mem' = [mem EXCEPT ![b] = cell]
  PROVE  /\ mem' \in [Blocks -> Cells \union {NULL}]
         /\ mem'[b] = cell /\ cell # NULL
         /\ \A c \in Blocks \ {b} : mem'[c] = mem[c]
         /\ \A c \in Blocks : mem'[c] # NULL => Shaped(mem'[c])
<1>1. cell # NULL  BY ProgramAssumption
<1>2. /\ mem' \in [Blocks -> Cells \union {NULL}]
      /\ mem'[b] = cell /\ \A c \in Blocks \ {b} : mem'[c] = mem[c]
      BY DEF ObjectsInv, ObjectsTyped
<1>3. \A c \in Blocks \ {b} : mem[c] # NULL => Shaped(mem[c])  BY CellsAre
<1> QED  BY <1>1, <1>2, <1>3

LEMMA MakingKeeps ==
  ASSUME ObjectsInv, NEW b \in Free, NEW cell \in Cells, Shaped(cell),
         NEW ty \in InitialTypes, NEW own \in BOOLEAN, own => IsField(ty),
         cell.kind = Expects(Name(ty)),
         SWIG_Python_NewPointerObj(b, ty, own),
         mem' = [mem EXCEPT ![b] = cell], UNCHANGED <<lost, fault>>
  PROVE  ObjectsInv'
<1>1. b \in Blocks /\ \A p \in Live : obj[p].ptr # b  BY FreeIs
<1>2. /\ mem' \in [Blocks -> Cells \union {NULL}]
      /\ mem'[b] = cell /\ cell # NULL
      /\ \A c \in Blocks \ {b} : mem'[c] = mem[c]
      /\ \A c \in Blocks : mem'[c] # NULL => Shaped(mem'[c])
      BY <1>1, FilledCells
<1>3. PICK new \in Unused :
        /\ obj' = [obj EXCEPT ![new] = [ptr |-> b, ty |-> ty, own |-> own, next |-> NULL]]
        /\ held' = held \union {new}
      BY DEF SWIG_Python_NewPointerObj
<1>4. mem'[b] # NULL => mem'[b].kind = Expects(Name(ty))  BY <1>2
<1> QED  BY <1>1, <1>2, <1>3, <1>4, AddingKeeps

-----------------------------------------------------------------------------
(* What the wrappers put into a block. *)

LEMMA ParameterNames ==
  ASSUME NEW as \in Parameters
  PROVE  /\ as # Rich /\ Kind(as) \in Parameters /\ Expects(as) = Kind(as)
         /\ as \notin {Row, RowNumber} => Kind(as) = as
         /\ as \in {Row, RowNumber} => Kind(as) = IndexType
         /\ as \in {Field, Rich} <=> as = Field
BY DEF Parameters, Expects, Kind, Rich, Field, Array, Context, TableType, Digest, IndexType,
       Row, RowNumber

LEMMA TypeIs ==
  ASSUME TypesInv, types[Module] # <<>>, NEW as \in Parameters
  PROVE  /\ SWIGTYPE(as) \in InitialTypes /\ Name(SWIGTYPE(as)) = as
         /\ IsField(SWIGTYPE(as)) <=> as = Field
<1>1. Module \in SwigModules /\ as \in Range(type_initial[Module])  BY ProgramAssumption
<1>2. SWIGTYPE(as) \in InitialTypes /\ Name(SWIGTYPE(as)) = as
      BY <1>1, TypeOfIs DEF SWIGTYPE
<1> QED  BY <1>2, ParameterNames DEF IsField

LEMMA BlockIs ==
  ASSUME NEW kind \in Parameters \ {Field},
         NEW of \in Blocks \union {NULL, "packages", "files", "hashes"},
         kind # Context \/ of = NULL
  PROVE  LET cell == [Block(kind) EXCEPT !.of = of]
         IN cell \in Cells /\ cell.kind = kind /\ Shaped(cell)
<1> DEFINE cell == [Block(kind) EXCEPT !.of = of]
<1>1. cell = [kind |-> kind, first |-> NULL, second |-> NULL, of |-> of]  BY DEF Block
<1>2. cell \in Cells  BY <1>1 DEF Cells
<1>3. cell.kind = kind /\ cell.of = of  BY <1>1
<1>4. NULL # Taught  BY ProgramAssumption
<1> HIDE DEF cell
<1>5. Shaped(cell)  BY <1>3, <1>4 DEF Shaped
<1> QED  BY <1>2, <1>3, <1>5 DEF cell

LEMMA PlainBlockIs ==
  ASSUME NEW kind \in Parameters \ {Field}
  PROVE  Block(kind) \in Cells /\ Block(kind).kind = kind /\ Shaped(Block(kind))
<1>1. Block(kind) = [Block(kind) EXCEPT !.of = NULL]  BY DEF Block
<1> QED  BY <1>1, BlockIs

LEMMA NewFieldIs ==
  NewField \in Cells /\ NewField.kind = Field /\ Shaped(NewField)
<1> DEFINE pair == [key |-> NULL, value |-> NULL]
<1>1. pair \in Pairs  BY DEF Pairs, Texts
<1>2. pair # NULL  BY <1>1, ProgramAssumption
<1> HIDE DEF pair
<1>3. NewField = [kind |-> Field, first |-> pair, second |-> NULL, of |-> NULL]
      BY DEF NewField, Block, pair
<1>4. Field \in Parameters  BY DEF Parameters
<1>5. NewField \in Cells /\ NewField.kind = Field /\ NewField.first = pair
      BY <1>1, <1>3, <1>4 DEF Cells
<1>6. Field # Context  BY DEF Field, Context
<1> QED  BY <1>2, <1>5, <1>6 DEF Shaped

(* A pair of texts, or the source of the texts, is exchanged. *)
LEMMA PairsAre ==
  ASSUME NEW cell \in Cells, NEW pair \in Pairs \union {NULL}
  PROVE  /\ LET new == [cell EXCEPT !.first = pair]
            IN /\ new \in Cells /\ new.kind = cell.kind /\ new.first = pair
               /\ new.second = cell.second /\ new.of = cell.of
         /\ LET new == [cell EXCEPT !.second = pair]
            IN /\ new \in Cells /\ new.kind = cell.kind /\ new.second = pair
               /\ new.first = cell.first /\ new.of = cell.of
BY DEF Cells

LEMMA SourceIs ==
  ASSUME NEW cell \in Cells,
         NEW of \in Blocks \union {NULL, Gone, Taught, "packages", "files", "hashes"}
  PROVE  LET new == [cell EXCEPT !.of = of]
         IN /\ new \in Cells /\ new.kind = cell.kind /\ new.of = of
            /\ new.first = cell.first /\ new.second = cell.second
BY DEF Cells

LEMMA AllExchanged ==
  ASSUME NEW cell \in Cells, NEW pair \in Pairs \union {NULL}
  PROVE  LET new == [cell EXCEPT !.first = pair, !.second = pair, !.of = Taught]
         IN /\ new \in Cells /\ new.kind = cell.kind
            /\ new.first = pair /\ new.second = pair
BY DEF Cells

LEMMA TextsAre ==
  ASSUME NEW pair \in Pairs, NEW text \in Texts
  PROVE  /\ [pair EXCEPT !.key = text] \in Pairs
         /\ [pair EXCEPT !.value = text] \in Pairs
BY DEF Pairs

(* Empty and new pairs of texts. *)
LEMMA PairIs ==
  ASSUME NEW key \in Texts, NEW value \in Texts
  PROVE  /\ [key |-> key, value |-> value] \in Pairs
         /\ [key |-> key, value |-> value] # NULL
<1>1. [key |-> key, value |-> value] \in Pairs  BY DEF Pairs
<1> QED  BY <1>1, ProgramAssumption

-----------------------------------------------------------------------------
(* The calls of one kind. *)

LEMMA CallWrites ==
  ASSUME TypesInv, ObjectsInv, NEW o, NEW as \in Parameters, NEW cell \in Cells,
         cell.kind = Kind(as), Shaped(cell), Writes(o, as, Pointer(o, as), cell)
  PROVE  TypesInv' /\ ObjectsInv'
<1>1. /\ Converted(o, as) /\ mem' = [mem EXCEPT ![Pointer(o, as)] = cell]
      /\ UNCHANGED <<obj, held, lost, fault>>
      BY DEF Writes
<1>2. Usable(o, as) /\ TypesInv'  BY <1>1, ConvertedKeepsTypes
<1> DEFINE b == Pointer(o, as)
<1>3. b \in Blocks /\ mem[b] # NULL /\ mem[b].kind = Kind(as)  BY <1>2, UsableIs
<1> HIDE DEF b
<1>4. mem' = [mem EXCEPT ![b] = cell]  BY <1>1 DEF b
<1>5. ObjectsInv'  BY <1>1, <1>3, <1>4, WritingKeeps
<1> QED  BY <1>2, <1>5

LEMMA CallReads ==
  ASSUME TypesInv, ObjectsInv, NEW o, NEW as \in Parameters, Reads(o, as)
  PROVE  TypesInv' /\ ObjectsInv'
<1>1. Converted(o, as) /\ UNCHANGED objectVars  BY DEF Reads
<1>2. TypesInv'  BY <1>1, ConvertedKeepsTypes
<1>3. ObjectsInv'
  <2>1. UNCHANGED <<obj, held, lost, mem>> /\ fault' # "freed twice"
        BY <1>1 DEF objectVars, ObjectsInv
  <2> QED  BY <2>1, ReadingKeeps
<1> QED  BY <1>2, <1>3

LEMMA CallShows ==
  ASSUME TypesInv, ObjectsInv, NEW o, NEW as \in Parameters, NEW text, Shows(o, as, text)
  PROVE  TypesInv' /\ ObjectsInv'
<1>1. /\ Converted(o, as) /\ UNCHANGED <<obj, held, lost, mem>>
      /\ fault' = IF text \in {Argument, Line} THEN text ELSE NULL
      BY DEF Shows
<1>2. TypesInv'  BY <1>1, ConvertedKeepsTypes
<1>3. fault' # "freed twice"
  <2>1. fault' \in {Argument, Line, NULL}  BY <1>1
  <2>2. Argument # "freed twice" /\ Line # "freed twice"  BY DEF Argument, Line
  <2>3. NULL # "freed twice"  BY ProgramAssumption
  <2> QED  BY <2>1, <2>2, <2>3
<1>4. ObjectsInv'  BY <1>1, <1>3, ReadingKeeps
<1> QED  BY <1>2, <1>4

LEMMA CallReturns ==
  ASSUME TypesInv, ObjectsInv, NEW as \in Parameters, NEW cell \in Cells, NEW own \in BOOLEAN,
         own => as = Field, cell.kind = Kind(as), Shaped(cell), Returns(cell, as, own)
  PROVE  ObjectsInv'
<1>1. types[Module] # <<>> /\ UNCHANGED <<lost, fault>>  BY DEF Returns
<1>2. PICK b \in Free : /\ SWIG_Python_NewPointerObj(b, SWIGTYPE(as), own)
                        /\ mem' = [mem EXCEPT ![b] = cell]
      BY DEF Returns
<1> DEFINE ty == SWIGTYPE(as)
<1>3. ty \in InitialTypes /\ Name(ty) = as /\ (IsField(ty) <=> as = Field)
      BY <1>1, TypeIs
<1>4. SWIG_Python_NewPointerObj(b, ty, own)  BY <1>2
<1> HIDE DEF ty
<1>5. cell.kind = Expects(Name(ty))  BY <1>3, ParameterNames
<1>6. own => IsField(ty)  BY <1>3
<1>7. mem' = [mem EXCEPT ![b] = cell]  BY <1>2
<1> QED  BY <1>1, <1>3, <1>4, <1>5, <1>6, <1>7, MakingKeeps

LEMMA BlockOf ==
  ASSUME TypesInv, ObjectsInv, NEW o, NEW as \in Parameters, Usable(o, as)
  PROVE  /\ Pointer(o, as) \in Blocks /\ mem[Pointer(o, as)] # NULL
         /\ mem[Pointer(o, as)] \in Cells /\ Shaped(mem[Pointer(o, as)])
         /\ mem[Pointer(o, as)].kind = Kind(as)
         /\ mem[Pointer(o, as)].first \in Pairs \union {NULL}
         /\ mem[Pointer(o, as)].second \in Pairs \union {NULL}
<1>1. Pointer(o, as) = obj[o].ptr  BY UsableIs
<1>2. /\ obj[o].ptr \in Blocks /\ mem[obj[o].ptr] # NULL /\ mem[obj[o].ptr] \in Cells
      /\ Shaped(mem[obj[o].ptr]) /\ mem[obj[o].ptr].kind = Kind(as)
      BY UsableIs
<1>3. \A c \in Cells : c.first \in Pairs \union {NULL} /\ c.second \in Pairs \union {NULL}
      BY DEF Cells
<1> QED  BY <1>1, <1>2, <1>3

(* field_array: all calls but get_field. *)
LEMMA ArrayCalls ==
  ASSUME TypesInv, ObjectsInv, NEW o, Usable(o, Array),
         \/ field_array_initialize(o) \/ field_array_destroy(o)
         \/ field_array_set_key(o) \/ field_array_set_value(o)
         \/ field_array_get_num_fields(o)
         \/ field_array_get_key(o) \/ field_array_get_value(o)
  PROVE  TypesInv' /\ ObjectsInv'
<1> DEFINE cell == ArrayOf(o)
<1>1. Array \in Parameters /\ Array # Field  BY DEF Parameters, Array, Field
<1>2. /\ cell \in Cells /\ cell.kind = Kind(Array)
      /\ cell.first \in Pairs \union {NULL}
      BY <1>1, BlockOf DEF ArrayOf
<1>3. Kind(Array) # Field /\ Kind(Array) # Context
      BY DEF Kind, Array, Field, Context
<1> HIDE DEF cell
<1>4. ASSUME NEW pair \in Pairs, Writes(o, Array, Pointer(o, Array), [cell EXCEPT !.first = pair])
      PROVE  TypesInv' /\ ObjectsInv'
  <2> DEFINE new == [cell EXCEPT !.first = pair]
  <2>1. new \in Cells /\ new.kind = Kind(Array)  BY <1>2, PairsAre
  <2>2. Writes(o, Array, Pointer(o, Array), new)  BY <1>4
  <2> HIDE DEF new
  <2>3. Shaped(new)  BY <2>1, <1>3 DEF Shaped
  <2> QED  BY <2>1, <2>2, <2>3, <1>1, CallWrites
<1>5. CASE field_array_initialize(o)
  <2> DEFINE pair == [key |-> NULL, value |-> NULL]
  <2>1. pair \in Pairs  BY PairIs DEF Texts
  <2>2. Writes(o, Array, Pointer(o, Array), [cell EXCEPT !.first = pair])
        BY <1>5 DEF field_array_initialize, cell
  <2> HIDE DEF pair
  <2> QED  BY <2>1, <2>2, <1>4
<1>6. CASE field_array_destroy(o)
  <2>1. Destroys(o, Array)  BY <1>6 DEF field_array_destroy
  <2>2. Converted(o, Array)  BY <2>1 DEF Destroys
  <2>3. TypesInv'  BY <2>2, <1>1, ConvertedKeepsTypes
  <2>4. ObjectsInv'  BY <2>1, <1>1, DestroyingKeeps
  <2> QED  BY <2>3, <2>4
<1>7. CASE field_array_set_key(o)
  <2> DEFINE pair == [cell.first EXCEPT !.key = Argument]
  <2>1. cell.first \in Pairs  BY <1>7, <1>2 DEF field_array_set_key, Initialized, cell
  <2>2. pair \in Pairs  BY <2>1, TextsAre DEF Texts
  <2>3. [cell EXCEPT !.first = pair] = [cell EXCEPT !.first.key = Argument]
        OBVIOUS
  <2>4. Writes(o, Array, Pointer(o, Array), [cell EXCEPT !.first.key = Argument])
        BY <1>7 DEF field_array_set_key, cell
  <2>5. Writes(o, Array, Pointer(o, Array), [cell EXCEPT !.first = pair])
        BY <2>3, <2>4, Zenon
  <2> HIDE DEF pair
  <2> QED  BY <2>2, <2>5, <1>4
<1>8. CASE field_array_set_value(o)
  <2> DEFINE pair == [cell.first EXCEPT !.value = Argument]
  <2>1. cell.first \in Pairs  BY <1>8, <1>2 DEF field_array_set_value, Initialized, cell
  <2>2. pair \in Pairs  BY <2>1, TextsAre DEF Texts
  <2>3. [cell EXCEPT !.first = pair] = [cell EXCEPT !.first.value = Argument]
        OBVIOUS
  <2>4. Writes(o, Array, Pointer(o, Array), [cell EXCEPT !.first.value = Argument])
        BY <1>8 DEF field_array_set_value, cell
  <2>5. Writes(o, Array, Pointer(o, Array), [cell EXCEPT !.first = pair])
        BY <2>3, <2>4, Zenon
  <2> HIDE DEF pair
  <2> QED  BY <2>2, <2>5, <1>4
<1>9. CASE field_array_get_num_fields(o)
      BY <1>9, <1>1, CallReads DEF field_array_get_num_fields
<1>10. CASE field_array_get_key(o)
       BY <1>10, <1>1, CallShows DEF field_array_get_key
<1>11. CASE field_array_get_value(o)
       BY <1>11, <1>1, CallShows DEF field_array_get_value
<1> QED  BY <1>5, <1>6, <1>7, <1>8, <1>9, <1>10, <1>11

(* A field takes the texts of an array or of a parser. *)
LEMMA CallFills ==
  ASSUME TypesInv, ObjectsInv, NEW o, NEW f, NEW from \in Parameters,
         NEW pair \in Pairs \union {NULL}, Fills(o, from, pair, f)
  PROVE  TypesInv' /\ ObjectsInv'
<1> DEFINE b == Pointer(f, Field)
           of == Pointer(o, from)
           cell == mem[b]
           new == [[cell EXCEPT !.first = pair] EXCEPT !.of = of]
<1>1. Field \in Parameters  BY DEF Parameters
<1>2. /\ Usable(o, from) /\ Usable(f, Field) /\ Converted(f, Field)
      /\ UNCHANGED <<obj, held, lost, fault>>
      BY DEF Fills
<1>3. TypesInv'  BY <1>1, <1>2, ConvertedKeepsTypes
<1>4. of \in Blocks  BY <1>2, BlockOf
<1>5. b \in Blocks /\ cell # NULL /\ cell \in Cells /\ cell.kind = Field
  <2>1. Kind(Field) = Field  BY DEF Kind, Field
  <2> QED  BY <2>1, <1>1, <1>2, BlockOf
<1>6. CASE pair = NULL
  <2>1. mem' = mem  BY <1>6 DEF Fills
  <2>2. fault' # "freed twice"  BY <1>2 DEF ObjectsInv
  <2> QED  BY <2>1, <2>2, <1>2, <1>3, ReadingKeeps
<1>7. CASE pair # NULL
  <2>1. mem' = [mem EXCEPT ![b].first = pair, ![b].of = of]
        BY <1>7 DEF Fills
  <2>2. mem \in [Blocks -> Cells \union {NULL}]  BY DEF ObjectsInv, ObjectsTyped
  <2> HIDE DEF b, of
  <2>3. mem' = [mem EXCEPT ![b] = new]
        BY <2>1, <2>2, <1>5
  <2>4. new \in Cells /\ new.kind = Field /\ new.first = pair
    <3> DEFINE half == [cell EXCEPT !.first = pair]
    <3>1. half \in Cells /\ half.kind = Field /\ half.first = pair  BY <1>5, PairsAre
    <3> HIDE DEF half, cell
    <3>2. [half EXCEPT !.of = of] \in Cells /\ [half EXCEPT !.of = of].kind = Field
          /\ [half EXCEPT !.of = of].first = pair
          BY <3>1, <1>4, SourceIs
    <3> QED  BY <3>2 DEF half
  <2> HIDE DEF new
  <2>5. Shaped(new)
    <3>1. Field # Context  BY DEF Field, Context
    <3> QED  BY <3>1, <2>4, <1>7 DEF Shaped
  <2> HIDE DEF cell
  <2>6. mem[b] # NULL /\ mem[b].kind = new.kind  BY <1>5, <2>4 DEF cell
  <2>7. ObjectsInv'  BY <2>3, <2>4, <2>5, <2>6, <1>2, <1>5, WritingKeeps
  <2> QED  BY <2>7, <1>3
<1> QED  BY <1>6, <1>7

(* The parser: all calls but those that fill a field. *)
LEMMA ParserCalls ==
  ASSUME TypesInv, ObjectsInv, NEW o, Usable(o, Context),
         \/ destroy_parse_context(o) \/ imbue_parser(o) \/ parse(o)
         \/ get_number_of_subject_fields(o) \/ get_number_of_object_fields(o)
  PROVE  TypesInv' /\ ObjectsInv'
<1> DEFINE cell == ContextOf(o)
<1>1. Context \in Parameters /\ Context # Field  BY DEF Parameters, Context, Field
<1>2. /\ cell \in Cells /\ cell.kind = Kind(Context) /\ Shaped(cell)
      /\ cell.first \in Pairs \union {NULL} /\ cell.second \in Pairs \union {NULL}
      BY <1>1, BlockOf DEF ContextOf
<1>3. Kind(Context) = Context  BY DEF Kind, Context
<1> HIDE DEF cell
<1>4. ASSUME NEW new \in Cells, new.kind = Context,
             new.of = Taught => new.first # NULL /\ new.second # NULL,
             Writes(o, Context, Pointer(o, Context), new)
      PROVE  TypesInv' /\ ObjectsInv'
  <2>1. Shaped(new)  BY <1>1, <1>4 DEF Shaped
  <2> QED  BY <2>1, <1>1, <1>3, <1>4, CallWrites
<1>5. cell.of = Taught => cell.first # NULL /\ cell.second # NULL
      BY <1>2, <1>3 DEF Shaped
<1>6. CASE destroy_parse_context(o)
  <2>1. Destroys(o, Context)  BY <1>6 DEF destroy_parse_context
  <2>2. Converted(o, Context)  BY <2>1 DEF Destroys
  <2>3. TypesInv'  BY <2>2, <1>1, ConvertedKeepsTypes
  <2>4. ObjectsInv'  BY <2>1, <1>1, DestroyingKeeps
  <2> QED  BY <2>3, <2>4
<1>7. CASE imbue_parser(o)
  <2> DEFINE empty == [key |-> NULL, value |-> NULL]
             some == [key |-> Stays, value |-> NULL]
             emptied == [cell EXCEPT !.first = empty, !.of = NULL]
             taught == [cell EXCEPT !.first = some, !.second = some, !.of = Taught]
  <2>1. PICK c \in {cell, emptied, taught} : Writes(o, Context, Pointer(o, Context), c)
        BY <1>7 DEF imbue_parser, cell
  <2>2. /\ empty \in Pairs /\ empty # NULL /\ some \in Pairs /\ some # NULL
        BY PairIs DEF Texts
  <2> HIDE DEF empty, some
  <2>3. CASE c = cell
        BY <2>1, <2>3, <1>2, <1>3, <1>4, <1>5
  <2>4. CASE c = emptied
    <3> DEFINE half == [cell EXCEPT !.first = empty]
    <3>1. half \in Cells /\ half.kind = Context /\ half.first = empty
          BY <1>2, <1>3, <2>2, PairsAre
    <3>2. emptied = [half EXCEPT !.of = NULL]  OBVIOUS
    <3> HIDE DEF half, emptied
    <3>3. emptied \in Cells /\ emptied.kind = Context /\ emptied.of = NULL
          BY <3>1, <3>2, SourceIs
    <3>4. NULL # Taught  BY ProgramAssumption
    <3> QED  BY <2>1, <2>4, <3>3, <3>4, <1>4
  <2>5. CASE c = taught
    <3>1. some \in Pairs \union {NULL}  BY <2>2
    <3>2. /\ taught \in Cells /\ taught.kind = cell.kind
          /\ taught.first = some /\ taught.second = some
          BY <1>2, <3>1, AllExchanged
    <3> HIDE DEF taught
    <3> QED  BY <2>1, <2>2, <2>5, <3>2, <1>2, <1>3, <1>4
  <2> QED  BY <2>1, <2>3, <2>4, <2>5
<1>8. CASE parse(o)
  <2> DEFINE s == [cell.first EXCEPT !.value = Line]
             t == [cell.second EXCEPT !.value = Line]
             subject == [cell EXCEPT !.first.value = Line]
             both == [cell EXCEPT !.first.value = Line, !.second.value = Line]
  <2>1. cell.of = Taught
        /\ \E c \in {cell, subject, both} : Writes(o, Context, Pointer(o, Context), c)
        BY <1>8 DEF parse, cell
  <2>2. PICK c \in {cell, subject, both} : Writes(o, Context, Pointer(o, Context), c)
        BY <2>1
  <2>3. cell.first \in Pairs /\ cell.second \in Pairs  BY <2>1, <1>2, <1>5
  <2>4. s \in Pairs /\ t \in Pairs  BY <2>3, TextsAre DEF Texts
  <2>5. s # NULL /\ t # NULL  BY <2>4, ProgramAssumption
  <2> DEFINE one == [cell EXCEPT !.first = s]
             two == [one EXCEPT !.second = t]
  <2>6. one.second = cell.second  BY <1>2 DEF Cells
  <2>7. subject = one /\ both = two  BY <1>2, <2>3 DEF Cells, Pairs
  <2> HIDE DEF s, t, subject, both
  <2>8. /\ one \in Cells /\ one.kind = Context /\ one.first = s /\ one.second = cell.second
        BY <2>4, <1>2, <1>3, PairsAre
  <2> HIDE DEF one
  <2>9. two \in Cells /\ two.kind = Context /\ two.first = s /\ two.second = t
        BY <2>4, <2>8, PairsAre
  <2> HIDE DEF two
  <2>10. CASE c = cell
         BY <2>2, <2>10, <1>2, <1>3, <1>4, <1>5
  <2>11. CASE c = subject
    <3>1. cell.second # NULL  BY <2>1, <1>5
    <3> QED  BY <3>1, <2>2, <2>5, <2>7, <2>8, <2>11, <1>4
  <2>12. CASE c = both
         BY <2>2, <2>5, <2>7, <2>9, <2>12, <1>4
  <2> QED  BY <2>2, <2>10, <2>11, <2>12
<1>9. CASE get_number_of_subject_fields(o)
      BY <1>9, <1>1, CallReads DEF get_number_of_subject_fields
<1>10. CASE get_number_of_object_fields(o)
       BY <1>10, <1>1, CallReads DEF get_number_of_object_fields
<1> QED  BY <1>6, <1>7, <1>8, <1>9, <1>10

(* The calls for one field. *)
LEMMA FieldCalls ==
  ASSUME TypesInv, ObjectsInv, NEW o, OneField(o)
  PROVE  TypesInv' /\ ObjectsInv'
<1> DEFINE cell == FieldOf(o)
<1>1. Field \in Parameters /\ Kind(Field) = Field /\ Field # Context
      BY DEF Parameters, Kind, Field, Context
<1>2. Usable(o, Field)  BY DEF OneField
<1>3. cell \in Cells /\ cell.kind = Field /\ cell.first \in Pairs
  <2>1. cell \in Cells /\ cell.kind = Field /\ Shaped(cell) /\ cell.first \in Pairs \union {NULL}
        BY <1>1, <1>2, BlockOf DEF FieldOf
  <2> QED  BY <2>1 DEF Shaped
<1>4. /\ o \in held /\ o \in Live /\ IsField(obj[o].ty)
      /\ SWIG_Python_ConvertPtrAndOwn(o, SWIGTYPE(Field)) = o
      /\ Pointer(o, Field) = obj[o].ptr /\ obj[o].ptr \in Blocks
      BY <1>1, <1>2, UsableIs
<1>5. mem \in [Blocks -> Cells \union {NULL}]  BY DEF ObjectsInv, ObjectsTyped
<1> HIDE DEF cell
<1>6. ASSUME NEW pair \in Pairs, Writes(o, Field, Pointer(o, Field), [cell EXCEPT !.first = pair])
      PROVE  TypesInv' /\ ObjectsInv'
  <2> DEFINE new == [cell EXCEPT !.first = pair]
  <2>1. new \in Cells /\ new.kind = Kind(Field) /\ new.first = pair
        BY <1>1, <1>3, PairsAre
  <2>2. Writes(o, Field, Pointer(o, Field), new)  BY <1>6
  <2> HIDE DEF new
  <2>3. pair # NULL  BY ProgramAssumption
  <2>4. Shaped(new)  BY <2>1, <2>3, <1>1 DEF Shaped
  <2> QED  BY <2>1, <2>2, <2>4, <1>1, CallWrites
<1>7. CASE field_t_key_set(o)
  <2> DEFINE pair == [cell.first EXCEPT !.key = Stays]
  <2>1. pair \in Pairs  BY <1>3, TextsAre DEF Texts
  <2>2. [cell EXCEPT !.first = pair] = [cell EXCEPT !.first.key = Stays]  OBVIOUS
  <2>3. Writes(o, Field, Pointer(o, Field), [cell EXCEPT !.first.key = Stays])
        BY <1>7 DEF field_t_key_set, cell
  <2>4. Writes(o, Field, Pointer(o, Field), [cell EXCEPT !.first = pair])
        BY <2>2, <2>3, Zenon
  <2> HIDE DEF pair
  <2> QED  BY <2>1, <2>4, <1>6
<1>8. CASE field_t_value_set(o)
  <2> DEFINE pair == [cell.first EXCEPT !.value = Stays]
  <2>1. pair \in Pairs  BY <1>3, TextsAre DEF Texts
  <2>2. [cell EXCEPT !.first = pair] = [cell EXCEPT !.first.value = Stays]  OBVIOUS
  <2>3. Writes(o, Field, Pointer(o, Field), [cell EXCEPT !.first.value = Stays])
        BY <1>8 DEF field_t_value_set, cell
  <2>4. Writes(o, Field, Pointer(o, Field), [cell EXCEPT !.first = pair])
        BY <2>2, <2>3, Zenon
  <2> HIDE DEF pair
  <2> QED  BY <2>1, <2>4, <1>6
<1>9. CASE field_t_key_get(o)
      BY <1>9, <1>1, CallShows DEF field_t_key_get
<1>10. CASE field_t_value_get(o)
       BY <1>10, <1>1, CallShows DEF field_t_value_get
<1>11. CASE delete_field_t(o)
  <2>1. /\ Converted(o, Field) /\ obj' = [obj EXCEPT ![o].own = FALSE]
        /\ mem' = [mem EXCEPT ![obj[o].ptr] = NULL] /\ UNCHANGED <<held, lost, fault>>
        BY <1>4, <1>11 DEF delete_field_t, Disowned
  <2>2. TypesInv'  BY <2>1, <1>1, ConvertedKeepsTypes
  <2> DEFINE b == obj[o].ptr
  <2>3. /\ mem' \in [Blocks -> Cells \union {NULL}] /\ mem'[b] = NULL
        /\ \A c \in Blocks \ {b} : mem'[c] = mem[c]
        BY <2>1, <1>4, <1>5
  <2>4. FALSE \in BOOLEAN  OBVIOUS
  <2>5. ObjectsInv'  BY <2>1, <2>3, <2>4, <1>4, OwningKeeps
  <2> QED  BY <2>2, <2>5
<1>12. CASE Acquire(o)
  <2>1. /\ mem[obj[o].ptr] # NULL /\ obj' = [obj EXCEPT ![o].own = TRUE]
        /\ UNCHANGED <<held, lost, mem, fault>> /\ UNCHANGED typeVars
        BY <1>12 DEF Acquire, SwigPyObject_own
  <2>2. TypesInv'  BY <2>1, TypesInvUnchanged DEF typeVars
  <2>3. TRUE \in BOOLEAN  OBVIOUS
  <2>4. ObjectsInv'  BY <2>1, <2>3, <1>4, <1>5, OwningKeeps
  <2> QED  BY <2>2, <2>4
<1> QED  BY <1>7, <1>8, <1>9, <1>10, <1>11, <1>12 DEF OneField

(* field_t.__init__ again: a new field is chained to the object. *)
LEMMA InitKeeps ==
  ASSUME TypesInv, ObjectsInv, NEW o, field_t_swiginit(o)
  PROVE  TypesInv' /\ ObjectsInv'
<1> DEFINE ty == obj[o].ty
<1>1. /\ types[Module] # <<>> /\ o \in held /\ ty = SWIGTYPE(Field)
      /\ UNCHANGED <<held, fault>> /\ UNCHANGED typeVars
      BY DEF field_t_swiginit
<1>2. TypesInv'  BY <1>1, TypesInvUnchanged DEF typeVars
<1>3. Field \in Parameters /\ Kind(Field) = Field  BY DEF Parameters, Kind, Field
<1>4. Name(ty) = Field /\ IsField(ty)  BY <1>1, <1>3, TypeIs
<1>5. PICK b \in Free : /\ SwigPyObject_append(o, b, SWIGTYPE(Field))
                       /\ mem' = [mem EXCEPT ![b] = NewField]
      BY DEF field_t_swiginit
<1>6. PICK new \in Unused :
        /\ obj' = [obj EXCEPT ![new] = [ptr |-> b, ty |-> obj[o].ty, own |-> TRUE, next |-> NULL],
                              ![o].next = new]
        /\ lost' = lost \union ({obj[o].next} \ {NULL})
      BY <1>1, <1>5 DEF SwigPyObject_append
<1>7. b \in Blocks /\ \A p \in Live : obj[p].ptr # b  BY FreeIs
<1>8. /\ mem' \in [Blocks -> Cells \union {NULL}]
      /\ mem'[b] = NewField /\ NewField # NULL
      /\ \A c \in Blocks \ {b} : mem'[c] = mem[c]
      /\ \A c \in Blocks : mem'[c] # NULL => Shaped(mem'[c])
      BY <1>5, <1>7, NewFieldIs, FilledCells
<1>9. mem'[b].kind = Expects(Name(obj[o].ty))
      BY <1>3, <1>4, <1>8, NewFieldIs, ParameterNames
<1>10. IsField(obj[o].ty) /\ mem'[b] # NULL  BY <1>4, <1>8
<1>11. ObjectsInv'
       BY <1>1, <1>6, <1>7, <1>8, <1>9, <1>10, AppendingKeeps
<1> QED  BY <1>2, <1>11

(* The other module makes a field. *)
LEMMA OtherKeeps ==
  ASSUME TypesInv, ObjectsInv, NEW name \in {Field, Rich}, OtherReturns(name)
  PROVE  TypesInv' /\ ObjectsInv'
<1> DEFINE ty == TypeOf(Other, name)
<1>1. /\ types[Other] # <<>> /\ UNCHANGED <<lost, fault>> /\ UNCHANGED typeVars
      BY DEF OtherReturns
<1>2. PICK b \in Free : /\ SWIG_Python_NewPointerObj(b, ty, TRUE)
                       /\ mem' = [mem EXCEPT ![b] = NewField]
      BY DEF OtherReturns
<1>3. TypesInv'  BY <1>1, TypesInvUnchanged DEF typeVars
<1>4. Other \in SwigModules /\ name \in Range(type_initial[Other])  BY ProgramAssumption
<1>5. ty \in InitialTypes /\ Name(ty) = name  BY <1>1, <1>4, TypeOfIs
<1> HIDE DEF ty
<1>6. IsField(ty)  BY <1>5 DEF IsField
<1>7. Expects(Name(ty)) = Field
  <2>1. Field \in Parameters /\ Kind(Field) = Field  BY DEF Parameters, Kind, Field
  <2>2. Expects(Field) = Field  BY <2>1, ParameterNames
  <2>3. Expects(Rich) = Field  BY DEF Expects
  <2> QED  BY <1>5, <2>2, <2>3
<1>8. TRUE \in BOOLEAN /\ mem' = [mem EXCEPT ![b] = NewField]  BY <1>2
<1>9. ObjectsInv'
      BY <1>1, <1>2, <1>5, <1>6, <1>7, <1>8, NewFieldIs, MakingKeeps
<1> QED  BY <1>3, <1>9

(* A pointer into an index. *)
LEMMA CallReturnsInto ==
  ASSUME TypesInv, ObjectsInv, NEW o \in Live, types[Module] # <<>>,
         ~ IsField(obj[o].ty), NEW as \in {Row, RowNumber},
         mem[obj[o].ptr] # NULL, mem[obj[o].ptr].kind = IndexType,
         ReturnsInto(obj[o].ptr, as)
  PROVE  ObjectsInv'
<1> DEFINE b == obj[o].ptr
           ty == SWIGTYPE(as)
<1>1. as \in Parameters /\ as # Field  BY DEF Parameters, Row, RowNumber, Field
<1>2. ty \in InitialTypes /\ Name(ty) = as /\ ~ IsField(ty)  BY <1>1, TypeIs
<1>3. Expects(Name(ty)) = IndexType  BY <1>1, <1>2, ParameterNames
<1>4. b \in Blocks  BY ObjectsAre DEF ObjectsInv
<1>5. CASE UNCHANGED objectVars
  <2>1. UNCHANGED <<obj, held, lost, mem>> /\ fault' # "freed twice"
        BY <1>5 DEF objectVars, ObjectsInv
  <2> QED  BY <2>1, ReadingKeeps
<1>6. CASE /\ SWIG_Python_NewPointerObj(b, ty, FALSE)
           /\ UNCHANGED <<mem, lost, fault>>
  <2>1. PICK new \in Unused :
          /\ obj' = [obj EXCEPT ![new] = [ptr |-> b, ty |-> ty, own |-> FALSE, next |-> NULL]]
          /\ held' = held \union {new}
        BY <1>6 DEF SWIG_Python_NewPointerObj
  <2>2. mem' \in [Blocks -> Cells \union {NULL}]  BY <1>6 DEF ObjectsInv, ObjectsTyped
  <2>3. \A c \in Blocks : mem'[c] # NULL => Shaped(mem'[c])  BY <1>6, CellsAre
  <2>4. \A p \in Live : obj[p].ptr = b => ~ IsField(obj[p].ty)
    <3> SUFFICES ASSUME NEW p \in Live, obj[p].ptr = b, IsField(obj[p].ty) PROVE FALSE
        OBVIOUS
    <3>1. obj[o].ptr = obj[p].ptr  OBVIOUS
    <3>2. o = p  BY <3>1, AloneInBlock
    <3> QED  BY <3>2
  <2>5. FALSE \in BOOLEAN /\ UNCHANGED <<lost, fault>>  BY <1>6
  <2>6. \A c \in Blocks \ {b} : mem'[c] = mem[c]  BY <1>6
  <2>7. mem'[b] # NULL => mem'[b].kind = Expects(Name(ty))  BY <1>6, <1>3
  <2>8. \A p \in Live : obj[p].ptr = b =>
            ~ IsField(ty) /\ ~ IsField(obj[p].ty) /\ mem'[b] = mem[b]
        BY <1>2, <1>6, <2>4
  <2> HIDE DEF b, ty
  <2> QED  BY <1>2, <1>4, <2>1, <2>2, <2>3, <2>5, <2>6, <2>7, <2>8, AddingKeeps
<1> QED  BY <1>5, <1>6 DEF ReturnsInto

(* A table or an index is made of what o stands for. *)
LEMMA CallDerives ==
  ASSUME TypesInv, ObjectsInv, NEW o, NEW from \in Parameters, Converted(o, from),
         NEW as \in Parameters \ {Field}, Kind(as) = as, as # Context,
         NEW of \in Blocks \union {NULL, "packages", "files", "hashes"},
         Returns([Block(as) EXCEPT !.of = of], as, FALSE)
  PROVE  TypesInv' /\ ObjectsInv'
<1> DEFINE cell == [Block(as) EXCEPT !.of = of]
<1>1. TypesInv'  BY ConvertedKeepsTypes
<1>2. cell \in Cells /\ cell.kind = as /\ Shaped(cell)  BY BlockIs
<1>3. Returns(cell, as, FALSE) /\ FALSE \in BOOLEAN  OBVIOUS
<1> HIDE DEF cell
<1>4. ObjectsInv'  BY <1>2, <1>3, CallReturns
<1> QED  BY <1>1, <1>4

LEMMA CallDestroys ==
  ASSUME TypesInv, ObjectsInv, NEW o, NEW as \in Parameters, as # Field, Destroys(o, as)
  PROVE  TypesInv' /\ ObjectsInv'
<1>1. Converted(o, as)  BY DEF Destroys
<1>2. TypesInv'  BY <1>1, ConvertedKeepsTypes
<1> QED  BY <1>2, DestroyingKeeps

LEMMA TableCalls ==
  ASSUME TypesInv, ObjectsInv, NEW o, OneTable(o)
  PROVE  TypesInv' /\ ObjectsInv'
<1>1. /\ TableType \in Parameters \ {Field} /\ Kind(TableType) = TableType /\ TableType # Context
      /\ IndexType \in Parameters \ {Field} /\ Kind(IndexType) = IndexType /\ IndexType # Context
      BY DEF Parameters, Kind, TableType, IndexType, Field, Context
<1>2. ASSUME Reads(o, TableType) PROVE TypesInv' /\ ObjectsInv'
      BY <1>1, <1>2, CallReads
<1>3. CASE package_get_rpm_files_info(o)
  <2>1. Converted(o, TableType)
        /\ Returns([Block(TableType) EXCEPT !.of = "files"], TableType, FALSE)
        BY <1>3 DEF package_get_rpm_files_info, TableMade
  <2> QED  BY <2>1, <1>1, CallDerives
<1>4. CASE package_hash_files(o)
  <2>1. Converted(o, TableType)
        /\ Returns([Block(TableType) EXCEPT !.of = "hashes"], TableType, FALSE)
        BY <1>4 DEF package_hash_files, TableMade
  <2> QED  BY <2>1, <1>1, CallDerives
<1>5. CASE table_destroy(o)
      BY <1>1, <1>5, CallDestroys DEF table_destroy
<1>6. CASE \/ table_initialize(o) \/ table_get_column_count(o) \/ table_append_row(o)
           \/ table_get_row_count(o) \/ table_get_column_name(o) \/ table_get_value(o)
           \/ table_append_column(o)
      BY <1>2, <1>6
      DEF table_initialize, table_get_column_count, table_append_row, table_get_row_count,
          table_get_column_name, table_get_value, table_append_column, HasColumns
<1>7. CASE table_index_create(o)
  <2> DEFINE b == Pointer(o, TableType)
  <2>1. Converted(o, TableType)
        /\ Returns([Block(IndexType) EXCEPT !.of = b], IndexType, FALSE)
        BY <1>7 DEF table_index_create
  <2>2. b \in Blocks
    <3>1. Usable(o, TableType)  BY <2>1 DEF Converted
    <3> QED  BY <3>1, <1>1, BlockOf
  <2> HIDE DEF b
  <2> QED  BY <2>1, <2>2, <1>1, CallDerives
<1>8. CASE \E p \in held : table_find_column_number(o, p)
      BY <1>2, <1>8 DEF table_find_column_number
<1> QED  BY <1>3, <1>4, <1>5, <1>6, <1>7, <1>8 DEF OneTable

LEMMA IndexCalls ==
  ASSUME TypesInv, ObjectsInv, NEW o, OneIndex(o)
  PROVE  TypesInv' /\ ObjectsInv'
<1>1. /\ IndexType \in Parameters /\ IndexType # Field /\ Kind(IndexType) = IndexType
      /\ Row \in Parameters /\ Row # Field /\ Kind(Row) = IndexType
      BY DEF Parameters, Kind, IndexType, Row, Field
<1>2. CASE table_index_destroy(o)
      BY <1>1, <1>2, CallDestroys DEF table_index_destroy
<1>3. CASE table_index_count(o)
      BY <1>1, <1>3, CallReads DEF table_index_count
<1>4. ASSUME NEW from \in {IndexType, Row}, NEW as \in {Row, RowNumber},
             Converted(o, from), ReturnsInto(Pointer(o, from), as)
      PROVE  TypesInv' /\ ObjectsInv'
  <2>1. from \in Parameters /\ from # Field /\ Kind(from) = IndexType  BY <1>1
  <2>2. Usable(o, from) /\ TypesInv'  BY <2>1, <1>4, ConvertedKeepsTypes
  <2>3. /\ o \in Live /\ types[Module] # <<>> /\ ~ IsField(obj[o].ty)
        /\ Pointer(o, from) = obj[o].ptr
        /\ mem[obj[o].ptr] # NULL /\ mem[obj[o].ptr].kind = IndexType
        BY <2>1, <2>2, UsableIs
  <2>4. ReturnsInto(obj[o].ptr, as)  BY <2>3, <1>4
  <2>5. ObjectsInv'  BY <2>3, <2>4, CallReturnsInto
  <2> QED  BY <2>2, <2>5
<1>5. CASE table_index_find(o)
      BY <1>4, <1>5 DEF table_index_find
<1>6. CASE \E p \in held \union {NULL} : row_index_next(o, p)
      BY <1>4, <1>6 DEF row_index_next
<1> QED  BY <1>2, <1>3, <1>5, <1>6 DEF OneIndex

(* New blocks, made of nothing. *)
LEMMA CallMakes ==
  ASSUME TypesInv, ObjectsInv,
         \/ new_field_t \/ field_array_construct \/ construct_parse_context
         \/ package_get_rpm_info \/ table_construct \/ sha256_create
  PROVE  TypesInv' /\ ObjectsInv'
<1>1. /\ Field \in Parameters /\ Kind(Field) = Field
      /\ Array \in Parameters \ {Field} /\ Kind(Array) = Array
      /\ Context \in Parameters \ {Field} /\ Kind(Context) = Context
      /\ Digest \in Parameters \ {Field} /\ Kind(Digest) = Digest
      /\ TableType \in Parameters \ {Field} /\ Kind(TableType) = TableType /\ TableType # Context
      /\ FALSE \in BOOLEAN /\ TRUE \in BOOLEAN
      BY DEF Parameters, Kind, Field, Array, Context, Digest, TableType
<1>2. ASSUME UNCHANGED typeVars PROVE TypesInv'
      BY <1>2, TypesInvUnchanged DEF typeVars
<1>3. ASSUME NEW as \in Parameters \ {Field}, Kind(as) = as, Returns(Block(as), as, FALSE)
      PROVE  ObjectsInv'
  <2> DEFINE cell == Block(as)
  <2>1. cell \in Cells /\ cell.kind = as /\ Shaped(cell)  BY PlainBlockIs
  <2>2. Returns(cell, as, FALSE)  BY <1>3
  <2> HIDE DEF cell
  <2> QED  BY <2>1, <2>2, <1>1, <1>3, CallReturns
<1>4. ASSUME NEW of \in {NULL, "packages"}, Returns(TableMade(of), TableType, FALSE)
      PROVE  ObjectsInv'
  <2> DEFINE cell == [Block(TableType) EXCEPT !.of = of]
  <2>1. cell \in Cells /\ cell.kind = TableType /\ Shaped(cell)  BY <1>1, BlockIs
  <2>2. Returns(cell, TableType, FALSE)  BY <1>4 DEF TableMade
  <2> HIDE DEF cell
  <2> QED  BY <2>1, <2>2, <1>1, CallReturns
<1>5. CASE new_field_t
  <2>1. Returns(NewField, Field, TRUE) /\ UNCHANGED typeVars  BY <1>5 DEF new_field_t
  <2>2. ObjectsInv'  BY <2>1, <1>1, NewFieldIs, CallReturns
  <2> QED  BY <2>1, <2>2, <1>2
<1>6. CASE field_array_construct  BY <1>1, <1>2, <1>3, <1>6 DEF field_array_construct
<1>7. CASE construct_parse_context  BY <1>1, <1>2, <1>3, <1>7 DEF construct_parse_context
<1>8. CASE package_get_rpm_info  BY <1>2, <1>4, <1>8 DEF package_get_rpm_info
<1>9. CASE table_construct  BY <1>2, <1>4, <1>9 DEF table_construct
<1>10. CASE sha256_create  BY <1>1, <1>2, <1>3, <1>10 DEF sha256_create
<1> QED  BY <1>5, <1>6, <1>7, <1>8, <1>9, <1>10

(* Imports, the classes that modules tell of, and the calls that take texts. *)
LEMMA ModulesKeep ==
  ASSUME TypesInv, ObjectsInv,
         \/ \E m \in SwigModules : SWIG_init(m)
         \/ field_t_swigregister \/ RichRegister
         \/ match_filename \/ is_audit_record \/ sha256_file
  PROVE  TypesInv' /\ ObjectsInv'
<1>1. UNCHANGED objectVars
      BY DEF SWIG_init, field_t_swigregister, RichRegister, match_filename, is_audit_record,
             sha256_file, TextsOnly, vars
<1>2. ObjectsInv'
  <2>1. UNCHANGED <<obj, held, lost, mem>> /\ fault' # "freed twice"
        BY <1>1 DEF objectVars, ObjectsInv
  <2> QED  BY <2>1, ReadingKeeps
<1>3. CASE \E m \in SwigModules : SWIG_init(m)
  <2>1. PICK m \in SwigModules : SWIG_InitializeModule(m)  BY <1>3 DEF SWIG_init
  <2>2. TypesInv'  BY <2>1, JoinKeepsTypes
  <2> QED  BY <2>2, <1>2
<1>4. CASE field_t_swigregister \/ RichRegister
  <2>1. UNCHANGED <<next, type_pointer, types, cast>>
        BY <1>4 DEF field_t_swigregister, RichRegister, SWIG_TypeClientData
  <2> QED  BY <2>1, <1>2, TypesInvUnchanged
<1>5. CASE match_filename \/ is_audit_record \/ sha256_file
  <2>1. UNCHANGED <<next, type_pointer, types, cast>>
        BY <1>5 DEF match_filename, is_audit_record, sha256_file, TextsOnly, vars, typeVars
  <2> QED  BY <2>1, <1>2, TypesInvUnchanged
<1> QED  BY <1>3, <1>4, <1>5

(* What the program does with an object whatever its type. *)
LEMMA ObjectsGo ==
  ASSUME TypesInv, ObjectsInv, NEW o \in held, Drop(o) \/ Disown(o)
  PROVE  TypesInv' /\ ObjectsInv'
<1>1. TypesInv'
  <2>1. UNCHANGED <<next, type_pointer, types, cast>>  BY DEF Drop, Disown, typeVars
  <2> QED  BY <2>1, TypesInvUnchanged
<1>2. CASE Drop(o)
  <2>1. SwigPyObject_dealloc(o)  BY <1>2 DEF Drop
  <2> QED  BY <2>1, <1>1, DroppingKeeps
<1>3. CASE Disown(o)
  <2>1. /\ obj' = [obj EXCEPT ![o].own = FALSE] /\ UNCHANGED <<held, lost, mem, fault>>
        BY <1>3 DEF Disown, SwigPyObject_own
  <2>2. o \in Live /\ mem \in [Blocks -> Cells \union {NULL}] /\ FALSE \in BOOLEAN
        BY DEF ObjectsInv, ObjectsTyped
  <2>3. ObjectsInv'  BY <2>1, <2>2, OwningKeeps
  <2> QED  BY <2>3, <1>1
<1> QED  BY <1>2, <1>3

-----------------------------------------------------------------------------
(* All steps. *)

Inv == TypesInv /\ ObjectsInv

LEMMA InvAtFirst ==
  ASSUME Init
  PROVE  Inv
<1>1. TypesInv  BY TypesInvAtFirst DEF Init
<1>2. /\ obj = [o \in Objects |-> NULL] /\ held = {} /\ lost = {}
      /\ mem = [b \in Blocks |-> NULL] /\ fault = NULL
      BY DEF Init, ObjectsInit
<1>3. Live = {}  BY <1>2 DEF Live
<1>4. ObjectsTyped  BY <1>2 DEF ObjectsTyped
<1>5. CellsRight  BY <1>2 DEF CellsRight
<1>6. PointersRight  BY <1>3 DEF PointersRight
<1>7. ChainsRight  BY <1>2, <1>3 DEF ChainsRight
<1>8. fault # "freed twice"  BY <1>2, ProgramAssumption
<1> QED  BY <1>1, <1>4, <1>5, <1>6, <1>7, <1>8 DEF Inv, ObjectsInv

LEMMA InvHolds ==
  ASSUME Inv, [Next]_vars
  PROVE  Inv'
<1>1. TypesInv /\ ObjectsInv  BY DEF Inv
<1>2. CASE UNCHANGED vars
  <2>1. TypesInv'  BY <1>1, <1>2, TypesInvUnchanged DEF vars, typeVars
  <2>2. UNCHANGED <<obj, held, lost, mem>> /\ fault' # "freed twice"
        BY <1>1, <1>2 DEF vars, objectVars, ObjectsInv
  <2>3. ObjectsInv'  BY <1>1, <2>2, ReadingKeeps
  <2> QED  BY <2>1, <2>3 DEF Inv
<1>3. CASE \/ \E m \in SwigModules : SWIG_init(m)
           \/ field_t_swigregister \/ RichRegister
           \/ match_filename \/ is_audit_record \/ sha256_file
      BY <1>1, <1>3, ModulesKeep DEF Inv
<1>4. CASE \E name \in {Field, Rich} : OtherReturns(name)
      BY <1>1, <1>4, OtherKeeps DEF Inv
<1>5. CASE \/ new_field_t \/ field_array_construct \/ construct_parse_context
           \/ package_get_rpm_info \/ table_construct \/ sha256_create
      BY <1>1, <1>5, CallMakes DEF Inv
<1>6. ASSUME NEW o \in held,
             \/ Drop(o) \/ Disown(o) \/ field_t_swiginit(o)
             \/ OneField(o) \/ OneArray(o) \/ OneContext(o)
             \/ OneTable(o) \/ OneIndex(o) \/ sha256_destroy(o)
      PROVE  Inv'
  <2>1. CASE Drop(o) \/ Disown(o)  BY <1>1, <2>1, ObjectsGo DEF Inv
  <2>2. CASE field_t_swiginit(o)  BY <1>1, <2>2, InitKeeps DEF Inv
  <2>3. CASE OneField(o)  BY <1>1, <2>3, FieldCalls DEF Inv
  <2>4. CASE OneArray(o)
    <3>1. Usable(o, Array)  BY <2>4 DEF OneArray
    <3>2. CASE \E f \in held : field_array_get_field(o, f)
      <4>1. PICK f \in held : Fills(o, Array, ArrayOf(o).first, f)
            BY <3>2 DEF field_array_get_field
      <4>2. Array \in Parameters  BY DEF Parameters
      <4>3. ArrayOf(o).first \in Pairs \union {NULL}
            BY <1>1, <3>1, <4>2, BlockOf DEF ArrayOf
      <4> QED  BY <1>1, <4>1, <4>2, <4>3, CallFills DEF Inv
    <3> QED  BY <1>1, <2>4, <3>1, <3>2, ArrayCalls DEF OneArray, Inv
  <2>5. CASE OneContext(o)
    <3>1. Usable(o, Context)  BY <2>5 DEF OneContext
    <3>2. CASE \E f \in held : get_subject_field(o, f) \/ get_object_field(o, f)
      <4>1. PICK f \in held : \/ Fills(o, Context, ContextOf(o).first, f)
                             \/ Fills(o, Context, ContextOf(o).second, f)
            BY <3>2 DEF get_subject_field, get_object_field
      <4>2. Context \in Parameters  BY DEF Parameters
      <4>3. /\ ContextOf(o).first \in Pairs \union {NULL}
            /\ ContextOf(o).second \in Pairs \union {NULL}
            BY <1>1, <3>1, <4>2, BlockOf DEF ContextOf
      <4> QED  BY <1>1, <4>1, <4>2, <4>3, CallFills DEF Inv
    <3> QED  BY <1>1, <2>5, <3>1, <3>2, ParserCalls DEF OneContext, Inv
  <2>6. CASE OneTable(o)  BY <1>1, <2>6, TableCalls DEF Inv
  <2>7. CASE OneIndex(o)  BY <1>1, <2>7, IndexCalls DEF Inv
  <2>8. CASE sha256_destroy(o)
    <3>1. Digest \in Parameters /\ Digest # Field  BY DEF Parameters, Digest, Field
    <3> QED  BY <1>1, <2>8, <3>1, CallDestroys DEF sha256_destroy, Inv
  <2> QED  BY <1>6, <2>1, <2>2, <2>3, <2>4, <2>5, <2>6, <2>7, <2>8
<1>7. CASE \E o \in held :
             \/ Drop(o) \/ Disown(o) \/ field_t_swiginit(o)
             \/ OneField(o) \/ OneArray(o) \/ OneContext(o)
             \/ OneTable(o) \/ OneIndex(o) \/ sha256_destroy(o)
      BY <1>6, <1>7
<1>8. [Next]_vars  OBVIOUS
<1> QED  BY <1>2, <1>3, <1>4, <1>5, <1>7, <1>8, Zenon DEF Next

-----------------------------------------------------------------------------
(* The theorems. *)

LEMMA InvAlways == Spec => []Inv
<1>1. Init => Inv  BY InvAtFirst
<1>2. Inv /\ [Next]_vars => Inv'  BY InvHolds
<1> QED  BY <1>1, <1>2, PTL DEF Spec

(* However many modules share an interpreter, whatever types they have in   *)
(* common and in whatever order they are imported and asked: a name means    *)
(* one type everywhere, the binary search finds it in every module that has *)
(* it, and no type accepts a name twice.                                     *)
THEOREM NamesMeanOneType == Spec => []OneTypePerName
<1>1. Inv => OneTypePerName  BY TypesInvMeansOne DEF Inv
<1> QED  BY <1>1, InvAlways, PTL

(* What C gets for a parameter is a block that is there and of the kind that *)
(* the parameter expects, for any number of objects and blocks.              *)
THEOREM CGetsWhatItExpects == Spec => []ArgumentsAreSound
<1>1. ASSUME Inv PROVE ArgumentsAreSound
  <2>1. ASSUME NEW o, NEW as \in Parameters, Usable(o, as)
        PROVE  mem[Pointer(o, as)] # NULL /\ mem[Pointer(o, as)].kind = Kind(as)
        BY <1>1, <2>1, BlockOf DEF Inv
  <2> QED  BY <2>1 DEF ArgumentsAreSound
<1> QED  BY <1>1, InvAlways, PTL

(* At most one object will free a field, the field is there until then, and *)
(* nothing is freed twice.                                                   *)
THEOREM NothingFreedTwice == Spec => []FieldsFreedOnce
<1>1. ASSUME Inv PROVE FieldsFreedOnce
  <2>1. fault # "freed twice" /\ ObjectsInv  BY <1>1 DEF Inv, ObjectsInv
  <2>2. ASSUME NEW o \in Objects, obj[o] # NULL, obj[o].own
        PROVE  /\ mem[obj[o].ptr] # NULL /\ mem[obj[o].ptr].kind = Field
               /\ \A p \in Objects \ {o} :
                    obj[p] # NULL /\ obj[p].ptr = obj[o].ptr => ~ obj[p].own
    <3>1. o \in Live  BY <2>2 DEF Live
    <3>2. IsField(obj[o].ty) /\ mem[obj[o].ptr] # NULL
          /\ mem[obj[o].ptr].kind = Expects(Name(obj[o].ty))
          BY <2>1, <2>2, <3>1 DEF ObjectsInv, PointersRight
    <3>3. Expects(Name(obj[o].ty)) = Field
      <4>1. Field \in Parameters /\ Kind(Field) = Field  BY DEF Parameters, Kind, Field
      <4>2. Expects(Field) = Field /\ Expects(Rich) = Field
            BY <4>1, ParameterNames DEF Expects
      <4> QED  BY <3>2, <4>2 DEF IsField
    <3>4. \A p \in Objects \ {o} : obj[p] # NULL => obj[p].ptr # obj[o].ptr
      <4> TAKE p \in Objects \ {o}
      <4> HAVE obj[p] # NULL
      <4>1. p \in Live /\ p # o  BY DEF Live
      <4> QED  BY <2>1, <3>1, <3>2, <4>1, AloneInBlock
    <3> QED  BY <3>2, <3>3, <3>4
  <2> QED  BY <2>1, <2>2 DEF FieldsFreedOnce
<1> QED  BY <1>1, InvAlways, PTL
=============================================================================
