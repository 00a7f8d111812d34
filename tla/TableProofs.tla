----------------------------- MODULE TableProofs -----------------------------
(***************************************************************************)
(* Theorems about Table and the containers under it, for every set of      *)
(* strings, every hash function and every table.                           *)
(***************************************************************************)
EXTENDS Table, TLAPS, FiniteSetTheorems

NaturalNumbers == INSTANCE ProbingProofs

-----------------------------------------------------------------------------
(* utarray.h. *)

(* An array of members of a set. *)
ArrayOf(a, S) ==
  /\ a.i \in Nat /\ a.n \in Nat /\ a.i <= a.n
  /\ a.d \in [0 .. a.n - 1 -> S \union {None}]
  /\ \A k \in 0 .. a.i - 1 : a.d[k] \in S

LEMMA NewIsEmpty ==
  ASSUME NEW S
  PROVE  ArrayOf(A!utarray_new, S) /\ A!utarray_new.i = 0
BY DEF ArrayOf, A!utarray_new

LEMMA DoubledIsEnough ==
  ASSUME NEW n \in Nat, NEW needed \in Nat
  PROVE  A!Doubled(n, needed) \in Nat /\ A!Doubled(n, needed) >= n
         /\ A!Doubled(n, needed) >= needed
<1> DEFINE base == IF n = 0 THEN FirstSlots ELSE n
           more(x) == IF x < needed THEN 2 * x ELSE x
           step == [k \in 1 .. needed |-> [x \in Nat |-> more(x)]]
           Is(f) == f = [k \in 0 .. needed |-> IF k = 0 THEN base ELSE more(f[k-1])]
<1>1. base \in Nat /\ base >= 1 /\ base >= n  BY SlotsAssumption
<1>2. step \in [1 .. needed -> [Nat -> Nat]]  OBVIOUS
<1> HIDE DEF step, base
<1>3. PICK f : f \in NaturalNumbers!Run(needed, Nat, base, step)
      BY <1>1, <1>2, NaturalNumbers!Recursion
<1>4. /\ f \in [0 .. needed -> Nat] /\ f[0] = base
      /\ \A k \in 1 .. needed : f[k] = step[k][f[k-1]]
      BY <1>3 DEF NaturalNumbers!Run
<1>5. ASSUME NEW k \in 1 .. needed PROVE f[k] = more(f[k-1])
  <2>1. f[k-1] \in Nat  BY <1>4
  <2> QED  BY <1>4, <2>1 DEF step
<1>6. Is(f)
  <2>1. \A k \in 0 .. needed : f[k] = IF k = 0 THEN base ELSE more(f[k-1])
        BY <1>4, <1>5
  <2> QED  BY <1>4, <2>1
<1> DEFINE g == CHOOSE g : Is(g)
<1>7. Is(g)  BY <1>6
<1>8. A!Doubled(n, needed) = g[needed]  BY DEF A!Doubled, base
<1> HIDE DEF g
<1> DEFINE Good(k, x) == /\ x \in Nat /\ x >= n /\ x >= 1
                         /\ x >= k + 1 \/ x >= needed
           good == {k \in 0 .. needed : Good(k, g[k])}
<1>9. 0 \in good  BY <1>1, <1>7
<1>10. ASSUME NEW k \in 1 .. needed, k - 1 \in good PROVE k \in good
  <2>1. g[k] = more(g[k-1]) /\ k - 1 \in 0 .. needed /\ Good(k - 1, g[k-1])
        BY <1>7, <1>10
  <2>2. ASSUME NEW x, Good(k - 1, x) PROVE Good(k, more(x))
    <3>1. x \in Nat /\ x >= n /\ x >= 1 /\ (x >= k \/ x >= needed)  BY <2>2
    <3>2. CASE x < needed
      <4>1. more(x) = 2 * x /\ 2 * x \in Nat /\ 2 * x >= x + 1  BY <3>1, <3>2
      <4> QED  BY <3>1, <3>2, <4>1
    <3>3. CASE ~ (x < needed)  BY <3>1, <3>3
    <3> QED  BY <3>2, <3>3
  <2> HIDE DEF Good, more
  <2> QED  BY <2>1, <2>2
<1>11. 0 .. needed \subseteq good
  <2> HIDE DEF good
  <2> QED  BY <1>9, <1>10, NaturalNumbers!UpTo
<1>12. needed \in good  BY <1>11
<1> QED  BY <1>8, <1>12

LEMMA ReservedIsArray ==
  ASSUME NEW S, NEW a, ArrayOf(a, S), NEW by \in Nat
  PROVE  LET r == A!utarray_reserve(a, by)
         IN /\ ArrayOf(r, S)
            /\ r.i = a.i /\ r.n >= a.i + by
            /\ \A k \in 0 .. a.i - 1 : r.d[k] = a.d[k]
<1> DEFINE r == A!utarray_reserve(a, by)
<1>1. CASE a.i + by <= a.n
  <2>1. r = a  BY <1>1 DEF A!utarray_reserve
  <2> QED  BY <2>1, <1>1 DEF ArrayOf
<1>2. CASE ~ (a.i + by <= a.n)
  <2> DEFINE i == a.i
             m == a.n
             e == a.d
             n == A!Doubled(m, i + by)
             d == [k \in 0 .. n - 1 |-> IF k < m THEN e[k] ELSE None]
  <2>1. i \in Nat /\ m \in Nat /\ i <= m /\ i + by \in Nat  BY DEF ArrayOf
  <2>2. /\ \A k \in 0 .. m - 1 : e[k] \in S \union {None}
        /\ \A k \in 0 .. i - 1 : e[k] \in S
        BY <2>1 DEF ArrayOf
  <2>3. r = [a EXCEPT !.n = n, !.d = d]  BY <1>2 DEF A!utarray_reserve
  <2>4. r.i = i /\ r.n = n /\ r.d = d  BY <2>3
  <2> HIDE DEF r, i, m, e
  <2>5. n \in Nat /\ n >= m /\ n >= i + by  BY <2>1, DoubledIsEnough
  <2> HIDE DEF n
  <2>6. d \in [0 .. n - 1 -> S \union {None}]  BY <2>1, <2>2
  <2>7. \A k \in 0 .. i - 1 : d[k] = e[k] /\ d[k] \in S
        BY <2>1, <2>2, <2>5
  <2> HIDE DEF d
  <2>8. ArrayOf(r, S)  BY <2>1, <2>4, <2>5, <2>6, <2>7 DEF ArrayOf
  <2> QED  BY <2>1, <2>4, <2>5, <2>7, <2>8 DEF r, i, e
<1> QED  BY <1>1, <1>2

LEMMA PushedIsArray ==
  ASSUME NEW S, NEW a, ArrayOf(a, S), NEW p \in S
  PROVE  LET r == A!utarray_push_back(a, p)
         IN /\ ArrayOf(r, S)
            /\ r.i = a.i + 1 /\ r.d[a.i] = p
            /\ \A k \in 0 .. a.i - 1 : r.d[k] = a.d[k]
<1> DEFINE b == A!utarray_reserve(a, 1)
           r == A!utarray_push_back(a, p)
           i == a.i
           n == b.n
           e == b.d
           d == [e EXCEPT ![i] = p]
<1>1. /\ ArrayOf(b, S) /\ b.i = i /\ n >= i + 1
      /\ \A k \in 0 .. i - 1 : e[k] = a.d[k]
      BY ReservedIsArray
<1>2. r = [b EXCEPT !.d[a.i] = p, !.i = b.i + 1]  BY DEF A!utarray_push_back
<1> HIDE DEF b
<1>3. r.i = i + 1 /\ r.n = n /\ r.d = d  BY <1>1, <1>2
<1>4. /\ i \in Nat /\ n \in Nat
      /\ e \in [0 .. n - 1 -> S \union {None}]
      /\ \A k \in 0 .. i - 1 : e[k] \in S
      BY <1>1 DEF ArrayOf
<1> HIDE DEF r, i, n, e
<1>5. d \in [0 .. n - 1 -> S \union {None}]  BY <1>4
<1>6. i \in 0 .. n - 1  BY <1>1, <1>4
<1>7. d[i] = p /\ \A k \in 0 .. i - 1 : d[k] = e[k]
      BY <1>1, <1>4, <1>6
<1> HIDE DEF d
<1>8. ASSUME NEW k \in 0 .. i PROVE d[k] \in S
  <2>1. k = i \/ k \in 0 .. i - 1  BY <1>4
  <2> QED  BY <2>1, <1>4, <1>7
<1>9. ArrayOf(r, S)
  <2>1. i + 1 \in Nat /\ i + 1 <= n /\ 0 .. (i + 1) - 1 = 0 .. i  BY <1>1, <1>4
  <2> QED  BY <2>1, <1>3, <1>4, <1>5, <1>8 DEF ArrayOf
<1> QED  BY <1>1, <1>3, <1>7, <1>9 DEF r, i

(* A column appended to a table is an array of as many values.              *)
LEMMA NewColumnIsArray ==
  ASSUME NEW S, NEW n \in Nat, NEW column \in [1 .. n -> S]
  PROVE  ArrayOf(NewColumn(column, n), S) /\ NewColumn(column, n).i = n
<1> DEFINE base == A!utarray_reserve(A!utarray_new, n)
           Is(f, m) == f = [k \in 0 .. m |-> IF k = 0 THEN base
                                             ELSE A!utarray_push_back(f[k-1], column[k])]
           good == {m \in 0 .. n : \E f : Is(f, m)}
<1>1. ArrayOf(base, S) /\ base.i = 0
  <2>1. ArrayOf(A!utarray_new, S) /\ A!utarray_new.i = 0  BY NewIsEmpty
  <2> QED  BY <2>1, ReservedIsArray
<1> HIDE DEF base
<1>2. 0 \in good
  <2>1. Is([k \in 0 .. 0 |-> base], 0)  OBVIOUS
  <2> HIDE DEF Is
  <2> QED  BY <2>1
<1>3. ASSUME NEW m \in 1 .. n, m - 1 \in good PROVE m \in good
  <2>1. PICK f : Is(f, m - 1)  BY <1>3
  <2> DEFINE last == A!utarray_push_back(f[m-1], column[m])
             g == [k \in 0 .. m |-> IF k = m THEN last ELSE f[k]]
  <2>2. \A k \in 0 .. m-1 : g[k] = f[k]  OBVIOUS
  <2>3. g[m] = last  OBVIOUS
  <2>4. g = [k \in 0 .. m |-> g[k]]  OBVIOUS
  <2> HIDE DEF g
  <2>5. ASSUME NEW k \in 0 .. m
        PROVE  g[k] = IF k = 0 THEN base ELSE A!utarray_push_back(g[k-1], column[k])
    <3>1. CASE k = m  BY <3>1, <2>2, <2>3
    <3>2. CASE k # m
      <4>1. k \in 0 .. m-1 /\ (k # 0 => k - 1 \in 0 .. m-1)  BY <3>2
      <4>2. f[k] = IF k = 0 THEN base ELSE A!utarray_push_back(f[k-1], column[k])
            BY <4>1, <2>1
      <4> QED  BY <4>1, <4>2, <2>2
    <3> QED  BY <3>1, <3>2
  <2>6. Is(g, m)  BY <2>4, <2>5
  <2> HIDE DEF Is
  <2> QED  BY <2>6
<1>4. 0 .. n \subseteq good
  <2> HIDE DEF good
  <2> QED  BY <1>2, <1>3, NaturalNumbers!UpTo
<1>5. \E f : Is(f, n)  BY <1>4
<1> DEFINE h == CHOOSE f : Is(f, n)
<1>6. Is(h, n)  BY <1>5
<1>7. NewColumn(column, n) = h[n]  BY DEF NewColumn, base
<1> HIDE DEF h, good
<1> DEFINE sound == {k \in 0 .. n : ArrayOf(h[k], S) /\ h[k].i = k}
<1>8. 0 \in sound  BY <1>1, <1>6
<1>9. ASSUME NEW k \in 1 .. n, k - 1 \in sound PROVE k \in sound
  <2>1. h[k] = A!utarray_push_back(h[k-1], column[k])  BY <1>6
  <2>2. ArrayOf(h[k-1], S) /\ h[k-1].i = k - 1 /\ column[k] \in S  BY <1>9
  <2> HIDE DEF Is
  <2>3. ArrayOf(h[k], S) /\ h[k].i = (k - 1) + 1  BY <2>1, <2>2, PushedIsArray
  <2> QED  BY <2>3
<1>10. 0 .. n \subseteq sound
  <2> HIDE DEF sound
  <2> QED  BY <1>8, <1>9, NaturalNumbers!UpTo
<1> QED  BY <1>7, <1>10

-----------------------------------------------------------------------------
(* The columns: arrays of strings, all as long as the first. *)
ColumnsInv ==
  table # None =>
    /\ Len(table) \in 0 .. MaxColumns /\ DOMAIN table = 1 .. Len(table)
    /\ \A c \in DOMAIN table : ArrayOf(table[c], Strings) /\ table[c].i = table[1].i
    /\ Len(table) > 0 => table[1].i \in 0 .. MaxRows

LEMMA ElementsAreStrings ==
  ASSUME NEW a, ArrayOf(a, Strings)
  PROVE  A!Elements(a) \in [1 .. a.i -> Strings]
<1>1. a.i \in Nat /\ \A k \in 0 .. a.i - 1 : a.d[k] \in Strings  BY DEF ArrayOf
<1>2. ASSUME NEW k \in 1 .. a.i PROVE a.d[k-1] \in Strings
  <2>1. k - 1 \in 0 .. a.i - 1  BY <1>1
  <2> QED  BY <1>1, <2>1
<1> QED  BY <1>2 DEF A!Elements

LEMMA InitializedColumns ==
  ASSUME table_initialize
  PROVE  ColumnsInv'
<1> DEFINE t == [c \in 1 .. FirstColumns |-> A!utarray_new]
<1>1. FirstColumns \in 1 .. MaxColumns /\ MaxColumns \in Nat  BY TableAssumption
<1>2. table' = t  BY DEF table_initialize
<1>3. Len(t) = FirstColumns /\ DOMAIN t = 1 .. FirstColumns
      /\ \A c \in 1 .. FirstColumns : t[c] = A!utarray_new
      BY <1>1
<1>4. ArrayOf(A!utarray_new, Strings) /\ A!utarray_new.i = 0  BY NewIsEmpty
<1> HIDE DEF t
<1>5. MaxRows \in Nat  BY TableAssumption
<1> QED  BY <1>1, <1>2, <1>3, <1>4, <1>5 DEF ColumnsInv

LEMMA AppendedRowColumns ==
  ASSUME ColumnsInv, table_append_row
  PROVE  ColumnsInv'
<1> DEFINE n == Len(table)
<1>1. table # None /\ n > 0 /\ table[1].i < MaxRows
      BY DEF table_append_row, Exists, column_count, row_count, A!utarray_len
<1>2. n \in 1 .. MaxColumns /\ DOMAIN table = 1 .. n /\ MaxRows \in Nat
      /\ \A c \in 1 .. n : ArrayOf(table[c], Strings) /\ table[c].i = table[1].i
      /\ table[1].i \in 0 .. MaxRows
      BY <1>1, TableAssumption DEF ColumnsInv
<1>3. PICK row \in Rows(n) :
        table' = [c \in DOMAIN table |-> A!utarray_push_back(table[c], row[c])]
      BY DEF table_append_row, column_count
<1>4. row \in [1 .. n -> Strings]  BY <1>2, <1>3, TableAssumption
<1> HIDE DEF n
<1>5. /\ Len(table') = n /\ DOMAIN table' = 1 .. n
      /\ \A c \in 1 .. n : table'[c] = A!utarray_push_back(table[c], row[c])
      BY <1>2, <1>3
<1>6. ASSUME NEW c \in 1 .. n
      PROVE  ArrayOf(table'[c], Strings) /\ table'[c].i = table[1].i + 1
  <2>1. ArrayOf(table[c], Strings) /\ row[c] \in Strings  BY <1>2, <1>4
  <2>2. /\ ArrayOf(A!utarray_push_back(table[c], row[c]), Strings)
        /\ A!utarray_push_back(table[c], row[c]).i = table[c].i + 1
        BY <2>1, PushedIsArray
  <2> QED  BY <2>2, <1>2, <1>5
<1>7. 1 \in 1 .. n  BY <1>2
<1> QED  BY <1>1, <1>2, <1>5, <1>6, <1>7 DEF ColumnsInv

LEMMA AppendedColumnColumns ==
  ASSUME ColumnsInv, table_append_column
  PROVE  ColumnsInv'
<1> DEFINE n == Len(table)
           m == table[1].i
           first == ColumnOf(1)
<1>1. table # None /\ n \in 1 .. (MaxColumns - 1)
      BY DEF table_append_column, Exists, column_count
<1>2. n \in 1 .. MaxColumns /\ DOMAIN table = 1 .. n /\ MaxColumns \in Nat
      /\ \A c \in 1 .. n : ArrayOf(table[c], Strings) /\ table[c].i = m
      /\ m \in 0 .. MaxRows /\ MaxRows \in Nat
      BY <1>1, TableAssumption DEF ColumnsInv
<1>3. PICK column \in Columns(first) : table' = Append(table, NewColumn(column, m))
      BY DEF table_append_column, row_count, A!utarray_len
<1>4. first \in [1 .. m -> Strings]
  <2>1. ArrayOf(table[1], Strings)  BY <1>2
  <2> QED  BY <2>1, ElementsAreStrings DEF ColumnOf
<1> HIDE DEF first
<1>5. column \in [1 .. m -> Strings]
  <2>1. m \in 0 .. MaxRows  BY <1>2
  <2>2. \A k \in 0 .. MaxRows : \A f \in [1 .. k -> Strings] :
          Columns(f) \subseteq [1 .. k -> Strings]
        BY TableAssumption
  <2> HIDE DEF m
  <2>3. Columns(first) \subseteq [1 .. m -> Strings]  BY <2>1, <2>2, <1>4
  <2> QED  BY <2>3, <1>3
<1> DEFINE new == NewColumn(column, m)
<1>6. ArrayOf(new, Strings) /\ new.i = m
  <2>1. m \in Nat  BY <1>2
  <2> QED  BY <2>1, <1>5, NewColumnIsArray
<1> HIDE DEF n, new
<1>7. /\ Len(table') = n + 1 /\ DOMAIN table' = 1 .. n + 1
      /\ table'[n + 1] = new
      /\ \A c \in 1 .. n : table'[c] = table[c]
      BY <1>2, <1>3 DEF n, new
<1>8. 1 \in 1 .. n /\ n + 1 \in 0 .. MaxColumns  BY <1>1, <1>2
<1>9. \A c \in 1 .. n + 1 : c = n + 1 \/ c \in 1 .. n  BY <1>2
<1> QED  BY <1>2, <1>6, <1>7, <1>8, <1>9 DEF ColumnsInv

LEMMA ColumnsStep == ColumnsInv /\ [Next]_vars => ColumnsInv'
<1> SUFFICES ASSUME ColumnsInv, [Next]_vars PROVE ColumnsInv'  OBVIOUS
<1>1. CASE table_construct
  <2>1. table' = <<>> /\ Len(<<>>) = 0 /\ DOMAIN <<>> = 1 .. 0 /\ 1 .. 0 = {}
        BY <1>1 DEF table_construct
  <2> QED  BY <2>1, TableAssumption DEF ColumnsInv
<1>2. CASE table_initialize  BY <1>2, InitializedColumns
<1>3. CASE table_append_row  BY <1>3, AppendedRowColumns
<1>4. CASE table_append_column  BY <1>4, AppendedColumnColumns
<1>5. CASE table_destroy  BY <1>5 DEF table_destroy, ColumnsInv
<1>6. CASE UNCHANGED table  BY <1>6 DEF ColumnsInv
<1> QED  BY <1>1, <1>2, <1>3, <1>4, <1>5, <1>6
         DEF Next, vars, ColumnMissing, ReadBeyond, StartIndex, IndexRow, IndexCreated,
             table_index_find, row_index_next, StartDestroy, DestroyItem, IndexDestroyed

LEMMA ColumnsInvariant == Spec => []ColumnsInv
<1>1. Init => ColumnsInv  BY DEF Init, ColumnsInv
<1> QED  BY <1>1, ColumnsStep, PTL DEF Spec

(* Every column has as many values as the first has, at any time and of     *)
(* whatever rows and columns the table was made: table_get_value finds one  *)
(* for every row that table_get_row_count tells.                            *)
THEOREM ColumnsOfOneLength == Spec => []Rectangular
<1>1. ASSUME ColumnsInv PROVE Rectangular
  <2> SUFFICES ASSUME table # None, NEW c \in DOMAIN table
               PROVE  /\ A!utarray_len(table[c]) = row_count
                      /\ \A r \in 1 .. row_count : ColumnOf(c)[r] # None
      BY DEF Rectangular
  <2>1. ArrayOf(table[c], Strings) /\ table[c].i = table[1].i  BY <1>1 DEF ColumnsInv
  <2>2. ColumnOf(c) \in [1 .. table[1].i -> Strings]
        BY <2>1, ElementsAreStrings DEF ColumnOf
  <2> QED  BY <2>1, <2>2, NoneAssumption DEF row_count, A!utarray_len
<1> QED  BY <1>1, ColumnsInvariant, PTL

-----------------------------------------------------------------------------
(* uthash.h: lists. *)

(* A sequence of strings none of which is there twice. *)
Distinct(s) ==
  /\ s \in Seq(Strings)
  /\ \A j, k \in 1 .. Len(s) : s[j] = s[k] => j = k

(* A doubly linked list that has the items of a sequence, in this order. *)
Linked(s, first, next, prev) ==
  /\ first = IF Len(s) = 0 THEN None ELSE s[1]
  /\ \A k \in 1 .. Len(s) : /\ next[s[k]] = IF k = Len(s) THEN None ELSE s[k+1]
                            /\ prev[s[k]] = IF k = 1 THEN None ELSE s[k-1]

IsList(s, first, next, prev) == Distinct(s) /\ Linked(s, first, next, prev)

LEMMA DistinctIsSeq ==
  ASSUME NEW s, Distinct(s)
  PROVE  /\ s \in Seq(Strings) /\ Len(s) \in Nat /\ DOMAIN s = 1 .. Len(s)
         /\ \A k \in 1 .. Len(s) : s[k] \in Strings /\ s[k] # None
         /\ s = [k \in 1 .. Len(s) |-> s[k]]
BY NoneAssumption DEF Distinct

LEMMA ToSetIs ==
  ASSUME NEW s, Distinct(s)
  PROVE  H!ToSet(s) = {s[k] : k \in 1 .. Len(s)} /\ H!ToSet(s) \subseteq Strings
BY DistinctIsSeq DEF H!ToSet

(* As many items as places. *)
LEMMA DistinctLength ==
  ASSUME NEW s, Distinct(s)
  PROVE  IsFiniteSet(H!ToSet(s)) /\ Cardinality(H!ToSet(s)) = Len(s)
<1> DEFINE S == {s[k] : k \in 1 .. Len(s)}
           f == [k \in 1 .. Len(s) |-> s[k]]
<1>1. f \in [1 .. Len(s) -> S]  OBVIOUS
<1>2. \A j, k \in 1 .. Len(s) : f[j] = f[k] => j = k  BY DEF Distinct
<1>3. \A x \in S : \E k \in 1 .. Len(s) : f[k] = x  OBVIOUS
<1> HIDE DEF f, S
<1>4. ExistsBijection(1 .. Len(s), S)
  <2>1. f \in Injection(1 .. Len(s), S)  BY <1>1, <1>2 DEF Injection, IsInjective
  <2>2. f \in Surjection(1 .. Len(s), S)  BY <1>1, <1>3 DEF Surjection
  <2> QED  BY <2>1, <2>2 DEF ExistsBijection, Bijection
<1>5. Len(s) \in Nat /\ H!ToSet(s) = S  BY DistinctIsSeq, ToSetIs DEF S
<1>6. Cardinality(S) = Len(s)  BY <1>4, <1>5, FS_CountingElements
<1>7. IsFiniteSet(S)  BY <1>4, <1>5, FS_NatBijection
<1> QED  BY <1>5, <1>6, <1>7

LEMMA SublistIsShorter ==
  ASSUME NEW r, NEW s, Distinct(r), Distinct(s), H!ToSet(r) \subseteq H!ToSet(s)
  PROVE  Len(r) <= Len(s)
BY DistinctLength, FS_Subset

(* What is met along a list is the list, when the hash counts as many items. *)
LEMMA FollowIs ==
  ASSUME NEW t, NEW s, NEW first, NEW next \in [Strings -> H!Ptr], NEW prev,
         IsList(s, first, next, prev), t.num_items \in Nat, Len(s) <= t.num_items
  PROVE  H!Follow(t, first, next) = s
<1> DEFINE N == t.num_items
           L == Len(s)
           on(x) == IF x = None THEN None ELSE next[x]
           step == [k \in 1 .. N |-> [x \in H!Ptr |-> on(x)]]
           Is(f) == f = [k \in 0 .. N |-> IF k = 0 THEN first
                                         ELSE IF f[k-1] = None THEN None ELSE next[f[k-1]]]
<1>1. /\ L \in Nat /\ N \in Nat /\ L <= N
      /\ \A k \in 1 .. L : s[k] \in Strings /\ s[k] # None
      /\ s = [k \in 1 .. L |-> s[k]]
      BY DistinctIsSeq DEF IsList
<1>2. /\ first = IF L = 0 THEN None ELSE s[1]
      /\ \A k \in 1 .. L : next[s[k]] = IF k = L THEN None ELSE s[k+1]
      BY DEF IsList, Linked
<1> HIDE DEF N, L
<1>3. first \in H!Ptr  BY <1>1, <1>2 DEF H!Ptr
<1>4. step \in [1 .. N -> [H!Ptr -> H!Ptr]]  BY DEF H!Ptr
<1> HIDE DEF step
<1>5. PICK f : f \in NaturalNumbers!Run(N, H!Ptr, first, step)
      BY <1>1, <1>3, <1>4, NaturalNumbers!Recursion
<1>6. /\ f \in [0 .. N -> H!Ptr] /\ f[0] = first
      /\ \A k \in 1 .. N : f[k] = step[k][f[k-1]]
      BY <1>5 DEF NaturalNumbers!Run
<1>7. ASSUME NEW k \in 1 .. N PROVE f[k] = on(f[k-1])
  <2>1. f[k-1] \in H!Ptr  BY <1>6, <1>1
  <2> QED  BY <1>6, <2>1 DEF step
<1>8. Is(f)
  <2>1. \A k \in 0 .. N : f[k] = IF k = 0 THEN first
                                 ELSE IF f[k-1] = None THEN None ELSE next[f[k-1]]
        BY <1>6, <1>7, <1>1
  <2> QED  BY <1>6, <2>1
<1> DEFINE g == CHOOSE g : Is(g)
<1>9. Is(g)  BY <1>8
<1>10. H!Follow(t, first, next) = [k \in {m \in 1 .. N + 1 : g[m-1] # None} |-> g[k-1]]
       BY DEF H!Follow, N
<1> HIDE DEF g
<1> DEFINE Good(k, x) == x = IF k < L THEN s[k+1] ELSE None
           good == {k \in 0 .. N : Good(k, g[k])}
<1>11. 0 \in good  BY <1>1, <1>2, <1>9
<1>12. ASSUME NEW k \in 1 .. N, k - 1 \in good PROVE k \in good
  <2>1. g[k] = IF g[k-1] = None THEN None ELSE next[g[k-1]]
    <3>1. \A j \in 0 .. N : g[j] = IF j = 0 THEN first
                                   ELSE IF g[j-1] = None THEN None ELSE next[g[j-1]]
          BY <1>9
    <3>2. k \in 0 .. N /\ k # 0  BY <1>1
    <3> QED  BY <3>1, <3>2
  <2>2. Good(k - 1, g[k-1])  BY <1>12
  <2>3. CASE k - 1 < L
    <3>1. k \in 1 .. L /\ g[k-1] = s[k]  BY <2>2, <2>3, <1>1
    <3>2. g[k] = IF k = L THEN None ELSE s[k+1]  BY <3>1, <2>1, <1>1, <1>2
    <3>3. Good(k, g[k])  BY <3>1, <3>2, <1>1
    <3> QED  BY <3>3
  <2>4. CASE ~ (k - 1 < L)
    <3>1. g[k] = None /\ ~ (k < L)  BY <2>1, <2>2, <2>4, <1>1
    <3> QED  BY <3>1
  <2> QED  BY <2>3, <2>4
<1>13. 0 .. N \subseteq good
  <2> HIDE DEF good
  <2> QED  BY <1>1, <1>11, <1>12, NaturalNumbers!UpTo
<1>14. ASSUME NEW m \in 1 .. N + 1
       PROVE  /\ m \in 1 .. L => g[m-1] = s[m] /\ g[m-1] # None
              /\ m \notin 1 .. L => g[m-1] = None
  <2>1. m - 1 \in 0 .. N  BY <1>1
  <2>2. Good(m - 1, g[m-1])  BY <2>1, <1>13
  <2> QED  BY <2>2, <1>1
<1>15. {m \in 1 .. N + 1 : g[m-1] # None} = 1 .. L
  <2>1. 1 .. L \subseteq 1 .. N + 1  BY <1>1
  <2> QED  BY <2>1, <1>14
<1>16. \A k \in 1 .. L : g[k-1] = s[k]
  <2>1. 1 .. L \subseteq 1 .. N + 1  BY <1>1
  <2> QED  BY <2>1, <1>14
<1> QED  BY <1>1, <1>10, <1>15, <1>16

LEMMA ConcatIsDistinct ==
  ASSUME NEW r, NEW s, Distinct(r), Distinct(s), H!ToSet(r) \intersect H!ToSet(s) = {}
  PROVE  Distinct(r \o s) /\ H!ToSet(r \o s) = H!ToSet(r) \union H!ToSet(s)
<1> DEFINE q == r \o s
           m == Len(r)
           n == Len(s)
<1>1. /\ r \in Seq(Strings) /\ s \in Seq(Strings) /\ m \in Nat /\ n \in Nat
      /\ \A j, k \in 1 .. m : r[j] = r[k] => j = k
      /\ \A j, k \in 1 .. n : s[j] = s[k] => j = k
      BY DistinctIsSeq DEF Distinct
<1>2. /\ H!ToSet(r) = {r[k] : k \in 1 .. m} /\ H!ToSet(s) = {s[k] : k \in 1 .. n}
      BY ToSetIs
<1>3. \A j \in 1 .. m : \A k \in 1 .. n : r[j] # s[k]  BY <1>2
<1>4. q \in Seq(Strings) /\ Len(q) = m + n /\ DOMAIN q = 1 .. m + n
      BY <1>1
<1>5. \A k \in 1 .. m + n : q[k] = IF k <= m THEN r[k] ELSE s[k - m]
      BY <1>1
<1> HIDE DEF q, m, n
<1>6. ASSUME NEW k \in 1 .. m + n
      PROVE  \/ k \in 1 .. m /\ q[k] = r[k]
             \/ k - m \in 1 .. n /\ q[k] = s[k - m] /\ ~ (k <= m)
      BY <1>1, <1>5
<1>7. ASSUME NEW j \in 1 .. m + n, NEW k \in 1 .. m + n, q[j] = q[k] PROVE j = k
  <2>1. CASE j \in 1 .. m /\ q[j] = r[j]
    <3>1. CASE k \in 1 .. m /\ q[k] = r[k]  BY <2>1, <3>1, <1>1, <1>7
    <3>2. CASE k - m \in 1 .. n /\ q[k] = s[k - m]  BY <2>1, <3>2, <1>3, <1>7
    <3> QED  BY <3>1, <3>2, <1>6
  <2>2. CASE j - m \in 1 .. n /\ q[j] = s[j - m]
    <3>1. CASE k \in 1 .. m /\ q[k] = r[k]  BY <2>2, <3>1, <1>3, <1>7
    <3>2. CASE k - m \in 1 .. n /\ q[k] = s[k - m]
      <4>1. j - m = k - m  BY <2>2, <3>2, <1>1, <1>7
      <4> QED  BY <4>1, <1>1
    <3> QED  BY <3>1, <3>2, <1>6
  <2> QED  BY <2>1, <2>2, <1>6
<1>8. Distinct(q)  BY <1>4, <1>7 DEF Distinct
<1>9. H!ToSet(q) = {q[k] : k \in 1 .. m + n}  BY <1>4 DEF H!ToSet
<1>10. \A k \in 1 .. m : k \in 1 .. m + n /\ q[k] = r[k]  BY <1>1, <1>5
<1>11. ASSUME NEW k \in 1 .. n PROVE k + m \in 1 .. m + n /\ q[k + m] = s[k]
  <2>1. k + m \in 1 .. m + n /\ ~ (k + m <= m) /\ (k + m) - m = k  BY <1>1
  <2> QED  BY <2>1, <1>5
<1>12. H!ToSet(r) \union H!ToSet(s) \subseteq H!ToSet(q)  BY <1>2, <1>9, <1>10, <1>11
<1>13. H!ToSet(q) \subseteq H!ToSet(r) \union H!ToSet(s)  BY <1>2, <1>6, <1>9
<1> QED  BY <1>8, <1>12, <1>13 DEF q

(* Chains that have no item in common make one sequence of all their items. *)
LEMMA FlattenIsDistinct ==
  ASSUME NEW n \in Nat \ {0}, NEW ch,
         \A b \in 0 .. n - 1 : Distinct(ch[b]),
         \A b, c \in 0 .. n - 1 : b # c => H!ToSet(ch[b]) \intersect H!ToSet(ch[c]) = {}
  PROVE  LET all == H!FlattenSeq([b \in 1 .. n |-> ch[b-1]])
         IN Distinct(all)
            /\ H!ToSet(all) = {x \in Strings : \E b \in 0 .. n - 1 : x \in H!ToSet(ch[b])}
<1> DEFINE seqs == [b \in 1 .. n |-> ch[b-1]]
           step == [k \in 1 .. n - 1 |-> [x \in Seq(Strings) |-> x \o seqs[k+1]]]
           Is(f) == f = [i \in 1 .. n |-> IF i = 1 THEN seqs[i] ELSE f[i-1] \o seqs[i]]
<1>1. Len(seqs) = n /\ n # 0 /\ n - 1 \in Nat  OBVIOUS
<1>2. \A b \in 1 .. n : seqs[b] = ch[b-1] /\ b - 1 \in 0 .. n - 1  OBVIOUS
<1> HIDE DEF seqs
<1>3. \A b \in 1 .. n : Distinct(seqs[b]) /\ seqs[b] \in Seq(Strings)
      BY <1>2, DistinctIsSeq
<1>4. step \in [1 .. n - 1 -> [Seq(Strings) -> Seq(Strings)]]
  <2>1. \A k \in 1 .. n - 1 : k + 1 \in 1 .. n  OBVIOUS
  <2> QED  BY <1>3, <2>1
<1>5. seqs[1] \in Seq(Strings)  BY <1>3
<1> HIDE DEF step
<1>6. PICK f : f \in NaturalNumbers!Run(n - 1, Seq(Strings), seqs[1], step)
      BY <1>1, <1>4, <1>5, NaturalNumbers!Recursion
<1>7. /\ f \in [0 .. n - 1 -> Seq(Strings)] /\ f[0] = seqs[1]
      /\ \A k \in 1 .. n - 1 : f[k] = step[k][f[k-1]]
      BY <1>6 DEF NaturalNumbers!Run
<1>8. ASSUME NEW k \in 1 .. n - 1 PROVE f[k] = f[k-1] \o seqs[k+1]
  <2>1. f[k-1] \in Seq(Strings)  BY <1>7
  <2> QED  BY <1>7, <2>1 DEF step
<1>9. Is([i \in 1 .. n |-> f[i-1]])
  <2> DEFINE h == [i \in 1 .. n |-> f[i-1]]
  <2>1. \A i \in 1 .. n : h[i] = f[i-1]  OBVIOUS
  <2>2. ASSUME NEW i \in 1 .. n
        PROVE  h[i] = IF i = 1 THEN seqs[i] ELSE h[i-1] \o seqs[i]
    <3>1. CASE i = 1  BY <3>1, <2>1, <1>7
    <3>2. CASE i # 1
      <4>1. i - 1 \in 1 .. n - 1 /\ i - 1 \in 1 .. n /\ (i - 1) + 1 = i  BY <3>2
      <4>2. f[i-1] = f[(i-1)-1] \o seqs[i]  BY <4>1, <1>8
      <4> QED  BY <3>2, <4>1, <4>2, <2>1
    <3> QED  BY <3>1, <3>2
  <2> HIDE DEF h
  <2>3. h = [i \in 1 .. n |-> h[i]]  BY DEF h
  <2> QED  BY <2>2, <2>3 DEF h
<1> DEFINE g == CHOOSE g : Is(g)
<1>10. Is(g)
  <2>1. \E q : Is(q)  BY <1>9
  <2> QED  BY <2>1
<1>11. H!FlattenSeq(seqs) = g[n]  BY <1>1 DEF H!FlattenSeq
<1> HIDE DEF g
<1>12. \A i \in 1 .. n : g[i] = IF i = 1 THEN seqs[i] ELSE g[i-1] \o seqs[i]
       BY <1>10
<1> HIDE DEF Is
<1> DEFINE Of(k) == {x \in Strings : \E b \in 0 .. k : x \in H!ToSet(ch[b])}
           good == {k \in 0 .. n - 1 : Distinct(g[k+1]) /\ H!ToSet(g[k+1]) = Of(k)}
<1>13. 0 \in good
  <2>1. g[1] = ch[0] /\ Distinct(ch[0])  BY <1>2, <1>12
  <2>2. H!ToSet(ch[0]) \subseteq Strings  BY <2>1, ToSetIs
  <2>3. H!ToSet(ch[0]) = Of(0)  BY <2>2
  <2> QED  BY <2>1, <2>3
<1>14. ASSUME NEW k \in 1 .. n - 1, k - 1 \in good PROVE k \in good
  <2>1. k + 1 \in 1 .. n /\ (k - 1) + 1 = k /\ (k + 1) - 1 = k /\ k + 1 # 1
        /\ k \in 0 .. n - 1
        OBVIOUS
  <2>2. g[k+1] = g[k] \o ch[k]
    <3> HIDE DEF good
    <3>1. g[k+1] = IF k + 1 = 1 THEN seqs[k+1] ELSE g[(k+1)-1] \o seqs[k+1]
          BY <2>1, <1>12
    <3>2. seqs[k+1] = ch[k]  BY <2>1, <1>2
    <3> QED  BY <3>1, <3>2, <2>1
  <2>3. Distinct(g[k]) /\ H!ToSet(g[k]) = Of(k - 1)  BY <2>1, <1>14
  <2>4. Distinct(ch[k]) /\ H!ToSet(ch[k]) \subseteq Strings  BY <2>1, ToSetIs
  <2>5. Of(k - 1) \intersect H!ToSet(ch[k]) = {}
    <3>1. \A b \in 0 .. k - 1 : b \in 0 .. n - 1 /\ b # k  OBVIOUS
    <3> QED  BY <3>1, <2>1
  <2>6. Of(k) = Of(k - 1) \union H!ToSet(ch[k])
    <3>1. 0 .. k = (0 .. k - 1) \union {k}  OBVIOUS
    <3> QED  BY <3>1, <2>4
  <2> HIDE DEF Of
  <2>7. Distinct(g[k+1]) /\ H!ToSet(g[k+1]) = Of(k)
        BY <2>2, <2>3, <2>4, <2>5, <2>6, ConcatIsDistinct
  <2> QED  BY <2>1, <2>7
<1>15. 0 .. n - 1 \subseteq good
  <2> HIDE DEF good
  <2> QED  BY <1>1, <1>13, <1>14, NaturalNumbers!UpTo
<1>16. n - 1 \in good /\ (n - 1) + 1 = n  BY <1>15
<1>17. Distinct(g[n]) /\ H!ToSet(g[n]) = Of(n - 1)  BY <1>16
<1> QED  BY <1>11, <1>17 DEF seqs

-----------------------------------------------------------------------------
(* uthash.h: a hash. *)

(* The list of the application. *)
Listed(t, app) ==
  /\ t.next \in [Strings -> H!Ptr] /\ t.prev \in [Strings -> H!Ptr]
  /\ IsList(app, t.head, t.next, t.prev)
  /\ Len(app) > 0 /\ t.tail = app[Len(app)]
  /\ t.num_items = Len(app)

(* The chains of n buckets, which have the items of S, each where its hash  *)
(* is.                                                                      *)
Chained(h, t, n, S, ch) ==
  /\ n \in Nat \ {0} /\ DOMAIN t.buckets = 0 .. n - 1
  /\ t.hh_next \in [Strings -> H!Ptr] /\ t.hh_prev \in [Strings -> H!Ptr]
  /\ \A b \in 0 .. n - 1 :
       /\ t.buckets[b] \in H!UT_hash_bucket
       /\ IsList(ch[b], t.buckets[b].hh_head, t.hh_next, t.hh_prev)
       /\ t.buckets[b].count = Len(ch[b])
       /\ H!ToSet(ch[b]) = {x \in S : h[x] % n = b}

IsHash(h, t, n, app, ch) == Listed(t, app) /\ Chained(h, t, n, H!ToSet(app), ch)

LEMMA NumBuckets ==
  ASSUME NEW t, NEW n \in Nat \ {0}, DOMAIN t.buckets = 0 .. n - 1
  PROVE  H!num_buckets(t) = n
<1>1. Cardinality(0 .. n - 1) = n  BY FS_Interval
<1>2. H!num_buckets(t) = Cardinality(DOMAIN t.buckets)
      BY DEF H!num_buckets, H!Cardinality, Cardinality
<1> QED  BY <1>1, <1>2, Zenon

LEMMA InABucket ==
  ASSUME NEW h \in [Strings -> Nat], NEW n \in Nat \ {0}, NEW x \in Strings
  PROVE  h[x] % n \in 0 .. n - 1
<1>1. h[x] \in Nat  OBVIOUS
<1> QED  BY <1>1

LEMMA ListedIsList ==
  ASSUME NEW t, NEW app, Listed(t, app)
  PROVE  /\ Distinct(app) /\ Len(app) \in Nat /\ t.num_items = Len(app)
         /\ t.head = app[1] /\ t.head \in Strings /\ t.head # None
         /\ t.head \in H!ToSet(app)
         /\ H!ToSet(app) \subseteq Strings /\ IsFiniteSet(H!ToSet(app))
         /\ Cardinality(H!ToSet(app)) = Len(app)
<1>1. Distinct(app)  BY DEF Listed, IsList
<1>2. Len(app) \in Nat /\ Len(app) > 0  BY <1>1, DistinctIsSeq DEF Listed
<1>3. 1 \in 1 .. Len(app) /\ t.head = app[1]  BY <1>2 DEF Listed, IsList, Linked
<1>4. app[1] \in Strings /\ app[1] # None /\ app[1] \in H!ToSet(app)
      BY <1>1, <1>3, DistinctIsSeq, ToSetIs
<1> QED  BY <1>1, <1>2, <1>3, <1>4, ToSetIs, DistinctLength DEF Listed

(* A walk through the application's list, and one through a chain.          *)
LEMMA AppOrderIs ==
  ASSUME NEW t, NEW app, Listed(t, app)
  PROVE  H!AppOrder(t) = app
<1>1. Len(app) \in Nat /\ t.num_items = Len(app) /\ Len(app) <= Len(app)  BY ListedIsList
<1>2. t.next \in [Strings -> H!Ptr] /\ IsList(app, t.head, t.next, t.prev)  BY DEF Listed
<1>3. H!Follow(t, t.head, t.next) = app  BY <1>1, <1>2, FollowIs
<1> QED  BY <1>3 DEF H!AppOrder

LEMMA ChainIs ==
  ASSUME NEW h, NEW t, NEW n, NEW app, NEW S, NEW ch, Listed(t, app),
         Chained(h, t, n, S, ch), S \subseteq H!ToSet(app), NEW b \in 0 .. n - 1
  PROVE  /\ H!Chain(t, b) = ch[b] /\ Distinct(ch[b]) /\ Len(ch[b]) \in Nat
         /\ Len(ch[b]) <= Len(app)
<1>1. /\ t.hh_next \in [Strings -> H!Ptr]
      /\ IsList(ch[b], t.buckets[b].hh_head, t.hh_next, t.hh_prev)
      /\ H!ToSet(ch[b]) = {x \in S : h[x] % n = b}
      BY DEF Chained
<1>2. Distinct(ch[b]) /\ Distinct(app) /\ t.num_items = Len(app) /\ Len(app) \in Nat
      BY <1>1, ListedIsList DEF IsList
<1>3. H!ToSet(ch[b]) \subseteq H!ToSet(app)  BY <1>1
<1>4. Len(ch[b]) <= Len(app) /\ Len(ch[b]) \in Nat
      BY <1>2, <1>3, SublistIsShorter, DistinctIsSeq
<1>5. H!Follow(t, t.buckets[b].hh_head, t.hh_next) = ch[b]
      BY <1>1, <1>2, <1>4, FollowIs
<1> QED  BY <1>2, <1>4, <1>5 DEF H!Chain

(* All chains one after the other have all items, each once. *)
LEMMA TakenIs ==
  ASSUME NEW h \in [Strings -> Nat], NEW t, NEW n, NEW app, NEW ch,
         IsHash(h, t, n, app, ch)
  PROVE  LET taken == H!FlattenSeq([b \in 1 .. n |-> H!Chain(t, b - 1)])
         IN Distinct(taken) /\ H!ToSet(taken) = H!ToSet(app)
<1>1. Listed(t, app) /\ Chained(h, t, n, H!ToSet(app), ch)  BY DEF IsHash
<1>2. n \in Nat \ {0} /\ \A b \in 0 .. n - 1 :
        H!ToSet(ch[b]) = {x \in H!ToSet(app) : h[x] % n = b}
      BY <1>1 DEF Chained
<1>3. \A b \in 0 .. n - 1 : H!Chain(t, b) = ch[b] /\ Distinct(ch[b])
      BY <1>1, ChainIs
<1>4. [b \in 1 .. n |-> H!Chain(t, b - 1)] = [b \in 1 .. n |-> ch[b-1]]
  <2>1. \A b \in 1 .. n : b - 1 \in 0 .. n - 1  BY <1>2
  <2> QED  BY <2>1, <1>3
<1>5. \A b, c \in 0 .. n - 1 : b # c => H!ToSet(ch[b]) \intersect H!ToSet(ch[c]) = {}
      BY <1>2
<1> DEFINE all == H!FlattenSeq([b \in 1 .. n |-> ch[b-1]])
<1>6. Distinct(all)
      /\ H!ToSet(all) = {x \in Strings : \E b \in 0 .. n - 1 : x \in H!ToSet(ch[b])}
      BY <1>2, <1>3, <1>5, FlattenIsDistinct
<1> HIDE DEF all
<1>7. H!ToSet(app) \subseteq Strings  BY <1>1, ListedIsList
<1>8. ASSUME NEW x \in H!ToSet(app)
      PROVE  \E b \in 0 .. n - 1 : x \in H!ToSet(ch[b])
  <2>1. h[x] % n \in 0 .. n - 1  BY <1>2, <1>7, InABucket
  <2> QED  BY <2>1, <1>2
<1>9. H!ToSet(all) = H!ToSet(app)  BY <1>2, <1>6, <1>7, <1>8
<1> QED  BY <1>4, <1>6, <1>9 DEF all

(* HASH_FIND finds what is there. *)
LEMMA FindTells ==
  ASSUME NEW t, NEW n, NEW app, NEW ch, hashv \in [Strings -> Nat],
         IsHash(hashv, t, n, app, ch), NEW x \in Strings
  PROVE  H!HASH_FIND(t, x) = IF x \in H!ToSet(app) THEN x ELSE None
<1>1. Listed(t, app) /\ Chained(hashv, t, n, H!ToSet(app), ch)  BY DEF IsHash
<1> DEFINE b == hashv[x] % n
<1>2. n \in Nat \ {0} /\ DOMAIN t.buckets = 0 .. n - 1  BY <1>1 DEF Chained
<1>3. b \in 0 .. n - 1  BY <1>2, InABucket
<1>4. H!num_buckets(t) = n  BY <1>2, NumBuckets
<1>5. t.head # None  BY <1>1, ListedIsList
<1> HIDE DEF b
<1>6. H!Chain(t, b) = ch[b]  BY <1>1, <1>3, ChainIs
<1>7. H!ToSet(ch[b]) = {y \in H!ToSet(app) : hashv[y] % n = b}  BY <1>1, <1>3 DEF Chained
<1>8. x \in H!ToSet(ch[b]) <=> x \in H!ToSet(app)  BY <1>7 DEF b
<1>9. H!HASH_TO_BKT(x, n) = b  BY DEF b, H!HASH_TO_BKT, H!HASH_VALUE
<1> QED  BY <1>4, <1>5, <1>6, <1>8, <1>9 DEF H!HASH_FIND, H!HASH_FIND_IN_BKT

(* A hash passes HASH_FSCK. *)
LEMMA HashPasses ==
  ASSUME NEW h \in [Strings -> Nat], NEW t, NEW n, NEW app, NEW ch,
         IsHash(h, t, n, app, ch)
  PROVE  H!HASH_FSCK(t)
<1>1. Listed(t, app) /\ Chained(h, t, n, H!ToSet(app), ch)  BY DEF IsHash
<1>2. n \in Nat \ {0} /\ DOMAIN t.buckets = 0 .. n - 1  BY <1>1 DEF Chained
<1>3. ASSUME NEW s, NEW first, NEW next, NEW prev, IsList(s, first, next, prev)
      PROVE  H!Mirrored(s, prev)
  <2>1. DOMAIN s = 1 .. Len(s) /\ Len(s) \in Nat  BY <1>3, DistinctIsSeq DEF IsList
  <2> QED  BY <1>3, <2>1 DEF IsList, Linked, H!Mirrored
<1>4. ASSUME NEW b \in DOMAIN t.buckets
      PROVE  Len(H!Chain(t, b)) = t.buckets[b].count /\ H!Mirrored(H!Chain(t, b), t.hh_prev)
  <2>1. b \in 0 .. n - 1  BY <1>2
  <2>2. H!Chain(t, b) = ch[b]  BY <2>1, <1>1, ChainIs
  <2>3. IsList(ch[b], t.buckets[b].hh_head, t.hh_next, t.hh_prev)
        /\ t.buckets[b].count = Len(ch[b])
        BY <2>1, <1>1 DEF Chained
  <2> QED  BY <2>2, <2>3, <1>3
<1>5. H!num_buckets(t) = n  BY <1>2, NumBuckets
<1> DEFINE taken == H!FlattenSeq([b \in 1 .. n |-> H!Chain(t, b - 1)])
<1>6. Len(taken) = t.num_items
  <2>1. Distinct(taken) /\ H!ToSet(taken) = H!ToSet(app)  BY TakenIs
  <2> HIDE DEF taken
  <2>2. Cardinality(H!ToSet(taken)) = Len(taken)  BY <2>1, DistinctLength
  <2>3. Cardinality(H!ToSet(app)) = Len(app) /\ t.num_items = Len(app)
        BY <1>1, ListedIsList
  <2> QED  BY <2>1, <2>2, <2>3
<1>7. H!AppOrder(t) = app /\ t.num_items = Len(app)  BY <1>1, AppOrderIs, ListedIsList
<1>8. H!Mirrored(app, t.prev)  BY <1>1, <1>3 DEF Listed
<1> QED  BY <1>4, <1>5, <1>6, <1>7, <1>8 DEF H!HASH_FSCK

-----------------------------------------------------------------------------
(* uthash.h: HASH_EXPAND_BUCKETS. *)

LEMMA ConcatIs ==
  ASSUME NEW r \in Seq(Strings), NEW s \in Seq(Strings)
  PROVE  /\ Len(r \o s) = Len(r) + Len(s)
         /\ \A k \in 1 .. Len(r) + Len(s) :
              (r \o s)[k] = IF k <= Len(r) THEN r[k] ELSE s[k - Len(r)]
OBVIOUS

LEMMA PutInFront ==
  ASSUME NEW s, Distinct(s), NEW x \in Strings, x \notin H!ToSet(s)
  PROVE  LET more == <<x>> \o s
         IN /\ Distinct(more) /\ H!ToSet(more) = {x} \union H!ToSet(s)
            /\ Len(more) = Len(s) + 1 /\ more[1] = x
            /\ \A k \in 2 .. Len(s) + 1 : more[k] = s[k-1]
<1> DEFINE one == <<x>>
           more == one \o s
<1>1. one \in Seq(Strings) /\ Len(one) = 1 /\ one[1] = x /\ DOMAIN one = 1 .. 1  OBVIOUS
<1>2. s \in Seq(Strings) /\ Len(s) \in Nat  BY DistinctIsSeq
<1> HIDE DEF one
<1>3. \A j \in 1 .. 1 : j = 1  OBVIOUS
<1>4. Distinct(one)  BY <1>1, <1>3 DEF Distinct
<1>5. H!ToSet(one) = {x}  BY <1>1, <1>3 DEF H!ToSet
<1>6. Distinct(more) /\ H!ToSet(more) = {x} \union H!ToSet(s)
      BY <1>4, <1>5, ConcatIsDistinct
<1> DEFINE m == Len(one)
           n == Len(s)
<1>7. /\ Len(more) = m + n
      /\ \A k \in 1 .. m + n : more[k] = IF k <= m THEN one[k] ELSE s[k-m]
      BY <1>1, <1>2, ConcatIs
<1>8. m = 1 /\ n \in Nat /\ Len(more) = n + 1  BY <1>1, <1>2, <1>7
<1> HIDE DEF m, n, more
<1>9. 1 \in 1 .. m + n /\ \A k \in 2 .. n + 1 : k \in 1 .. m + n /\ ~ (k <= m)
      BY <1>8
<1>10. more[1] = x  BY <1>1, <1>7, <1>8, <1>9
<1>11. \A k \in 2 .. n + 1 : more[k] = s[k-1]  BY <1>7, <1>8, <1>9
<1> QED  BY <1>6, <1>8, <1>10, <1>11 DEF one, more, n

LEMMA RehashedIs ==
  ASSUME hashv \in [Strings -> Nat], NEW n \in Nat \ {0}, NEW taken, Distinct(taken)
  PROVE  \A b \in 0 .. n - 1 :
           /\ Distinct(H!Rehashed(taken, n)[b])
           /\ H!ToSet(H!Rehashed(taken, n)[b]) = {x \in H!ToSet(taken) : hashv[x] % n = b}
<1> DEFINE L == Len(taken)
           Chains == [0 .. n - 1 -> Seq(Strings)]
           base == [b \in 0 .. n - 1 |-> <<>>]
           put(k, c) == [c EXCEPT ![hashv[taken[k]] % n] = <<taken[k]>> \o @]
           step == [k \in 1 .. L |-> [c \in Chains |-> put(k, c)]]
           Is(f) == f = [k \in 0 .. L |-> IF k = 0 THEN base ELSE put(k, f[k-1])]
<1>1. /\ L \in Nat /\ \A k \in 1 .. L : taken[k] \in Strings
      /\ \A j, k \in 1 .. L : taken[j] = taken[k] => j = k
      /\ H!ToSet(taken) = {taken[k] : k \in 1 .. L}
      BY DistinctIsSeq, ToSetIs DEF Distinct
<1> HIDE DEF L
<1>2. \A k \in 1 .. L : hashv[taken[k]] % n \in 0 .. n - 1  BY <1>1, InABucket
<1>3. base \in Chains  OBVIOUS
<1>4. ASSUME NEW k \in 1 .. L, NEW c \in Chains
      PROVE  /\ put(k, c) \in Chains
             /\ \A b \in 0 .. n - 1 :
                  put(k, c)[b] = IF hashv[taken[k]] % n = b THEN <<taken[k]>> \o c[b]
                                 ELSE c[b]
  <2> DEFINE a == hashv[taken[k]] % n
             x == taken[k]
  <2>1. a \in 0 .. n - 1 /\ x \in Strings  BY <1>1, <1>2
  <2> HIDE DEF a, x
  <2>2. c[a] \in Seq(Strings) /\ <<x>> \o c[a] \in Seq(Strings)  BY <2>1
  <2>3. [c EXCEPT ![a] = <<x>> \o c[a]] \in Chains  BY <2>2
  <2>4. \A b \in 0 .. n - 1 : [c EXCEPT ![a] = <<x>> \o c[a]][b]
                               = IF a = b THEN <<x>> \o c[b] ELSE c[b]
        BY <2>1
  <2> QED  BY <2>3, <2>4 DEF a, x
<1> HIDE DEF base
<1>5. step \in [1 .. L -> [Chains -> Chains]]
  <2> HIDE DEF put, Chains
  <2> QED  BY <1>4
<1> HIDE DEF step
<1>6. PICK f : f \in NaturalNumbers!Run(L, Chains, base, step)
  <2> HIDE DEF Chains
  <2> QED  BY <1>1, <1>3, <1>5, NaturalNumbers!Recursion
<1>7. /\ f \in [0 .. L -> Chains] /\ f[0] = base
      /\ \A k \in 1 .. L : f[k] = step[k][f[k-1]]
      BY <1>6 DEF NaturalNumbers!Run
<1>8. ASSUME NEW k \in 1 .. L PROVE f[k] = put(k, f[k-1])
  <2> HIDE DEF put, Chains
  <2>1. f[k-1] \in Chains  BY <1>1, <1>7
  <2> QED  BY <1>7, <2>1 DEF step
<1>9. Is(f)
  <2> HIDE DEF put, Chains
  <2>1. \A k \in 0 .. L : f[k] = IF k = 0 THEN base ELSE put(k, f[k-1])
        BY <1>7, <1>8, <1>1
  <2> QED  BY <1>7, <2>1
<1> DEFINE g == CHOOSE g : Is(g)
<1>10. Is(g)
  <2>1. \E q : Is(q)  BY <1>9
  <2> QED  BY <2>1
<1>11. H!Rehashed(taken, n) = g[L]
       BY DEF H!Rehashed, H!HASH_TO_BKT, H!HASH_VALUE, L, base
<1> HIDE DEF g
<1>12. g[0] = base /\ \A k \in 1 .. L : g[k] = put(k, g[k-1])
  <2> HIDE DEF put
  <2>1. \A k \in 0 .. L : g[k] = IF k = 0 THEN base ELSE put(k, g[k-1])  BY <1>10
  <2>2. \A k \in 1 .. L : k \in 0 .. L /\ k # 0  BY <1>1
  <2>3. 0 \in 0 .. L  BY <1>1
  <2> QED  BY <2>1, <2>2, <2>3
<1> HIDE DEF Is, put
<1> DEFINE Upto(k) == {taken[j] : j \in 1 .. k}
           In(k, b) == {x \in Upto(k) : hashv[x] % n = b}
           Good(k, c) == c \in Chains /\ \A b \in 0 .. n - 1 :
                           Distinct(c[b]) /\ H!ToSet(c[b]) = In(k, b)
           good == {k \in 0 .. L : Good(k, g[k])}
<1>13. 0 \in good
  <2>1. \A b \in 0 .. n - 1 : base[b] = <<>>  BY DEF base
  <2>2. Distinct(<<>>) /\ H!ToSet(<<>>) = {}  BY DEF Distinct, H!ToSet
  <2>3. \A b \in 0 .. n - 1 : In(0, b) = {}  OBVIOUS
  <2> HIDE DEF In
  <2>4. Good(0, base)  BY <2>1, <2>2, <2>3, <1>3
  <2> HIDE DEF Good
  <2> QED  BY <2>4, <1>1, <1>12
<1>14. ASSUME NEW k \in 1 .. L, k - 1 \in good PROVE k \in good
  <2> DEFINE c == g[k-1]
             x == taken[k]
  <2>1. Good(k - 1, c) /\ g[k] = put(k, c) /\ k \in 0 .. L
    <3> HIDE DEF Good
    <3> QED  BY <1>1, <1>12, <1>14
  <2> HIDE DEF c
  <2>2. x \in Strings /\ x \notin Upto(k - 1)
    <3>1. \A j \in 1 .. k - 1 : j \in 1 .. L /\ j # k  BY <1>1
    <3> QED  BY <3>1, <1>1
  <2>3. Upto(k) = Upto(k - 1) \union {x}
    <3>1. 1 .. k = (1 .. k - 1) \union {k}  BY <1>1
    <3> QED  BY <3>1
  <2>4. c \in Chains  BY <2>1
  <2>5. /\ put(k, c) \in Chains
        /\ \A b \in 0 .. n - 1 :
             put(k, c)[b] = IF hashv[x] % n = b THEN <<x>> \o c[b] ELSE c[b]
    <3> HIDE DEF Chains
    <3> QED  BY <2>4, <1>4
  <2> HIDE DEF x, Upto
  <2>6. ASSUME NEW b \in 0 .. n - 1
        PROVE  Distinct(put(k, c)[b]) /\ H!ToSet(put(k, c)[b]) = In(k, b)
    <3>1. Distinct(c[b]) /\ H!ToSet(c[b]) = In(k - 1, b)  BY <2>1
    <3>2. CASE hashv[x] % n = b
      <4>1. In(k, b) = {x} \union In(k - 1, b)  BY <2>3, <3>2
      <4>2. x \notin In(k - 1, b)  BY <2>2
      <4> HIDE DEF In
      <4>3. Distinct(<<x>> \o c[b]) /\ H!ToSet(<<x>> \o c[b]) = {x} \union H!ToSet(c[b])
            BY <3>1, <4>2, <2>2, PutInFront
      <4> QED  BY <3>1, <3>2, <4>1, <4>3, <2>5
    <3>3. CASE hashv[x] % n # b
      <4>1. In(k, b) = In(k - 1, b)  BY <2>3, <3>3
      <4> QED  BY <3>1, <3>3, <4>1, <2>5
    <3> QED  BY <3>2, <3>3
  <2>7. Good(k, g[k])  BY <2>1, <2>5, <2>6
  <2> HIDE DEF Good
  <2> QED  BY <2>1, <2>7
<1>15. 0 .. L \subseteq good
  <2> HIDE DEF good
  <2> QED  BY <1>1, <1>13, <1>14, NaturalNumbers!UpTo
<1>16. Good(L, g[L])
  <2> HIDE DEF Good
  <2> QED  BY <1>1, <1>15
<1>17. Upto(L) = H!ToSet(taken)  BY <1>1
<1> QED  BY <1>11, <1>16, <1>17

LEMMA ExpandMultIsNat ==
  ASSUME NEW ideal \in Nat, NEW n \in Nat
  PROVE  H!ExpandMult(ideal, n) \in Nat
<1> DEFINE more(k, x) == IF k <= ideal THEN 0 ELSE IF k > x * ideal THEN x + 1 ELSE x
           step == [k \in 1 .. n |-> [x \in Nat |-> more(k, x)]]
           Is(f) == f = [k \in 0 .. n |-> IF k <= ideal THEN 0
                                         ELSE IF k > f[k-1] * ideal THEN f[k-1] + 1
                                         ELSE f[k-1]]
<1>1. ASSUME NEW k \in 1 .. n, NEW x \in Nat PROVE more(k, x) \in Nat
  <2>1. more(k, x) \in {0, x + 1, x}  OBVIOUS
  <2> QED  BY <2>1
<1> HIDE DEF more
<1>2. step \in [1 .. n -> [Nat -> Nat]]  BY <1>1
<1> HIDE DEF step
<1>3. PICK f : f \in NaturalNumbers!Run(n, Nat, 0, step)
  <2>1. 0 \in Nat  OBVIOUS
  <2> QED  BY <1>2, <2>1, NaturalNumbers!Recursion
<1>4. /\ f \in [0 .. n -> Nat] /\ f[0] = 0
      /\ \A k \in 1 .. n : f[k] = step[k][f[k-1]]
      BY <1>3 DEF NaturalNumbers!Run
<1>5. ASSUME NEW k \in 1 .. n PROVE f[k] = more(k, f[k-1])
  <2>1. f[k-1] \in Nat  BY <1>4
  <2> QED  BY <1>4, <2>1 DEF step
<1>6. Is(f)
  <2>1. ASSUME NEW k \in 0 .. n
        PROVE  f[k] = IF k <= ideal THEN 0 ELSE IF k > f[k-1] * ideal THEN f[k-1] + 1
                                           ELSE f[k-1]
    <3>1. CASE k = 0  BY <3>1, <1>4
    <3>2. CASE k # 0
      <4>1. k \in 1 .. n  BY <3>2
      <4> QED  BY <4>1, <1>5 DEF more
    <3> QED  BY <3>1, <3>2
  <2> QED  BY <1>4, <2>1
<1> DEFINE g == CHOOSE g : Is(g)
<1>7. Is(g)
  <2>1. \E q : Is(q)  BY <1>6
  <2> QED  BY <2>1
<1>8. H!ExpandMult(ideal, n) = g[n]  BY DEF H!ExpandMult
<1> HIDE DEF g
<1>9. ASSUME NEW k \in 0 .. n PROVE g[k] = more(k, g[k-1])  BY <1>7 DEF more
<1> HIDE DEF Is
<1> DEFINE good == {k \in 0 .. n : g[k] \in Nat}
<1>10. 0 \in good
  <2>1. g[0] = 0  BY <1>9 DEF more
  <2> QED  BY <2>1
<1>11. ASSUME NEW k \in 1 .. n, k - 1 \in good PROVE k \in good
  <2>1. g[k] = more(k, g[k-1]) /\ k \in 0 .. n /\ g[k-1] \in Nat  BY <1>9, <1>11
  <2> QED  BY <2>1, <1>1
<1>12. 0 .. n \subseteq good
  <2> HIDE DEF good
  <2> QED  BY <1>10, <1>11, NaturalNumbers!UpTo
<1> QED  BY <1>8, <1>12

LEMMA BesideIs ==
  ASSUME NEW s, Distinct(s), NEW k \in 1 .. Len(s)
  PROVE  /\ H!Beside(s, s[k], 1) = IF k = Len(s) THEN None ELSE s[k+1]
         /\ H!Beside(s, s[k], -1) = IF k = 1 THEN None ELSE s[k-1]
<1> DEFINE j == CHOOSE j \in DOMAIN s : s[j] = s[k]
<1>1. Len(s) \in Nat /\ DOMAIN s = 1 .. Len(s)  BY DistinctIsSeq
<1>2. j \in DOMAIN s /\ s[j] = s[k]  BY <1>1
<1>3. j = k  BY <1>1, <1>2 DEF Distinct
<1>4. /\ H!Beside(s, s[k], 1) = IF j + 1 \in DOMAIN s THEN s[j+1] ELSE None
      /\ H!Beside(s, s[k], -1) = IF j + (-1) \in DOMAIN s THEN s[j + (-1)] ELSE None
      BY DEF H!Beside
<1> HIDE DEF j
<1> DEFINE n == Len(s)
<1>5. n \in Nat /\ k \in 1 .. n  BY <1>1
<1> HIDE DEF n
<1>6. k + 1 \in 1 .. n <=> k # n  BY <1>5
<1>7. k + (-1) = k - 1 /\ (k - 1 \in 1 .. n <=> k # 1)  BY <1>5
<1> QED  BY <1>1, <1>3, <1>4, <1>6, <1>7 DEF n

(* Twice the buckets hold the same items. *)
LEMMA ExpandedIsHash ==
  ASSUME hashv \in [Strings -> Nat], NEW t, NEW n, NEW app, NEW ch,
         IsHash(hashv, t, n, app, ch)
  PROVE  \E more : IsHash(hashv, H!HASH_EXPAND_BUCKETS(t), 2 * n, app, more)
<1> DEFINE N == 2 * H!num_buckets(t)
           ideal == (t.num_items \div N) + (IF t.num_items % N # 0 THEN 1 ELSE 0)
           taken == H!FlattenSeq([b \in 1 .. (N \div 2) |-> H!Chain(t, b - 1)])
           chain == H!Rehashed(taken, N)
           of(i) == chain[H!HASH_TO_BKT(i, N)]
           nonideal == H!MapThenSumSet(LAMBDA b : IF Len(chain[b]) > ideal
                                                  THEN Len(chain[b]) - ideal ELSE 0,
                                       DOMAIN chain)
           ineff == IF nonideal > t.num_items \div 2 THEN t.ineff_expands + 1 ELSE 0
           buckets == [b \in 0 .. (N - 1) |->
                         [hh_head |-> IF chain[b] = <<>> THEN None ELSE Head(chain[b]),
                          count |-> Len(chain[b]),
                          expand_mult |-> H!ExpandMult(ideal, Len(chain[b]))]]
           hhprev == [i \in Strings |-> IF i \in H!ToSet(taken)
                                        THEN H!Beside(of(i), i, -1) ELSE t.hh_prev[i]]
           hhnext == [i \in Strings |-> IF i \in H!ToSet(taken)
                                        THEN H!Beside(of(i), i, 1) ELSE t.hh_next[i]]
           u == H!HASH_EXPAND_BUCKETS(t)
<1>1. u = [t EXCEPT !.buckets = buckets, !.hh_prev = hhprev, !.hh_next = hhnext,
                    !.ineff_expands = ineff, !.noexpand = t.noexpand \/ ineff > 1]
      BY DEF H!HASH_EXPAND_BUCKETS
<1>2. Listed(t, app) /\ Chained(hashv, t, n, H!ToSet(app), ch)  BY DEF IsHash
<1>3. n \in Nat \ {0} /\ DOMAIN t.buckets = 0 .. n - 1
      /\ t.hh_next \in [Strings -> H!Ptr] /\ t.hh_prev \in [Strings -> H!Ptr]
      BY <1>2 DEF Chained
<1>4. N = 2 * n /\ N \in Nat \ {0} /\ N \div 2 = n
  <2>1. N = 2 * n  BY <1>3, NumBuckets
  <2>2. (2 * n) \div 2 = n  BY <1>3
  <2> QED  BY <2>1, <2>2, <1>3
<1>5. t.num_items \in Nat /\ H!ToSet(app) \subseteq Strings  BY <1>2, ListedIsList
<1>6. ideal \in Nat
  <2> HIDE DEF N
  <2>1. t.num_items \div N \in Nat  BY <1>4, <1>5
  <2> QED  BY <2>1
<1>7. Distinct(taken) /\ H!ToSet(taken) = H!ToSet(app)
  <2>1. taken = H!FlattenSeq([b \in 1 .. n |-> H!Chain(t, b - 1)])  BY <1>4
  <2> HIDE DEF taken
  <2> QED  BY <2>1, TakenIs
<1> HIDE DEF taken, ideal, nonideal, ineff, buckets, hhprev, hhnext, N
<1>8. \A b \in 0 .. N - 1 :
        /\ Distinct(chain[b])
        /\ H!ToSet(chain[b]) = {x \in H!ToSet(app) : hashv[x] % N = b}
  <2>1. \A b \in 0 .. N - 1 :
          /\ Distinct(H!Rehashed(taken, N)[b])
          /\ H!ToSet(H!Rehashed(taken, N)[b]) = {x \in H!ToSet(taken) : hashv[x] % N = b}
        BY <1>4, <1>7, RehashedIs
  <2> QED  BY <2>1, <1>7
<1> HIDE DEF chain, u
<1>9. /\ u.buckets = buckets /\ u.hh_prev = hhprev /\ u.hh_next = hhnext
      /\ u.head = t.head /\ u.tail = t.tail /\ u.num_items = t.num_items
      /\ u.next = t.next /\ u.prev = t.prev
      BY <1>1
<1>10. Listed(u, app)  BY <1>2, <1>9 DEF Listed
<1>11. ASSUME NEW b \in 0 .. N - 1, NEW k \in 1 .. Len(chain[b])
       PROVE  /\ chain[b][k] \in Strings
              /\ hhnext[chain[b][k]] = IF k = Len(chain[b]) THEN None ELSE chain[b][k+1]
              /\ hhprev[chain[b][k]] = IF k = 1 THEN None ELSE chain[b][k-1]
  <2> DEFINE x == chain[b][k]
  <2>1. x \in H!ToSet(chain[b])  BY <1>8, ToSetIs
  <2>2. x \in H!ToSet(taken) /\ hashv[x] % N = b /\ x \in Strings
        BY <2>1, <1>5, <1>7, <1>8
  <2>3. of(x) = chain[b]  BY <2>2 DEF H!HASH_TO_BKT, H!HASH_VALUE
  <2> HIDE DEF of, x
  <2>4. hhnext[x] = H!Beside(of(x), x, 1) /\ hhprev[x] = H!Beside(of(x), x, -1)
        BY <2>2 DEF hhnext, hhprev
  <2>5. Distinct(chain[b])  BY <1>8
  <2> QED  BY <2>2, <2>3, <2>4, <2>5, BesideIs DEF x
<1> HIDE DEF of
<1>12. ASSUME NEW x \in Strings PROVE hhnext[x] \in H!Ptr /\ hhprev[x] \in H!Ptr
  <2>1. CASE x \in H!ToSet(taken)
    <3> DEFINE b == hashv[x] % N
    <3>1. b \in 0 .. N - 1  BY <1>4, InABucket
    <3>2. x \in H!ToSet(chain[b])  BY <3>1, <2>1, <1>7, <1>8
    <3> HIDE DEF b
    <3>3. Distinct(chain[b])  BY <3>1, <1>8
    <3>4. PICK k \in 1 .. Len(chain[b]) : x = chain[b][k]  BY <3>2, <3>3, ToSetIs
    <3>5. /\ Len(chain[b]) \in Nat
          /\ \A j \in 1 .. Len(chain[b]) : chain[b][j] \in Strings
          BY <3>3, DistinctIsSeq
    <3>6. /\ k # Len(chain[b]) => k + 1 \in 1 .. Len(chain[b])
          /\ k # 1 => k - 1 \in 1 .. Len(chain[b])
          BY <3>5
    <3> QED  BY <3>1, <3>4, <3>5, <3>6, <1>11 DEF H!Ptr
  <2>2. CASE x \notin H!ToSet(taken)
    <3>1. hhnext[x] = t.hh_next[x] /\ hhprev[x] = t.hh_prev[x]
          BY <2>2 DEF hhnext, hhprev
    <3> QED  BY <3>1, <1>3
  <2> QED  BY <2>1, <2>2
<1>13. hhnext \in [Strings -> H!Ptr] /\ hhprev \in [Strings -> H!Ptr]
  <2>1. hhnext = [x \in Strings |-> hhnext[x]] /\ hhprev = [x \in Strings |-> hhprev[x]]
        BY DEF hhnext, hhprev
  <2> QED  BY <2>1, <1>12
<1>14. ASSUME NEW b \in 0 .. N - 1
       PROVE  /\ buckets[b] \in H!UT_hash_bucket
              /\ buckets[b].hh_head = IF Len(chain[b]) = 0 THEN None ELSE chain[b][1]
              /\ buckets[b].count = Len(chain[b])
  <2> DEFINE s == chain[b]
             first == IF s = <<>> THEN None ELSE Head(s)
             mult == H!ExpandMult(ideal, Len(s))
  <2>1. /\ s \in Seq(Strings) /\ Len(s) \in Nat
        /\ \A j \in 1 .. Len(s) : s[j] \in Strings
        BY <1>8, DistinctIsSeq
  <2>2. buckets[b] = [hh_head |-> first, count |-> Len(s), expand_mult |-> mult]
        BY DEF buckets
  <2>3. mult \in Nat  BY <2>1, <1>6, ExpandMultIsNat
  <2> HIDE DEF s, mult
  <2>4. first = IF Len(s) = 0 THEN None ELSE s[1]  BY <2>1
  <2>5. first \in H!Ptr
    <3>1. Len(s) # 0 => 1 \in 1 .. Len(s)  BY <2>1
    <3> QED  BY <3>1, <2>1, <2>4 DEF H!Ptr
  <2> HIDE DEF first
  <2> QED  BY <2>1, <2>2, <2>3, <2>4, <2>5 DEF H!UT_hash_bucket, s
<1>15. DOMAIN buckets = 0 .. N - 1  BY DEF buckets
<1>16. ASSUME NEW b \in 0 .. N - 1
       PROVE  IsList(chain[b], buckets[b].hh_head, hhnext, hhprev)
  <2>1. Linked(chain[b], buckets[b].hh_head, hhnext, hhprev)
        BY <1>11, <1>14 DEF Linked
  <2> QED  BY <2>1, <1>8 DEF IsList
<1>17. Chained(hashv, u, N, H!ToSet(app), chain)
       BY <1>4, <1>8, <1>9, <1>13, <1>14, <1>15, <1>16 DEF Chained
<1>18. IsHash(hashv, u, N, app, chain)  BY <1>10, <1>17 DEF IsHash
<1> QED  BY <1>4, <1>18 DEF u

-----------------------------------------------------------------------------
(* uthash.h: HASH_ADD_KEYPTR. *)

(* A bucket, and the pointers of the chains, with an item in front of the chain. *)
BucketWith(bucket, add) ==
  [hh_head |-> add, count |-> bucket.count + 1, expand_mult |-> bucket.expand_mult]

NextWith(next, first, add) == [next EXCEPT ![add] = first]

PrevWith(prev, first, add) ==
  [i \in Strings |-> IF i = add THEN None ELSE IF i = first THEN add ELSE prev[i]]

(* The item is put in front of its chain. *)
LEMMA ChainedWithOneMore ==
  ASSUME hashv \in [Strings -> Nat], NEW t, NEW u, NEW n, NEW S, NEW ch, NEW add \in Strings,
         add \notin S, S \subseteq Strings, Chained(hashv, t, n, S, ch),
         NEW b, b = hashv[add] % n,
         DOMAIN u.buckets = 0 .. n - 1,
         \A c \in 0 .. n - 1 : c # b => u.buckets[c] = t.buckets[c],
         u.buckets[b] = BucketWith(t.buckets[b], add),
         u.hh_next = NextWith(t.hh_next, t.buckets[b].hh_head, add),
         u.hh_prev = PrevWith(t.hh_prev, t.buckets[b].hh_head, add)
  PROVE  \E more : Chained(hashv, u, n, S \union {add}, more)
<1> DEFINE first == t.buckets[b].hh_head
           new == <<add>> \o ch[b]
           more == [c \in 0 .. n - 1 |-> IF c = b THEN new ELSE ch[c]]
           nn == u.hh_next
           pp == u.hh_prev
<1>1. n \in Nat \ {0} /\ t.hh_next \in [Strings -> H!Ptr] /\ t.hh_prev \in [Strings -> H!Ptr]
      BY DEF Chained
<1>2. b \in 0 .. n - 1  BY <1>1, InABucket
<1>3. \A c \in 0 .. n - 1 :
        /\ t.buckets[c] \in H!UT_hash_bucket
        /\ Distinct(ch[c]) /\ Linked(ch[c], t.buckets[c].hh_head, t.hh_next, t.hh_prev)
        /\ t.buckets[c].count = Len(ch[c])
        /\ H!ToSet(ch[c]) = {x \in S : hashv[x] % n = c}
      BY DEF Chained, IsList
<1>4. /\ Distinct(new) /\ H!ToSet(new) = {add} \union H!ToSet(ch[b])
      /\ Len(new) = Len(ch[b]) + 1 /\ new[1] = add
      /\ \A k \in 2 .. Len(ch[b]) + 1 : new[k] = ch[b][k-1]
  <2>1. Distinct(ch[b]) /\ add \notin H!ToSet(ch[b])  BY <1>2, <1>3
  <2> QED  BY <2>1, PutInFront
<1> HIDE DEF new
<1>5. first = IF Len(ch[b]) = 0 THEN None ELSE ch[b][1]  BY <1>2, <1>3 DEF Linked
<1>6. Len(ch[b]) \in Nat /\ \A k \in 1 .. Len(ch[b]) : ch[b][k] \in S /\ ch[b][k] # None
  <2>1. Distinct(ch[b])  BY <1>2, <1>3
  <2>2. H!ToSet(ch[b]) \subseteq S  BY <1>2, <1>3
  <2> QED  BY <2>1, <2>2, DistinctIsSeq, ToSetIs
<1>7. first \in H!Ptr /\ first # add
  <2>1. Len(ch[b]) # 0 => 1 \in 1 .. Len(ch[b])  BY <1>6
  <2>2. add # None  BY NoneAssumption
  <2> QED  BY <2>1, <2>2, <1>5, <1>6 DEF H!Ptr
<1>8. nn = [t.hh_next EXCEPT ![add] = first]
      /\ pp = [i \in Strings |-> IF i = add THEN None
                                ELSE IF i = first THEN add ELSE t.hh_prev[i]]
      BY DEF NextWith, PrevWith
<1> HIDE DEF first, nn, pp
<1>9. /\ nn[add] = first /\ pp[add] = None
      /\ \A x \in Strings : x # add => nn[x] = t.hh_next[x]
      /\ \A x \in Strings : x # add /\ x # first => pp[x] = t.hh_prev[x]
      /\ first \in Strings => pp[first] = add
      BY <1>1, <1>7, <1>8
<1>10. nn \in [Strings -> H!Ptr] /\ pp \in [Strings -> H!Ptr]
  <2>1. nn \in [Strings -> H!Ptr]  BY <1>1, <1>7, <1>8
  <2>2. None \in H!Ptr /\ add \in H!Ptr  BY DEF H!Ptr
  <2>3. \A x \in Strings : pp[x] \in H!Ptr  BY <2>2, <1>1, <1>8
  <2> QED  BY <2>1, <2>3, <1>8
<1>11. Linked(new, add, nn, pp)
  <2> DEFINE m == Len(ch[b])
  <2>1. m \in Nat /\ Len(new) = m + 1  BY <1>4, <1>6
  <2>2. ASSUME NEW k \in 1 .. m + 1
        PROVE  /\ nn[new[k]] = IF k = m + 1 THEN None ELSE new[k+1]
               /\ pp[new[k]] = IF k = 1 THEN None ELSE new[k-1]
    <3>1. CASE k = 1
      <4>1. ASSUME m # 0 PROVE new[k+1] = ch[b][1]
        <5>1. 2 \in 2 .. m + 1 /\ k + 1 = 2 /\ 2 - 1 = 1  BY <2>1, <3>1, <4>1
        <5>2. new[2] = ch[b][2-1]  BY <5>1, <1>4
        <5> QED  BY <5>1, <5>2
      <4>2. m # 0 => new[k+1] = ch[b][1]  BY <4>1
      <4>3. nn[new[k]] = first /\ pp[new[k]] = None  BY <3>1, <1>4, <1>9
      <4> QED  BY <4>2, <4>3, <3>1, <1>5, <2>1
    <3>2. CASE k # 1
      <4> DEFINE j == k - 1
      <4>1. j \in 1 .. m /\ k \in 2 .. m + 1 /\ k = j + 1  BY <3>2, <2>1
      <4>2. new[k] = ch[b][j]  BY <4>1, <1>4
      <4>3. ch[b][j] \in Strings /\ ch[b][j] # add  BY <4>1, <1>6
      <4>4. /\ t.hh_next[ch[b][j]] = IF j = m THEN None ELSE ch[b][j+1]
            /\ t.hh_prev[ch[b][j]] = IF j = 1 THEN None ELSE ch[b][j-1]
            BY <4>1, <1>2, <1>3 DEF Linked
      <4>5. j # m => k + 1 \in 2 .. m + 1 /\ (k + 1) - 1 = j + 1  BY <4>1
      <4>6. nn[new[k]] = IF k = m + 1 THEN None ELSE new[k+1]
        <5>1. nn[new[k]] = IF j = m THEN None ELSE ch[b][j+1]  BY <4>2, <4>3, <4>4, <1>9
        <5>2. ASSUME j # m PROVE new[k+1] = ch[b][j+1]
          <6>1. k + 1 \in 2 .. m + 1 /\ (k + 1) - 1 = j + 1  BY <5>2, <4>5
          <6>2. new[k+1] = ch[b][(k+1)-1]
            <7> HIDE DEF j
            <7> QED  BY <6>1, <1>4
          <6> QED  BY <6>1, <6>2
        <5>3. j = m <=> k = m + 1  BY <4>1
        <5> QED  BY <5>1, <5>2, <5>3
      <4>7. CASE j = 1
        <5>1. 1 \in 1 .. m /\ m # 0  BY <4>1, <4>7, <2>1
        <5>2. first = ch[b][1] /\ first \in Strings  BY <5>1, <4>3, <4>7, <1>5
        <5>3. pp[new[k]] = add  BY <5>2, <4>2, <4>7, <1>9
        <5>4. k - 1 = 1  BY <4>7
        <5> QED  BY <5>3, <5>4, <4>6, <3>2, <1>4
      <4>8. CASE j # 1
        <5>1. 1 \in 1 .. m /\ m # 0 /\ j - 1 \in 1 .. m /\ k - 1 \in 2 .. m + 1
              /\ (k - 1) - 1 = j - 1
              BY <4>1, <4>8, <2>1
        <5>2. ch[b][j] # ch[b][1]  BY <5>1, <4>1, <4>8, <1>2, <1>3 DEF Distinct
        <5>3. pp[new[k]] = ch[b][j-1]
          <6>1. first = ch[b][1]  BY <5>1, <1>5
          <6>2. pp[ch[b][j]] = t.hh_prev[ch[b][j]]  BY <6>1, <5>2, <4>3, <1>9
          <6> QED  BY <6>2, <4>2, <4>4, <4>8
        <5>4. new[k-1] = ch[b][j-1]  BY <5>1, <1>4
        <5> QED  BY <5>3, <5>4, <4>6, <3>2
      <4> QED  BY <4>7, <4>8
    <3> QED  BY <3>1, <3>2
  <2> HIDE DEF m
  <2>3. Len(new) # 0  BY <2>1
  <2> QED  BY <2>1, <2>2, <2>3, <1>4 DEF Linked
<1>12. ASSUME NEW c \in 0 .. n - 1, c # b
       PROVE  Linked(ch[c], t.buckets[c].hh_head, nn, pp)
  <2>1. ASSUME NEW k \in 1 .. Len(ch[c])
        PROVE  /\ ch[c][k] \in Strings /\ ch[c][k] # add /\ ch[c][k] # first
    <3>1. ch[c][k] \in H!ToSet(ch[c])  BY <1>3, ToSetIs
    <3>2. ch[c][k] \in S /\ hashv[ch[c][k]] % n = c  BY <3>1, <1>3
    <3>3. first # None => first \in H!ToSet(ch[b])
      <4>1. Len(ch[b]) # 0 => 1 \in 1 .. Len(ch[b])  BY <1>6
      <4>2. Distinct(ch[b])  BY <1>2, <1>3
      <4> QED  BY <4>1, <4>2, <1>5, ToSetIs
    <3>4. first # None => hashv[first] % n = b  BY <3>3, <1>2, <1>3
    <3>5. ch[c][k] # None  BY <3>2, NoneAssumption
    <3> QED  BY <3>2, <3>4, <3>5, <1>12
  <2>2. Linked(ch[c], t.buckets[c].hh_head, t.hh_next, t.hh_prev)  BY <1>3
  <2>3. \A k \in 1 .. Len(ch[c]) : /\ nn[ch[c][k]] = t.hh_next[ch[c][k]]
                                   /\ pp[ch[c][k]] = t.hh_prev[ch[c][k]]
        BY <2>1, <1>9
  <2> QED  BY <2>2, <2>3 DEF Linked
<1>13. \A c \in 0 .. n - 1 : more[c] = IF c = b THEN new ELSE ch[c]  OBVIOUS
<1> HIDE DEF more
<1>14. ASSUME NEW c \in 0 .. n - 1
       PROVE  /\ u.buckets[c] \in H!UT_hash_bucket
              /\ IsList(more[c], u.buckets[c].hh_head, nn, pp)
              /\ u.buckets[c].count = Len(more[c])
              /\ H!ToSet(more[c]) = {x \in S \union {add} : hashv[x] % n = c}
  <2>1. CASE c = b
    <3>1. more[c] = new  BY <2>1, <1>13
    <3>2. t.buckets[b] \in H!UT_hash_bucket /\ t.buckets[b].count = Len(ch[b])
          BY <1>2, <1>3
    <3>3. u.buckets[c].hh_head = add /\ u.buckets[c].count = Len(ch[b]) + 1
          /\ u.buckets[c].expand_mult = t.buckets[b].expand_mult
          BY <2>1, <3>2 DEF BucketWith
    <3>4. u.buckets[c] \in H!UT_hash_bucket
      <4>1. t.buckets[b].count + 1 \in Nat /\ t.buckets[b].expand_mult \in Nat
            BY <3>2 DEF H!UT_hash_bucket
      <4>2. add \in H!Ptr  BY DEF H!Ptr
      <4> QED  BY <4>1, <4>2, <2>1 DEF H!UT_hash_bucket, BucketWith
    <3>5. H!ToSet(new) = {x \in S \union {add} : hashv[x] % n = c}
      <4>1. H!ToSet(ch[b]) = {x \in S : hashv[x] % n = b}  BY <1>2, <1>3
      <4> QED  BY <4>1, <2>1, <1>4
    <3> QED  BY <3>1, <3>3, <3>4, <3>5, <1>4, <1>11 DEF IsList
  <2>2. CASE c # b
    <3>1. more[c] = ch[c] /\ u.buckets[c] = t.buckets[c]  BY <2>2, <1>13
    <3>2. {x \in S \union {add} : hashv[x] % n = c} = {x \in S : hashv[x] % n = c}
          BY <2>2
    <3> QED  BY <3>1, <3>2, <2>2, <1>3, <1>12 DEF IsList
  <2> QED  BY <2>1, <2>2
<1>15. Chained(hashv, u, n, S \union {add}, more)
       BY <1>1, <1>10, <1>14 DEF Chained, nn, pp
<1> QED  BY <1>15

LEMMA AddedToBucket ==
  ASSUME hashv \in [Strings -> Nat], NEW t, NEW n, NEW app, NEW ch, NEW add \in H!ToSet(app),
         Listed(t, app), Chained(hashv, t, n, H!ToSet(app) \ {add}, ch)
  PROVE  \E m, more : IsHash(hashv, H!HASH_ADD_TO_BKT(t, add), m, app, more)
<1> DEFINE b == H!HASH_TO_BKT(add, H!num_buckets(t))
           was == t.buckets[b]
           bucket == BucketWith(was, add)
           pp == PrevWith(t.hh_prev, was.hh_head, add)
           added == [t EXCEPT !.buckets[b] = bucket, !.hh_next[add] = was.hh_head,
                              !.hh_prev = pp]
           full == was.count + 1 >= (was.expand_mult + 1) * Threshold /\ ~ t.noexpand
<1>1. H!HASH_ADD_TO_BKT(t, add) = IF full THEN H!HASH_EXPAND_BUCKETS(added) ELSE added
      BY DEF H!HASH_ADD_TO_BKT, BucketWith, PrevWith
<1>2. n \in Nat \ {0} /\ DOMAIN t.buckets = 0 .. n - 1
      BY DEF Chained
<1>3. H!ToSet(app) \subseteq Strings /\ add \in Strings  BY ListedIsList
<1>4. b = hashv[add] % n
  <2>1. H!num_buckets(t) = n  BY <1>2, NumBuckets
  <2> QED  BY <2>1 DEF H!HASH_TO_BKT, H!HASH_VALUE
<1>5. b \in 0 .. n - 1  BY <1>2, <1>3, <1>4, InABucket
<1> HIDE DEF b, full, bucket, pp
<1>6. /\ added.buckets = [t.buckets EXCEPT ![b] = bucket]
      /\ added.hh_next = [t.hh_next EXCEPT ![add] = was.hh_head] /\ added.hh_prev = pp
      /\ added.head = t.head /\ added.tail = t.tail /\ added.num_items = t.num_items
      /\ added.next = t.next /\ added.prev = t.prev
      OBVIOUS
<1> HIDE DEF added
<1>7. /\ DOMAIN added.buckets = 0 .. n - 1
      /\ \A c \in 0 .. n - 1 : c # b => added.buckets[c] = t.buckets[c]
      /\ added.buckets[b] = bucket
      BY <1>2, <1>5, <1>6
<1>8. \E more : Chained(hashv, added, n, (H!ToSet(app) \ {add}) \union {add}, more)
  <2> DEFINE S == H!ToSet(app) \ {add}
  <2>1. add \notin S /\ S \subseteq Strings /\ Chained(hashv, t, n, S, ch)  BY <1>3
  <2>2. added.buckets[b] = BucketWith(t.buckets[b], add)  BY <1>7 DEF bucket
  <2>3. added.hh_prev = PrevWith(t.hh_prev, t.buckets[b].hh_head, add)  BY <1>6 DEF pp
  <2>4. added.hh_next = NextWith(t.hh_next, t.buckets[b].hh_head, add)  BY <1>6 DEF NextWith
  <2> HIDE DEF S
  <2>5. \E more : Chained(hashv, added, n, S \union {add}, more)
        BY <2>1, <2>2, <2>3, <2>4, <1>3, <1>4, <1>7, ChainedWithOneMore
  <2> QED  BY <2>5 DEF S
<1>9. (H!ToSet(app) \ {add}) \union {add} = H!ToSet(app)  OBVIOUS
<1>10. PICK more : Chained(hashv, added, n, H!ToSet(app), more)  BY <1>8, <1>9
<1>11. Listed(added, app)  BY <1>6 DEF Listed
<1>12. IsHash(hashv, added, n, app, more)  BY <1>10, <1>11 DEF IsHash
<1>13. CASE full
  <2>1. \E more2 : IsHash(hashv, H!HASH_EXPAND_BUCKETS(added), 2 * n, app, more2)
        BY <1>12, ExpandedIsHash
  <2> QED  BY <2>1, <1>1, <1>13
<1>14. CASE ~ full  BY <1>1, <1>12, <1>14
<1> QED  BY <1>13, <1>14

LEMMA PutAtTheEnd ==
  ASSUME NEW s, Distinct(s), NEW x \in Strings, x \notin H!ToSet(s)
  PROVE  LET more == Append(s, x)
         IN /\ Distinct(more) /\ H!ToSet(more) = H!ToSet(s) \union {x}
            /\ Len(more) = Len(s) + 1 /\ more[Len(s) + 1] = x
            /\ \A k \in 1 .. Len(s) : more[k] = s[k]
<1> DEFINE more == Append(s, x)
           n == Len(s)
<1>1. /\ s \in Seq(Strings) /\ n \in Nat
      /\ \A j, k \in 1 .. n : s[j] = s[k] => j = k
      /\ H!ToSet(s) = {s[k] : k \in 1 .. n}
      BY DistinctIsSeq, ToSetIs DEF Distinct
<1>2. /\ more \in Seq(Strings) /\ Len(more) = n + 1 /\ DOMAIN more = 1 .. n + 1
      /\ more[n + 1] = x /\ \A k \in 1 .. n : more[k] = s[k]
      BY <1>1
<1> HIDE DEF more, n
<1>3. \A k \in 1 .. n : s[k] # x  BY <1>1
<1>4. \A k \in 1 .. n + 1 : k = n + 1 \/ k \in 1 .. n  BY <1>1
<1>5. \A j, k \in 1 .. n + 1 : more[j] = more[k] => j = k  BY <1>1, <1>2, <1>3, <1>4
<1>6. Distinct(more)  BY <1>2, <1>5 DEF Distinct
<1>7. H!ToSet(more) = {more[k] : k \in 1 .. n + 1}  BY <1>2 DEF H!ToSet
<1>8. n + 1 \in 1 .. n + 1 /\ \A k \in 1 .. n : k \in 1 .. n + 1  BY <1>1
<1>9. H!ToSet(more) = H!ToSet(s) \union {x}  BY <1>1, <1>2, <1>4, <1>7, <1>8
<1> QED  BY <1>2, <1>6, <1>9 DEF more, n

(* The item is put at the end of the application's list, and counted. *)
LEMMA AppendedToList ==
  ASSUME NEW t, NEW app, Listed(t, app), NEW add \in Strings, add \notin H!ToSet(app)
  PROVE  LET u == [H!HASH_APPEND_LIST(t, add) EXCEPT
                     !.num_items = H!HASH_APPEND_LIST(t, add).num_items + 1]
         IN /\ Listed(u, Append(app, add))
            /\ u.buckets = t.buckets /\ u.hh_next = t.hh_next /\ u.hh_prev = t.hh_prev
<1> DEFINE a == H!HASH_APPEND_LIST(t, add)
           u == [a EXCEPT !.num_items = a.num_items + 1]
           nn == [t.next EXCEPT ![add] = None, ![t.tail] = add]
           pp == [t.prev EXCEPT ![add] = t.tail]
           more == Append(app, add)
           n == Len(app)
           last == t.tail
<1>1. a = [t EXCEPT !.next = nn, !.prev[add] = t.tail, !.tail = add]
      BY DEF H!HASH_APPEND_LIST
<1> HIDE DEF a, nn
<1>2. /\ a.next = nn /\ a.prev = pp /\ a.tail = add /\ a.head = t.head
      /\ a.num_items = t.num_items /\ a.buckets = t.buckets
      /\ a.hh_next = t.hh_next /\ a.hh_prev = t.hh_prev
      BY <1>1
<1>3. /\ u.next = nn /\ u.prev = pp /\ u.tail = add /\ u.head = t.head
      /\ u.num_items = t.num_items + 1 /\ u.buckets = t.buckets
      /\ u.hh_next = t.hh_next /\ u.hh_prev = t.hh_prev
      BY <1>2
<1>4. /\ t.next \in [Strings -> H!Ptr] /\ t.prev \in [Strings -> H!Ptr]
      /\ n \in Nat /\ n > 0 /\ t.num_items = n /\ last = app[n] /\ t.head = app[1]
      /\ Distinct(app) /\ n \in 1 .. n /\ 1 \in 1 .. n
      /\ \A k \in 1 .. n : /\ t.next[app[k]] = IF k = n THEN None ELSE app[k+1]
                           /\ t.prev[app[k]] = IF k = 1 THEN None ELSE app[k-1]
  <2>1. Distinct(app) /\ n \in Nat /\ t.num_items = n /\ t.head = app[1]  BY ListedIsList
  <2> QED  BY <2>1 DEF Listed, IsList, Linked
<1>5. /\ Distinct(more) /\ Len(more) = n + 1 /\ more[n + 1] = add
      /\ \A k \in 1 .. n : more[k] = app[k]
      BY <1>4, PutAtTheEnd
<1>6. \A k \in 1 .. n : app[k] \in Strings /\ app[k] # add
      BY <1>4, DistinctIsSeq, ToSetIs
<1>7. last \in Strings /\ last # add  BY <1>4, <1>6
<1> HIDE DEF u, pp, more, n, last
<1>8. /\ nn \in [Strings -> H!Ptr] /\ pp \in [Strings -> H!Ptr]
      /\ nn[add] = None /\ nn[last] = add /\ pp[add] = last
      /\ \A x \in Strings : x # add /\ x # last => nn[x] = t.next[x]
      /\ \A x \in Strings : x # add => pp[x] = t.prev[x]
  <2>1. None \in H!Ptr /\ add \in H!Ptr /\ last \in H!Ptr  BY <1>7 DEF H!Ptr
  <2>2. nn = [[t.next EXCEPT ![add] = None] EXCEPT ![last] = add]  BY DEF nn, last
  <2>3. pp = [t.prev EXCEPT ![add] = last]  BY DEF pp, last
  <2> QED  BY <1>4, <1>7, <2>1, <2>2, <2>3
<1>9. ASSUME NEW k \in 1 .. n + 1
      PROVE  /\ nn[more[k]] = IF k = n + 1 THEN None ELSE more[k+1]
             /\ pp[more[k]] = IF k = 1 THEN None ELSE more[k-1]
  <2>1. CASE k = n + 1
    <3>1. more[k] = add /\ k # 1 /\ more[k-1] = app[n]  BY <2>1, <1>4, <1>5
    <3> QED  BY <2>1, <3>1, <1>4, <1>8
  <2>2. CASE k # n + 1
    <3>1. k \in 1 .. n /\ (k # 1 => k - 1 \in 1 .. n) /\ (k # n => k + 1 \in 1 .. n)
          BY <2>2, <1>4
    <3>2. more[k] = app[k] /\ app[k] \in Strings /\ app[k] # add  BY <3>1, <1>5, <1>6
    <3>3. pp[more[k]] = IF k = 1 THEN None ELSE more[k-1]
          BY <3>1, <3>2, <1>4, <1>5, <1>8
    <3>4. CASE k = n
      <4>1. nn[more[k]] = add  BY <3>2, <3>4, <1>4, <1>8
      <4> QED  BY <4>1, <3>3, <3>4, <2>2, <1>5
    <3>5. CASE k # n
      <4>1. app[k] # last  BY <3>1, <3>5, <1>4 DEF Distinct, n
      <4>2. nn[more[k]] = app[k+1]  BY <4>1, <3>1, <3>2, <3>5, <1>4, <1>8
      <4> QED  BY <4>2, <3>1, <3>3, <3>5, <2>2, <1>5
    <3> QED  BY <3>4, <3>5
  <2> QED  BY <2>1, <2>2
<1>10. n + 1 > 0 /\ n + 1 # 0 /\ more[1] = app[1]  BY <1>4, <1>5
<1>11. Linked(more, t.head, nn, pp)  BY <1>4, <1>5, <1>9, <1>10 DEF Linked
<1>12. Listed(u, more)
       BY <1>3, <1>4, <1>5, <1>8, <1>10, <1>11 DEF Listed, IsList
<1> QED  BY <1>3, <1>12 DEF u, a, more

(* The item that a table is made for. *)
LEMMA MadeForOne ==
  ASSUME NEW h \in [Strings -> Nat], NEW add \in Strings
  PROVE  LET u == [H!HASH_MAKE_TABLE(add) EXCEPT
                     !.num_items = H!HASH_MAKE_TABLE(add).num_items + 1]
         IN /\ Listed(u, <<add>>)
            /\ Chained(h, u, InitialBuckets, {}, [b \in 0 .. InitialBuckets - 1 |-> <<>>])
<1> DEFINE a == H!HASH_MAKE_TABLE(add)
           u == [a EXCEPT !.num_items = a.num_items + 1]
           none == [i \in Strings |-> None]
           buckets == H!EmptyBuckets(InitialBuckets)
           app == <<add>>
           n == InitialBuckets
           ch == [b \in 0 .. n - 1 |-> <<>>]
<1>1. /\ a.head = add /\ a.tail = add /\ a.num_items = 0 /\ a.buckets = buckets
      /\ a.next = none /\ a.prev = none /\ a.hh_next = none /\ a.hh_prev = none
      BY DEF H!HASH_MAKE_TABLE, H!NULL
<1> HIDE DEF a
<1>2. /\ u.head = add /\ u.tail = add /\ u.num_items = 1 /\ u.buckets = buckets
      /\ u.next = none /\ u.prev = none /\ u.hh_next = none /\ u.hh_prev = none
      BY <1>1
<1>3. none \in [Strings -> H!Ptr]  BY DEF H!Ptr
<1>4. app \in Seq(Strings) /\ Len(app) = 1 /\ app[1] = add  OBVIOUS
<1>5. \A k \in 1 .. 1 : k = 1  OBVIOUS
<1>6. Distinct(app)  BY <1>4, <1>5 DEF Distinct
<1>7. Listed(u, app)
  <2>1. none[add] = None  OBVIOUS
  <2> HIDE DEF u, none, app
  <2>2. Linked(app, add, none, none)  BY <2>1, <1>4, <1>5 DEF Linked
  <2> QED  BY <2>2, <1>2, <1>3, <1>4, <1>6 DEF Listed, IsList
<1>8. n \in Nat \ {0}  BY BucketsAssumption
<1>9. DOMAIN buckets = 0 .. n - 1
      /\ \A b \in 0 .. n - 1 : buckets[b] = [hh_head |-> None, count |-> 0, expand_mult |-> 0]
      BY DEF H!EmptyBuckets
<1>10. Distinct(<<>>) /\ H!ToSet(<<>>) = {} /\ Len(<<>>) = 0  BY DEF Distinct, H!ToSet
<1>11. \A b \in 0 .. n - 1 : ch[b] = <<>>  OBVIOUS
<1> HIDE DEF u, none, app, n, ch, buckets
<1>12. ASSUME NEW b \in 0 .. n - 1
       PROVE  /\ buckets[b] \in H!UT_hash_bucket
              /\ IsList(<<>>, buckets[b].hh_head, none, none)
              /\ buckets[b].count = Len(<<>>)
              /\ H!ToSet(<<>>) = {x \in {} : h[x] % n = b}
  <2>1. buckets[b] \in H!UT_hash_bucket  BY <1>9 DEF H!UT_hash_bucket, H!Ptr
  <2>2. Linked(<<>>, None, none, none)
    <3>1. 1 .. 0 = {}  OBVIOUS
    <3> QED  BY <3>1, <1>10 DEF Linked
  <2> QED  BY <2>1, <2>2, <1>9, <1>10 DEF IsList
<1>13. Chained(h, u, n, {}, ch)
       BY <1>2, <1>3, <1>8, <1>9, <1>11, <1>12 DEF Chained
<1> QED  BY <1>7, <1>13 DEF u, a, app, n, ch

(* HASH_ADD_KEYPTR, of an item that is not there: it comes last. *)
LEMMA AddedIsHash ==
  ASSUME hashv \in [Strings -> Nat], NEW t, NEW n, NEW app, NEW ch,
         IsHash(hashv, t, n, app, ch), NEW add \in Strings, add \notin H!ToSet(app)
  PROVE  /\ \E m, more : IsHash(hashv, H!HASH_ADD_KEYPTR(t, add), m, Append(app, add), more)
         /\ H!ToSet(Append(app, add)) = H!ToSet(app) \union {add}
<1> DEFINE a == H!HASH_APPEND_LIST(t, add)
           u == [a EXCEPT !.num_items = a.num_items + 1]
           all == Append(app, add)
<1>1. Listed(t, app) /\ Chained(hashv, t, n, H!ToSet(app), ch)  BY DEF IsHash
<1>2. t.head # None  BY <1>1, ListedIsList
<1>3. H!HASH_ADD_KEYPTR(t, add) = H!HASH_ADD_TO_BKT(u, add)
      BY <1>2 DEF H!HASH_ADD_KEYPTR, H!HASH_ADD_TO_TABLE
<1>4. /\ Listed(u, all)
      /\ u.buckets = t.buckets /\ u.hh_next = t.hh_next /\ u.hh_prev = t.hh_prev
      BY <1>1, AppendedToList
<1>5. H!ToSet(all) = H!ToSet(app) \union {add}  BY <1>1, ListedIsList, PutAtTheEnd
<1> HIDE DEF u, all
<1>6. H!ToSet(all) \ {add} = H!ToSet(app) /\ add \in H!ToSet(all)  BY <1>5
<1>7. Chained(hashv, u, n, H!ToSet(all) \ {add}, ch)  BY <1>1, <1>4, <1>6 DEF Chained
<1>8. \E m, more : IsHash(hashv, H!HASH_ADD_TO_BKT(u, add), m, all, more)
      BY <1>4, <1>6, <1>7, AddedToBucket
<1> QED  BY <1>3, <1>5, <1>8 DEF all

(* The first item of all. *)
LEMMA FirstIsHash ==
  ASSUME hashv \in [Strings -> Nat], NEW add \in Strings
  PROVE  /\ \E m, more : IsHash(hashv, H!HASH_ADD_KEYPTR(H!NULL, add), m, <<add>>, more)
         /\ H!ToSet(<<add>>) = {add}
<1> DEFINE a == H!HASH_MAKE_TABLE(add)
           u == [a EXCEPT !.num_items = a.num_items + 1]
           n == InitialBuckets
           ch == [b \in 0 .. n - 1 |-> <<>>]
           one == <<add>>
<1>1. H!HASH_ADD_KEYPTR(H!NULL, add) = H!HASH_ADD_TO_BKT(u, add)
      BY DEF H!HASH_ADD_KEYPTR, H!HASH_ADD_TO_TABLE, H!NULL
<1>2. Listed(u, one) /\ Chained(hashv, u, n, {}, ch)  BY MadeForOne
<1>3. H!ToSet(one) = {add}
  <2>1. DOMAIN one = {1} /\ one[1] = add  OBVIOUS
  <2> HIDE DEF one
  <2> QED  BY <2>1 DEF H!ToSet
<1> HIDE DEF u, n, ch, one
<1>4. H!ToSet(one) \ {add} = {} /\ add \in H!ToSet(one)  BY <1>3
<1>5. Chained(hashv, u, n, H!ToSet(one) \ {add}, ch)  BY <1>2, <1>4
<1>6. \E m, more : IsHash(hashv, H!HASH_ADD_TO_BKT(u, add), m, one, more)
      BY <1>2, <1>4, <1>5, AddedToBucket
<1> QED  BY <1>1, <1>3, <1>6 DEF one

-----------------------------------------------------------------------------
(* uthash.h: HASH_DELETE. *)

Without(s, p) == [k \in 1 .. Len(s) - 1 |-> IF k < p THEN s[k] ELSE s[k+1]]

LEMMA TakenOut ==
  ASSUME NEW s, Distinct(s), NEW p \in 1 .. Len(s)
  PROVE  LET r == Without(s, p)
         IN /\ Distinct(r) /\ Len(r) = Len(s) - 1
            /\ H!ToSet(r) = H!ToSet(s) \ {s[p]}
<1> DEFINE r == Without(s, p)
           n == Len(s)
<1>1. /\ n \in Nat /\ p \in 1 .. n /\ \A k \in 1 .. n : s[k] \in Strings
      /\ \A j, k \in 1 .. n : s[j] = s[k] => j = k
      /\ H!ToSet(s) = {s[k] : k \in 1 .. n}
      BY DistinctIsSeq, ToSetIs DEF Distinct
<1>2. r = [k \in 1 .. n - 1 |-> IF k < p THEN s[k] ELSE s[k+1]]  BY DEF Without
<1> HIDE DEF r, n
<1>3. \A k \in 1 .. n - 1 : /\ k \in 1 .. n /\ k + 1 \in 1 .. n
                            /\ r[k] = IF k < p THEN s[k] ELSE s[k+1]
      BY <1>1, <1>2
<1>4. \A k \in 1 .. n - 1 : r[k] \in Strings  BY <1>1, <1>3
<1>5. r \in Seq(Strings) /\ Len(r) = n - 1 /\ DOMAIN r = 1 .. n - 1
  <2>1. n - 1 \in Nat  BY <1>1
  <2>2. r \in [1 .. n - 1 -> Strings]  BY <1>2, <1>4
  <2> QED  BY <2>1, <2>2
<1>6. ASSUME NEW j \in 1 .. n - 1, NEW k \in 1 .. n - 1, r[j] = r[k] PROVE j = k
  <2>1. /\ j \in 1 .. n /\ j + 1 \in 1 .. n /\ k \in 1 .. n /\ k + 1 \in 1 .. n
        /\ r[j] = IF j < p THEN s[j] ELSE s[j+1]
        /\ r[k] = IF k < p THEN s[k] ELSE s[k+1]
        BY <1>3
  <2>2. CASE j < p /\ k < p  BY <2>1, <2>2, <1>1, <1>6
  <2>3. CASE j < p /\ ~ (k < p)
    <3>1. j = k + 1  BY <2>1, <2>3, <1>1, <1>6
    <3> QED  BY <3>1, <2>3, <1>1
  <2>4. CASE ~ (j < p) /\ k < p
    <3>1. j + 1 = k  BY <2>1, <2>4, <1>1, <1>6
    <3> QED  BY <3>1, <2>4, <1>1
  <2>5. CASE ~ (j < p) /\ ~ (k < p)
    <3>1. j + 1 = k + 1  BY <2>1, <2>5, <1>1, <1>6
    <3> QED  BY <3>1
  <2> QED  BY <2>2, <2>3, <2>4, <2>5
<1>7. Distinct(r)  BY <1>5, <1>6 DEF Distinct
<1>8. H!ToSet(r) = {r[k] : k \in 1 .. n - 1}  BY <1>5 DEF H!ToSet
<1>9. ASSUME NEW k \in 1 .. n - 1 PROVE r[k] \in H!ToSet(s) /\ r[k] # s[p]
  <2>1. CASE k < p
    <3>1. k \in 1 .. n /\ k # p /\ r[k] = s[k]  BY <2>1, <1>1, <1>3
    <3> QED  BY <3>1, <1>1
  <2>2. CASE ~ (k < p)
    <3>1. k + 1 \in 1 .. n /\ k + 1 # p  BY <2>2, <1>1
    <3> QED  BY <3>1, <2>2, <1>1, <1>3
  <2> QED  BY <2>1, <2>2
<1>10. ASSUME NEW k \in 1 .. n, s[k] # s[p] PROVE s[k] \in H!ToSet(r)
  <2>1. CASE k < p
    <3>1. k \in 1 .. n - 1  BY <2>1, <1>1
    <3> QED  BY <3>1, <2>1, <1>3, <1>8
  <2>2. CASE ~ (k < p)
    <3>1. k # p  BY <1>10
    <3>2. k - 1 \in 1 .. n - 1 /\ ~ (k - 1 < p) /\ (k - 1) + 1 = k  BY <3>1, <2>2, <1>1
    <3>3. r[k-1] = s[k]  BY <3>2, <1>3
    <3> QED  BY <3>2, <3>3, <1>8
  <2> QED  BY <2>1, <2>2
<1>11. H!ToSet(r) = H!ToSet(s) \ {s[p]}  BY <1>1, <1>8, <1>9, <1>10
<1> QED  BY <1>5, <1>7, <1>11 DEF r, n

(* Both neighbours are joined, and nothing else is touched. *)
Unlinked(s, p, first, next, prev, nn, pp) ==
  /\ nn \in [Strings -> H!Ptr] /\ pp \in [Strings -> H!Ptr]
  /\ IsList(Without(s, p), IF first = s[p] THEN next[s[p]] ELSE first, nn, pp)
  /\ \A x \in Strings \ H!ToSet(s) : nn[x] = next[x] /\ pp[x] = prev[x]

LEMMA UnlinkedIsList ==
  ASSUME NEW s, NEW first, NEW next \in [Strings -> H!Ptr], NEW prev \in [Strings -> H!Ptr],
         IsList(s, first, next, prev), NEW p \in 1 .. Len(s)
  PROVE  Unlinked(s, p, first, next, prev,
                  H!Unlink(next, prev[s[p]], next[s[p]]),
                  H!Unlink(prev, next[s[p]], prev[s[p]]))
<1> DEFINE before == prev[s[p]]
           after == next[s[p]]
           nn == H!Unlink(next, before, after)
           pp == H!Unlink(prev, after, before)
           r == Without(s, p)
           n == Len(s)
           head == IF first = s[p] THEN after ELSE first
<1>1. /\ n \in Nat /\ p \in 1 .. n /\ \A k \in 1 .. n : s[k] \in Strings /\ s[k] # None
      /\ \A j, k \in 1 .. n : s[j] = s[k] => j = k
      /\ H!ToSet(s) = {s[k] : k \in 1 .. n} /\ Distinct(s)
      BY DistinctIsSeq, ToSetIs DEF Distinct, IsList
<1>2. /\ first = IF n = 0 THEN None ELSE s[1]
      /\ \A k \in 1 .. n : /\ next[s[k]] = IF k = n THEN None ELSE s[k+1]
                           /\ prev[s[k]] = IF k = 1 THEN None ELSE s[k-1]
      BY DEF IsList, Linked
<1>3. Distinct(r) /\ Len(r) = n - 1  BY <1>1, TakenOut
<1>4. r = [k \in 1 .. n - 1 |-> IF k < p THEN s[k] ELSE s[k+1]]  BY DEF Without
<1>5. /\ nn = [x \in Strings |-> IF x = before THEN after ELSE next[x]]
      /\ pp = [x \in Strings |-> IF x = after THEN before ELSE prev[x]]
      BY DEF H!Unlink
<1> HIDE DEF nn, pp, r, n
<1>6. before \in H!Ptr /\ after \in H!Ptr  BY <1>1
<1> HIDE DEF before, after
<1>7. nn \in [Strings -> H!Ptr] /\ pp \in [Strings -> H!Ptr]
  <2>1. \A x \in Strings : nn[x] \in H!Ptr /\ pp[x] \in H!Ptr  BY <1>5, <1>6
  <2> QED  BY <2>1, <1>5
<1>8. /\ before = IF p = 1 THEN None ELSE s[p-1]
      /\ after = IF p = n THEN None ELSE s[p+1]
      /\ p # 1 => p - 1 \in 1 .. n
      /\ p # n => p + 1 \in 1 .. n
      BY <1>1, <1>2 DEF before, after
<1>9. \A k \in 1 .. n : /\ s[k] = before <=> (p # 1 /\ k = p - 1)
                        /\ s[k] = after <=> (p # n /\ k = p + 1)
      BY <1>1, <1>8
<1>10. \A k \in 1 .. n :
         /\ nn[s[k]] = IF p # 1 /\ k = p - 1 THEN after ELSE next[s[k]]
         /\ pp[s[k]] = IF p # n /\ k = p + 1 THEN before ELSE prev[s[k]]
       BY <1>1, <1>5, <1>9
<1>11. \A k \in 1 .. n - 1 : /\ k \in 1 .. n /\ k + 1 \in 1 .. n
                             /\ r[k] = IF k < p THEN s[k] ELSE s[k+1]
       BY <1>1, <1>4
<1>12. ASSUME NEW k \in 1 .. n - 1
       PROVE  /\ nn[r[k]] = IF k = n - 1 THEN None ELSE r[k+1]
              /\ pp[r[k]] = IF k = 1 THEN None ELSE r[k-1]
  <2>1. /\ k # n - 1 => k + 1 \in 1 .. n - 1
        /\ k # 1 => k - 1 \in 1 .. n - 1
        BY <1>1
  <2>2. CASE k < p
    <3>1. k \in 1 .. n /\ r[k] = s[k] /\ k # n  BY <2>2, <1>1, <1>11
    <3>2. pp[r[k]] = IF k = 1 THEN None ELSE r[k-1]
      <4>1. ~ (k = p + 1) /\ (k # 1 => k - 1 < p)  BY <2>2, <1>1
      <4>2. pp[r[k]] = prev[s[k]]  BY <3>1, <4>1, <1>10
      <4>3. k # 1 => r[k-1] = s[k-1]  BY <4>1, <2>1, <1>11
      <4> QED  BY <3>1, <4>2, <4>3, <1>2
    <3>3. CASE k = p - 1
      <4>1. nn[r[k]] = after  BY <3>1, <3>3, <1>1, <1>10
      <4>2. p = n <=> k = n - 1  BY <3>3, <1>1
      <4>3. k # n - 1 => r[k+1] = s[p+1]
        <5>1. ~ (k + 1 < p) /\ (k + 1) + 1 = p + 1  BY <3>3, <1>1
        <5> QED  BY <5>1, <2>1, <1>11
      <4> QED  BY <3>2, <4>1, <4>2, <4>3, <1>8
    <3>4. CASE k # p - 1
      <4>1. k + 1 < p /\ k # n - 1  BY <2>2, <3>4, <1>1
      <4>2. nn[r[k]] = s[k+1]  BY <3>1, <3>4, <1>2, <1>10
      <4>3. r[k+1] = s[k+1]  BY <4>1, <2>1, <1>11
      <4> QED  BY <3>2, <4>1, <4>2, <4>3
    <3> QED  BY <3>3, <3>4
  <2>3. CASE ~ (k < p)
    <3> DEFINE j == k + 1
    <3>1. j \in 1 .. n /\ r[k] = s[j] /\ j # 1  BY <2>3, <1>1, <1>11
    <3>2. nn[r[k]] = IF k = n - 1 THEN None ELSE r[k+1]
      <4>1. ~ (j = p - 1)  BY <2>3, <1>1
      <4>2. nn[r[k]] = IF j = n THEN None ELSE s[j+1]  BY <3>1, <4>1, <1>2, <1>10
      <4>3. j = n <=> k = n - 1  BY <1>1
      <4>4. k # n - 1 => r[k+1] = s[j+1]
        <5>1. ~ (k + 1 < p)  BY <2>3, <1>1
        <5> QED  BY <5>1, <2>1, <1>11
      <4> HIDE DEF j
      <4> QED  BY <4>2, <4>3, <4>4
    <3>3. CASE k = p
      <4>1. p # n /\ j = p + 1  BY <3>3, <1>1
      <4>2. pp[r[k]] = before  BY <3>1, <4>1, <1>10
      <4>3. k # 1 => r[k-1] = s[p-1]
        <5>1. k - 1 < p  BY <3>3, <1>1
        <5> QED  BY <5>1, <2>1, <3>3, <1>11
      <4> QED  BY <3>2, <3>3, <4>2, <4>3, <1>8
    <3>4. CASE k # p
      <4>1. ~ (j = p + 1) /\ k # 1 /\ ~ (k - 1 < p) /\ (k - 1) + 1 = j - 1
            BY <2>3, <3>4, <1>1
      <4>2. pp[r[k]] = s[j-1]  BY <3>1, <4>1, <1>2, <1>10
      <4>3. r[k-1] = s[j-1]
        <5>1. k - 1 \in 1 .. n - 1  BY <4>1, <2>1
        <5>2. r[k-1] = s[(k-1)+1]  BY <5>1, <4>1, <1>11
        <5> QED  BY <5>2, <4>1
      <4> QED  BY <3>2, <4>1, <4>2, <4>3
    <3> QED  BY <3>3, <3>4
  <2> QED  BY <2>2, <2>3
<1>13. head = IF n - 1 = 0 THEN None ELSE r[1]
  <2>1. first = s[1] /\ 1 \in 1 .. n  BY <1>1, <1>2
  <2>2. CASE p = 1
    <3>1. head = IF n = 1 THEN None ELSE s[2]  BY <2>1, <2>2, <1>8
    <3>2. n # 1 => 1 \in 1 .. n - 1 /\ ~ (1 < p) /\ 1 + 1 = 2  BY <2>2, <1>1
    <3>3. n # 1 => r[1] = s[2]  BY <3>2, <1>11
    <3> QED  BY <3>1, <3>3, <1>1
  <2>3. CASE p # 1
    <3>1. head = s[1]  BY <2>1, <2>3, <1>1
    <3>2. 1 \in 1 .. n - 1 /\ 1 < p  BY <2>3, <1>1
    <3>3. r[1] = s[1]  BY <3>2, <1>11
    <3> QED  BY <3>1, <3>2, <3>3, <1>1
  <2> QED  BY <2>2, <2>3
<1> HIDE DEF head
<1>14. Linked(r, head, nn, pp)  BY <1>3, <1>12, <1>13 DEF Linked
<1>15. ASSUME NEW x \in Strings \ H!ToSet(s) PROVE nn[x] = next[x] /\ pp[x] = prev[x]
  <2>1. x # None  BY NoneAssumption
  <2>2. x # before /\ x # after  BY <2>1, <1>1, <1>8
  <2> QED  BY <2>2, <1>5
<1> QED  BY <1>3, <1>7, <1>14, <1>15 DEF Unlinked, IsList, nn, pp, r, head, before, after

(* The item leaves the chain of its bucket. *)
SameList(u, t) ==
  /\ u.head = t.head /\ u.tail = t.tail /\ u.num_items = t.num_items
  /\ u.next = t.next /\ u.prev = t.prev

LEMMA TakenFromBucket ==
  ASSUME hashv \in [Strings -> Nat], NEW t, NEW n, NEW S, S \subseteq Strings, NEW ch,
         Chained(hashv, t, n, S, ch), NEW del \in S
  PROVE  \E less : /\ Chained(hashv, H!HASH_DEL_IN_BKT(t, del), n, S \ {del}, less)
                   /\ SameList(H!HASH_DEL_IN_BKT(t, del), t)
<1> DEFINE b == H!HASH_TO_BKT(del, H!num_buckets(t))
           before == t.hh_prev[del]
           after == t.hh_next[del]
           was == t.buckets[b]
           bucket == [hh_head |-> IF was.hh_head = del THEN after ELSE was.hh_head,
                      count |-> was.count - 1, expand_mult |-> was.expand_mult]
           nn == H!Unlink(t.hh_next, before, after)
           pp == H!Unlink(t.hh_prev, after, before)
           u == H!HASH_DEL_IN_BKT(t, del)
<1>1. u = [t EXCEPT !.buckets[b] = bucket, !.hh_next = nn, !.hh_prev = pp]
      BY DEF H!HASH_DEL_IN_BKT
<1>2. n \in Nat \ {0} /\ DOMAIN t.buckets = 0 .. n - 1
      /\ t.hh_next \in [Strings -> H!Ptr] /\ t.hh_prev \in [Strings -> H!Ptr]
      BY DEF Chained
<1>3. b = hashv[del] % n
  <2>1. H!num_buckets(t) = n  BY <1>2, NumBuckets
  <2> QED  BY <2>1 DEF H!HASH_TO_BKT, H!HASH_VALUE
<1>4. b \in 0 .. n - 1  BY <1>2, <1>3, InABucket
<1> HIDE DEF b, u, bucket, nn, pp, before, after
<1>5. /\ u.buckets = [t.buckets EXCEPT ![b] = bucket]
      /\ u.hh_next = nn /\ u.hh_prev = pp
      /\ u.head = t.head /\ u.tail = t.tail /\ u.num_items = t.num_items
      /\ u.next = t.next /\ u.prev = t.prev
      BY <1>1
<1>6. /\ DOMAIN u.buckets = 0 .. n - 1
      /\ \A c \in 0 .. n - 1 : c # b => u.buckets[c] = t.buckets[c]
      /\ u.buckets[b] = bucket
      BY <1>2, <1>4, <1>5
<1>7. \A c \in 0 .. n - 1 :
        /\ t.buckets[c] \in H!UT_hash_bucket
        /\ IsList(ch[c], t.buckets[c].hh_head, t.hh_next, t.hh_prev) /\ Distinct(ch[c])
        /\ t.buckets[c].count = Len(ch[c])
        /\ H!ToSet(ch[c]) = {x \in S : hashv[x] % n = c}
      BY DEF Chained, IsList
<1>8. del \in H!ToSet(ch[b])  BY <1>3, <1>4, <1>7
<1>9. PICK p \in 1 .. Len(ch[b]) : del = ch[b][p]  BY <1>4, <1>7, <1>8, ToSetIs
<1> DEFINE r == Without(ch[b], p)
           less == [c \in 0 .. n - 1 |-> IF c = b THEN r ELSE ch[c]]
<1>10. /\ nn \in [Strings -> H!Ptr] /\ pp \in [Strings -> H!Ptr]
       /\ IsList(r, IF was.hh_head = del THEN after ELSE was.hh_head, nn, pp)
       /\ \A x \in Strings \ H!ToSet(ch[b]) : nn[x] = t.hh_next[x] /\ pp[x] = t.hh_prev[x]
  <2> DEFINE first == was.hh_head
             s == ch[b]
             next == t.hh_next
             prev == t.hh_prev
  <2>1. next \in [Strings -> H!Ptr] /\ prev \in [Strings -> H!Ptr]
        /\ IsList(s, first, next, prev) /\ p \in 1 .. Len(s)
        BY <1>2, <1>4, <1>7, <1>9
  <2>2. before = prev[s[p]] /\ after = next[s[p]] /\ del = s[p]
        BY <1>9 DEF before, after
  <2> HIDE DEF first, s, next, prev
  <2>3. Unlinked(s, p, first, next, prev,
                 H!Unlink(next, prev[s[p]], next[s[p]]),
                 H!Unlink(prev, next[s[p]], prev[s[p]]))
        BY <2>1, UnlinkedIsList
  <2>4. Unlinked(s, p, first, next, prev,
                 H!Unlink(next, before, after), H!Unlink(prev, after, before))
        BY <2>2, <2>3
  <2> QED  BY <2>2, <2>4 DEF Unlinked, first, s, next, prev, nn, pp
<1>11. Distinct(r) /\ Len(r) = Len(ch[b]) - 1 /\ H!ToSet(r) = H!ToSet(ch[b]) \ {del}
       BY <1>4, <1>7, <1>9, TakenOut
<1>12. Len(ch[b]) \in Nat /\ Len(ch[b]) - 1 \in Nat
  <2>1. Len(ch[b]) \in Nat  BY <1>4, <1>7, DistinctIsSeq
  <2> QED  BY <2>1, <1>9
<1>13. \A c \in 0 .. n - 1 : less[c] = IF c = b THEN r ELSE ch[c]  OBVIOUS
<1> HIDE DEF less, r
<1>14. bucket.hh_head = (IF was.hh_head = del THEN after ELSE was.hh_head)
       /\ bucket.count = Len(ch[b]) - 1 /\ bucket \in H!UT_hash_bucket
  <2>1. was \in H!UT_hash_bucket /\ was.count = Len(ch[b])  BY <1>4, <1>7
  <2>2. after \in H!Ptr  BY <1>2 DEF after
  <2>3. was.hh_head \in H!Ptr /\ was.expand_mult \in Nat  BY <2>1 DEF H!UT_hash_bucket
  <2> HIDE DEF was
  <2>4. bucket.hh_head \in H!Ptr  BY <2>2, <2>3 DEF bucket
  <2> QED  BY <2>1, <2>2, <2>3, <2>4, <1>12 DEF bucket, H!UT_hash_bucket
<1>15. ASSUME NEW c \in 0 .. n - 1
       PROVE  /\ u.buckets[c] \in H!UT_hash_bucket
              /\ IsList(less[c], u.buckets[c].hh_head, nn, pp)
              /\ u.buckets[c].count = Len(less[c])
              /\ H!ToSet(less[c]) = {x \in S \ {del} : hashv[x] % n = c}
  <2>1. CASE c = b
    <3>1. less[c] = r /\ u.buckets[c] = bucket  BY <2>1, <1>6, <1>13
    <3>2. H!ToSet(ch[b]) = {x \in S : hashv[x] % n = c}  BY <2>1, <1>4, <1>7
    <3> HIDE DEF was
    <3> QED  BY <3>1, <3>2, <1>10, <1>11, <1>14
  <2>2. CASE c # b
    <3>1. less[c] = ch[c] /\ u.buckets[c] = t.buckets[c]  BY <2>2, <1>6, <1>13
    <3>2. {x \in S \ {del} : hashv[x] % n = c} = {x \in S : hashv[x] % n = c}
          BY <2>2, <1>3
    <3>3. ASSUME NEW k \in 1 .. Len(ch[c])
          PROVE  nn[ch[c][k]] = t.hh_next[ch[c][k]] /\ pp[ch[c][k]] = t.hh_prev[ch[c][k]]
      <4>1. ch[c][k] \in H!ToSet(ch[c])  BY <1>7, ToSetIs
      <4>2. ch[c][k] \in Strings \ H!ToSet(ch[b])  BY <4>1, <2>2, <1>4, <1>7
      <4> QED  BY <4>2, <1>10
    <3>4. IsList(ch[c], t.buckets[c].hh_head, nn, pp)
          BY <3>3, <1>7 DEF IsList, Linked
    <3> QED  BY <3>1, <3>2, <3>4, <1>7
  <2> QED  BY <2>1, <2>2
<1>16. Chained(hashv, u, n, S \ {del}, less)
       BY <1>2, <1>5, <1>6, <1>10, <1>15 DEF Chained
<1> QED  BY <1>5, <1>16 DEF u, SameList

(* HASH_DELETE of the first item: the rest is a hash, or there is none.     *)
LEMMA DeletedIsHash ==
  ASSUME hashv \in [Strings -> Nat], NEW t, NEW n, NEW app, NEW ch,
         IsHash(hashv, t, n, app, ch)
  PROVE  LET u == H!HASH_DELETE(t, t.head)
         IN \/ u = H!NULL /\ H!ToSet(app) = {t.head}
            \/ \E less, m, c : /\ IsHash(hashv, u, m, less, c)
                               /\ H!ToSet(less) = H!ToSet(app) \ {t.head}
<1> DEFINE del == t.head
           before == t.prev[del]
           after == t.next[del]
           tail == IF t.tail = del THEN before ELSE t.tail
           head == IF before = None THEN after ELSE t.head
           nn == H!Unlink(t.next, before, after)
           pp == H!Unlink(t.prev, after, before)
           v == [t EXCEPT !.tail = tail, !.head = head, !.next = nn, !.prev = pp,
                          !.num_items = t.num_items - 1]
           u == H!HASH_DELETE(t, del)
           N == Len(app)
           r == Without(app, 1)
<1>1. u = IF before = None /\ after = None THEN H!NULL ELSE H!HASH_DEL_IN_BKT(v, del)
      BY DEF H!HASH_DELETE
<1>2. Listed(t, app) /\ Chained(hashv, t, n, H!ToSet(app), ch)  BY DEF IsHash
<1>3. /\ Distinct(app) /\ N \in Nat /\ N > 0 /\ t.num_items = N /\ del = app[1]
      /\ t.tail = app[N] /\ IsList(app, t.head, t.next, t.prev)
      /\ t.next \in [Strings -> H!Ptr] /\ t.prev \in [Strings -> H!Ptr]
      /\ H!ToSet(app) \subseteq Strings /\ del \in H!ToSet(app)
      BY <1>2, ListedIsList DEF Listed
<1>4. 1 \in 1 .. N /\ N \in 1 .. N /\ before = None
      /\ after = IF N = 1 THEN None ELSE app[2]
  <2>1. N \in Nat /\ N > 0  BY <1>3
  <2>2. \A k \in 1 .. N : /\ t.next[app[k]] = IF k = N THEN None ELSE app[k+1]
                          /\ t.prev[app[k]] = IF k = 1 THEN None ELSE app[k-1]
        BY <1>3 DEF IsList, Linked
  <2>3. del = app[1]  BY <1>3
  <2> HIDE DEF N, del
  <2>4. 1 \in 1 .. N /\ N \in 1 .. N  BY <2>1
  <2> QED  BY <2>2, <2>3, <2>4
<1>5. \A k \in 1 .. N : app[k] \in Strings /\ app[k] # None  BY <1>3, DistinctIsSeq
<1> HIDE DEF u, v, nn, pp
<1>6. /\ v.tail = tail /\ v.head = head /\ v.next = nn /\ v.prev = pp
      /\ v.num_items = N - 1 /\ v.buckets = t.buckets
      /\ v.hh_next = t.hh_next /\ v.hh_prev = t.hh_prev
      BY <1>3 DEF v
<1>7. Distinct(r) /\ Len(r) = N - 1 /\ H!ToSet(r) = H!ToSet(app) \ {del}
      BY <1>3, <1>4, TakenOut
<1>8. CASE N = 1
  <2>1. u = H!NULL  BY <1>1, <1>4, <1>8
  <2>2. H!ToSet(app) = {del}
    <3>1. H!ToSet(app) = {app[k] : k \in 1 .. N}  BY <1>3, ToSetIs
    <3>2. \A k \in 1 .. N : k = 1  BY <1>8
    <3> HIDE DEF N, del
    <3> QED  BY <3>1, <3>2, <1>3, <1>4
  <2> QED  BY <2>1, <2>2 DEF u
<1>9. CASE N # 1
  <2>1. after # None /\ N - 1 > 0
        /\ N - 1 \in 1 .. N - 1 /\ ~ (N - 1 < 1) /\ (N - 1) + 1 = N
    <3>1. N \in Nat /\ N > 0 /\ N # 1  BY <1>3, <1>9
    <3> HIDE DEF N, after
    <3>2. 2 \in 1 .. N  BY <3>1
    <3> QED  BY <3>1, <3>2, <1>4, <1>5
  <2>2. u = H!HASH_DEL_IN_BKT(v, del)  BY <2>1, <1>1
  <2>3. /\ nn \in [Strings -> H!Ptr] /\ pp \in [Strings -> H!Ptr]
        /\ IsList(r, IF t.head = app[1] THEN after ELSE t.head, nn, pp)
    <3> DEFINE next == t.next
               prev == t.prev
               first == t.head
               p == 1
    <3>1. /\ next \in [Strings -> H!Ptr] /\ prev \in [Strings -> H!Ptr]
          /\ IsList(app, first, next, prev) /\ p \in 1 .. Len(app)
          BY <1>3, <1>4
    <3>2. before = prev[app[p]] /\ after = next[app[p]]  BY <1>3
    <3> HIDE DEF next, prev, first, before, after, p
    <3>3. Unlinked(app, p, first, next, prev,
                   H!Unlink(next, prev[app[p]], next[app[p]]),
                   H!Unlink(prev, next[app[p]], prev[app[p]]))
          BY <3>1, UnlinkedIsList
    <3>4. Unlinked(app, p, first, next, prev,
                   H!Unlink(next, before, after), H!Unlink(prev, after, before))
          BY <3>2, <3>3
    <3> QED  BY <3>2, <3>4 DEF Unlinked, next, prev, first, nn, pp, p
  <2>4. IsList(r, head, nn, pp)  BY <2>3, <1>3, <1>4
  <2>5. tail = r[N - 1]
    <3>1. t.tail # del  BY <1>3, <1>4, <1>9 DEF Distinct
    <3>2. r[N - 1] = app[N]
      <4> HIDE DEF del
      <4> QED  BY <2>1 DEF Without
    <3> QED  BY <3>1, <3>2, <1>3
  <2> HIDE DEF r, head, tail, del
  <2>6. Listed(v, r)  BY <2>1, <2>3, <2>4, <2>5, <1>6, <1>7 DEF Listed
  <2>7. Chained(hashv, v, n, H!ToSet(app), ch)  BY <1>2, <1>6 DEF Chained
  <2>8. PICK less : Chained(hashv, u, n, H!ToSet(app) \ {del}, less) /\ SameList(u, v)
    <3> DEFINE S == H!ToSet(app)
    <3>1. Chained(hashv, v, n, S, ch) /\ S \subseteq Strings /\ del \in S  BY <2>7, <1>3
    <3> HIDE DEF S
    <3>2. \E less : /\ Chained(hashv, H!HASH_DEL_IN_BKT(v, del), n, S \ {del}, less)
                    /\ SameList(H!HASH_DEL_IN_BKT(v, del), v)
          BY <3>1, TakenFromBucket
    <3> QED  BY <3>2, <2>2 DEF S
  <2>9. Listed(u, r)  BY <2>6, <2>8 DEF Listed, SameList
  <2>10. IsHash(hashv, u, n, r, less)  BY <2>8, <2>9, <1>7 DEF IsHash
  <2> QED  BY <2>10, <1>7 DEF u, del
<1> QED  BY <1>8, <1>9

-----------------------------------------------------------------------------
(* The index: the rows its items own. *)

(* The array has the numbers of the rows before one of them that hold the   *)
(* key, in order; or none of them does.                                     *)
RowsOf(a, values, covered, key) ==
  /\ \A k \in 0 .. a.i - 1 : a.d[k] \in 0 .. covered - 1 /\ values[a.d[k]] = key
  /\ \A r \in 0 .. covered - 1 : values[r] = key => \E k \in 0 .. a.i - 1 : a.d[k] = r
  /\ \A j, k \in 0 .. a.i - 1 : j < k => a.d[j] < a.d[k]

NoRowOf(values, covered, key) == \A r \in 0 .. covered - 1 : values[r] # key

Grouped(owned, values, covered) ==
  \A key \in Strings : /\ key \in DOMAIN owned => RowsOf(owned[key], values, covered, key)
                       /\ key \notin DOMAIN owned => NoRowOf(values, covered, key)

(* The next row is put to the others that have its key. *)
LEMMA PushedRow ==
  ASSUME NEW a, ArrayOf(a, Nat), NEW values, NEW covered \in Nat, NEW key,
         values[covered] = key, RowsOf(a, values, covered, key)
  PROVE  RowsOf(A!utarray_push_back(a, covered), values, covered + 1, key)
<1> DEFINE b == A!utarray_push_back(a, covered)
           i == a.i
           d == a.d
           e == b.d
<1>1. b.i = i + 1 /\ e[i] = covered /\ \A k \in 0 .. i - 1 : e[k] = d[k]
      BY PushedIsArray
<1>2. i \in Nat  BY DEF ArrayOf
<1>3. /\ \A k \in 0 .. i - 1 : d[k] \in 0 .. covered - 1 /\ values[d[k]] = key
      /\ \A r \in 0 .. covered - 1 : values[r] = key => \E k \in 0 .. i - 1 : d[k] = r
      /\ \A j, k \in 0 .. i - 1 : j < k => d[j] < d[k]
      BY DEF RowsOf
<1> HIDE DEF b, i, d, e
<1>4. \A k \in 0 .. i : k = i \/ k \in 0 .. i - 1  BY <1>2
<1>5. i \in 0 .. i /\ \A k \in 0 .. i - 1 : k \in 0 .. i /\ k # i  BY <1>2
<1>6. ASSUME NEW k \in 0 .. i PROVE e[k] \in 0 .. covered /\ values[e[k]] = key
  <2>1. CASE k = i
    <3>1. covered \in 0 .. covered  OBVIOUS
    <3> QED  BY <2>1, <3>1, <1>1
  <2>2. CASE k \in 0 .. i - 1
    <3>1. e[k] \in 0 .. covered - 1 /\ values[e[k]] = key  BY <2>2, <1>1, <1>3
    <3> QED  BY <3>1
  <2> QED  BY <2>1, <2>2, <1>4
<1>7. ASSUME NEW r \in 0 .. covered, values[r] = key PROVE \E k \in 0 .. i : e[k] = r
  <2>1. CASE r = covered  BY <2>1, <1>1, <1>5
  <2>2. CASE r # covered
    <3>1. r \in 0 .. covered - 1  BY <2>2
    <3>2. PICK k \in 0 .. i - 1 : d[k] = r  BY <3>1, <1>3, <1>7
    <3> QED  BY <3>2, <1>1, <1>5
  <2> QED  BY <2>1, <2>2
<1>8. ASSUME NEW j \in 0 .. i, NEW k \in 0 .. i, j < k PROVE e[j] < e[k]
  <2>1. j \in 0 .. i - 1  BY <1>2, <1>8
  <2>2. e[j] = d[j] /\ d[j] \in 0 .. covered - 1  BY <2>1, <1>1, <1>3
  <2>3. CASE k = i  BY <2>2, <2>3, <1>1
  <2>4. CASE k \in 0 .. i - 1  BY <2>1, <2>2, <2>4, <1>1, <1>3, <1>8
  <2> QED  BY <2>3, <2>4, <1>4
<1>9. (i + 1) - 1 = i /\ (covered + 1) - 1 = covered  BY <1>2
<1> QED  BY <1>1, <1>6, <1>7, <1>8, <1>9 DEF RowsOf, b, e

LEMMA OneRowMore ==
  ASSUME NEW owned, NEW values, NEW covered \in Nat, NEW key \in Strings,
         values[covered] = key, Grouped(owned, values, covered),
         \A s \in DOMAIN owned : ArrayOf(owned[s], Nat),
         NEW found, found = (IF key \in DOMAIN owned THEN owned[key] ELSE A!utarray_new),
         NEW more, DOMAIN more = DOMAIN owned \union {key},
         more[key] = A!utarray_push_back(found, covered),
         \A s \in DOMAIN owned : s # key => more[s] = owned[s]
  PROVE  /\ Grouped(more, values, covered + 1)
         /\ \A s \in DOMAIN more : ArrayOf(more[s], Nat)
<1>1. ArrayOf(found, Nat) /\ RowsOf(found, values, covered, key)
  <2>1. CASE key \in DOMAIN owned
    <3>1. found = owned[key]  BY <2>1
    <3> QED  BY <2>1, <3>1 DEF Grouped
  <2>2. CASE key \notin DOMAIN owned
    <3>1. found = A!utarray_new  BY <2>2
    <3>2. ArrayOf(found, Nat) /\ found.i = 0  BY <3>1, NewIsEmpty
    <3>3. NoRowOf(values, covered, key)  BY <2>2 DEF Grouped
    <3>4. 0 .. 0 - 1 = {}  OBVIOUS
    <3> QED  BY <3>2, <3>3, <3>4 DEF RowsOf, NoRowOf
  <2> QED  BY <2>1, <2>2
<1>2. ArrayOf(more[key], Nat)  BY <1>1, PushedIsArray
<1>3. RowsOf(more[key], values, covered + 1, key)  BY <1>1, PushedRow
<1>4. \A r \in 0 .. (covered + 1) - 1 : r = covered \/ r \in 0 .. covered - 1  OBVIOUS
<1>5. \A r \in 0 .. covered - 1 : r \in 0 .. (covered + 1) - 1  OBVIOUS
<1>6. ASSUME NEW s \in Strings, s # key
      PROVE  /\ s \in DOMAIN more => RowsOf(more[s], values, covered + 1, s)
             /\ s \notin DOMAIN more => NoRowOf(values, covered + 1, s)
  <2>1. CASE s \in DOMAIN owned
    <3>1. s \in DOMAIN more /\ more[s] = owned[s]  BY <2>1, <1>6
    <3>2. RowsOf(owned[s], values, covered, s)  BY <2>1 DEF Grouped
    <3>3. RowsOf(owned[s], values, covered + 1, s)  BY <3>2, <1>4, <1>5, <1>6 DEF RowsOf
    <3> QED  BY <3>1, <3>3
  <2>2. CASE s \notin DOMAIN owned
    <3>1. s \notin DOMAIN more  BY <2>2, <1>6
    <3>2. NoRowOf(values, covered, s)  BY <2>2 DEF Grouped
    <3>3. NoRowOf(values, covered + 1, s)  BY <3>2, <1>4, <1>6 DEF NoRowOf
    <3> QED  BY <3>1, <3>3
  <2> QED  BY <2>1, <2>2
<1>7. Grouped(more, values, covered + 1)  BY <1>3, <1>6 DEF Grouped
<1> QED  BY <1>2, <1>7

(* A column whose first rows are the same groups them in the same way. *)
LEMMA SameValues ==
  ASSUME NEW owned, NEW values, NEW others, NEW covered \in Nat,
         \A r \in 0 .. covered - 1 : others[r] = values[r],
         Grouped(owned, values, covered)
  PROVE  Grouped(owned, others, covered)
<1>1. ASSUME NEW a, NEW key, RowsOf(a, values, covered, key)
      PROVE  RowsOf(a, others, covered, key)
  BY <1>1 DEF RowsOf
<1>2. ASSUME NEW key, NoRowOf(values, covered, key) PROVE NoRowOf(others, covered, key)
  BY <1>2 DEF NoRowOf
<1> QED  BY <1>1, <1>2 DEF Grouped

(* No step takes a row away or changes one, but for table_destroy. *)
LEMMA ColumnsGrow ==
  ASSUME ColumnsInv, [Next]_vars, table # None, table' # None, NEW c \in DOMAIN table
  PROVE  /\ c \in DOMAIN table' /\ table'[c].i >= table[c].i
         /\ \A r \in 0 .. table[c].i - 1 : table'[c].d[r] = table[c].d[r]
<1> DEFINE n == Len(table)
<1>1. n \in Nat /\ DOMAIN table = 1 .. n /\ c \in 1 .. n
      /\ ArrayOf(table[c], Strings) /\ table[c].i \in Nat
      BY TableAssumption DEF ColumnsInv, ArrayOf
<1>2. CASE table_initialize
  <2>1. table = <<>>  BY <1>2 DEF table_initialize
  <2>2. DOMAIN <<>> = {}  OBVIOUS
  <2> QED  BY <2>1, <2>2
<1>3. CASE table_append_row
  <2>1. PICK row \in Rows(n) :
          table' = [k \in DOMAIN table |-> A!utarray_push_back(table[k], row[k])]
        BY <1>3 DEF table_append_row, column_count
  <2>2. n \in 1 .. MaxColumns
    <3>1. n > 0  BY <1>3 DEF table_append_row, column_count
    <3> QED  BY <3>1 DEF ColumnsInv
  <2>3. row \in [1 .. n -> Strings]  BY <2>2, <2>1, TableAssumption
  <2>4. table'[c] = A!utarray_push_back(table[c], row[c]) /\ row[c] \in Strings
        /\ c \in DOMAIN table'
        BY <2>1, <2>3, <1>1
  <2> HIDE DEF n
  <2> DEFINE a == table[c]
             p == row[c]
  <2>5. ArrayOf(a, Strings) /\ p \in Strings  BY <2>4, <1>1
  <2> HIDE DEF a, p
  <2>6. A!utarray_push_back(a, p).i = a.i + 1
        /\ \A k \in 0 .. a.i - 1 : A!utarray_push_back(a, p).d[k] = a.d[k]
        BY <2>5, PushedIsArray
  <2> QED  BY <2>4, <2>6, <1>1 DEF a, p
<1>4. CASE table_append_column
  <2>1. PICK column \in Columns(ColumnOf(1)) :
          table' = Append(table, NewColumn(column, row_count))
        BY <1>4 DEF table_append_column
  <2>2. c \in DOMAIN table' /\ table'[c] = table[c]
    <3> DEFINE new == NewColumn(column, row_count)
    <3> HIDE DEF new
    <3>1. table' = Append(table, new)  BY <2>1 DEF new
    <3>2. c \in 1 .. n + 1  BY <1>1
    <3> QED  BY <3>1, <3>2, <1>1
  <2> QED  BY <2>2, <1>1
<1>5. CASE UNCHANGED table  BY <1>1, <1>5
<1> QED  BY <1>2, <1>3, <1>4, <1>5
         DEF Next, vars, table_construct, table_destroy, ColumnMissing, ReadBeyond,
             StartIndex, IndexRow, IndexCreated,
             table_index_find, row_index_next, StartDestroy, DestroyItem, IndexDestroyed

-----------------------------------------------------------------------------
(* The inductive invariant of the index. *)

(* Whoever owns row numbers is in the hash. *)
OwnersAreHashed ==
  \/ index = H!NULL /\ DOMAIN rows = {}
  \/ \E n, app, ch : IsHash(hashv, index, n, app, ch) /\ DOMAIN rows = H!ToSet(app)

Covered == IF phase = "creating" THEN next_row ELSE indexed.rows

RowsAreGrouped ==
  /\ indexed.col \in DOMAIN table
  /\ indexed.rows \in 0 .. table[indexed.col].i
  /\ Grouped(rows, table[indexed.col].d, Covered)

IndexInv ==
  /\ hashv \in [Strings -> Nat]
  /\ phase \in {"ready", "creating", "destroying", "crashed", "stale"}
  /\ next_row \in 0 .. MaxRows
  /\ OwnersAreHashed
  /\ \A s \in DOMAIN rows : ArrayOf(rows[s], Nat)
  /\ indexed = None => DOMAIN rows = {}
  /\ phase = "creating" => indexed # None /\ table # None /\ next_row <= indexed.rows
  /\ (indexed # None /\ table # None /\ phase \in {"ready", "creating"}) => RowsAreGrouped

(* There is a hash as long as there is an owner. *)
LEMMA NullIsEmpty ==
  ASSUME OwnersAreHashed
  PROVE  /\ index = H!NULL <=> DOMAIN rows = {}
         /\ index.head = None <=> DOMAIN rows = {}
<1>1. H!NULL.head = None  BY DEF H!NULL
<1>2. ASSUME NEW n, NEW app, NEW ch, IsHash(hashv, index, n, app, ch)
      PROVE  index.head # None /\ index.head \in H!ToSet(app)
  <2>1. Listed(index, app)  BY <1>2 DEF IsHash
  <2> QED  BY <2>1, ListedIsList
<1> QED  BY <1>1, <1>2 DEF OwnersAreHashed

LEMMA FindTellsOwners ==
  ASSUME hashv \in [Strings -> Nat], OwnersAreHashed, NEW key \in Strings
  PROVE  H!HASH_FIND(index, key) = IF key \in DOMAIN rows THEN key ELSE None
<1>1. CASE index = H!NULL /\ DOMAIN rows = {}
  <2>1. index.head = None  BY <1>1, NullIsEmpty
  <2> QED  BY <2>1, <1>1 DEF H!HASH_FIND
<1>2. ASSUME NEW n, NEW app, NEW ch, IsHash(hashv, index, n, app, ch),
             DOMAIN rows = H!ToSet(app)
      PROVE  H!HASH_FIND(index, key) = IF key \in DOMAIN rows THEN key ELSE None
  <2>1. H!HASH_FIND(index, key) = IF key \in H!ToSet(app) THEN key ELSE None
        BY <1>2, FindTells
  <2> QED  BY <2>1, <1>2
<1> QED  BY <1>1, <1>2 DEF OwnersAreHashed

LEMMA AddedOwner ==
  ASSUME hashv \in [Strings -> Nat], OwnersAreHashed, NEW key \in Strings,
         key \notin DOMAIN rows
  PROVE  \E n, app, ch : /\ IsHash(hashv, H!HASH_ADD_KEYPTR(index, key), n, app, ch)
                         /\ H!ToSet(app) = DOMAIN rows \union {key}
<1>1. CASE index = H!NULL /\ DOMAIN rows = {}
  <2> DEFINE one == <<key>>
  <2>1. /\ \E n, ch : IsHash(hashv, H!HASH_ADD_KEYPTR(index, key), n, one, ch)
        /\ H!ToSet(one) = {key}
        BY <1>1, FirstIsHash
  <2> HIDE DEF one
  <2> QED  BY <2>1, <1>1
<1>2. ASSUME NEW n, NEW app, NEW ch, IsHash(hashv, index, n, app, ch),
             DOMAIN rows = H!ToSet(app)
      PROVE  \E m, all, more : /\ IsHash(hashv, H!HASH_ADD_KEYPTR(index, key), m, all, more)
                               /\ H!ToSet(all) = DOMAIN rows \union {key}
  <2> DEFINE all == Append(app, key)
  <2>1. key \notin H!ToSet(app)  BY <1>2
  <2>2. /\ \E m, more : IsHash(hashv, H!HASH_ADD_KEYPTR(index, key), m, all, more)
        /\ H!ToSet(all) = H!ToSet(app) \union {key}
        BY <2>1, <1>2, AddedIsHash
  <2> HIDE DEF all
  <2> QED  BY <2>2, <1>2
<1> QED  BY <1>1, <1>2 DEF OwnersAreHashed

LEMMA IndexRowStep ==
  ASSUME ColumnsInv, IndexInv, IndexRow
  PROVE  IndexInv'
<1> DEFINE col == indexed.col
           values == table[col].d
           key == table_get_value(col, next_row)
           probe == H!HASH_FIND(index, key)
           found == IF probe = None THEN A!utarray_new ELSE rows[probe]
           more == A!utarray_push_back(found, next_row)
           rows2 == [s \in DOMAIN rows \union {key} |-> IF s = key THEN more ELSE rows[s]]
           index2 == IF probe = None THEN H!HASH_ADD_KEYPTR(index, key) ELSE index
<1>1. phase = "creating" /\ next_row < indexed.rows  BY DEF IndexRow
<1>2. rows' = rows2 /\ index' = index2 /\ next_row' = next_row + 1  BY DEF IndexRow
<1>3. UNCHANGED <<table, hashv, phase, indexed, cursor>>  BY DEF IndexRow
<1>4. indexed # None /\ table # None /\ RowsAreGrouped /\ Covered = next_row
      BY <1>1 DEF IndexInv, Covered
<1>5. /\ hashv \in [Strings -> Nat] /\ OwnersAreHashed /\ next_row \in Nat
      /\ \A s \in DOMAIN rows : ArrayOf(rows[s], Nat)
      BY TableAssumption DEF IndexInv
<1>6. /\ col \in DOMAIN table /\ indexed.rows \in 0 .. table[col].i
      /\ Grouped(rows, values, next_row) /\ table[col].i \in 0 .. MaxRows
      /\ ArrayOf(table[col], Strings) /\ MaxRows \in Nat
      BY <1>4, TableAssumption DEF RowsAreGrouped, ColumnsInv
<1>7. key = values[next_row] /\ key \in Strings
  <2>1. next_row < table[col].i  BY <1>1, <1>5, <1>6
  <2>2. A!utarray_eltptr(table[col], next_row) = next_row  BY <2>1 DEF A!utarray_eltptr
  <2>3. next_row # None  BY <1>5, NoneAssumption
  <2>4. next_row \in 0 .. table[col].i - 1  BY <2>1, <1>5, <1>6
  <2> QED  BY <2>2, <2>3, <2>4, <1>6 DEF table_get_value, ArrayOf
<1> HIDE DEF key, values, col
<1>8. probe = IF key \in DOMAIN rows THEN key ELSE None
      BY <1>5, <1>7, FindTellsOwners
<1>9. key # None  BY <1>7, NoneAssumption
<1>10. found = IF key \in DOMAIN rows THEN rows[key] ELSE A!utarray_new  BY <1>8, <1>9
<1> HIDE DEF probe, found
<1>11. /\ DOMAIN rows2 = DOMAIN rows \union {key} /\ rows2[key] = more
       /\ \A s \in DOMAIN rows : s # key => rows2[s] = rows[s]
       OBVIOUS
<1> HIDE DEF rows2
<1>12. Grouped(rows2, values, next_row + 1) /\ \A s \in DOMAIN rows2 : ArrayOf(rows2[s], Nat)
       BY <1>5, <1>6, <1>7, <1>10, <1>11, OneRowMore
<1>13. OwnersAreHashed'
  <2>1. CASE key \in DOMAIN rows
    <3>1. index2 = index  BY <2>1, <1>8, <1>9
    <3>2. DOMAIN rows2 = DOMAIN rows  BY <2>1, <1>11
    <3> HIDE DEF index2
    <3> QED  BY <3>1, <3>2, <1>2, <1>3, <1>5 DEF OwnersAreHashed
  <2>2. CASE key \notin DOMAIN rows
    <3>1. index2 = H!HASH_ADD_KEYPTR(index, key)  BY <2>2, <1>8
    <3>2. \E n, app, ch : /\ IsHash(hashv, H!HASH_ADD_KEYPTR(index, key), n, app, ch)
                          /\ H!ToSet(app) = DOMAIN rows \union {key}
          BY <2>2, <1>5, <1>7, AddedOwner
    <3>3. index' = H!HASH_ADD_KEYPTR(index, key) /\ hashv' = hashv
          /\ DOMAIN rows' = DOMAIN rows \union {key}
          BY <3>1, <1>2, <1>3, <1>11
    <3>4. \E n, app, ch : IsHash(hashv', index', n, app, ch) /\ DOMAIN rows' = H!ToSet(app)
          BY <3>2, <3>3
    <3> QED  BY <3>4 DEF OwnersAreHashed
  <2> QED  BY <2>1, <2>2
<1>14. next_row + 1 \in 0 .. MaxRows /\ next_row + 1 <= indexed.rows
       BY <1>1, <1>5, <1>6
<1>15. RowsAreGrouped'
       BY <1>1, <1>2, <1>3, <1>6, <1>12 DEF RowsAreGrouped, Covered, values, col
<1>16. /\ (\A s \in DOMAIN rows : ArrayOf(rows[s], Nat))'
       /\ (hashv \in [Strings -> Nat])'
       BY <1>2, <1>3, <1>5, <1>12
<1> QED  BY <1>1, <1>2, <1>3, <1>4, <1>13, <1>14, <1>15, <1>16 DEF IndexInv

LEMMA DestroyItemStep ==
  ASSUME IndexInv, DestroyItem
  PROVE  IndexInv'
<1> DEFINE del == index.head
<1>1. /\ phase = "destroying" /\ del # None
      /\ index' = H!HASH_DELETE(index, del)
      /\ rows' = [s \in DOMAIN rows \ {del} |-> rows[s]]
      /\ UNCHANGED <<table, hashv, phase, next_row, indexed, cursor>>
      BY DEF DestroyItem
<1>2. hashv \in [Strings -> Nat] /\ OwnersAreHashed
      /\ \A s \in DOMAIN rows : ArrayOf(rows[s], Nat)
      BY DEF IndexInv
<1>3. DOMAIN rows # {}  BY <1>1, <1>2, NullIsEmpty
<1>4. PICK n, app, ch : IsHash(hashv, index, n, app, ch) /\ DOMAIN rows = H!ToSet(app)
      BY <1>2, <1>3 DEF OwnersAreHashed
<1>5. LET u == H!HASH_DELETE(index, index.head)
      IN \/ u = H!NULL /\ H!ToSet(app) = {index.head}
         \/ \E less, m, c : /\ IsHash(hashv, u, m, less, c)
                            /\ H!ToSet(less) = H!ToSet(app) \ {index.head}
      BY <1>2, <1>4, DeletedIsHash
<1>6. DOMAIN rows' = DOMAIN rows \ {del}  BY <1>1
<1>7. OwnersAreHashed'
  <2>1. CASE index' = H!NULL /\ H!ToSet(app) = {del}
    <3>1. DOMAIN rows' = {}  BY <2>1, <1>4, <1>6
    <3> QED  BY <2>1, <3>1 DEF OwnersAreHashed
  <2>2. ASSUME NEW less, NEW m, NEW c, IsHash(hashv, index', m, less, c),
               H!ToSet(less) = H!ToSet(app) \ {del}
        PROVE  OwnersAreHashed'
    <3>1. IsHash(hashv', index', m, less, c) /\ DOMAIN rows' = H!ToSet(less)
          BY <2>2, <1>1, <1>4, <1>6
    <3> QED  BY <3>1 DEF OwnersAreHashed
  <2> QED  BY <2>1, <2>2, <1>1, <1>5
<1>8. \A s \in DOMAIN rows' : ArrayOf(rows'[s], Nat)  BY <1>1, <1>2
<1> HIDE DEF del
<1> QED  BY <1>1, <1>2, <1>6, <1>7, <1>8 DEF IndexInv

(* Rows and columns that come after the index was made are not in it.       *)
LEMMA TableStep ==
  ASSUME ColumnsInv, IndexInv, [Next]_vars, phase = "ready", table # None,
         UNCHANGED <<hashv, phase, index_vars>>, ColumnsInv'
  PROVE  IndexInv'
<1> DEFINE col == indexed.col
           n == indexed.rows
<1>1. ASSUME indexed # None, table' # None PROVE RowsAreGrouped'
  <2>1. RowsAreGrouped /\ Covered = n  BY <1>1 DEF IndexInv, Covered
  <2>2. col \in DOMAIN table /\ n \in 0 .. table[col].i /\ Grouped(rows, table[col].d, n)
        BY <2>1 DEF RowsAreGrouped
  <2>3. /\ col \in DOMAIN table' /\ table'[col].i >= table[col].i
        /\ \A r \in 0 .. table[col].i - 1 : table'[col].d[r] = table[col].d[r]
        BY <2>2, <1>1, ColumnsGrow
  <2>4. table[col].i \in Nat /\ table'[col].i \in Nat
    <3>1. ArrayOf(table[col], Strings)  BY <2>2 DEF ColumnsInv
    <3>2. ArrayOf(table'[col], Strings)  BY <1>1, <2>3 DEF ColumnsInv
    <3> QED  BY <3>1, <3>2 DEF ArrayOf
  <2>5. n \in Nat /\ n \in 0 .. table'[col].i
        /\ \A r \in 0 .. n - 1 : r \in 0 .. table[col].i - 1
    <3> HIDE DEF n, col
    <3> DEFINE i == table[col].i
               j == table'[col].i
    <3>1. i \in Nat /\ j \in Nat /\ j >= i /\ n \in 0 .. i  BY <2>2, <2>3, <2>4
    <3> HIDE DEF i, j
    <3>2. n \in Nat /\ n \in 0 .. j /\ \A r \in 0 .. n - 1 : r \in 0 .. i - 1  BY <3>1
    <3> QED  BY <3>2 DEF i, j
  <2> DEFINE values == table[col].d
             others == table'[col].d
  <2>6. n \in Nat /\ Grouped(rows, values, n) /\ \A r \in 0 .. n - 1 : others[r] = values[r]
        BY <2>2, <2>3, <2>5
  <2> HIDE DEF values, others, n
  <2>7. Grouped(rows, others, n)  BY <2>6, SameValues
  <2> QED  BY <2>3, <2>5, <2>7 DEF RowsAreGrouped, Covered, index_vars, others, n
<1> QED  BY <1>1 DEF IndexInv, OwnersAreHashed, index_vars

LEMMA IndexStep == ColumnsInv /\ IndexInv /\ [Next]_vars => IndexInv'
<1> SUFFICES ASSUME ColumnsInv, IndexInv, [Next]_vars PROVE IndexInv'  OBVIOUS
<1>1. ColumnsInv'  BY ColumnsStep
<1>2. CASE table_construct
      BY <1>2 DEF table_construct, index_vars, Ready, IndexInv, OwnersAreHashed
<1>3. CASE table_initialize \/ table_append_row \/ table_append_column
  <2>1. phase = "ready" /\ table # None /\ UNCHANGED <<hashv, phase, index_vars>>
        BY <1>3 DEF table_initialize, table_append_row, table_append_column, Exists, Ready
  <2> QED  BY <2>1, <1>1, TableStep
<1>4. CASE ColumnMissing \/ ReadBeyond
      BY <1>4 DEF ColumnMissing, ReadBeyond, Exists, Ready, index_vars, IndexInv, OwnersAreHashed
<1>5. CASE table_destroy
      BY <1>5 DEF table_destroy, Exists, Ready, index_vars, IndexInv, OwnersAreHashed
<1>6. ASSUME NEW col \in 1 .. MaxColumns, StartIndex(col) PROVE IndexInv'
  <2>1. /\ phase = "ready" /\ table # None /\ indexed = None /\ col \in 1 .. Len(table)
        /\ phase' = "creating" /\ next_row' = 0
        /\ indexed' = [col |-> col, rows |-> table[1].i]
        /\ UNCHANGED <<table, hashv, index, rows, cursor>>
        BY <1>6 DEF StartIndex, Exists, Ready, column_count, row_count, A!utarray_len
  <2>2. /\ col \in DOMAIN table /\ table[col].i = table[1].i /\ table[1].i \in 0 .. MaxRows
        /\ MaxRows \in Nat
        BY <2>1, TableAssumption DEF ColumnsInv
  <2>3. indexed' \in [col : Nat, rows : Nat]  BY <2>1, <2>2
  <2>4. indexed' # None  BY <2>3, NoneAssumption
  <2>5. indexed'.col = col /\ indexed'.rows = table[1].i  BY <2>1
  <2>6. DOMAIN rows = {}  BY <2>1 DEF IndexInv
  <2>7. Grouped(rows, table[col].d, 0)  BY <2>6 DEF Grouped, NoRowOf
  <2>8. 0 <= table[1].i /\ table[1].i \in 0 .. table[col].i /\ 0 \in 0 .. MaxRows
        BY <2>2
  <2>9. RowsAreGrouped'  BY <2>1, <2>2, <2>5, <2>7, <2>8 DEF RowsAreGrouped, Covered
  <2> QED  BY <2>1, <2>4, <2>5, <2>8, <2>9 DEF IndexInv, OwnersAreHashed
<1>7. CASE IndexRow  BY <1>7, IndexRowStep
<1>8. CASE IndexCreated
  <2>1. /\ phase = "creating" /\ next_row = indexed.rows /\ phase' = "ready"
        /\ UNCHANGED <<table, hashv, index, rows, next_row, indexed, cursor>>
        BY <1>8 DEF IndexCreated, index_vars
  <2>2. RowsAreGrouped'  BY <2>1 DEF IndexInv, RowsAreGrouped, Covered
  <2> QED  BY <2>1, <2>2 DEF IndexInv, OwnersAreHashed
<1>9. ASSUME NEW key \in Strings, table_index_find(key) PROVE IndexInv'
  <2>1. /\ phase = "ready" /\ phase' \in {"ready", "stale"}
        /\ UNCHANGED <<table, hashv, index, rows, next_row, indexed>>
        BY <1>9 DEF table_index_find, Ready
  <2> QED  BY <2>1 DEF IndexInv, OwnersAreHashed, RowsAreGrouped, Covered
<1>10. CASE row_index_next
       BY <1>10 DEF row_index_next, IndexInv, OwnersAreHashed, RowsAreGrouped, Covered
<1>11. CASE StartDestroy
       BY <1>11 DEF StartDestroy, IndexInv, OwnersAreHashed
<1>12. CASE DestroyItem  BY <1>12, DestroyItemStep
<1>13. CASE IndexDestroyed
  <2>1. /\ index.head = None /\ phase' = "ready" /\ indexed' = None /\ next_row' = 0
        /\ UNCHANGED <<table, hashv, index, rows, cursor>>
        BY <1>13 DEF IndexDestroyed
  <2>2. DOMAIN rows = {}  BY <2>1, NullIsEmpty DEF IndexInv
  <2>3. 0 \in 0 .. MaxRows  BY TableAssumption
  <2> QED  BY <2>1, <2>2, <2>3 DEF IndexInv, OwnersAreHashed
<1>14. CASE UNCHANGED vars
       BY <1>14 DEF vars, IndexInv, OwnersAreHashed, RowsAreGrouped, Covered
<1> QED  BY <1>2, <1>3, <1>4, <1>5, <1>6, <1>7, <1>8, <1>9, <1>10, <1>11, <1>12, <1>13,
            <1>14 DEF Next

LEMMA IndexInvariant == Spec => [](ColumnsInv /\ IndexInv)
<1>1. Init => IndexInv
  <2> SUFFICES ASSUME Init PROVE IndexInv  OBVIOUS
  <2>1. DOMAIN [s \in {} |-> A!utarray_new] = {}  OBVIOUS
  <2>2. 0 \in 0 .. MaxRows  BY TableAssumption
  <2> QED  BY <2>1, <2>2, HashesAssumption DEF Init, IndexInv, OwnersAreHashed
<1>2. Init => ColumnsInv  BY DEF Init, ColumnsInv
<1> QED  BY <1>1, <1>2, ColumnsStep, IndexStep, PTL DEF Spec

-----------------------------------------------------------------------------
(* Every array has its elements in slots it owns, every bucket is one, and  *)
(* table_index_create never leaves the rows of the table.                   *)
THEOREM TypeCorrect == Spec => []TypeOK
<1>1. ASSUME ColumnsInv, IndexInv PROVE TypeOK
  <2>1. ASSUME NEW b \in DOMAIN index.buckets PROVE index.buckets[b] \in H!UT_hash_bucket
    <3>1. CASE index = H!NULL
      <4>1. index.buckets = <<>>  BY <3>1 DEF H!NULL
      <4>2. DOMAIN <<>> = {}  OBVIOUS
      <4> QED  BY <4>1, <4>2
    <3>2. ASSUME NEW n, NEW app, NEW ch, IsHash(hashv, index, n, app, ch)
          PROVE  index.buckets[b] \in H!UT_hash_bucket
      BY <3>2 DEF IsHash, Chained
    <3> QED  BY <1>1, <3>1, <3>2 DEF IndexInv, OwnersAreHashed
  <2> QED  BY <1>1, <2>1 DEF TypeOK, ColumnsInv, IndexInv, ArrayOf
<1> QED  BY <1>1, IndexInvariant, PTL

(* The checks of HASH_FSCK, which the program is built without, pass after  *)
(* every add, expansion and delete, whatever the hash function.             *)
THEOREM HashPassesItsChecks == Spec => []HashIsSound
<1>1. ASSUME IndexInv PROVE HashIsSound
  <2>1. CASE index = H!NULL
    <3>1. index.head = None  BY <2>1 DEF H!NULL
    <3> QED  BY <3>1 DEF HashIsSound, H!HASH_FSCK
  <2>2. ASSUME NEW n, NEW app, NEW ch, IsHash(hashv, index, n, app, ch) PROVE HashIsSound
    <3>1. hashv \in [Strings -> Nat]  BY <1>1 DEF IndexInv
    <3> QED  BY <3>1, <2>2, HashPasses DEF HashIsSound
  <2> QED  BY <1>1, <2>1, <2>2 DEF IndexInv, OwnersAreHashed
<1> QED  BY <1>1, IndexInvariant, PTL

(* Who owns row numbers is in the list that table_index_destroy goes along, *)
(* in every phase: nothing is leaked and nothing is freed twice.            *)
THEOREM OwnersAreListed == Spec => []ItemsAreListed
<1>1. ASSUME IndexInv PROVE ItemsAreListed
  <2>1. OwnersAreHashed  BY <1>1 DEF IndexInv
  <2>2. CASE index = H!NULL /\ DOMAIN rows = {}
    <3> DEFINE none == [i \in Strings |-> None]
               empty == <<>>
    <3>1. /\ index.head = None /\ index.num_items = 0 /\ index.next = none
          /\ none \in [Strings -> H!Ptr]
          BY <2>2 DEF H!NULL, H!Ptr
    <3>2. Len(empty) = 0 /\ Distinct(empty) /\ H!ToSet(empty) = {} /\ 1 .. 0 = {}
          BY DEF Distinct, H!ToSet
    <3> HIDE DEF none, empty
    <3>3. IsList(empty, None, none, none)  BY <3>2 DEF IsList, Linked
    <3>4. H!Follow(index, None, none) = empty
      <4>1. index.num_items \in Nat /\ Len(empty) <= index.num_items  BY <3>1, <3>2
      <4> QED  BY <4>1, <3>1, <3>3, FollowIs
    <3>5. H!AppOrder(index) = empty  BY <3>1, <3>4 DEF H!AppOrder
    <3> QED  BY <2>2, <3>1, <3>2, <3>5 DEF ItemsAreListed, table_index_count, H!HASH_COUNT
  <2>3. ASSUME NEW n, NEW app, NEW ch, IsHash(hashv, index, n, app, ch),
               DOMAIN rows = H!ToSet(app)
        PROVE  ItemsAreListed
    <3>1. Listed(index, app)  BY <2>3 DEF IsHash
    <3>2. H!AppOrder(index) = app  BY <3>1, AppOrderIs
    <3>3. index.head # None /\ index.num_items = Len(app)  BY <3>1, ListedIsList
    <3>4. Len(app) > 0 /\ Len(app) \in Nat  BY <3>1, ListedIsList DEF Listed
    <3>5. index.num_items # 0  BY <3>3, <3>4
    <3> QED  BY <2>3, <3>2, <3>3, <3>5
             DEF ItemsAreListed, table_index_count, H!HASH_COUNT
  <2> QED  BY <2>1, <2>2, <2>3 DEF OwnersAreHashed
<1> QED  BY <1>1, IndexInvariant, PTL

(* What table_index_find and row_index_next give for a key are the rows     *)
(* that held it when the index was made, each once, in order, however many  *)
(* keys share a bucket and however often the hash was expanded.             *)
THEOREM IndexIsFaithful == Spec => []IndexGroupsRows
<1>1. ASSUME ColumnsInv, IndexInv PROVE IndexGroupsRows
  <2> DEFINE values == table[indexed.col].d
             column == ColumnOf(indexed.col)
             i == table[indexed.col].i
             probe(key) == H!HASH_FIND(index, key)
             found(key) == IF probe(key) = None THEN <<>> ELSE A!Elements(rows[probe(key)])
  <2> SUFFICES ASSUME indexed # None, table # None, phase \in {"ready", "creating"},
                      NEW key \in Strings
               PROVE  /\ H!ToSet(found(key)) = {r \in 0 .. Covered - 1 : column[r + 1] = key}
                      /\ \A j, k \in DOMAIN found(key) : j < k => found(key)[j] < found(key)[k]
      BY DEF IndexGroupsRows, Covered
  <2>1. RowsAreGrouped  BY <1>1 DEF IndexInv
  <2>2. i \in Nat /\ indexed.rows \in 0 .. i /\ Covered \in 0 .. i
    <3>1. ArrayOf(table[indexed.col], Strings)  BY <1>1, <2>1 DEF RowsAreGrouped, ColumnsInv
    <3>2. i \in Nat /\ indexed.rows \in 0 .. i  BY <2>1, <3>1 DEF ArrayOf, RowsAreGrouped
    <3>3. /\ next_row \in 0 .. MaxRows /\ MaxRows \in Nat
          /\ phase = "creating" => next_row <= indexed.rows
          BY <1>1, TableAssumption DEF IndexInv
    <3> HIDE DEF i
    <3> QED  BY <3>2, <3>3 DEF Covered
  <2>3. \A r \in 0 .. Covered - 1 : column[r + 1] = values[r]
    <3>1. column = [k \in 1 .. i |-> values[k-1]]  BY DEF ColumnOf, A!Elements
    <3> HIDE DEF column, i, values
    <3>2. \A r \in 0 .. Covered - 1 : r + 1 \in 1 .. i /\ (r + 1) - 1 = r  BY <2>2
    <3> QED  BY <3>1, <3>2
  <2>4. Grouped(rows, values, Covered)  BY <2>1 DEF RowsAreGrouped
  <2>5. probe(key) = IF key \in DOMAIN rows THEN key ELSE None
        BY <1>1, FindTellsOwners DEF IndexInv
  <2>6. key # None  BY NoneAssumption
  <2>7. CASE key \notin DOMAIN rows
    <3>1. found(key) = <<>>  BY <2>5, <2>7
    <3>2. H!ToSet(<<>>) = {} /\ DOMAIN <<>> = {}  BY DEF H!ToSet
    <3>3. NoRowOf(values, Covered, key)  BY <2>4, <2>7 DEF Grouped
    <3> HIDE DEF found, values, column
    <3> QED  BY <3>1, <3>2, <3>3, <2>3 DEF NoRowOf
  <2>8. CASE key \in DOMAIN rows
    <3> DEFINE a == rows[key]
               n == a.i
               d == a.d
               e == found(key)
    <3>1. e = [k \in 1 .. n |-> d[k-1]]  BY <2>5, <2>6, <2>8 DEF A!Elements
    <3>2. n \in Nat  BY <1>1, <2>8 DEF IndexInv, ArrayOf
    <3>3. RowsOf(a, values, Covered, key)  BY <2>4, <2>8 DEF Grouped
    <3>4. /\ \A k \in 0 .. n - 1 : d[k] \in 0 .. Covered - 1 /\ values[d[k]] = key
          /\ \A r \in 0 .. Covered - 1 : values[r] = key => \E k \in 0 .. n - 1 : d[k] = r
          /\ \A j, k \in 0 .. n - 1 : j < k => d[j] < d[k]
          BY <3>3 DEF RowsOf
    <3> HIDE DEF found, values, column, n, d
    <3>5. /\ DOMAIN e = 1 .. n /\ \A k \in 1 .. n : e[k] = d[k-1] /\ k - 1 \in 0 .. n - 1
          /\ \A k \in 0 .. n - 1 : k + 1 \in 1 .. n /\ (k + 1) - 1 = k
          BY <3>1, <3>2
    <3> HIDE DEF e
    <3>6. H!ToSet(e) = {e[k] : k \in 1 .. n}  BY <3>5 DEF H!ToSet
    <3>7. \A r \in H!ToSet(e) : r \in 0 .. Covered - 1 /\ column[r + 1] = key
          BY <3>4, <3>5, <3>6, <2>3
    <3>8. ASSUME NEW r \in 0 .. Covered - 1, column[r + 1] = key PROVE r \in H!ToSet(e)
      <4>1. PICK k \in 0 .. n - 1 : d[k] = r  BY <3>4, <3>8, <2>3
      <4>2. k + 1 \in 1 .. n /\ e[k + 1] = r  BY <4>1, <3>5
      <4> QED  BY <4>2, <3>6
    <3>9. ASSUME NEW j \in 1 .. n, NEW k \in 1 .. n, j < k PROVE e[j] < e[k]
      <4>1. j - 1 < k - 1  BY <3>9
      <4> QED  BY <4>1, <3>4, <3>5
    <3> QED  BY <3>5, <3>7, <3>8, <3>9 DEF e
  <2> QED  BY <2>7, <2>8
<1> QED  BY <1>1, IndexInvariant, PTL
=============================================================================
