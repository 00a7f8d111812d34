------------------------------- MODULE Table --------------------------------
(***************************************************************************)
(* table.c: a table of strings kept by columns, and an index of one of its *)
(* columns: for every string there, the numbers of its rows.               *)
(*                                                                         *)
(* An item of the index points to the string it was made from, which is    *)
(* the table's, and owns its array of row numbers.  table_index_create and *)
(* table_index_destroy go row by row and item by item, so that the hash is *)
(* seen after every add and every delete.  A failing allocation ends the   *)
(* program, in table.c as well as below it.                                *)
(***************************************************************************)
EXTENDS Integers, Sequences, FiniteSets

CONSTANTS Strings,         \* the values of a table
          None,            \* the null pointer
          FirstColumns,    \* the columns a client initializes a table with
          MaxRows,         \* BOUND: rows of a table
          MaxColumns,      \* BOUND: columns of a table
          Rows(_),         \* BOUND: the rows a client appends to so many columns
          Columns(_),      \* BOUND: the columns a client gives a table of that first
          Hashes,          \* the hashes strings may have
          InitialBuckets, Threshold, FirstSlots

ASSUME TableAssumption == /\ MaxRows \in Nat
                          /\ MaxColumns \in Nat \ {0}
                          /\ FirstColumns \in 1..MaxColumns
                          /\ \A n \in 1..MaxColumns : Rows(n) \subseteq [1..n -> Strings]
                          /\ \A n \in 0..MaxRows : \A first \in [1..n -> Strings] :
                               Columns(first) \subseteq [1..n -> Strings]

VARIABLES table,           \* its columns, without their names, or None
          hashv,           \* string -> hash, the same in a whole behaviour
          index,           \* the hash of the index
          rows,            \* string with an item -> the row numbers it owns
          phase,           \* what the program is doing: "ready", "creating",
                           \* "destroying" the index, or how it went wrong
          next_row,        \* the row table_index_create looks at
          indexed,         \* history: [col, rows] of the index there is, or None
          cursor           \* a walk over the rows of a key: [key, at], or None

index_vars == <<index, rows, next_row, indexed, cursor>>
vars == <<table, hashv, index, rows, phase, next_row, indexed, cursor>>

H == INSTANCE UtHash WITH Items <- Strings
A == INSTANCE UtArray WITH Nil <- None

ASSUME HashesAssumption == Hashes \subseteq [Strings -> Nat]

(* The constants of the hash and of the arrays. *)
ASSUME NoneAssumption == None \notin Strings \union Nat \union [col : Nat, rows : Nat]
ASSUME BucketsAssumption == InitialBuckets \in {1, 2, 4, 8, 16, 32}
ASSUME ThresholdAssumption == Threshold \in Nat \ {0}
ASSUME SlotsAssumption == FirstSlots \in Nat \ {0}

Init ==
  /\ table = None
  /\ hashv \in Hashes
  /\ index = H!NULL
  /\ rows = [s \in {} |-> A!utarray_new]
  /\ phase = "ready"
  /\ next_row = 0
  /\ indexed = None
  /\ cursor = None

Ready == phase = "ready"
Exists == Ready /\ table # None

column_count == Len(table)

(* The rows of a table are those of its first column; where there is none  *)
(* this reads what is not there.                                           *)
row_count == A!utarray_len(table[1])

ColumnOf(col) == A!Elements(table[col])

-----------------------------------------------------------------------------
table_construct ==
  /\ Ready /\ table = None /\ indexed = None
  /\ table' = <<>>
  /\ UNCHANGED <<hashv, phase, index_vars>>

table_initialize ==
  /\ Exists /\ table = <<>>
  /\ table' = [c \in 1..FirstColumns |-> A!utarray_new]
  /\ UNCHANGED <<hashv, phase, index_vars>>

table_append_row ==
  /\ Exists /\ column_count > 0 /\ row_count < MaxRows
  /\ \E row \in Rows(column_count) :
       table' = [c \in DOMAIN table |-> A!utarray_push_back(table[c], row[c])]
  /\ UNCHANGED <<hashv, phase, index_vars>>

(* Mutant of NewColumn: the loop ends a row too early. *)
NewColumnShort(column, n) ==
  LET filled[k \in 0..n] == IF k = 0 THEN A!utarray_reserve(A!utarray_new, n)
                            ELSE A!utarray_push_back(filled[k - 1], column[k])
  IN IF n = 0 THEN filled[0] ELSE filled[n - 1]

(* A column of values, one for each row, read in the order of the rows into *)
(* an array that was given room for all of them.                            *)
NewColumn(column, n) ==
  LET filled[k \in 0..n] == IF k = 0 THEN A!utarray_reserve(A!utarray_new, n)
                            ELSE A!utarray_push_back(filled[k - 1], column[k])
  IN filled[n]

table_append_column ==
  /\ Exists /\ column_count \in 1..(MaxColumns - 1)
  /\ \E column \in Columns(ColumnOf(1)) :
       table' = Append(table, NewColumn(column, row_count))
  /\ UNCHANGED <<hashv, phase, index_vars>>

(* Without a column there is no row count to take. *)
ColumnMissing ==
  /\ Exists /\ column_count = 0
  /\ phase' = "crashed"
  /\ UNCHANGED <<table, hashv, index_vars>>

(* table_get_value: the value, or None for the null pointer it dereferences. *)
table_get_value(col, row) ==
  LET ptr == A!utarray_eltptr(table[col], row)
  IN IF ptr = None THEN None ELSE table[col].d[ptr]

(* A client that looks for a row that is not there. *)
ReadBeyond ==
  /\ Exists /\ column_count > 0
  /\ table_get_value(1, row_count) = None
  /\ phase' = "crashed"
  /\ UNCHANGED <<table, hashv, index_vars>>

table_destroy ==
  /\ Exists
  /\ table' = None
  /\ UNCHANGED <<hashv, phase, index_vars>>

-----------------------------------------------------------------------------
(* table_index_create: an item for each string not met before. *)
StartIndex(col) ==
  /\ Exists /\ indexed = None /\ col \in 1..column_count
  /\ phase' = "creating"
  /\ next_row' = 0
  /\ indexed' = [col |-> col, rows |-> row_count]
  /\ UNCHANGED <<table, hashv, index, rows, cursor>>

IndexRow ==
  /\ phase = "creating" /\ next_row < indexed.rows
  /\ LET key == table_get_value(indexed.col, next_row)
         probe == H!HASH_FIND(index, key)
         found == IF probe = None THEN A!utarray_new ELSE rows[probe]
         more == A!utarray_push_back(found, next_row)
     IN /\ rows' = [s \in DOMAIN rows \union {key} |-> IF s = key THEN more ELSE rows[s]]
        /\ index' = IF probe = None THEN H!HASH_ADD_KEYPTR(index, key) ELSE index
  /\ next_row' = next_row + 1
  /\ UNCHANGED <<table, hashv, phase, indexed, cursor>>

IndexCreated ==
  /\ phase = "creating" /\ next_row = indexed.rows
  /\ phase' = "ready"
  /\ UNCHANGED <<table, hashv, index_vars>>

table_index_count == H!HASH_COUNT(index)

(* table_index_find: a string of the table is read, for its comparison with *)
(* the key, when the hashes are the same.                                   *)
table_index_find(key) ==
  /\ Ready /\ indexed # None
  /\ LET probe == H!HASH_FIND(index, key)
         read == index.head # None /\ \E s \in DOMAIN rows : hashv[s] = hashv[key]
     IN IF table = None /\ read
        THEN phase' = "stale" /\ UNCHANGED cursor
        ELSE /\ cursor' = IF probe = None THEN None ELSE [key |-> probe, at |-> None]
             /\ UNCHANGED phase
  /\ UNCHANGED <<table, hashv, index, rows, next_row, indexed>>

row_index_next ==
  /\ Ready /\ cursor # None
  /\ LET at == A!utarray_next(rows[cursor.key], cursor.at)
     IN cursor' = IF at = None THEN None ELSE [cursor EXCEPT !.at = at]
  /\ UNCHANGED <<table, hashv, index, rows, phase, next_row, indexed>>

(* table_index_destroy: HASH_ITER has the next item before it deletes one.  *)
StartDestroy ==
  /\ Ready /\ indexed # None
  /\ phase' = "destroying"
  /\ cursor' = None
  /\ UNCHANGED <<table, hashv, index, rows, next_row, indexed>>

(* Mutant of DestroyItem: the array of the item is not freed with it. *)
DestroyItemLeaks ==
  /\ phase = "destroying" /\ index.head # None
  /\ index' = H!HASH_DELETE(index, index.head)
  /\ UNCHANGED <<table, hashv, rows, phase, next_row, indexed, cursor>>

DestroyItem ==
  /\ phase = "destroying" /\ index.head # None
  /\ index' = H!HASH_DELETE(index, index.head)
  /\ rows' = [s \in DOMAIN rows \ {index.head} |-> rows[s]]
  /\ UNCHANGED <<table, hashv, phase, next_row, indexed, cursor>>

IndexDestroyed ==
  /\ phase = "destroying" /\ index.head = None
  /\ phase' = "ready"
  /\ indexed' = None
  /\ next_row' = 0
  /\ UNCHANGED <<table, hashv, index, rows, cursor>>

Next ==
  \/ table_construct \/ table_initialize \/ table_append_row \/ table_append_column
  \/ ColumnMissing \/ ReadBeyond \/ table_destroy
  \/ \E col \in 1..MaxColumns : StartIndex(col)
  \/ IndexRow \/ IndexCreated
  \/ \E key \in Strings : table_index_find(key)
  \/ row_index_next
  \/ StartDestroy \/ DestroyItem \/ IndexDestroyed

Spec == Init /\ [][Next]_vars

-----------------------------------------------------------------------------
TypeOK ==
  /\ table # None => \A c \in DOMAIN table :
                       /\ table[c].i <= table[c].n
                       /\ table[c].d \in [0..(table[c].n - 1) -> Strings \union {None}]
  /\ phase \in {"ready", "creating", "destroying", "crashed", "stale"}
  /\ \A b \in DOMAIN index.buckets : index.buckets[b] \in H!UT_hash_bucket
  /\ next_row \in 0..MaxRows

(* Every column has as many rows as the first, which table_get_row_count    *)
(* takes for all, whenever and with whatever rows a column was appended.    *)
Rectangular ==
  table # None => \A c \in DOMAIN table :
                    /\ A!utarray_len(table[c]) = row_count
                    /\ \A r \in 1..row_count : ColumnOf(c)[r] # None

(* The checks of HASH_FSCK, which the program is built without, hold after  *)
(* every add and every delete of an item, through every expansion.          *)
HashIsSound == H!HASH_FSCK(index)

(* What is found for a key, and walked with row_index_next, are the numbers *)
(* of all rows there were at the time of table_index_create that have it,   *)
(* each once and in order: not those of rows appended since.                *)
IndexGroupsRows ==
  (indexed # None /\ table # None /\ phase \in {"ready", "creating"}) =>
    LET covered == IF phase = "creating" THEN next_row ELSE indexed.rows
    IN \A key \in Strings :
         LET probe == H!HASH_FIND(index, key)
             found == IF probe = None THEN <<>> ELSE A!Elements(rows[probe])
         IN /\ H!ToSet(found) = {r \in 0..(covered - 1) : ColumnOf(indexed.col)[r + 1] = key}
            /\ \A j, k \in DOMAIN found : j < k => found[j] < found[k]

(* The items that own row numbers are the ones the application's list has,  *)
(* in every phase: a destroy frees all of them and the hash's table, also   *)
(* when the table of strings is gone before.                                *)
ItemsAreListed ==
  /\ DOMAIN rows = H!ToSet(H!AppOrder(index))
  /\ (index.head = None) = (table_index_count = 0)
=============================================================================
