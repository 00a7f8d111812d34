---------------------------- MODULE PythonBinding ----------------------------
(***************************************************************************)
(* What a Python program can do with the library: the wrappers of          *)
(* fapolicyanalyzer_wrap.c over the objects of SwigObjects, beside another *)
(* module made by SWIG that knows the type of fields too.                  *)
(*                                                                         *)
(* The program is careful: it lets go of what it destroys, teaches a       *)
(* parser before it parses, asks for a place that is there, takes only a   *)
(* field for its own that is there and that nobody owns, and passes None   *)
(* for a progress callback only.  Calls with an object of another type     *)
(* raise TypeError and change nothing: no action.  Allocations do not      *)
(* fail.                                                                   *)
(*                                                                         *)
(* Nothing Python can get goes for a char ** with entries, for bytes or    *)
(* for the length that sha256_update takes by reference: sha256_update and *)
(* sha256_final cannot be called, and a table made here has no columns.    *)
(***************************************************************************)
EXTENDS SwigObjects

vars == <<typeVars, objectVars>>

Module == "fapolicyanalyzer"

SWIGTYPE(name) == TypeOf(Module, name)

(* What a parameter of a type must point to: a row and a row's number lie in *)
(* an index, what goes for a field is one.                                   *)
Kind(name) == IF name \in {"_p_row_index_struct", "_p_size_t"}
              THEN "_p_table_index_struct" ELSE name

(* A text the wrapper copies for the call is freed when the call returns;    *)
(* one that field_t_key_set copies stays, as the exemplar stays.             *)
Argument == "argument"
Line == "line"
Stays == "stays"

Gone == "gone"

(* The program may pass o for a parameter of that type: C takes it, and the  *)
(* program has not deleted the field behind it.                              *)
Usable(o, as) ==
  /\ types[Module] # <<>>
  /\ o \in held
  /\ LET c == SWIG_Python_ConvertPtrAndOwn(o, SWIGTYPE(as))
     IN /\ c # NULL
        /\ obj[c].own \/ mem[obj[c].ptr] # NULL

(* The pointer that C gets for o. *)
Pointer(o, as) == obj[SWIG_Python_ConvertPtrAndOwn(o, SWIGTYPE(as))].ptr

(* The arguments are converted: o is the first one. *)
Converted(o, as) ==
  /\ Usable(o, as)
  /\ cast' = Asked(o, SWIGTYPE(as))
  /\ UNCHANGED <<next, type_pointer, types, clientdata>>

(* C only reads. *)
Reads(o, as) ==
  /\ Converted(o, as)
  /\ UNCHANGED objectVars

(* C writes to the block b. *)
Writes(o, as, b, block) ==
  /\ Converted(o, as)
  /\ mem' = [mem EXCEPT ![b] = block]
  /\ UNCHANGED <<obj, held, lost, fault>>

(* A text is made a Python string. *)
Shows(o, as, text) ==
  /\ Converted(o, as)
  /\ fault' = IF text \in {Argument, Line} THEN text ELSE NULL
  /\ UNCHANGED <<obj, held, lost, mem>>

(* C makes a block, and the wrapper an object for it. *)
Returns(block, as, own) ==
  /\ types[Module] # <<>>
  /\ \E b \in Free : /\ SWIG_Python_NewPointerObj(b, SWIGTYPE(as), own)
                     /\ mem' = [mem EXCEPT ![b] = block]
  /\ UNCHANGED <<lost, fault>>

(* C frees the block b; the program lets go of every pointer into it. *)
Destroys(o, as) ==
  LET b == Pointer(o, as)
      pointers == {p \in Objects : obj[p] # NULL /\ obj[p].ptr = b}
  IN /\ Converted(o, as)
     /\ mem' = [c \in Blocks |-> IF c = b THEN NULL
                                 ELSE IF mem[c] # NULL /\ mem[c].of = b
                                 THEN [mem[c] EXCEPT !.of = Gone] ELSE mem[c]]
     /\ obj' = [p \in Objects |-> IF p \in pointers THEN NULL ELSE obj[p]]
     /\ held' = held \ pointers
     /\ UNCHANGED <<lost, fault>>

-----------------------------------------------------------------------------
(* field_array: what set_key and set_value keep is freed on return. *)
Array == "_p_field_array_stuct"

ArrayOf(o) == mem[Pointer(o, Array)]

Initialized(o) == Usable(o, Array) /\ ArrayOf(o).first # NULL

field_array_initialize(o) ==
  /\ Usable(o, Array)
  /\ Writes(o, Array, Pointer(o, Array),
            [ArrayOf(o) EXCEPT !.first = [key |-> NULL, value |-> NULL]])

field_array_construct == Returns(Block(Array), Array, FALSE) /\ UNCHANGED typeVars

field_array_destroy(o) == Usable(o, Array) /\ Destroys(o, Array)

field_array_set_key(o) ==
  /\ Initialized(o)
  /\ Writes(o, Array, Pointer(o, Array), [ArrayOf(o) EXCEPT !.first.key = Argument])

field_array_set_value(o) ==
  /\ Initialized(o)
  /\ Writes(o, Array, Pointer(o, Array), [ArrayOf(o) EXCEPT !.first.value = Argument])

field_array_get_num_fields(o) == Reads(o, Array)

field_array_get_key(o) == Initialized(o) /\ Shows(o, Array, ArrayOf(o).first.key)

field_array_get_value(o) == Initialized(o) /\ Shows(o, Array, ArrayOf(o).first.value)

-----------------------------------------------------------------------------
(* field_t: what key_set and value_set keep is copied and never freed. *)
Field == "_p_field_struct"

FieldOf(o) == mem[Pointer(o, Field)]

field_t_key_set(o) ==
  /\ Usable(o, Field)
  /\ Writes(o, Field, Pointer(o, Field), [FieldOf(o) EXCEPT !.first.key = Stays])

field_t_value_set(o) ==
  /\ Usable(o, Field)
  /\ Writes(o, Field, Pointer(o, Field), [FieldOf(o) EXCEPT !.first.value = Stays])

(* What the texts came from is there. *)
Readable(o) == Usable(o, Field) /\ FieldOf(o).of # Gone

field_t_key_get(o) == Readable(o) /\ Shows(o, Field, FieldOf(o).first.key)

field_t_value_get(o) == Readable(o) /\ Shows(o, Field, FieldOf(o).first.value)

NewField == [Block(Field) EXCEPT !.first = [key |-> NULL, value |-> NULL]]

new_field_t == Returns(NewField, Field, TRUE) /\ UNCHANGED typeVars

(* field_t.__init__ is called again for an object. *)
field_t_swiginit(o) ==
  /\ types[Module] # <<>>
  /\ o \in held /\ obj[o].ty = SWIGTYPE(Field)
  /\ \E b \in Free : /\ SwigPyObject_append(o, b, SWIGTYPE(Field))
                     /\ mem' = [mem EXCEPT ![b] = NewField]
  /\ UNCHANGED <<held, fault, typeVars>>

(* Mutant of Disowned: the object goes on owning. *)
StillOwned(o) == obj

(* The object that is converted with SWIG_POINTER_DISOWN. *)
Disowned(o) ==
  [obj EXCEPT ![SWIG_Python_ConvertPtrAndOwn(o, SWIGTYPE(Field))].own = FALSE]

delete_field_t(o) ==
  /\ Converted(o, Field)
  /\ obj' = Disowned(o)
  /\ mem' = [mem EXCEPT ![Pointer(o, Field)] = NULL]
  /\ UNCHANGED <<held, lost, fault>>

field_t_swigregister ==
  /\ types[Module] # <<>>
  /\ SWIG_TypeClientData(SWIGTYPE(Field), "field_t")
  /\ UNCHANGED objectVars

(* A field takes the texts of a place of the source b; the program reads     *)
(* them only as long as b is there.                                          *)
Fills(o, from, pair, f) ==
  /\ Usable(o, from) /\ Usable(f, Field)
  /\ Converted(f, Field)
  /\ mem' = IF pair = NULL THEN mem
            ELSE [mem EXCEPT ![Pointer(f, Field)].first = pair,
                             ![Pointer(f, Field)].of = Pointer(o, from)]
  /\ UNCHANGED <<obj, held, lost, fault>>

field_array_get_field(o, f) == Usable(o, Array) /\ Fills(o, Array, ArrayOf(o).first, f)

-----------------------------------------------------------------------------
(* The parser.  parse keeps pointers into a line that is freed on return. *)
Context == "_p_parse_context_struct"

ContextOf(o) == mem[Pointer(o, Context)]

Taught == "taught"

construct_parse_context == Returns(Block(Context), Context, FALSE) /\ UNCHANGED typeVars

destroy_parse_context(o) == Usable(o, Context) /\ Destroys(o, Context)

(* Either nothing is learnt, or the subject is emptied and the object stays, *)
(* or both are new.                                                          *)
imbue_parser(o) ==
  /\ Usable(o, Context)
  /\ LET empty == [key |-> NULL, value |-> NULL]
         new == [key |-> Stays, value |-> NULL]
     IN \E c \in {ContextOf(o),
                  [ContextOf(o) EXCEPT !.first = empty, !.of = NULL],
                  [ContextOf(o) EXCEPT !.first = new, !.second = new, !.of = Taught]} :
          Writes(o, Context, Pointer(o, Context), c)

(* The record has the exemplar's fields up to some place. *)
parse(o) ==
  /\ Usable(o, Context) /\ ContextOf(o).of = Taught
  /\ \E c \in {ContextOf(o),
               [ContextOf(o) EXCEPT !.first.value = Line],
               [ContextOf(o) EXCEPT !.first.value = Line, !.second.value = Line]} :
       Writes(o, Context, Pointer(o, Context), c)

get_number_of_subject_fields(o) == Reads(o, Context)

get_number_of_object_fields(o) == Reads(o, Context)

get_subject_field(o, f) == Usable(o, Context) /\ Fills(o, Context, ContextOf(o).first, f)

get_object_field(o, f) == Usable(o, Context) /\ Fills(o, Context, ContextOf(o).second, f)

-----------------------------------------------------------------------------
(* Packages, digests and tables.  The table the audit makes is of packages,  *)
(* files or hashes, one made by table_construct of nothing.                  *)
TableType == "_p_table_struct"

TableMade(of) == [Block(TableType) EXCEPT !.of = of]

package_get_rpm_info ==
  Returns(TableMade("packages"), TableType, FALSE) /\ UNCHANGED typeVars

package_get_rpm_files_info(o) ==
  /\ Converted(o, TableType) /\ mem[Pointer(o, TableType)].of = "packages"
  /\ Returns(TableMade("files"), TableType, FALSE)

package_hash_files(o) ==
  /\ Converted(o, TableType) /\ mem[Pointer(o, TableType)].of = "files"
  /\ Returns(TableMade("hashes"), TableType, FALSE)

Digest == "_p_sha256_ctx_struct"

sha256_create == Returns(Block(Digest), Digest, FALSE) /\ UNCHANGED typeVars

sha256_destroy(o) == Usable(o, Digest) /\ Destroys(o, Digest)

table_construct == Returns(TableMade(NULL), TableType, FALSE) /\ UNCHANGED typeVars

table_destroy(o) == Usable(o, TableType) /\ Destroys(o, TableType)

(* With None for the names: no columns. *)
table_initialize(o) == Reads(o, TableType) /\ mem[Pointer(o, TableType)].of = NULL

table_get_column_count(o) == Reads(o, TableType)

(* A table of no columns has no first column to count, and no value. *)
HasColumns(o) == Reads(o, TableType) /\ mem[Pointer(o, TableType)].of # NULL

table_get_row_count(o) == HasColumns(o)

table_get_column_name(o) == HasColumns(o)

(* The only place for the number that Python has is a row number that        *)
(* row_index_next gave: it is overwritten.                                   *)
table_find_column_number(o, p) == Reads(o, TableType) /\ Usable(p, "_p_size_t")

table_get_value(o) == HasColumns(o)

table_append_row(o) == Reads(o, TableType) /\ mem[Pointer(o, TableType)].of = NULL

(* To a table that has no rows. *)
table_append_column(o) == HasColumns(o)

(* Calls that take texts only: all are copied for the call, the one that     *)
(* sha256_file writes the digest to as well, so Python never sees it.        *)
TextsOnly == types[Module] # <<>> /\ UNCHANGED vars

match_filename == TextsOnly

is_audit_record == TextsOnly

sha256_file == TextsOnly

-----------------------------------------------------------------------------
IndexType == "_p_table_index_struct"

Row == "_p_row_index_struct"

RowNumber == "_p_size_t"

(* The index keeps the table's texts for keys. *)
table_index_create(o) ==
  /\ Converted(o, TableType) /\ mem[Pointer(o, TableType)].of # NULL
  /\ Returns([Block(IndexType) EXCEPT !.of = Pointer(o, TableType)], IndexType, FALSE)

table_index_destroy(o) == Usable(o, IndexType) /\ Destroys(o, IndexType)

table_index_count(o) == Reads(o, IndexType)

(* A pointer into the block b, or NULL, which Python gets as None. *)
ReturnsInto(b, as) ==
  \/ /\ SWIG_Python_NewPointerObj(b, SWIGTYPE(as), FALSE)
     /\ UNCHANGED <<mem, lost, fault>>
  \/ UNCHANGED objectVars

table_index_find(o) ==
  /\ Converted(o, IndexType) /\ mem[Pointer(o, IndexType)].of # Gone
  /\ ReturnsInto(Pointer(o, IndexType), Row)

(* From the start with None, or from a row number of before. *)
row_index_next(o, p) ==
  /\ Converted(o, Row)
  /\ p # NULL => Usable(p, RowNumber) /\ Pointer(p, RowNumber) = Pointer(o, Row)
  /\ ReturnsInto(Pointer(o, Row), RowNumber)

-----------------------------------------------------------------------------
(* The other module: its owned fields, and structures whose first member is *)
(* a field, which it says go for fields.                                     *)
Other == "other"

Rich == "_p_rich_field"

OtherReturns(name) ==
  /\ types[Other] # <<>>
  /\ \E b \in Free : /\ SWIG_Python_NewPointerObj(b, TypeOf(Other, name), TRUE)
                     /\ mem' = [mem EXCEPT ![b] = NewField]
  /\ UNCHANGED <<lost, fault, typeVars>>

RichRegister ==
  /\ types[Other] # <<>>
  /\ SWIG_TypeClientData(TypeOf(Other, Rich), "rich_field")
  /\ UNCHANGED objectVars

-----------------------------------------------------------------------------
SWIG_init(m) == SWIG_InitializeModule(m) /\ UNCHANGED objectVars

Drop(o) == o \in held /\ SwigPyObject_dealloc(o) /\ UNCHANGED typeVars

Disown(o) ==
  /\ o \in held /\ obj[o].own
  /\ SwigPyObject_own(o, FALSE)
  /\ UNCHANGED typeVars

Acquire(o) ==
  /\ Usable(o, Field) /\ mem[obj[o].ptr] # NULL
  /\ \A p \in Objects : obj[p] # NULL /\ obj[p].ptr = obj[o].ptr => ~obj[p].own
  /\ SwigPyObject_own(o, TRUE)
  /\ UNCHANGED typeVars

Init == TypesInit /\ ObjectsInit

OneField(o) ==
  /\ Usable(o, Field)
  /\ \/ field_t_key_set(o) \/ field_t_value_set(o)
     \/ field_t_key_get(o) \/ field_t_value_get(o)
     \/ delete_field_t(o) \/ Acquire(o)

OneArray(o) ==
  /\ Usable(o, Array)
  /\ \/ field_array_initialize(o) \/ field_array_destroy(o)
     \/ field_array_set_key(o) \/ field_array_set_value(o)
     \/ field_array_get_num_fields(o)
     \/ field_array_get_key(o) \/ field_array_get_value(o)
     \/ \E f \in held : field_array_get_field(o, f)

OneContext(o) ==
  /\ Usable(o, Context)
  /\ \/ destroy_parse_context(o) \/ imbue_parser(o) \/ parse(o)
     \/ get_number_of_subject_fields(o) \/ get_number_of_object_fields(o)
     \/ \E f \in held : get_subject_field(o, f) \/ get_object_field(o, f)

OneTable(o) ==
  /\ Usable(o, TableType)
  /\ \/ package_get_rpm_files_info(o) \/ package_hash_files(o)
     \/ table_destroy(o) \/ table_initialize(o)
     \/ table_get_column_count(o) \/ table_get_row_count(o)
     \/ table_get_column_name(o) \/ table_get_value(o)
     \/ table_append_row(o) \/ table_append_column(o)
     \/ table_index_create(o)
     \/ \E p \in held : table_find_column_number(o, p)

OneIndex(o) ==
  \/ table_index_destroy(o) \/ table_index_count(o) \/ table_index_find(o)
  \/ \E p \in held \union {NULL} : row_index_next(o, p)

Next ==
  /\ fault = NULL
  /\ \/ \E m \in SwigModules : SWIG_init(m)
     \/ field_t_swigregister \/ RichRegister
     \/ \E name \in {Field, Rich} : OtherReturns(name)
     \/ new_field_t \/ field_array_construct \/ construct_parse_context
     \/ match_filename \/ is_audit_record \/ sha256_file
     \/ package_get_rpm_info \/ table_construct \/ sha256_create
     \/ \E o \in held :
          \/ Drop(o) \/ Disown(o) \/ field_t_swiginit(o)
          \/ OneField(o) \/ OneArray(o) \/ OneContext(o)
          \/ OneTable(o) \/ OneIndex(o) \/ sha256_destroy(o)

Spec == Init /\ [][Next]_vars

-----------------------------------------------------------------------------
Parameters == {Array, Field, Context, TableType, Digest, IndexType, Row, RowNumber}

Texts == {NULL, Argument, Line, Stays}

Pairs == [key : Texts, value : Texts]

(* What a block may hold. *)
Cells ==
  [kind : Parameters, first : Pairs \union {NULL}, second : Pairs \union {NULL},
   of : Blocks \union {NULL, Gone, Taught, "packages", "files", "hashes"}]

(* The library's module has the types of its parameters, the other one those *)
(* of fields and of rich fields; a type goes for itself only, but a rich     *)
(* field goes for a field.                                                   *)
ASSUME ProgramAssumption ==
  /\ {Module, Other} \subseteq SwigModules
  /\ Parameters \subseteq Range(type_initial[Module])
  /\ {Field, Rich} \subseteq Range(type_initial[Other])
  /\ \A m \in SwigModules : \A i \in DOMAIN type_initial[m] :
        \A name \in Range(cast_initial[m][i]) :
           type_initial[m][i] \in Parameters =>
             \/ name = type_initial[m][i]
             \/ type_initial[m][i] = Field /\ name = Rich
  /\ NULL \notin Cells \union Pairs \union {Taught, "freed twice"}

(* Whatever was imported, created, chained, deleted, given back and made     *)
(* again: what C gets for a parameter is a block of the kind it expects, and *)
(* none that was freed behind the program's back.                            *)
ArgumentsAreSound ==
  types[Module] # <<>> =>
    \A o \in held : \A as \in Parameters :
      Usable(o, as) => /\ mem[Pointer(o, as)] # NULL
                       /\ mem[Pointer(o, as)].kind = Kind(as)

(* A field has at most one object that will free it, that object is not      *)
(* outlived by anything it would free again, and nothing is freed twice.     *)
FieldsFreedOnce ==
  /\ fault # "freed twice"
  /\ \A o \in Objects : obj[o] # NULL /\ obj[o].own =>
        /\ mem[obj[o].ptr] # NULL /\ mem[obj[o].ptr].kind = Field
        /\ \A p \in Objects \ {o} :
              obj[p] # NULL /\ obj[p].ptr = obj[o].ptr => ~obj[p].own

(* "Get a subject field from the parsed record": its texts can be read.      *)
(* They cannot: the wrapper of parse frees the line they lie in.             *)
ParsedFieldsReadable == fault # Line
=============================================================================
