------------------------------ MODULE MCPython ------------------------------
(* A Python program with two modules made by SWIG, in either order.          *)
EXTENDS PythonBinding

(* BOUND: of the 14 types those that Python gets objects of. *)
MCNames ==
  <<"_p_field_array_stuct", "_p_field_struct", "_p_parse_context_struct",
    "_p_row_index_struct", "_p_sha256_ctx_struct", "_p_size_t",
    "_p_table_index_struct", "_p_table_struct">>

MCOrder == SubSeq(MCNames, 1, 3) \o <<"_p_rich_field">> \o SubSeq(MCNames, 4, 8)

MCModules == {Module, Other}

MCTypes == (Module :> MCNames) @@ (Other :> <<Field, Rich>>)

(* Each type goes for itself; a rich field goes for a field too. *)
MCCasts == (Module :> [k \in DOMAIN MCNames |-> <<MCNames[k]>>])
           @@ (Other :> <<<<Field, Rich>>, <<Rich>>>>)

(* BOUND: only kinds of blocks that meet in some call are there together,  *)
(* besides the other module only fields, and three blocks only if all are   *)
(* fields without texts and the other module is not there.                  *)
Meeting == {{Field, Array}, {Field, Context}, {TableType, IndexType}, {Digest}}

FewBlocks ==
  LET kinds == {mem'[b].kind : b \in {b \in Blocks : mem'[b] # NULL}}
      alone == types'[Other] = <<>>
  IN /\ \E together \in Meeting : kinds \subseteq together
     /\ alone \/ kinds \subseteq {Field}
     /\ \/ \E b \in Blocks : mem'[b] = NULL
        \/ alone /\ \A b \in Blocks : mem'[b] = NewField

MCSymmetry == Permutations(Objects) \union Permutations(Blocks)
=============================================================================
