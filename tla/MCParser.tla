------------------------------ MODULE MCParser ------------------------------
(***************************************************************************)
(* Instances of Parser for TLC: the lines of the client.                   *)
(***************************************************************************)
EXTENDS Parser

Line(kind, tokens, endsBlank) ==
  [kind |-> kind, tokens |-> tokens, endsBlank |-> endsBlank]

F(key) == Field(key, "")
Rule == F("rule")

(* Audit records of up to two fields a half, a bare word after some of them.*)
SubjectHalves ==
  {<<Rule>>} \union {<<Rule, F(key)>> : key \in {"dec", "exe"}}
    \union {<<Rule, Word>>, <<Rule, Word, F("dec")>>}

ObjectHalves ==
  {<<F(key)>> : key \in {"path", "exe"}}
    \union {<<F("path"), F(key)>> : key \in {"exe", "ftype"}}
    \union {<<F("path"), Word>>}

RecordLines ==
  {Line("audit", s \o <<Colon>> \o o, FALSE) : s \in SubjectHalves, o \in ObjectHalves}

(* Records that lack a half, hold "=" or ":" in a value, or end in a blank  *)
(* or in a colon, with the end of the text or a newline behind it.          *)
OddLines ==
  {Line("audit", <<Rule, F("dec"), Colon, F("path")>>, FALSE),
   Line("audit", <<Rule, F("dec"), Colon, F("path")>>, TRUE),
   Line("audit", <<Rule, Colon, F("path"), F("ftype")>>, FALSE),
   Line("audit", <<Rule, F("dec")>>, FALSE),
   Line("audit", <<Rule, F("dec"), Colon>>, FALSE),
   Line("audit", <<Rule, F("dec"), Colon>>, TRUE),
   Line("audit", <<Rule, Field("exe", ":"), F("path")>>, FALSE),
   Line("audit", <<Rule, F("dec"), Colon, Field("path", ":"), F("ftype")>>, FALSE),
   Line("audit", <<Rule, F("dec"), Colon, Field("path", "="), F("ftype")>>, FALSE),
   Line("audit", <<Rule, F("dec"), Word, Colon, F("path"), Word>>, FALSE),
   Line("audit", <<Rule, Word, Word, F("dec"), Colon, F("path")>>, FALSE),
   Line("audit", <<Rule, Colon, F("path"), F("exe"), F("ftype"), Colon, F("ftype")>>, FALSE),
   Line("audit", <<Rule, F("dec"), F("exe")>>, FALSE),
   Line("rule", <<Word, F("perm"), Colon, F("path")>>, FALSE),
   Line("other", <<Word, F("uid")>>, FALSE)}

AllLines == RecordLines \union OddLines

(* Two clients: one has well-formed records, and memory; the other has odd  *)
(* records and may run out of memory anywhere.                              *)
VARIABLE family

FamilyInit == Init /\ family \in {RecordLines, OddLines}

FamilyNext ==
  /\ Calls(family)
  /\ family = OddLines \/ reply'.rc # ALLOCATION_ERROR
  /\ UNCHANGED family

FamilySpec == FamilyInit /\ [][FamilyNext]_<<vars, family>>
=============================================================================
