------------------------------ MODULE LogLines ------------------------------
(***************************************************************************)
(* The lines of a log as the program sees them.  A line is a sequence of   *)
(* tokens, what blanks separate: a field key=value, a bare word, or the    *)
(* colon between the subject and the object.  A value may hold a further   *)
(* "=" or ":", which the code meets too (extra).                           *)
(***************************************************************************)
EXTENDS Integers, SequencesExt

CONSTANT Text         \* the text of a token that is not a field's name

Field(key, extra) == [kind |-> "field", key |-> key, extra |-> extra]
Word == [kind |-> "word", key |-> Text, extra |-> ""]
Colon == [kind |-> "colon", key |-> Text, extra |-> ""]

(* How many "=" a token has, and whether a ":". *)
Equals(t) == IF t.kind # "field" THEN 0 ELSE IF t.extra = "=" THEN 2 ELSE 1
HasColon(t) == t.kind = "colon" \/ t.extra = ":"

(* is_rule, is_audit_record: how the line begins. *)
LineKinds == {"rule", "audit", "other"}

(* A line is made of fields, words and colons; a colon stands between blanks*)
(* and not right after another one, where the code sees a bare word.        *)
(* endsBlank: its text ends right behind a blank, or behind a last colon.   *)
IsToken(t) ==
  /\ t = [kind |-> t.kind, key |-> t.key, extra |-> t.extra]
  /\ \/ t.kind = "field" /\ t.extra \in {"", "=", ":"}
     \/ t.kind = "word" /\ t.extra \in {"", ":"}
     \/ t = Colon

IsLine(line) ==
  /\ line.kind \in LineKinds /\ line.endsBlank \in BOOLEAN
  /\ line.tokens \in Seq(Range(line.tokens)) /\ line.tokens # <<>>
  /\ \A i \in DOMAIN line.tokens :
       /\ IsToken(line.tokens[i])
       /\ line.tokens[i].kind = "colon" => i > 1 /\ line.tokens[i-1].kind # "colon"

(* The tokens that are fields of one half of a line. *)
InHalf(line, half, i) ==
  /\ line.tokens[i].kind = "field"
  /\ (half = "subject") = (\A c \in DOMAIN line.tokens :
                             line.tokens[c].kind = "colon" => i < c)

(* The keys of these fields in order: up to token k of the line, and all.   *)
PartUpTo(line, half) ==
  LET upTo[k \in 0 .. Len(line.tokens)] ==
        IF k = 0 THEN <<>>
        ELSE IF InHalf(line, half, k) THEN Append(upTo[k-1], line.tokens[k].key)
        ELSE upTo[k-1]
  IN upTo

Part(line, half) == PartUpTo(line, half)[Len(line.tokens)]

SameFields(line, other) ==
  \A half \in {"subject", "object"} :
    Part(line, half) = Part(other, half)
=============================================================================
