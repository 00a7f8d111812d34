------------------------------- MODULE Parser -------------------------------
(***************************************************************************)
(* parse.c and field_array.c: a parser that learns the fields of a record  *)
(* and their order from an exemplar line (imbue_parser), and then picks the*)
(* values out of lines of that shape (parse).                              *)
(*                                                                         *)
(* A value handed out is a pointer into the caller's line: it is "new" when*)
(* it points into the line parsed last, "old" when into an earlier one.    *)
(*                                                                         *)
(* The loops over the characters of a line are folds over its tokens.  What*)
(* is undefined in C ends the run in a status named for it.                *)
(***************************************************************************)
EXTENDS LogLines, FiniteSets

CONSTANTS Lines,           \* the lines the client has
          MallocMayFail,   \* whether an allocation may fail
          NULL,            \* a null pointer, and no line
          OK, ALLOCATION_ERROR, PARSE_ERROR, RANGE_ERROR

ASSUME LinesAssumption ==
  \A line \in Lines : IsLine(line) /\ \A i \in DOMAIN line.tokens : line.tokens[i].key # NULL
ASSUME NullAssumption == NULL \notin Lines /\ NULL \notin {Text, "dec", "new", "old"}
ASSUME CodesAssumption ==
  OK \notin {ALLOCATION_ERROR, PARSE_ERROR, NULL} /\ NULL \notin {ALLOCATION_ERROR, PARSE_ERROR}

VARIABLES subject, object, \* the two field arrays
          exemplar,        \* _exemplar, the line learned last
          imbued,          \* whether the last imbue_parser returned OK
          status,          \* live, destroyed, or what undefined thing was done
          reply            \* the last call; rc is NULL if it never returned

vars == <<subject, object, exemplar, imbued, status, reply>>

-----------------------------------------------------------------------------
(* What imbue_parser works on: a rule gets a "dec=" in front, so that its   *)
(* first word becomes a field, and a blank at the end makes an empty token; *)
(* a colon at the end is refused before its token matters.                  *)
Buffer(line) ==
  LET tokens == IF line.kind = "rule"
                THEN <<Field("dec", "")>> \o Tail(line.tokens)
                ELSE line.tokens
  IN IF line.endsBlank THEN Append(tokens, Word) ELSE tokens

-----------------------------------------------------------------------------
(* field_array_construct *)
EmptyArray == [keys |-> "null", num |-> 0, key |-> <<>>, value |-> <<>>]

(* Mutant of Initialized: no spare element. *)
InitializedTight(num, left) ==
  CASE left = 0 -> EmptyArray
    [] left = 1 -> [EmptyArray EXCEPT !.keys = "freed"]
    [] OTHER    -> [keys |-> "live", num |-> num,
                    key |-> [i \in 0 .. num - 1 |-> NULL],
                    value |-> [i \in 0 .. num - 1 |-> NULL]]

(* field_array_initialize when the next left allocations succeed: keys and  *)
(* values are one longer than num.  When the values cannot be allocated,    *)
(* keys stays a pointer to freed memory.                                    *)
Initialized(num, left) ==
  CASE left = 0 -> EmptyArray
    [] left = 1 -> [EmptyArray EXCEPT !.keys = "freed"]
    [] OTHER    -> [keys |-> "live", num |-> num,
                    key |-> [i \in 0 .. num |-> NULL],
                    value |-> [i \in 0 .. num |-> NULL]]

(* Mutant of Access: the arrays have num elements, not one more. *)
AccessTight(array, index) ==
  CASE array.keys = "null"   -> "null dereferenced"
    [] array.keys = "freed"  -> "freed memory used"
    [] array.keys = "live" /\ index >= array.num -> "overrun"
    [] OTHER                 -> "live"

(* What reading or writing element index of an array's keys leads to. *)
Access(array, index) ==
  CASE array.keys = "null"   -> "null dereferenced"
    [] array.keys = "freed"  -> "freed memory used"
    [] array.keys = "live" /\ index > array.num -> "overrun"
    [] OTHER                 -> "live"

-----------------------------------------------------------------------------
(* imbue_parser, first pass: count the fields of the subject and the object.*)
(* The subject is allocated at every colon, in a value or not.              *)
CountToken(p, t) ==
  LET num == p.num + Equals(t)
  IN CASE p.rc # OK -> p
       [] p.rc = OK /\ ~HasColon(t) -> [p EXCEPT !.num = num]
       [] p.rc = OK /\ HasColon(t) /\ num = 0 -> [p EXCEPT !.rc = PARSE_ERROR]
       [] OTHER -> [p EXCEPT !.num = 0, !.left = p.left - 2,
                             !.subject = Initialized(num, p.left),
                             !.rc = IF p.left < 2 THEN ALLOCATION_ERROR ELSE OK]

(* Mutant of Counted: whether the object was allocated is not looked at. *)
CountedUnchecked(line, left) ==
  LET p == FoldLeft(CountToken,
             [num |-> 0, subject |-> subject, left |-> left, rc |-> OK],
             Buffer(line))
  IN CASE p.rc # OK -> [subject |-> p.subject, object |-> object, rc |-> p.rc]
       [] p.rc = OK /\ p.num = 0 ->
            [subject |-> p.subject, object |-> object, rc |-> PARSE_ERROR]
       [] OTHER -> [subject |-> p.subject,
                    object |-> Initialized(p.num, p.left), rc |-> OK]

(* The arrays and the result of the first pass; left allocations succeed.   *)
Counted(line, left) ==
  LET p == FoldLeft(CountToken,
             [num |-> 0, subject |-> subject, left |-> left, rc |-> OK],
             Buffer(line))
  IN CASE p.rc # OK -> [subject |-> p.subject, object |-> object, rc |-> p.rc]
       [] p.rc = OK /\ p.num = 0 ->
            [subject |-> p.subject, object |-> object, rc |-> PARSE_ERROR]
       [] OTHER -> [subject |-> p.subject,
                    object |-> Initialized(p.num, p.left),
                    rc |-> IF p.left < 2 THEN ALLOCATION_ERROR ELSE OK]

(* Mutant of SetKey: the colon does not start the index anew. *)
SetKeyOnward(p, t) ==
  LET access == Access(p[p.half], p.index)
  IN CASE p.status # "live" -> p
       [] p.status = "live" /\ t.kind = "colon" -> [p EXCEPT !.half = "object"]
       [] p.status = "live" /\ t.kind # "colon" /\ access # "live" ->
            [p EXCEPT !.status = access]
       [] OTHER -> [p EXCEPT ![p.half].key[p.index] = t.key,
                             !.index = p.index + 1]

(* imbue_parser, second pass: every token but the colon is a key, bare words*)
(* too, and the colon goes on with the object.  Nothing bounds the index.   *)
SetKey(p, t) ==
  LET access == Access(p[p.half], p.index)
  IN CASE p.status # "live" -> p
       [] p.status = "live" /\ t.kind = "colon" ->
            [p EXCEPT !.half = "object", !.index = 0]
       [] p.status = "live" /\ t.kind # "colon" /\ access # "live" ->
            [p EXCEPT !.status = access]
       [] OTHER -> [p EXCEPT ![p.half].key[p.index] = t.key,
                             !.index = p.index + 1]

Keyed(line, counted) ==
  FoldLeft(SetKey,
    [subject |-> counted.subject, object |-> counted.object,
     half |-> "subject", index |-> 0, status |-> "live"],
    Buffer(line))

-----------------------------------------------------------------------------
(* parse, at an "=": the text since the last blank must be the next key, at *)
(* one in a value as well.                                                  *)
MatchKey(p, t) ==
  LET array == p[p.half]
      access == Access(array, p.index)
  IN CASE access # "live" -> [p EXCEPT !.status = access]
       [] access = "live" /\ array.key[p.index] = NULL ->
            [p EXCEPT !.status = "null dereferenced"]
       [] access = "live" /\ array.key[p.index] \notin {NULL, t.key} ->
            [p EXCEPT !.rc = PARSE_ERROR]
       [] OTHER -> [p EXCEPT ![p.half].value[p.index] = "new",
                             !.index = p.index + 1]

(* Mutant of ParseToken: the subject's fields are not counted at the colon. *)
ParseTokenUncounted(p, t) ==
  LET running == p.rc = OK /\ p.status = "live"
  IN CASE running /\ t.kind = "colon" -> [p EXCEPT !.half = "object", !.index = 0]
       [] running /\ t.kind = "field" -> MatchKey(p, t)
       [] OTHER -> p

ParseToken(p, t) ==
  LET running == p.rc = OK /\ p.status = "live"
  IN CASE running /\ t.kind = "colon" /\ p.index # p.subject.num ->
            [p EXCEPT !.rc = PARSE_ERROR]
       [] running /\ t.kind = "colon" /\ p.index = p.subject.num ->
            [p EXCEPT !.half = "object", !.index = 0]
       [] running /\ t.kind = "field" ->
            LET q == MatchKey(p, t)
            IN IF Equals(t) = 2 /\ q.rc = OK /\ q.status = "live"
               THEN MatchKey(q, t) ELSE q
       [] OTHER -> p

(* The caller's line replaces the one before: older values are stale. *)
Aged(array) ==
  [array EXCEPT !.value = [i \in DOMAIN array.value |->
                             IF array.value[i] = NULL THEN NULL ELSE "old"]]

(* Mutant of Parsed: the object's fields are not counted at the end. *)
ParsedUncounted(line) ==
  FoldLeft(ParseToken,
    [subject |-> Aged(subject), object |-> Aged(object),
     half |-> "subject", index |-> 0, rc |-> OK, status |-> "live"],
    line.tokens)

(* The whole of parse: at the end only the object's fields are counted, and *)
(* a line that ends in a blank, or in a colon, is read past its end.        *)
Parsed(line) ==
  LET p == FoldLeft(ParseToken,
             [subject |-> Aged(subject), object |-> Aged(object),
              half |-> "subject", index |-> 0, rc |-> OK, status |-> "live"],
             line.tokens)
  IN CASE p.rc # OK \/ p.status # "live" -> p
       [] p.rc = OK /\ p.status = "live" /\ line.endsBlank ->
            [p EXCEPT !.status = "overrun"]
       [] OTHER -> [p EXCEPT !.rc = IF p.index = p.object.num THEN OK ELSE PARSE_ERROR]

-----------------------------------------------------------------------------
Reply(op, line, rc) == [op |-> op, line |-> line, rc |-> rc]

(* How many allocations succeed before one fails: fields are allocated two  *)
(* at a time, at each colon and for the object.                             *)
Allocations(line) ==
  2 * (1 + Cardinality({i \in DOMAIN Buffer(line) : HasColon(Buffer(line)[i])}))
Allowances(line) ==
  IF MallocMayFail THEN 0 .. Allocations(line) ELSE {Allocations(line)}

Init ==
  /\ subject = EmptyArray /\ object = EmptyArray
  /\ exemplar = NULL /\ imbued = FALSE
  /\ status = "live"
  /\ reply = Reply("construct", NULL, OK)

(* A line of another kind, or no memory for the buffer. *)
ImbueRefused(line) ==
  /\ status = "live"
  /\ \/ line.kind = "other" /\ reply' = Reply("imbue", line, PARSE_ERROR)
     \/ /\ line.kind # "other" /\ MallocMayFail
        /\ reply' = Reply("imbue", line, ALLOCATION_ERROR)
  /\ imbued' = FALSE
  /\ UNCHANGED <<subject, object, exemplar, status>>

Imbue(line) ==
  /\ status = "live" /\ line.kind # "other"
  /\ \E left \in Allowances(line) :
       LET counted == Counted(line, left)
           keyed == Keyed(line, counted)
       IN IF counted.rc # OK
          THEN /\ subject' = counted.subject /\ object' = counted.object
               /\ imbued' = FALSE
               /\ reply' = Reply("imbue", line, counted.rc)
               /\ UNCHANGED <<exemplar, status>>
          ELSE /\ subject' = keyed.subject /\ object' = keyed.object
               /\ status' = keyed.status
               /\ imbued' = TRUE /\ exemplar' = line
               /\ reply' = Reply("imbue", line, IF keyed.status = "live" THEN OK ELSE NULL)

(* The client parses with a context it has taught once. *)
Parse(line) ==
  /\ status = "live" /\ exemplar # NULL
  /\ LET p == Parsed(line)
     IN /\ subject' = p.subject /\ object' = p.object
        /\ status' = p.status
        /\ reply' = Reply("parse", line, IF p.status = "live" THEN p.rc ELSE NULL)
  /\ UNCHANGED <<exemplar, imbued>>

(* get_subject_field, get_object_field *)
GetField(array, number) ==
  /\ status = "live"
  /\ reply' = Reply("get", NULL, IF number < array.num THEN OK ELSE RANGE_ERROR)
  /\ UNCHANGED <<subject, object, exemplar, imbued, status>>

Destroy ==
  /\ status = "live"
  /\ status' = IF "freed" \in {subject.keys, object.keys}
               THEN "freed twice" ELSE "destroyed"
  /\ UNCHANGED <<subject, object, exemplar, imbued, reply>>

(* The calls of a client that has these lines. *)
Calls(lines) ==
  \/ \E line \in lines : ImbueRefused(line) \/ Imbue(line) \/ Parse(line)
  \/ \E array \in {subject, object} : \E number \in 0 .. array.num : GetField(array, number)
  \/ Destroy

Next == Calls(Lines)

Spec == Init /\ [][Next]_vars

-----------------------------------------------------------------------------
OneColon(tokens) ==
  \E c \in DOMAIN tokens : \A i \in DOMAIN tokens : tokens[i].kind = "colon" <=> i = c

(* A line with both halves, no "=" or ":" in a value, and a line feed. *)
Plain(line) ==
  /\ line.kind = "audit" /\ ~line.endsBlank
  /\ OneColon(line.tokens)
  /\ \A i \in DOMAIN line.tokens : line.tokens[i].extra = ""
  /\ Part(line, "object") # <<>>

(* Bare words in it, if any, end a half: one more key than it has fields. *)
WordsLast(line) ==
  \A i \in DOMAIN line.tokens :
    line.tokens[i].kind = "word" =>
      i = Len(line.tokens) \/ line.tokens[i+1].kind = "colon"

(* What a state of the parser is made of. *)
ArrayOK(array) ==
  /\ array.keys \in {"null", "live", "freed"} /\ array.num \in Nat
  /\ array.keys # "live" => array = [EmptyArray EXCEPT !.keys = array.keys]
  /\ array.keys = "live" => /\ DOMAIN array.key = 0 .. array.num
                            /\ array.value \in [0 .. array.num -> {NULL, "new", "old"}]

TypeOK ==
  /\ ArrayOK(subject) /\ ArrayOK(object)
  /\ exemplar \in Lines \union {NULL} /\ imbued \in BOOLEAN
  /\ status \in {"live", "destroyed", "null dereferenced", "freed memory used",
                 "overrun", "freed twice"}

(* parse.h: the parser accepts the records with the fields of the exemplar  *)
(* in the exemplar's order, and no others.                                  *)
AcceptsTheSameFields ==
  reply.op = "parse" /\ reply.rc # NULL /\ imbued
    /\ Plain(reply.line) /\ Plain(exemplar) /\ WordsLast(exemplar)
  => (reply.rc = OK <=> SameFields(reply.line, exemplar))

(* After a record with both halves was accepted every value of both arrays  *)
(* belongs to it: none is missing, none points into an earlier line, however*)
(* the parser was taught and whatever was rejected before.                  *)
AllNew(array) == \A i \in 0 .. array.num - 1 : array.value[i] = "new"

RecordFresh ==
  reply.op = "parse" /\ reply.rc = OK
    /\ (\E i \in DOMAIN reply.line.tokens : reply.line.tokens[i].kind = "colon")
  => AllNew(subject) /\ AllNew(object)

(* A context taught by a plain exemplar is safe to parse plain records with *)
(* except for one thing: a record that goes on after the exemplar's fields. *)
CrashesOnMoreFieldsOnly ==
  reply.op = "parse" /\ reply.rc = NULL /\ imbued
    /\ Plain(reply.line) /\ Plain(exemplar) /\ WordsLast(exemplar)
  => \E half \in {"subject", "object"} :
       Len(Part(reply.line, half)) > Len(Part(exemplar, half))

(* Between two imbues the keys are those of the exemplar, one by one: the    *)
(* reason for AcceptsTheSameFields, and proved beside it.                    *)
KeysOfTheExemplar ==
  imbued /\ Plain(exemplar) /\ WordsLast(exemplar) =>
    \A half \in {"subject", "object"} :
      LET array == IF half = "subject" THEN subject ELSE object
          keys == Part(exemplar, half)
      IN array.num = Len(keys) /\ \A i \in 1 .. array.num : array.key[i-1] = keys[i]

(* field_array_initialize makes room for one key more than it was asked for:*)
(* enough for an exemplar with one bare word in each half, or a blank at the*)
(* end, as long as it has one colon, and none in a value.                   *)
OneSpareKey ==
  reply.op = "imbue" /\ status = "overrun" =>
    LET tokens == Buffer(reply.line)
    IN \/ \E i \in DOMAIN tokens : tokens[i].extra = ":"
       \/ ~ OneColon(tokens)
       \/ \E i, j \in DOMAIN tokens :
            /\ i < j /\ tokens[i].kind = "word" /\ tokens[j].kind = "word"
            /\ \A m \in i .. j : tokens[m].kind # "colon"

(* A context can be destroyed whenever the last imbue_parser succeeded,     *)
(* whichever allocations failed in the ones before.                         *)
DestroyableOnceImbued == imbued => status # "freed twice"
=============================================================================
