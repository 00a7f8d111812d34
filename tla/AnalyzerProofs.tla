--------------------------- MODULE AnalyzerProofs ---------------------------
(***************************************************************************)
(* Theorems about the program, for files of any length and lines of any    *)
(* kind: what ParserProofs and HashSetProofs say of its parser and of its  *)
(* set of allow rules, put together.                                       *)
(***************************************************************************)
EXTENDS Analyzer, SequenceTheorems, TLAPS

P == INSTANCE ParserProofs WITH
  status <- parser_status, reply <- parser_reply

S == INSTANCE HashSetProofs WITH
  Keys   <- Rules, Calls <- {"add", "next"},
  status <- set_status, reply <- set_reply

-----------------------------------------------------------------------------
(* P and S have definitions of their own of what Analyzer knows as Parser   *)
(* and Allow: they are the same.                                            *)
LEMMA LinesAreLines ==
  /\ P!LinesAssumption /\ P!NullAssumption /\ P!CodesAssumption
  /\ S!NoneAssumption /\ S!HashesAssumption /\ S!NodesAssumption
BY ParserAssumption, SetAssumption
   DEF Parser!LinesAssumption, Parser!NullAssumption, Parser!CodesAssumption,
       P!IsLine, Parser!IsLine, P!IsToken, Parser!IsToken, P!LineKinds, Parser!LineKinds,
       P!Range, Parser!Range, P!Colon, Parser!Colon,
       Allow!NoneAssumption, Allow!HashesAssumption, Allow!NodesAssumption

LEMMA SameCounted ==
  ASSUME NEW line, NEW left
  PROVE  P!Counted(line, left) = Parser!Counted(line, left)
BY DEF P!Counted, Parser!Counted, P!Buffer, Parser!Buffer, P!Field, Parser!Field,
       P!Word, Parser!Word, P!CountToken, Parser!CountToken, P!HasColon, Parser!HasColon,
       P!Initialized, Parser!Initialized, P!EmptyArray, Parser!EmptyArray,
       P!Equals, Parser!Equals, P!FoldLeft, Parser!FoldLeft,
       P!MapThenFoldSet, Parser!MapThenFoldSet, P!Max, Parser!Max

LEMMA SameKeyed ==
  ASSUME NEW line, NEW counted
  PROVE  P!Keyed(line, counted) = Parser!Keyed(line, counted)
BY DEF P!Keyed, Parser!Keyed, P!Buffer, Parser!Buffer, P!Field, Parser!Field,
       P!Word, Parser!Word, P!SetKey, Parser!SetKey, P!Access, Parser!Access,
       P!FoldLeft, Parser!FoldLeft, P!MapThenFoldSet, Parser!MapThenFoldSet, P!Max, Parser!Max

LEMMA SameAllowances ==
  ASSUME NEW line
  PROVE  P!Allowances(line) = Parser!Allowances(line)
BY DEF P!Allowances, Parser!Allowances, P!Allocations, Parser!Allocations,
       P!Buffer, Parser!Buffer, P!Field, Parser!Field, P!Word, Parser!Word,
       P!HasColon, Parser!HasColon, P!Cardinality, Parser!Cardinality

(* parse: its loop over the tokens, and what it does at the end.            *)
ParseAll(base, tokens) == Parser!FoldLeft(Parser!ParseToken, base, tokens)

AtTheEnd(p, line) ==
  CASE p.rc # OK \/ p.status # "live" -> p
    [] p.rc = OK /\ p.status = "live" /\ line.endsBlank -> [p EXCEPT !.status = "overrun"]
    [] OTHER -> [p EXCEPT !.rc = IF p.index = p.object.num THEN OK ELSE PARSE_ERROR]

LEMMA SameParseAll ==
  ASSUME NEW base, NEW tokens
  PROVE  P!ParseAll(base, tokens) = ParseAll(base, tokens)
BY ZenonT(60)
   DEF P!ParseAll, ParseAll, P!ParseToken, Parser!ParseToken, P!MatchKey, Parser!MatchKey,
       P!Access, Parser!Access, P!Equals, Parser!Equals, P!FoldLeft, Parser!FoldLeft,
       P!MapThenFoldSet, Parser!MapThenFoldSet, P!Max, Parser!Max

LEMMA SameParsed ==
  ASSUME NEW line
  PROVE  P!Parsed(line) = Parser!Parsed(line)
<1>1. P!Parsed(line) = AtTheEnd(P!ParseAll(P!ParseBase, line.tokens), line)
      BY Zenon DEF P!Parsed, P!ParseAll, P!ParseBase, AtTheEnd
<1>2. Parser!Parsed(line) = AtTheEnd(ParseAll(P!ParseBase, line.tokens), line)
      BY Zenon DEF Parser!Parsed, ParseAll, P!ParseBase, AtTheEnd, Parser!Aged, P!Aged
<1> QED  BY <1>1, <1>2, SameParseAll

LEMMA ParserSteps ==
  ASSUME NEW line
  PROVE  /\ Parser!Imbue(line) => P!Imbue(line)
         /\ Parser!ImbueRefused(line) => P!ImbueRefused(line)
         /\ Parser!Parse(line) => P!Parse(line)
<1>1. Parser!Imbue(line) => P!Imbue(line)
      BY SameCounted, SameKeyed, SameAllowances DEF P!Imbue, Parser!Imbue, P!Reply, Parser!Reply
<1>2. Parser!ImbueRefused(line) => P!ImbueRefused(line)
      BY DEF P!ImbueRefused, Parser!ImbueRefused, P!Reply, Parser!Reply
<1>3. Parser!Parse(line) => P!Parse(line)
      BY SameParsed DEF P!Parse, Parser!Parse, P!Reply, Parser!Reply
<1> QED  BY <1>1, <1>2, <1>3

LEMMA SamePart ==
  ASSUME NEW line, NEW half
  PROVE  P!Part(line, half) = Part(line, half) /\ Parser!Part(line, half) = Part(line, half)
BY DEF Part, PartUpTo, InHalf, P!Part, P!PartUpTo, P!InHalf,
       Parser!Part, Parser!PartUpTo, Parser!InHalf

LEMMA SameOfLines ==
  ASSUME NEW line
  PROVE  /\ P!Plain(line) <=> Parser!Plain(line)
         /\ P!WordsLast(line) <=> Parser!WordsLast(line)
         /\ \A other : P!SameFields(line, other) <=> SameFields(line, other)
<1>1. P!Plain(line) <=> Parser!Plain(line)
      BY SamePart DEF P!Plain, Parser!Plain, P!OneColon, Parser!OneColon
<1>2. P!WordsLast(line) <=> Parser!WordsLast(line)
      BY DEF P!WordsLast, Parser!WordsLast
<1>3. \A other : P!SameFields(line, other) <=> SameFields(line, other)
      BY SamePart DEF P!SameFields, SameFields
<1> QED  BY <1>1, <1>2, <1>3

LEMMA SameIndex ==
  ASSUME NEW rule
  PROVE  S!Index(rule) = Allow!Index(rule)
BY DEF S!Index, Allow!Index, S!StopsAt, Allow!StopsAt, S!Probe, Allow!Probe,
       S!PassesBy, Allow!PassesBy

LEMMA SetAdds ==
  ASSUME NEW rule
  PROVE  /\ Allow!AddPresent(rule) => S!AddPresent(rule)
         /\ Allow!AddAbsent(rule) => S!AddAbsent(rule)
         /\ Allow!AddGrow(rule) => S!AddGrow(rule)
         /\ Allow!AddGrowFails(rule) => S!AddGrowFails(rule)
BY SameIndex
   DEF Allow!AddPresent, S!AddPresent, Allow!AddAbsent, S!AddAbsent, Allow!AddGrow, S!AddGrow,
       Allow!AddGrowFails, S!AddGrowFails, Allow!Call, S!Call, Allow!Reply, S!Reply,
       Allow!Crowded, S!Crowded, Allow!AssignAndCount, S!AssignAndCount,
       Allow!Allocated, S!Allocated

LEMMA SetSteps ==
  /\ Allow!RehashNode => S!RehashNode
  /\ Allow!AddAfterRehash => S!AddAfterRehash
  /\ Allow!NextKey => S!NextKey
  /\ Allow!NextEnd => S!NextEnd
<1>1. Allow!RehashNode => S!RehashNode
      BY SameIndex DEF Allow!RehashNode, S!RehashNode
<1>2. Allow!AddAfterRehash => S!AddAfterRehash
      BY DEF Allow!AddAfterRehash, S!AddAfterRehash, Allow!AssignAndCount, S!AssignAndCount,
             Allow!Allocated, S!Allocated, Allow!Reply, S!Reply
<1>3. Allow!NextKey => S!NextKey
      BY DEF Allow!NextKey, S!NextKey, Allow!Call, S!Call, Allow!Reply, S!Reply,
             Allow!Occupied, S!Occupied, Allow!Slots, S!Slots
<1>4. Allow!NextEnd => S!NextEnd
      BY DEF Allow!NextEnd, S!NextEnd, Allow!Call, S!Call, Allow!Reply, S!Reply,
             Allow!Occupied, S!Occupied, Allow!Slots, S!Slots
<1> QED  BY <1>1, <1>2, <1>3, <1>4

LEMMA SameInit ==
  ASSUME Init
  PROVE  P!Init /\ S!Init
BY DEF Init, Parser!Init, P!Init, Parser!EmptyArray, P!EmptyArray, Parser!Reply, P!Reply,
       Allow!Init, S!Init, Allow!InitialNodes, S!InitialNodes, Allow!Reply, S!Reply,
       Allow!HASH_SET_DEFAULT_NUM_NODES, S!HASH_SET_DEFAULT_NUM_NODES

-----------------------------------------------------------------------------
(* Where main is in the file.                                               *)
Reading == {"record", "process", "grow", "read"}

PlaceInv ==
  /\ file \in Seq(Lines) /\ at \in 0 .. Len(file) + 1
  /\ main \in {"open", "skip", "emit"} \union Reading \union Ended
  /\ starved \in BOOLEAN /\ erred \in BOOLEAN
  /\ main = "open" => at = 0
  /\ main = "skip" => at >= 1 /\ \A i \in 1 .. at - 1 : ~ IsAuditRecord(file[i])
  /\ main \in Reading \union {"stale"} => at \in 1 .. Len(file)
  /\ main \in {"process", "grow", "stale"} => IsAuditRecord(Line)
  /\ main \in {"emit", "success"} => (erred /\ at \in 1 .. Len(file)) \/ at = Len(file) + 1

LEMMA LineInHand ==
  ASSUME PlaceInv, at \in 1 .. Len(file)
  PROVE  Line \in Lines
BY DEF PlaceInv, Line

LEMMA PlaceInit == Init => PlaceInv
<1> SUFFICES ASSUME Init PROVE PlaceInv  OBVIOUS
<1>1. PICK length \in 0 .. MaxLines : file \in [1 .. length -> Lines]  BY DEF Init
<1>2. length \in Nat  BY <1>1, BoundAssumption
<1>3. file \in Seq(Lines) /\ Len(file) \in Nat  BY <1>1, <1>2
<1>4. at = 0 /\ main = "open" /\ starved = FALSE /\ erred = FALSE  BY DEF Init
<1>5. at \in 0 .. Len(file) + 1  BY <1>3, <1>4
<1> QED  BY ONLY <1>3, <1>4, <1>5 DEF PlaceInv, Reading, Ended

LEMMA PlaceStep ==
  ASSUME PlaceInv, [Next \/ Done]_vars
  PROVE  PlaceInv'
<1> USE DEF PlaceInv, Reading, Ended, Line, AtEnd
<1>1. Len(file) \in Nat  OBVIOUS
<1>2. CASE Open
      BY <1>1, <1>2 DEF Open
<1>3. CASE SkipLine
      BY <1>1, <1>3 DEF SkipLine
<1>4. CASE NothingToLearn
      BY <1>1, <1>4 DEF NothingToLearn
<1>5. CASE Learn
      BY <1>1, <1>5 DEF Learn
<1>6. CASE ParseLine
      BY <1>1, <1>6 DEF ParseLine
<1>7. CASE IgnoreLine
      BY <1>1, <1>7 DEF IgnoreLine
<1>8. CASE ProcessRecord
      BY <1>1, <1>8 DEF ProcessRecord
<1>9. CASE ProcessStaleRecord
      BY <1>1, <1>9 DEF ProcessStaleRecord
<1>10. CASE Grow
      BY <1>1, <1>10 DEF Grow
<1>11. CASE ReadLine
  <2>1. at \in 1 .. Len(file) /\ main = "read"  BY <1>11 DEF ReadLine
  <2>2. UNCHANGED <<file, starved>>  BY <1>11 DEF ReadLine
  <2>3. CASE at' = at + 1 /\ main' = (IF at' > Len(file) THEN "emit" ELSE "record")
             /\ UNCHANGED erred
        BY <1>1, <2>1, <2>2, <2>3
  <2>4. CASE at' = at /\ main' = "emit" /\ erred' = TRUE
        BY <1>1, <2>1, <2>2, <2>4
  <2> QED  BY <1>11, <2>3, <2>4 DEF ReadLine
<1>12. CASE EmitRule
      BY <1>1, <1>12 DEF EmitRule
<1>13. CASE EmitEnd
      BY <1>1, <1>13 DEF EmitEnd
<1>14. CASE UNCHANGED vars
      BY <1>14 DEF vars
<1> QED
    BY <1>2, <1>3, <1>4, <1>5, <1>6, <1>7, <1>8, <1>9, <1>10, <1>11, <1>12, <1>13, <1>14
    DEF Next, Done

-----------------------------------------------------------------------------
(* The parser was taught the first record of the file, and what it answered *)
(* last is about the line in hand.                                          *)
IsFirst(f) ==
  /\ f \in 1 .. Len(file) /\ IsAuditRecord(file[f])
  /\ \A i \in 1 .. f - 1 : ~ IsAuditRecord(file[i])

ParserInv ==
  /\ P!Safe /\ P!Learned /\ P!RecordFresh
  /\ P!AcceptsTheSameFields /\ P!CrashesOnMoreFieldsOnly
  /\ main \in {"emit", "success", "stale"} \union Reading =>
       /\ imbued /\ parser_status = "live"
       /\ \E f \in 1 .. Len(file) : f <= at /\ IsFirst(f) /\ exemplar = file[f]
  /\ main \in {"process", "stale"} => parser_reply = P!Reply("parse", Line, OK)

LEMMA ParserKeeps ==
  ASSUME P!Safe, P!Learned, P!RecordFresh,
         P!AcceptsTheSameFields, P!CrashesOnMoreFieldsOnly, [P!Next]_(P!vars)
  PROVE  (P!Safe /\ P!Learned /\ P!RecordFresh
          /\ P!AcceptsTheSameFields /\ P!CrashesOnMoreFieldsOnly)'
<1>1. P!Safe'  BY LinesAreLines, P!SafeStep
<1>2. P!Learned'  BY LinesAreLines, P!LearnedStep
<1>3. P!RecordFresh'  BY LinesAreLines, P!FreshStep
<1>4. P!AcceptsTheSameFields' /\ P!CrashesOnMoreFieldsOnly'  BY LinesAreLines, P!AnswerStep
<1> QED  BY <1>1, <1>2, <1>3, <1>4

LEMMA ParserInit == Init => ParserInv
<1> SUFFICES ASSUME Init PROVE ParserInv  OBVIOUS
<1>1. P!Init  BY SameInit
<1>2. P!Safe /\ P!Learned /\ P!AcceptsTheSameFields /\ P!CrashesOnMoreFieldsOnly
      BY <1>1, LinesAreLines, P!SafeInit, P!LearnedInit, P!AnswerInit
<1>3. P!RecordFresh  BY <1>1 DEF P!Init, P!RecordFresh, P!Reply
<1>4. main = "open"  BY DEF Init
<1> QED  BY <1>2, <1>3, <1>4 DEF ParserInv, Reading

(* What imbue_parser and parse left when they returned OK.                  *)
LEMMA LearnedWell ==
  ASSUME NEW line, P!Imbue(line) \/ P!ImbueRefused(line), parser_reply'.rc = OK
  PROVE  imbued' /\ parser_status' = "live" /\ exemplar' = line
<1>1. OK # NULL /\ OK # ALLOCATION_ERROR /\ OK # PARSE_ERROR
      BY ParserAssumption DEF Parser!CodesAssumption
<1>2. CASE P!ImbueRefused(line)
      BY <1>1, <1>2 DEF P!ImbueRefused, P!Reply
<1>3. CASE P!Imbue(line)
      BY <1>1, <1>3 DEF P!Imbue, P!Reply
<1> QED  BY <1>2, <1>3

LEMMA ParsedWell ==
  ASSUME NEW line, P!Parse(line), parser_reply'.rc = OK
  PROVE  /\ parser_status' = "live" /\ parser_reply' = P!Reply("parse", line, OK)
         /\ exemplar' = exemplar /\ imbued' = imbued
<1>1. OK # NULL  BY ParserAssumption DEF Parser!CodesAssumption
<1> QED  BY <1>1 DEF P!Parse, P!Reply

LEMMA ParserStep ==
  ASSUME PlaceInv, ParserInv, [Next \/ Done]_vars
  PROVE  ParserInv'
<1> DEFINE Taught == main \in {"emit", "success", "stale"} \union Reading
           Exemplar == \E f \in 1 .. Len(file) : f <= at /\ IsFirst(f) /\ exemplar = file[f]
<1>1. file' = file
      BY DEF Next, Done, Open, SkipLine, NothingToLearn, Learn, ParseLine, IgnoreLine,
             ProcessRecord, ProcessStaleRecord, Grow, ReadLine, EmitRule, EmitEnd, vars
<1>0. at \in Nat /\ at' \in Nat  BY PlaceStep DEF PlaceInv
<1>2. ASSUME UNCHANGED parser_vars, Taught' => Taught, at' >= at,
             main' \in {"process", "stale"} => main \in {"process", "stale"} /\ at' = at
      PROVE  ParserInv'
  <2>1. UNCHANGED P!vars  BY <1>2 DEF parser_vars, P!vars
  <2>2. (P!Safe /\ P!Learned /\ P!RecordFresh
          /\ P!AcceptsTheSameFields /\ P!CrashesOnMoreFieldsOnly)'
        BY <2>1, ParserKeeps DEF ParserInv
  <2>3. Taught' => (imbued /\ parser_status = "live" /\ Exemplar)'
    <3> SUFFICES ASSUME Taught'  PROVE imbued' /\ parser_status' = "live" /\ Exemplar'
        OBVIOUS
    <3>1. imbued /\ parser_status = "live" /\ Exemplar  BY <1>2 DEF ParserInv
    <3>2. PICK f \in 1 .. Len(file) : f <= at /\ IsFirst(f) /\ exemplar = file[f]  BY <3>1
    <3>3. f <= at'  BY <1>2, <3>2, <1>0
    <3>4. IsFirst(f)' /\ exemplar' = file'[f]  BY <1>1, <1>2, <3>2 DEF IsFirst, parser_vars
    <3> QED  BY <1>1, <1>2, <3>1, <3>3, <3>4 DEF parser_vars
  <2>4. main' \in {"process", "stale"} => (parser_reply = P!Reply("parse", Line, OK))'
        BY <1>1, <1>2 DEF ParserInv, parser_vars, Line, P!Reply
  <2> QED  BY <2>2, <2>3, <2>4 DEF ParserInv
<1>3. CASE Open
      BY <1>0, <1>2, <1>3 DEF Open, Reading, PlaceInv
<1>4. CASE SkipLine
      BY <1>0, <1>2, <1>4 DEF SkipLine, Reading, PlaceInv
<1>5. CASE NothingToLearn
      BY <1>0, <1>2, <1>5 DEF NothingToLearn, Reading, PlaceInv
<1>6. CASE IgnoreLine
      BY <1>0, <1>2, <1>6 DEF IgnoreLine, Reading, PlaceInv
<1>7. CASE ProcessRecord
      BY <1>0, <1>2, <1>7 DEF ProcessRecord, Reading, PlaceInv
<1>8. CASE ProcessStaleRecord
      BY <1>0, <1>2, <1>8 DEF ProcessStaleRecord, Reading, PlaceInv
<1>9. CASE Grow
      BY <1>0, <1>2, <1>9 DEF Grow, Reading, PlaceInv
<1>10. CASE ReadLine
      BY <1>0, <1>2, <1>10 DEF ReadLine, Reading, PlaceInv
<1>11. CASE EmitRule
      BY <1>0, <1>2, <1>11 DEF EmitRule, Reading, PlaceInv
<1>12. CASE EmitEnd
      BY <1>0, <1>2, <1>12 DEF EmitEnd, Reading, PlaceInv
<1>13. CASE UNCHANGED vars
      BY <1>0, <1>2, <1>13 DEF vars
<1>14. CASE Learn
  <2>1. Line \in Lines /\ IsAuditRecord(Line) /\ at \in 1 .. Len(file)
        /\ \A i \in 1 .. at - 1 : ~ IsAuditRecord(file[i])
        BY <1>14, <1>0 DEF Learn, PlaceInv, AtEnd, Line
  <2>2. P!Imbue(Line) \/ P!ImbueRefused(Line)
        BY <1>14, ParserSteps DEF Learn
  <2>3. P!Next  BY <2>1, <2>2 DEF P!Next, P!Calls
  <2>4. (P!Safe /\ P!Learned /\ P!RecordFresh
          /\ P!AcceptsTheSameFields /\ P!CrashesOnMoreFieldsOnly)'
        BY <2>3, ParserKeeps DEF ParserInv
  <2>5. main' \in {"record", "crashed", "failure"} /\ at' = at
        BY <1>14 DEF Learn
  <2>6. main' = "record" => parser_reply'.rc = OK
        BY <1>14 DEF Learn
  <2>7. ASSUME main' = "record"
        PROVE  imbued' /\ parser_status' = "live" /\ Exemplar'
    <3>1. imbued' /\ parser_status' = "live" /\ exemplar' = Line
          BY <2>2, <2>6, <2>7, LearnedWell
    <3>2. IsFirst(at)'  BY <1>1, <2>1, <2>5 DEF IsFirst, Line
    <3> QED  BY <1>1, <2>1, <2>5, <3>1, <3>2 DEF Line
  <2> QED  BY <2>4, <2>5, <2>7 DEF ParserInv, Reading
<1>15. CASE ParseLine
  <2>1. at \in 1 .. Len(file) /\ Line \in Lines /\ Taught
        BY <1>15, LineInHand DEF ParseLine, PlaceInv, Reading
  <2>2. P!Parse(Line)  BY <1>15, ParserSteps DEF ParseLine
  <2>3. P!Next  BY <2>1, <2>2 DEF P!Next, P!Calls
  <2>4. (P!Safe /\ P!Learned /\ P!RecordFresh
          /\ P!AcceptsTheSameFields /\ P!CrashesOnMoreFieldsOnly)'
        BY <2>3, ParserKeeps DEF ParserInv
  <2>5. main' \in {"process", "crashed", "failure"} /\ at' = at
        BY <1>15 DEF ParseLine
  <2>6. main' = "process" => parser_reply'.rc = OK
        BY <1>15 DEF ParseLine
  <2>7. ASSUME main' = "process"
        PROVE  /\ imbued' /\ parser_status' = "live" /\ Exemplar'
               /\ (parser_reply = P!Reply("parse", Line, OK))'
    <3>1. /\ parser_status' = "live" /\ parser_reply' = P!Reply("parse", Line, OK)
          /\ exemplar' = exemplar /\ imbued' = imbued
          BY <2>2, <2>6, <2>7, ParsedWell
    <3>2. imbued /\ Exemplar  BY <2>1 DEF ParserInv
    <3>3. Exemplar'  BY <1>1, <2>5, <3>1, <3>2 DEF IsFirst
    <3> QED  BY <1>1, <2>5, <3>1, <3>2, <3>3 DEF Line, P!Reply
  <2> QED  BY <2>4, <2>5, <2>7 DEF ParserInv, Reading
<1> QED
    BY <1>3, <1>4, <1>5, <1>6, <1>7, <1>8, <1>9, <1>10, <1>11, <1>12, <1>13, <1>14, <1>15
    DEF Next, Done

-----------------------------------------------------------------------------
(* The rule made of a record: of its own values, or of what is not there.   *)
RuleFields == {"dec", "perm", "exe", "path"}

OfLine(line) == [dec  : {line.text["dec"], NoValue},  perm : {line.text["perm"], NoValue},
                 exe  : {line.text["exe"], NoValue},  path : {line.text["path"], NoValue}]

LEMMA FieldsOfALine ==
  ASSUME NEW line \in Lines, IsAuditRecord(line), NEW fields \in OfLine(line)
  PROVE  /\ rule_create(fields) \in Rules
         /\ \A key \in RuleFields : fields[key] \in Seq(Letters) /\ fields[key] # Stale
<1>1. DOMAIN fields = RuleFields  BY DEF OfLine, RuleFields
<1> QED  BY <1>1, RulesAssumption DEF IsAuditRecord, OfLine

LEMMA TextIsFresh ==
  ASSUME NEW line \in Lines, IsAuditRecord(line), NEW key \in RuleFields
  PROVE  line.text[key] # Stale /\ NoValue # Stale
<1> DEFINE text == [dec |-> line.text["dec"], perm |-> line.text["perm"],
                    exe |-> line.text["exe"], path |-> line.text["path"]]
           none == [dec |-> NoValue, perm |-> NoValue, exe |-> NoValue, path |-> NoValue]
<1>1. text \in OfLine(line) /\ none \in OfLine(line)  BY DEF OfLine
<1>2. text[key] # Stale /\ none[key] # Stale  BY <1>1, FieldsOfALine
<1> QED  BY <1>2 DEF RuleFields

LEMMA ValueIs ==
  ASSUME NEW array, NEW key
  PROVE  Value(array, key) \in {NoValue, Line.text[key], Stale}
BY DEF Value

LEMMA RuleIsARule ==
  ASSUME PlaceInv, main = "process", ~ FieldsAreStale
  PROVE  Rule \in Rules
<1>1. Line \in Lines /\ IsAuditRecord(Line)  BY LineInHand DEF PlaceInv, Reading
<1>2. \A key \in RuleFields : Fields[key] # Stale
      BY DEF FieldsAreStale, Fields, RuleFields
<1>3. Fields \in OfLine(Line)
      BY <1>2, ValueIs DEF Fields, RuleFields, OfLine
<1> QED  BY <1>1, <1>3, FieldsOfALine DEF Rule

(* In a record with a colon every value a rule can be made of is its own.   *)
LEMMA ColonMeansFresh ==
  ASSUME PlaceInv, ParserInv, main \in {"process", "stale"},
         NEW c \in DOMAIN Line.tokens, Line.tokens[c].kind = "colon"
  PROVE  ~ FieldsAreStale
<1>1. Line \in Lines /\ IsAuditRecord(Line)  BY LineInHand DEF PlaceInv, Reading
<1>2. parser_reply = P!Reply("parse", Line, OK) /\ P!RecordFresh /\ P!Safe
      BY DEF ParserInv
<1>3. P!AllNew(subject) /\ P!AllNew(object)
      BY <1>2 DEF P!RecordFresh, P!Reply
<1>4. ASSUME NEW array \in {subject, object}, NEW key \in RuleFields
      PROVE  Value(array, key) # Stale
  <2> DEFINE found == {i \in 0 .. array.num - 1 : array.key[i] = key}
             first == CHOOSE i \in found : \A j \in found : i <= j
  <2>1. Line.text[key] # Stale /\ NoValue # Stale  BY <1>1, TextIsFresh
  <2>2. array.num \in Nat  BY <1>2 DEF P!Safe, P!IsArray, P!ArrayOK
  <2>3. CASE found = {}
        BY <2>1, <2>3 DEF Value
  <2>4. CASE found # {}
    <3>1. \E i \in found : \A j \in found : i <= j
      <4>1. found \subseteq Nat  BY <2>2
      <4> HIDE DEF found
      <4> QED  BY <2>4, <4>1, LinesAreLines, S!LeastNatural
    <3>2. first \in found  BY <3>1
    <3>3. array.value[first] = "new"  BY <1>3, <3>2 DEF P!AllNew
    <3> QED  BY <2>1, <2>4, <3>3 DEF Value
  <2> QED  BY <2>3, <2>4
<1> QED  BY <1>4 DEF FieldsAreStale, Fields, RuleFields

-----------------------------------------------------------------------------
(* The set of allow rules is only added to, and when all lines were read it *)
(* is only walked; a call of it ends before the program goes on.            *)
SetInv ==
  /\ S!SafeInv /\ S!PathsKept
  /\ set_reply.op \notin {"clear", "remove"}
  /\ main \notin {"grow", "aborted"} => set_status = "idle"
  /\ main \notin {"emit", "success"} => cursor = 0 /\ output = <<>>

LEMMA SetKeeps ==
  ASSUME S!SafeInv, S!PathsKept, [S!Next]_(S!vars)
  PROVE  (S!SafeInv /\ S!PathsKept)'
<1>1. S!SafeInv'  BY LinesAreLines, S!NextSafe
<1>2. S!PathsKept'  BY LinesAreLines, S!NextKeepsPaths
<1> QED  BY <1>1, <1>2

LEMMA ProcessIsAStep ==
  ASSUME PlaceInv, ProcessRecord
  PROVE  /\ S!Next /\ Rule \in Rules
         /\ cursor' = cursor /\ output' = output
         /\ set_reply' = set_reply \/ set_reply'.op = "add"
         /\ main' = IF set_status' = "idle" THEN "read" ELSE "grow"
<1>1. Rule \in Rules  BY RuleIsARule DEF ProcessRecord
<1>2. \/ S!AddPresent(Rule) \/ S!AddAbsent(Rule) \/ S!AddGrow(Rule) \/ S!AddGrowFails(Rule)
      BY SetAdds DEF ProcessRecord
<1>3. S!Next  BY <1>1, <1>2 DEF S!Next
<1>4. cursor' = cursor /\ (set_reply' = set_reply \/ set_reply'.op = "add")
      BY <1>2 DEF S!AddPresent, S!AddAbsent, S!AddGrow, S!AddGrowFails, S!AssignAndCount, S!Reply
<1> QED  BY <1>1, <1>3, <1>4 DEF ProcessRecord

LEMMA GrowIsAStep ==
  ASSUME Grow
  PROVE  /\ S!Next /\ (S!RehashNode \/ S!AddAfterRehash)
         /\ cursor' = cursor /\ output' = output
         /\ set_reply' = set_reply \/ set_reply'.op = "add"
         /\ main' \in {"read", "aborted", "grow"} /\ (main' = "read" => set_status' = "idle")
<1>1. S!RehashNode \/ S!AddAfterRehash  BY SetSteps DEF Grow
<1>2. cursor' = cursor /\ (set_reply' = set_reply \/ set_reply'.op = "add")
      BY <1>1 DEF S!RehashNode, S!AddAfterRehash, S!AssignAndCount, S!Reply
<1>3. main' \in {"read", "aborted", "grow"} /\ (main' = "read" => set_status' = "idle")
      BY DEF Grow
<1> QED  BY <1>1, <1>2, <1>3 DEF S!Next, Grow

LEMMA EmitIsAStep ==
  ASSUME EmitRule \/ EmitEnd
  PROVE  S!Next /\ set_status' = set_status /\ set_reply'.op = "next"
<1>1. S!NextKey \/ S!NextEnd  BY SetSteps DEF EmitRule, EmitEnd
<1>2. set_status' = set_status /\ set_reply'.op = "next"
      BY <1>1 DEF S!NextKey, S!NextEnd, S!Reply
<1> QED  BY <1>1, <1>2 DEF S!Next

LEMMA SetInit == Init => SetInv
<1> SUFFICES ASSUME Init PROVE SetInv  OBVIOUS
<1>1. S!Init  BY SameInit
<1>2. S!SafeInv  BY <1>1, LinesAreLines, S!InitSafe
<1>3. /\ nodes = [i \in 0 .. number_nodes - 1 |-> None] /\ cursor = 0
      /\ set_status = "idle" /\ set_reply.op = "init"
      BY <1>1 DEF S!Init, S!Reply
<1>4. S!Occupied = {}  BY <1>3 DEF S!Occupied, S!Slots
<1>5. main = "open" /\ output = <<>>  BY DEF Init
<1> QED  BY <1>2, <1>3, <1>4, <1>5 DEF SetInv, S!PathsKept

LEMMA SetStep ==
  ASSUME PlaceInv, SetInv, [Next \/ Done]_vars
  PROVE  SetInv'
<1>1. ASSUME UNCHANGED <<allow_rules, output>>, main' \notin {"grow", "aborted", "success"},
             main' = "emit" \/ main \notin {"emit", "success"},
             main \notin {"grow", "aborted"}
      PROVE  SetInv'
  <2>1. UNCHANGED S!vars  BY <1>1 DEF allow_rules, S!vars
  <2>2. (S!SafeInv /\ S!PathsKept)'  BY <2>1, SetKeeps DEF SetInv
  <2> QED  BY <1>1, <2>2 DEF SetInv, allow_rules
<1>2. CASE Open
      BY <1>1, <1>2 DEF Open
<1>3. CASE SkipLine
      BY <1>1, <1>3 DEF SkipLine
<1>4. CASE NothingToLearn
      BY <1>1, <1>4 DEF NothingToLearn
<1>5. CASE Learn
      BY <1>1, <1>5 DEF Learn
<1>6. CASE ParseLine
      BY <1>1, <1>6 DEF ParseLine
<1>7. CASE IgnoreLine
      BY <1>1, <1>7 DEF IgnoreLine
<1>8. CASE ProcessStaleRecord
      BY <1>1, <1>8 DEF ProcessStaleRecord
<1>9. CASE ReadLine
      BY <1>1, <1>9 DEF ReadLine
<1>10. CASE ProcessRecord
  <2>1. (S!SafeInv /\ S!PathsKept)'  BY <1>10, ProcessIsAStep, SetKeeps DEF SetInv
  <2>2. main = "process"  BY <1>10 DEF ProcessRecord
  <2> QED  BY <1>10, <2>1, <2>2, ProcessIsAStep DEF SetInv
<1>11. CASE Grow
  <2>1. (S!SafeInv /\ S!PathsKept)'  BY <1>11, GrowIsAStep, SetKeeps DEF SetInv
  <2>2. main = "grow"  BY <1>11 DEF Grow
  <2> QED  BY <1>11, <2>1, <2>2, GrowIsAStep DEF SetInv
<1>12. CASE EmitRule \/ EmitEnd
  <2>1. (S!SafeInv /\ S!PathsKept)'  BY <1>12, EmitIsAStep, SetKeeps DEF SetInv
  <2>2. main = "emit" /\ main' \in {"emit", "success"}  BY <1>12 DEF EmitRule, EmitEnd
  <2> QED  BY <1>12, <2>1, <2>2, EmitIsAStep DEF SetInv
<1>13. CASE UNCHANGED vars
  <2>1. UNCHANGED S!vars  BY <1>13 DEF vars, allow_rules, S!vars
  <2>2. (S!SafeInv /\ S!PathsKept)'  BY <2>1, SetKeeps DEF SetInv
  <2> QED  BY <1>13, <2>2 DEF SetInv, vars, allow_rules
<1> QED
    BY <1>2, <1>3, <1>4, <1>5, <1>6, <1>7, <1>8, <1>9, <1>10, <1>11, <1>12, <1>13
    DEF Next, Done

-----------------------------------------------------------------------------
(* What was printed is what the walk over the set has passed.               *)
Passed == {nodes[i] : i \in {j \in S!Occupied : j < cursor}}

EmitInv ==
  /\ output \in Seq(Rules) /\ ToSet(output) = Passed
  /\ NoRuleTwice
  /\ main = "success" => \A i \in S!Occupied : i < cursor
  /\ main = "stale" => FieldsAreStale

LEMMA SameInitialNodes == Allow!InitialNodes = S!InitialNodes
BY DEF Allow!InitialNodes, S!InitialNodes, Allow!HASH_SET_DEFAULT_NUM_NODES,
       S!HASH_SET_DEFAULT_NUM_NODES

(* Until the set grows no rule is in two slots.                             *)
LEMMA RulesInOneSlot ==
  ASSUME S!SafeInv, S!PathsKept, S!NotGrown,
         NEW i \in S!Occupied, NEW j \in S!Occupied, nodes[i] = nodes[j]
  PROVE  i = j
<1>1. S!TypeOK /\ number_nodes \in Nat  BY DEF S!SafeInv, S!TypeOK
<1>2. nodes[i] \in Rules
      BY <1>1 DEF S!TypeOK, S!Occupied
<1>3. hash[nodes[i]] \in Nat
      BY <1>1, <1>2, LinesAreLines DEF S!TypeOK, S!HashesAssumption
<1>4. \A slot \in {i, j} : S!Reached(nodes, number_nodes, hash[nodes[i]], nodes[i], slot)
      BY DEF S!PathsKept
<1>5. \A slot \in {i, j} : S!StopsAt(nodes, number_nodes, hash[nodes[i]], nodes[i]) = {slot}
      BY <1>1, <1>3, <1>4, LinesAreLines, S!StopsOnlyThere
<1> QED  BY <1>5

LEMMA SameStale ==
  ASSUME UNCHANGED <<file, at, parser_vars>>
  PROVE  FieldsAreStale' <=> FieldsAreStale
<1>1. ASSUME NEW key \in RuleFields
      PROVE  Value(subject, key)' = Value(subject, key) /\ Value(object, key)' = Value(object, key)
      BY DEF Value, Line, parser_vars
<1>2. Fields' = Fields  BY <1>1 DEF Fields, RuleFields
<1> QED  BY <1>2 DEF FieldsAreStale

LEMMA EmitInit == Init => EmitInv
<1> SUFFICES ASSUME Init PROVE EmitInv  OBVIOUS
<1>1. S!Init  BY SameInit
<1>2. cursor = 0 /\ S!Occupied = {}
      BY <1>1 DEF S!Init, S!Occupied, S!Slots
<1>3. main = "open" /\ output = <<>>  BY DEF Init
<1> QED  BY <1>2, <1>3 DEF EmitInv, Passed, ToSet, NoRuleTwice

LEMMA EmitStep ==
  ASSUME PlaceInv, SetInv, EmitInv, [Next \/ Done]_vars
  PROVE  EmitInv'
<1>0. SetInv'  BY SetStep
(* Before the walk nothing is printed. *)
<1>1. ASSUME main' \notin {"emit", "success"}, main' = "stale" => FieldsAreStale'
      PROVE  EmitInv'
  <2>1. cursor' = 0 /\ output' = <<>>  BY <1>0, <1>1 DEF SetInv
  <2>2. S!Occupied' \subseteq Nat
        BY <1>0 DEF SetInv, S!SafeInv, S!TypeOK, S!Occupied, S!Slots
  <2>3. \A j \in S!Occupied' : ~ (j < cursor')  BY <2>1, <2>2
  <2>4. Passed' = {}  BY <2>3 DEF Passed
  <2> QED  BY <1>1, <2>1, <2>4 DEF EmitInv, ToSet, NoRuleTwice
<1>2. CASE Open \/ SkipLine \/ NothingToLearn \/ Learn \/ ParseLine \/ IgnoreLine \/ Grow
           \/ ProcessRecord
      BY <1>1, <1>2 DEF Open, SkipLine, NothingToLearn, Learn, ParseLine, IgnoreLine, Grow, ProcessRecord
<1>3. CASE ProcessStaleRecord
  <2>1. FieldsAreStale'
        BY <1>3, SameStale DEF ProcessStaleRecord
  <2> QED  BY <1>1, <1>3, <2>1 DEF ProcessStaleRecord
<1>4. CASE ReadLine
  <2>1. CASE main' = "emit"
    <3>1. cursor' = 0 /\ output' = <<>> /\ Passed' = Passed /\ ToSet(output') = ToSet(output)
          BY <1>4 DEF ReadLine, allow_rules, SetInv, Passed, S!Occupied, S!Slots
    <3> QED  BY <2>1, <3>1 DEF EmitInv, NoRuleTwice, Allow!InitialNodes
  <2> QED  BY <1>1, <1>4, <2>1 DEF ReadLine
<1>5. CASE EmitRule
  <2>1. S!NextKey /\ output' = Append(output, set_reply'.key) /\ main = "emit" /\ main' = main
        BY <1>5, SetSteps DEF EmitRule
  <2>2. PICK i \in S!Occupied : /\ i >= cursor /\ \A j \in S!Occupied : j >= cursor => i <= j
                               /\ cursor' = i + 1 /\ set_reply' = S!Reply("next", nodes[i], OK)
        BY <2>1 DEF S!NextKey
  <2>3. /\ output \in Seq(Rules) /\ nodes[i] \in Rules
        /\ cursor \in Nat /\ S!Occupied \subseteq Nat
        BY DEF EmitInv, SetInv, S!SafeInv, S!TypeOK, S!Occupied, S!Slots
  <2>4. output' = Append(output, nodes[i])  BY <2>1, <2>2 DEF S!Reply
  <2>5. /\ output' \in Seq(Rules) /\ Len(output') = Len(output) + 1 /\ Len(output) \in Nat
        /\ output'[Len(output) + 1] = nodes[i]
        /\ \A k \in 1 .. Len(output) : output'[k] = output[k]
        /\ DOMAIN output' = 1 .. Len(output) + 1 /\ DOMAIN output = 1 .. Len(output)
        BY <2>3, <2>4
  <2>6. ToSet(output') = ToSet(output) \union {nodes[i]}
        BY <2>5 DEF ToSet
  <2>7. UNCHANGED <<nodes, number_nodes>> /\ S!Occupied' = S!Occupied
        BY <2>1 DEF S!NextKey, S!Occupied, S!Slots
  <2>8. Passed' = Passed \union {nodes[i]}
    <3>1. \A j \in S!Occupied : j < cursor' <=> j < cursor \/ j = i
          BY <2>2, <2>3
    <3> QED  BY <2>7, <3>1 DEF Passed
  <2>9. NoRuleTwice'
    <3> SUFFICES ASSUME number_nodes = Allow!InitialNodes, NEW j \in DOMAIN output',
                        NEW k \in DOMAIN output', output'[j] = output'[k]
                 PROVE  j = k
        BY <2>7 DEF NoRuleTwice, Allow!InitialNodes
    <3>1. nodes[i] \notin Passed
      <4> SUFFICES ASSUME NEW j0 \in S!Occupied, j0 < cursor, nodes[j0] = nodes[i] PROVE FALSE
          BY DEF Passed
      <4>1. j0 = i
            BY SameInitialNodes, RulesInOneSlot DEF SetInv, S!NotGrown
      <4> QED  BY <2>2, <2>3, <4>1
    <3>2. \A m \in 1 .. Len(output) : output[m] # nodes[i]
          BY <2>5, <3>1 DEF EmitInv, ToSet
    <3>3. CASE j <= Len(output) /\ k <= Len(output)
          BY <2>5, <3>3 DEF EmitInv, NoRuleTwice
    <3> QED  BY <2>5, <3>2, <3>3
  <2> QED  BY <2>1, <2>5, <2>6, <2>8, <2>9 DEF EmitInv
<1>6. CASE EmitEnd
  <2>1. S!NextEnd /\ UNCHANGED <<output, nodes, number_nodes>> /\ main' = "success"
        BY <1>6, SetSteps DEF EmitEnd, S!NextEnd
  <2>2. S!Occupied' = S!Occupied /\ \A i \in S!Occupied : i < cursor /\ i < cursor'
        BY <2>1 DEF S!NextEnd, S!Occupied, S!Slots, SetInv, S!SafeInv, S!TypeOK
  <2>3. Passed' = Passed  BY <2>1, <2>2 DEF Passed
  <2> QED  BY <2>1, <2>2, <2>3 DEF EmitInv, NoRuleTwice, Allow!InitialNodes
<1>7. CASE UNCHANGED vars
  <2>1. UNCHANGED <<main, output, nodes, number_nodes, cursor>> /\ (FieldsAreStale' <=> FieldsAreStale)
        BY <1>7, SameStale DEF vars, allow_rules
  <2>2. S!Occupied' = S!Occupied  BY <2>1 DEF S!Occupied, S!Slots
  <2>3. Passed' = Passed  BY <2>1, <2>2 DEF Passed
  <2> QED  BY <2>1, <2>2, <2>3 DEF EmitInv, NoRuleTwice, Allow!InitialNodes
<1> QED
    BY <1>2, <1>3, <1>4, <1>5, <1>6, <1>7 DEF Next, Done

-----------------------------------------------------------------------------
ProgramInv == PlaceInv /\ ParserInv /\ SetInv /\ EmitInv

LEMMA ProgramInvariant == Spec => []ProgramInv
<1>1. Init => ProgramInv
      BY PlaceInit, ParserInit, SetInit, EmitInit DEF ProgramInv
<1>2. ProgramInv /\ [Next \/ Done]_vars => ProgramInv'
      BY PlaceStep, ParserStep, SetStep, EmitStep DEF ProgramInv
<1> QED  BY <1>1, <1>2, PTL DEF Spec

(* The program is where its file and its set allow it to be.                *)
THEOREM TypeCorrect == Spec => []TypeOK
<1>1. ProgramInv => TypeOK
      BY DEF ProgramInv, PlaceInv, SetInv, EmitInv, TypeOK, Reading, Ended, AtEnd
<1> QED  BY <1>1, ProgramInvariant, PTL

(* A rule is made of text that is not its record's only of a record that    *)
(* was cut before its colon, whatever the lines are.                        *)
THEOREM OnlyCutRecordsAreStale == Spec => []StaleOnlyWhenCut
<1>1. ProgramInv => StaleOnlyWhenCut
      BY ColonMeansFresh DEF ProgramInv, EmitInv, StaleOnlyWhenCut
<1> QED  BY <1>1, ProgramInvariant, PTL

(* No rule is printed twice unless the set of rules has grown, whatever the *)
(* lines are and however the rules collide.                                 *)
THEOREM RulesPrintedOnce == Spec => []NoRuleTwice
<1>1. ProgramInv => NoRuleTwice  BY DEF ProgramInv, EmitInv
<1> QED  BY <1>1, ProgramInvariant, PTL

-----------------------------------------------------------------------------
(* What an add and its growth do to the rules of the set.                   *)
LEMMA AddingStores ==
  ASSUME S!SafeInv, NEW rule \in Rules
  PROVE  /\ S!AddPresent(rule) =>
              S!Stored' = S!Stored /\ rule \in S!Stored /\ set_status' = set_status
         /\ S!AddAbsent(rule) =>
              /\ S!Stored' \subseteq S!Stored \union {rule} /\ set_status' = set_status
              /\ nodes' # nodes => rule \in S!Stored'
         /\ S!AddGrow(rule) =>
              S!Stored' \subseteq S!Stored /\ growing'.key = rule /\ set_status' = "rehash"
         /\ S!AddGrowFails(rule) => S!Stored' = S!Stored /\ set_status' = set_status
<1>1. /\ number_nodes \in Nat /\ nodes \in [S!Slots -> Rules \union {None}]
      /\ S!TypeOK /\ S!Slots = 0 .. number_nodes - 1
      BY DEF S!SafeInv, S!TypeOK, S!Slots
<1>2. None \notin Rules  BY LinesAreLines DEF S!NoneAssumption
<1>3. \A index \in S!Index(rule) : index \in S!Slots /\ nodes[index] \in {None, rule}
      BY <1>1, LinesAreLines, S!IndexInSlots
<1>4. ASSUME UNCHANGED <<nodes, number_nodes>>
      PROVE  S!Stored' = S!Stored
      BY <1>4 DEF S!Stored, S!Occupied, S!Slots
<1>5. ASSUME S!AddPresent(rule)
      PROVE  S!Stored' = S!Stored /\ rule \in S!Stored /\ set_status' = set_status
  <2>1. UNCHANGED <<nodes, number_nodes, set_status>>  BY <1>5 DEF S!AddPresent
  <2>2. PICK index \in S!Index(rule) : nodes[index] = rule  BY <1>5 DEF S!AddPresent
  <2>3. index \in S!Occupied  BY <1>2, <1>3, <2>2 DEF S!Occupied
  <2> QED  BY <1>4, <2>1, <2>2, <2>3 DEF S!Stored
<1>6. ASSUME S!AddAbsent(rule)
      PROVE  /\ S!Stored' \subseteq S!Stored \union {rule} /\ set_status' = set_status
             /\ nodes' # nodes => rule \in S!Stored'
  <2>1. PICK index \in S!Index(rule) :
          nodes[index] = None /\ S!AssignAndCount(rule, index)
        BY <1>6 DEF S!AddAbsent
  <2>2. number_nodes' = number_nodes /\ set_status' = set_status  BY <1>6 DEF S!AddAbsent
  <2>3. nodes' = nodes \/ nodes' = [nodes EXCEPT ![index] = rule]
        BY <2>1 DEF S!AssignAndCount
  <2>4. CASE nodes' = nodes  BY <1>4, <2>2, <2>4
  <2>5. CASE nodes' = [nodes EXCEPT ![index] = rule]
    <3>1. index \in S!Slots /\ S!Slots' = S!Slots  BY <1>3, <2>2 DEF S!Slots
    <3>2. \A i \in S!Slots : nodes'[i] = IF i = index THEN rule ELSE nodes[i]
          BY <1>1, <2>5
    <3>3. index \in S!Occupied' /\ nodes'[index] = rule
          BY <1>2, <3>1, <3>2 DEF S!Occupied
    <3> QED  BY <2>2, <3>1, <3>2, <3>3 DEF S!Stored, S!Occupied
  <2> QED  BY <2>3, <2>4, <2>5
<1>7. ASSUME S!AddGrow(rule)
      PROVE  S!Stored' \subseteq S!Stored /\ growing'.key = rule /\ set_status' = "rehash"
  <2>1. /\ number_nodes' = 2 * number_nodes /\ set_status' = "rehash" /\ growing'.key = rule
        /\ nodes' = [i \in 0 .. 2 * number_nodes - 1 |->
                       IF i < number_nodes THEN nodes[i] ELSE None]
        BY <1>7 DEF S!AddGrow
  <2>2. \A i \in S!Slots' : nodes'[i] = IF i < number_nodes THEN nodes[i] ELSE None
        BY <2>1 DEF S!Slots
  <2>3. \A i \in S!Slots' : i < number_nodes => i \in S!Slots
        BY <1>1, <2>1 DEF S!Slots
  <2> QED  BY <2>1, <2>2, <2>3 DEF S!Stored, S!Occupied
<1>8. ASSUME S!AddGrowFails(rule)
      PROVE  S!Stored' = S!Stored /\ set_status' = set_status
      BY <1>4, <1>8 DEF S!AddGrowFails
<1> QED  BY <1>5, <1>6, <1>7, <1>8

LEMMA GrowingStores ==
  ASSUME S!SafeInv
  PROVE  /\ S!RehashNode => /\ S!Stored' \subseteq S!Stored
                            /\ growing'.key = growing.key
                            /\ set_status' \in {set_status, "unindexed"}
         /\ S!AddAfterRehash =>
              /\ S!Stored' \subseteq S!Stored \union {growing.key}
              /\ nodes' # nodes => growing.key \in S!Stored'
              /\ set_status' = "idle"
<1>1. /\ number_nodes \in Nat /\ nodes \in [S!Slots -> Rules \union {None}]
      /\ S!Slots = 0 .. number_nodes - 1 /\ growing.index \in S!Slots
      /\ growing = [key |-> growing.key, index |-> growing.index, next |-> growing.next]
      BY DEF S!SafeInv, S!TypeOK, S!Slots
<1>2. None \notin Rules  BY LinesAreLines DEF S!NoneAssumption
<1>3. ASSUME S!RehashNode
      PROVE  /\ S!Stored' \subseteq S!Stored /\ growing'.key = growing.key
             /\ set_status' \in {set_status, "unindexed"}
  <2>1. /\ number_nodes' = number_nodes /\ set_status' \in {set_status, "unindexed"}
        /\ nodes' = nodes \/ nodes' = [nodes EXCEPT ![growing.next] = None]
        BY <1>3 DEF S!RehashNode
  <2>2. growing'.key = growing.key
        BY <1>1, <1>3 DEF S!RehashNode
  <2>3. \A i \in S!Slots : nodes'[i] \in {nodes[i], None}
        BY <1>1, <2>1
  <2>4. S!Slots' = S!Slots  BY <2>1 DEF S!Slots
  <2> QED  BY <2>1, <2>2, <2>3, <2>4 DEF S!Stored, S!Occupied
<1>4. ASSUME S!AddAfterRehash
      PROVE  /\ S!Stored' \subseteq S!Stored \union {growing.key}
             /\ nodes' # nodes => growing.key \in S!Stored'
             /\ set_status' = "idle"
  <2>1. /\ number_nodes' = number_nodes /\ set_status' = "idle"
        /\ nodes' = nodes \/ nodes' = [nodes EXCEPT ![growing.index] = growing.key]
        BY <1>4 DEF S!AddAfterRehash, S!AssignAndCount
  <2>2. growing.key \in Rules
        BY <1>4 DEF S!AddAfterRehash, S!SafeInv, S!GrowthInv
  <2>3. S!Slots' = S!Slots  BY <2>1 DEF S!Slots
  <2>4. CASE nodes' = nodes  BY <2>1, <2>3, <2>4 DEF S!Stored, S!Occupied
  <2>5. CASE nodes' = [nodes EXCEPT ![growing.index] = growing.key]
    <3>1. \A i \in S!Slots : nodes'[i] = IF i = growing.index THEN growing.key ELSE nodes[i]
          BY <1>1, <2>5
    <3>2. growing.index \in S!Occupied' /\ nodes'[growing.index] = growing.key
          BY <1>1, <1>2, <2>2, <2>3, <3>1 DEF S!Occupied
    <3> QED  BY <2>1, <2>3, <3>1, <3>2 DEF S!Stored, S!Occupied
  <2> QED  BY <2>1, <2>4, <2>5
<1> QED  BY <1>3, <1>4

-----------------------------------------------------------------------------
(***************************************************************************)
(* Files of ordinary records: whole lines with fields in both halves, no   *)
(* "=" or ":" in a value, and bare words, if any, at the end of a half.    *)
(* Lines that are no audit records may be anything.                        *)
(***************************************************************************)
Ordinary(line) ==
  Parser!Plain(line) /\ Parser!WordsLast(line) /\ Part(line, "subject") # <<>>

FileLines == {file[i] : i \in 1 .. Len(file)}
OrdinaryFile == \A line \in FileLines : IsAuditRecord(line) => Ordinary(line)

LEMMA OrdinaryIs ==
  ASSUME OrdinaryFile, NEW line \in Lines, line \in FileLines, IsAuditRecord(line)
  PROVE  /\ P!Plain(line) /\ P!WordsLast(line) /\ P!Part(line, "subject") # <<>>
         /\ P!HasKeys(line)
         /\ \E c \in DOMAIN line.tokens : line.tokens[c].kind = "colon"
<1>1. P!Plain(line) /\ P!WordsLast(line) /\ P!Part(line, "subject") # <<>>
      BY SameOfLines, SamePart DEF OrdinaryFile, Ordinary
<1>2. P!HasKeys(line)  BY <1>1, LinesAreLines, P!PlainHasKeys
<1>3. \E c \in DOMAIN line.tokens : line.tokens[c].kind = "colon"
      BY <1>1 DEF P!Plain, P!OneColon
<1> QED  BY <1>1, <1>2, <1>3

(* With a half's keys in an array, and values of the line in hand, the value*)
(* of a key is the line's if the half has that key.                         *)
LEMMA ValueOfTheLine ==
  ASSUME NEW array, NEW keys, NEW T, keys \in Seq(T), array.num = Len(keys),
         P!Stored(array, keys), P!AllNew(array), NEW key
  PROVE  Value(array, key) = IF key \in ToSet(keys) THEN Line.text[key] ELSE NoValue
<1> DEFINE found == {i \in 0 .. array.num - 1 : array.key[i] = key}
           first == CHOOSE i \in found : \A j \in found : i <= j
<1>1. Len(keys) \in Nat /\ DOMAIN keys = 1 .. Len(keys)  OBVIOUS
<1>2. \A i \in 1 .. Len(keys) : array.key[i-1] = keys[i]  BY DEF P!Stored
<1>3. \A i \in 0 .. array.num - 1 : array.key[i] = keys[i+1] /\ i + 1 \in 1 .. Len(keys)
  <2> TAKE i \in 0 .. array.num - 1
  <2>1. i + 1 \in 1 .. Len(keys) /\ (i + 1) - 1 = i  BY <1>1
  <2> QED  BY <1>2, <2>1
<1>4. found # {} <=> key \in ToSet(keys)
  <2>1. ASSUME NEW i \in 1 .. Len(keys), keys[i] = key
        PROVE  i - 1 \in found
    <3>1. i - 1 \in 0 .. array.num - 1  BY <1>1
    <3>2. array.key[i-1] = key  BY <1>2, <2>1
    <3> QED  BY <3>1, <3>2
  <2>2. ASSUME NEW i \in found
        PROVE  key \in ToSet(keys)
    <3>1. array.key[i] = keys[i+1] /\ i + 1 \in DOMAIN keys  BY <1>1, <1>3
    <3> QED  BY <3>1 DEF ToSet
  <2> HIDE DEF found
  <2> QED  BY <1>1, <2>1, <2>2 DEF ToSet
<1>5. CASE found = {}  BY <1>4, <1>5 DEF Value
<1>6. CASE found # {}
  <2>1. found \subseteq Nat  BY <1>1
  <2>2. \E i \in found : \A j \in found : i <= j
    <3> HIDE DEF found
    <3> QED  BY <1>6, <2>1, LinesAreLines, S!LeastNatural
  <2>3. first \in found  BY <2>2
  <2>4. array.value[first] = "new"  BY <2>3 DEF P!AllNew
  <2>5. "new" # NULL  BY LinesAreLines DEF P!NullAssumption
  <2> QED  BY <1>4, <1>6, <2>4, <2>5 DEF Value
<1> QED  BY <1>5, <1>6

(* The rule made of a record that was accepted is the record's.             *)
RuleOf(line) == rule_create(FieldsOf(line))

LEMMA RuleOfTheRecord ==
  ASSUME OrdinaryFile, PlaceInv, ParserInv, main = "process"
  PROVE  Rule = RuleOf(Line) /\ SameFields(Line, exemplar) /\ ~ FieldsAreStale
<1>1. Line \in Lines /\ Line \in FileLines /\ IsAuditRecord(Line)
      BY LineInHand DEF PlaceInv, Reading, Line, FileLines
<1>2. PICK f \in 1 .. Len(file) : IsFirst(f) /\ exemplar = file[f]
      BY DEF ParserInv, Reading
<1>3. exemplar \in Lines /\ exemplar \in FileLines /\ IsAuditRecord(exemplar) /\ imbued
      BY <1>2 DEF FileLines, IsFirst, PlaceInv, ParserInv, Reading
<1>4. parser_reply = P!Reply("parse", Line, OK) /\ OK # NULL
      BY LinesAreLines DEF ParserInv, P!CodesAssumption
<1>5. P!SameFields(Line, exemplar)
      BY <1>1, <1>3, <1>4, OrdinaryIs DEF ParserInv, P!AcceptsTheSameFields, P!Reply
<1>6. P!Part(Line, "subject") = P!Part(exemplar, "subject")
      /\ P!Part(Line, "object") = P!Part(exemplar, "object")
      BY <1>5 DEF P!SameFields
<1>7. P!AllNew(subject) /\ P!AllNew(object)
      BY <1>1, <1>4, OrdinaryIs DEF ParserInv, P!RecordFresh, P!Reply
<1>8. /\ subject.num = Len(P!Part(Line, "subject")) /\ P!Stored(subject, P!Part(Line, "subject"))
      /\ object.num = Len(P!Part(Line, "object")) /\ P!Stored(object, P!Part(Line, "object"))
      BY <1>1, <1>3, <1>6, OrdinaryIs DEF ParserInv, P!Learned
<1>9. /\ P!Part(Line, "subject") \in Seq(P!KeysIn(Line))
      /\ P!Part(Line, "object") \in Seq(P!KeysIn(Line))
      BY <1>1, OrdinaryIs DEF P!HasKeys
<1>10. ASSUME NEW key
       PROVE  /\ Value(subject, key) =
                   IF key \in ToSet(P!Part(Line, "subject")) THEN Line.text[key] ELSE NoValue
              /\ Value(object, key) =
                   IF key \in ToSet(P!Part(Line, "object")) THEN Line.text[key] ELSE NoValue
       BY <1>7, <1>8, <1>9, ValueOfTheLine
<1>11. Fields = FieldsOf(Line)
       BY <1>10, SamePart DEF Fields, FieldsOf
<1>12. SameFields(Line, exemplar)  BY <1>5, SameOfLines
<1>13. ~ FieldsAreStale  BY <1>1, OrdinaryIs, ColonMeansFresh
<1> QED  BY <1>11, <1>12, <1>13 DEF Rule, RuleOf

(***************************************************************************)
(* The inductive invariant of such a file: the records that were read have *)
(* the fields of the first, the rules of the set are theirs, and as long as*)
(* there was memory the rule of each of them is in the set.                *)
(***************************************************************************)
Processed(i) == i < at \/ main \in {"read", "emit", "success"}

Failed == \/ RecordsRead = {}
          \/ \E f \in 1 .. at : IsFirst(f) /\ ~ SameFields(file[at], file[f])

RecordsInv ==
  /\ main \in {"emit", "success"} \union Reading => \A i \in RecordsRead :
       /\ Processed(i) => SameFields(file[i], exemplar)
       /\ Processed(i) /\ ~ starved => RuleOf(file[i]) \in S!Stored
  /\ S!Stored \subseteq {RuleOf(file[i]) : i \in RecordsRead}
  /\ main = "grow" =>
       growing.key = RuleOf(Line) /\ SameFields(Line, exemplar) /\ set_status = "rehash"
  /\ main = "failure" /\ ~ starved /\ ~ erred /\ at > 0 => Failed

(* Nothing is lost on the way.                                              *)
LEMMA SetOnlyGrows ==
  ASSUME SetInv, SetInv', [S!Next]_(S!vars)
  PROVE  S!Stored \subseteq S!Stored'
<1>1. S!LeavesOnRequest  BY LinesAreLines, S!StepLeavesOnRequest DEF SetInv
<1>2. set_reply'.op \notin {"clear", "remove"}  BY DEF SetInv
<1> QED  BY <1>1, <1>2 DEF S!LeavesOnRequest

LEMMA RecordsInit == Init => RecordsInv
<1> SUFFICES ASSUME Init PROVE RecordsInv  OBVIOUS
<1>1. S!Init  BY SameInit
<1>2. S!Stored = {}
      BY <1>1 DEF S!Init, S!Stored, S!Occupied, S!Slots
<1>3. main = "open"  BY DEF Init
<1> QED  BY <1>2, <1>3 DEF RecordsInv, Reading

LEMMA RecordsStep ==
  ASSUME OrdinaryFile, PlaceInv, ParserInv, SetInv, RecordsInv, [Next \/ Done]_vars
  PROVE  RecordsInv'
<1>0. PlaceInv' /\ ParserInv' /\ SetInv'  BY PlaceStep, ParserStep, SetStep
<1>1. /\ file' = file /\ Len(file) \in Nat /\ at \in Nat /\ at' \in Nat
      /\ at <= at'
  <2>1. file' = file
      BY DEF Next, Done, Open, SkipLine, NothingToLearn, Learn, ParseLine, IgnoreLine,
             ProcessRecord, ProcessStaleRecord, Grow, ReadLine, EmitRule, EmitEnd, vars
  <2>2. at' \in {at, at + 1} \/ (main = "open" /\ at' = 1)
      BY DEF Next, Done, Open, SkipLine, NothingToLearn, Learn, ParseLine, IgnoreLine,
             ProcessRecord, ProcessStaleRecord, Grow, ReadLine, EmitRule, EmitEnd, vars
  <2> QED  BY <1>0, <2>1, <2>2 DEF PlaceInv
<1>2. RecordsRead \subseteq RecordsRead' /\ (at' = at => RecordsRead' = RecordsRead)
      BY <1>1 DEF RecordsRead, Records, IsAuditRecord
(* Steps that leave the set as it is and learn nothing. *)
<1>3. ASSUME UNCHANGED <<nodes, number_nodes, exemplar>>, main' # "grow",
             main' \in {"emit", "success"} \union Reading =>
               /\ main \in {"emit", "success"} \union Reading
               /\ starved' = starved
               /\ \A i \in RecordsRead' : Processed(i)' => i \in RecordsRead /\ Processed(i),
             main' = "failure" => (~ starved /\ ~ erred /\ at > 0 => Failed)'
      PROVE  RecordsInv'
  <2>1. S!Stored' = S!Stored
        BY <1>3 DEF S!Stored, S!Occupied, S!Slots
  <2>2. S!Stored' \subseteq ({RuleOf(file[i]) : i \in RecordsRead})'
        BY <1>1, <1>2, <2>1 DEF RecordsInv
  <2>3. ASSUME main' \in {"emit", "success"} \union Reading, NEW i \in RecordsRead', Processed(i)'
        PROVE  /\ SameFields(file[i], exemplar)'
               /\ ~ starved' => (RuleOf(file[i]) \in S!Stored)'
        BY <1>1, <1>3, <2>1, <2>3 DEF RecordsInv
  <2> QED  BY <1>3, <2>2, <2>3 DEF RecordsInv, Reading
<1> USE DEF Reading
<1>4. CASE Open
      BY <1>3, <1>4 DEF Open, PlaceInv, allow_rules, parser_vars
<1>5. CASE SkipLine
      BY <1>3, <1>5 DEF SkipLine, allow_rules, parser_vars
<1>6. CASE NothingToLearn
  <2>1. ~ starved' /\ ~ erred' => RecordsRead' = {}
    <3> SUFFICES ASSUME ~ starved', ~ erred'  PROVE RecordsRead' = {}  OBVIOUS
    <3>1. at > Len(file) /\ at' = at  BY <1>6 DEF NothingToLearn, AtEnd
    <3>2. \A i \in 1 .. at - 1 : ~ IsAuditRecord(file[i])  BY <1>6 DEF NothingToLearn, PlaceInv
    <3>3. \A i \in 1 .. Len(file) : i \in 1 .. at - 1  BY <1>1, <3>1
    <3>4. RecordsRead = {}  BY <3>2, <3>3 DEF RecordsRead, Records
    <3> QED  BY <1>2, <3>1, <3>4
  <2> QED  BY <1>3, <1>6, <2>1 DEF NothingToLearn, allow_rules, parser_vars, Failed
<1>7. CASE Learn
  <2>1. /\ at \in 1 .. Len(file) /\ at' = at /\ Line \in Lines /\ IsAuditRecord(Line)
        /\ Line \in FileLines
        /\ main' \in {"record", "crashed", "failure"} /\ S!Stored' = S!Stored
        BY <1>7, <1>1, LineInHand
        DEF Learn, PlaceInv, AtEnd, Line, FileLines, allow_rules, S!Stored, S!Occupied, S!Slots
  <2>2. \A i \in RecordsRead : ~ (i < at)
        BY <1>1, <1>7 DEF RecordsRead, Records, Learn, PlaceInv
  <2>3. main' = "failure" => starved'
    <3> SUFFICES ASSUME main' = "failure"  PROVE starved'  OBVIOUS
    <3>1. parser_reply'.rc \notin {OK, NULL} /\ starved' = (parser_reply'.rc = ALLOCATION_ERROR)
          BY <1>7 DEF Learn
    <3>2. P!Imbue(Line) \/ P!ImbueRefused(Line)  BY <1>7, ParserSteps DEF Learn
    <3>3. parser_reply'.rc \in {OK, ALLOCATION_ERROR, NULL}
          BY <2>1, <3>2, OrdinaryIs, LinesAreLines, P!PlainIsNotRefused DEF ParserInv
    <3> QED  BY <3>1, <3>3
  <2>4. S!Stored' \subseteq ({RuleOf(file[i]) : i \in RecordsRead})'
        BY <1>1, <1>2, <2>1 DEF RecordsInv
  <2>5. ASSUME main' = "record", NEW i \in RecordsRead'  PROVE ~ Processed(i)'
        BY <1>2, <2>1, <2>2, <2>5 DEF Processed
  <2> QED  BY <2>1, <2>3, <2>4, <2>5 DEF RecordsInv
<1>8. CASE ParseLine
  <2>1. main = "record" /\ main' \in {"process", "crashed", "failure"}
        /\ UNCHANGED <<at, starved, nodes, number_nodes>>
        BY <1>8 DEF ParseLine, allow_rules
  <2>2. Line \in Lines /\ Line \in FileLines /\ IsAuditRecord(Line) /\ P!Parse(Line)
        BY <1>8, <2>1, LineInHand, ParserSteps DEF ParseLine, PlaceInv, Line, FileLines
  <2>3. exemplar' = exemplar /\ imbued' = imbued  BY <2>2 DEF P!Parse
  <2>4. main' = "failure" => Failed'
    <3> SUFFICES ASSUME main' = "failure"  PROVE Failed'  OBVIOUS
    <3>1. parser_reply'.rc \notin {OK, NULL}  BY <1>8 DEF ParseLine
    <3>2. parser_reply'.op = "parse" /\ parser_reply'.line = Line
          BY <2>2 DEF P!Parse, P!Reply
    <3>3. PICK f \in 1 .. Len(file) : f <= at /\ IsFirst(f) /\ exemplar = file[f]
          BY <2>1 DEF ParserInv
    <3>4. exemplar \in Lines /\ exemplar \in FileLines /\ IsAuditRecord(exemplar) /\ imbued
          BY <2>1, <3>3 DEF FileLines, IsFirst, PlaceInv, ParserInv
    <3>5. ~ P!SameFields(Line, exemplar)
      <4>1. P!AcceptsTheSameFields'  BY <1>0 DEF ParserInv
      <4>2. /\ P!Plain(Line) /\ P!Plain(exemplar) /\ P!WordsLast(exemplar)
            BY <2>2, <3>4, OrdinaryIs
      <4> QED  BY <2>3, <3>1, <3>2, <3>4, <4>1, <4>2 DEF P!AcceptsTheSameFields
    <3>6. ~ SameFields(file[at], file[f])  BY <3>3, <3>5, SameOfLines DEF Line
    <3>7. f \in 1 .. at /\ IsFirst(f)'  BY <1>1, <3>3 DEF IsFirst
    <3> QED  BY <1>1, <2>1, <3>6, <3>7 DEF Failed
  <2>5. \A i \in RecordsRead' : Processed(i)' => i \in RecordsRead /\ Processed(i)
        BY <1>2, <2>1 DEF Processed
  <2> QED  BY <1>3, <2>1, <2>3, <2>4, <2>5
<1>9. CASE IgnoreLine
  <2>1. \A i \in RecordsRead' : i \in RecordsRead /\ i < at
    <3> SUFFICES ASSUME NEW i \in RecordsRead PROVE i < at
        BY <1>2, <1>9 DEF IgnoreLine
    <3>1. i \in 1 .. Len(file) /\ i <= at /\ IsAuditRecord(file[i])  BY DEF RecordsRead, Records
    <3>2. i # at  BY <1>9, <3>1 DEF IgnoreLine, Line
    <3> QED  BY <1>1, <3>1, <3>2
  <2> QED  BY <1>3, <1>9, <2>1 DEF IgnoreLine, allow_rules, parser_vars, Processed
<1>10. CASE ProcessRecord
  <2>1. /\ S!Next /\ Rule \in Rules /\ main = "process"
        /\ main' = IF set_status' = "idle" THEN "read" ELSE "grow"
        /\ UNCHANGED <<at, exemplar>>
        BY <1>10, ProcessIsAStep DEF ProcessRecord, parser_vars
  <2>2. Rule = RuleOf(Line) /\ SameFields(Line, exemplar)
        BY <2>1, RuleOfTheRecord
  <2>3. S!Stored \subseteq S!Stored'  BY <1>0, <2>1, SetOnlyGrows
  <2>4. set_status = "idle" /\ S!SafeInv  BY <2>1 DEF SetInv
  <2>5. /\ S!Stored' \subseteq S!Stored \union {Rule}
        /\ main' = "read" /\ ~ starved' => ~ starved /\ Rule \in S!Stored'
        /\ main' = "grow" => growing'.key = Rule /\ set_status' = "rehash"
        /\ starved => starved'
    <3>1. \/ S!AddPresent(Rule) /\ starved' = starved
          \/ S!AddAbsent(Rule) /\ starved' = (starved \/ nodes' = nodes)
          \/ S!AddGrow(Rule) /\ starved' = starved
          \/ S!AddGrowFails(Rule) /\ starved' = TRUE
          BY <1>10, SetAdds DEF ProcessRecord
    <3>2. CASE S!AddPresent(Rule) /\ starved' = starved
      <4>1. S!Stored' = S!Stored /\ Rule \in S!Stored /\ set_status' = set_status
            BY <2>1, <2>4, <3>2, AddingStores
      <4> QED  BY <2>1, <2>4, <3>2, <4>1
    <3>3. CASE S!AddAbsent(Rule) /\ starved' = (starved \/ nodes' = nodes)
      <4>1. /\ S!Stored' \subseteq S!Stored \union {Rule} /\ set_status' = set_status
            /\ nodes' # nodes => Rule \in S!Stored'
            BY <2>1, <2>4, <3>3, AddingStores
      <4> QED  BY <2>1, <2>4, <3>3, <4>1
    <3>4. CASE S!AddGrow(Rule) /\ starved' = starved
      <4>1. S!Stored' \subseteq S!Stored /\ growing'.key = Rule /\ set_status' = "rehash"
            BY <2>1, <2>4, <3>4, AddingStores
      <4> QED  BY <2>1, <3>4, <4>1
    <3>5. CASE S!AddGrowFails(Rule) /\ starved' = TRUE
      <4>1. S!Stored' = S!Stored /\ set_status' = set_status
            BY <2>1, <2>4, <3>5, AddingStores
      <4> QED  BY <2>1, <2>4, <3>5, <4>1
    <3> QED  BY <3>1, <3>2, <3>3, <3>4, <3>5
  <2>6. at \in RecordsRead /\ Line = file[at]
        BY <1>1, <2>1 DEF RecordsRead, Records, PlaceInv, Line
  <2>7. S!Stored' \subseteq ({RuleOf(file[i]) : i \in RecordsRead})'
        BY <1>1, <1>2, <2>1, <2>2, <2>5, <2>6 DEF RecordsInv
  <2>8. ASSUME NEW i \in RecordsRead', Processed(i)'
        PROVE  /\ SameFields(file[i], exemplar)'
               /\ ~ starved' => (RuleOf(file[i]) \in S!Stored)'
    <3>1. i \in RecordsRead /\ i \in Nat /\ i <= at  BY <1>2, <2>1 DEF RecordsRead, Records
    <3>2. CASE i < at
          BY <1>1, <2>1, <2>3, <2>5, <3>1, <3>2 DEF RecordsInv, Processed
    <3>3. CASE i = at /\ main' = "read"
          BY <1>1, <2>1, <2>2, <2>5, <2>6, <3>3
    <3> QED  BY <1>1, <2>1, <2>8, <3>1, <3>2, <3>3 DEF Processed
  <2>9. main' = "grow" => (growing.key = RuleOf(Line) /\ SameFields(Line, exemplar))'
        BY <1>1, <2>1, <2>2, <2>5 DEF Line
  <2> QED  BY <2>1, <2>5, <2>7, <2>8, <2>9 DEF RecordsInv
<1>11. CASE ProcessStaleRecord
      BY <1>3, <1>11 DEF ProcessStaleRecord, allow_rules, parser_vars
<1>12. CASE Grow
  <2>1. /\ S!Next /\ main = "grow" /\ UNCHANGED <<at, exemplar>>
        /\ main' = CASE set_status' = "idle"      -> "read"
                     [] set_status' = "unindexed" -> "aborted"
                     [] OTHER                     -> "grow"
        BY <1>12, GrowIsAStep DEF Grow, parser_vars
  <2>2. growing.key = RuleOf(Line) /\ SameFields(Line, exemplar) /\ set_status = "rehash"
        BY <2>1 DEF RecordsInv
  <2>3. S!Stored \subseteq S!Stored'  BY <1>0, <2>1, SetOnlyGrows
  <2>4. /\ S!Stored' \subseteq S!Stored \union {growing.key}
        /\ main' = "read" /\ ~ starved' => ~ starved /\ growing.key \in S!Stored'
        /\ main' = "grow" => growing'.key = growing.key /\ set_status' = "rehash"
        /\ main' \in {"read", "aborted", "grow"} /\ (starved => starved')
    <3>1. \/ S!RehashNode /\ starved' = starved
          \/ S!AddAfterRehash /\ starved' = (starved \/ nodes' = nodes)
          BY <1>12, SetSteps DEF Grow
    <3>2. S!SafeInv  BY DEF SetInv
    <3>3. CASE S!RehashNode /\ starved' = starved
      <4>1. S!Stored' \subseteq S!Stored /\ growing'.key = growing.key
            /\ set_status' \in {"rehash", "unindexed"}
            BY <2>2, <3>2, <3>3, GrowingStores
      <4>2. main' = (IF set_status' = "unindexed" THEN "aborted" ELSE "grow")
            BY <2>1, <4>1
      <4> QED  BY <3>3, <4>1, <4>2
    <3>4. CASE S!AddAfterRehash /\ starved' = (starved \/ nodes' = nodes)
      <4>1. /\ S!Stored' \subseteq S!Stored \union {growing.key}
            /\ nodes' # nodes => growing.key \in S!Stored'
            /\ set_status' = "idle"
            BY <3>2, <3>4, GrowingStores
      <4>2. main' = "read"  BY <2>1, <4>1
      <4> QED  BY <3>4, <4>1, <4>2
    <3> QED  BY <3>1, <3>3, <3>4
  <2>5. at \in RecordsRead /\ Line = file[at]
        BY <1>1, <2>1 DEF RecordsRead, Records, PlaceInv, Line
  <2>6. S!Stored' \subseteq ({RuleOf(file[i]) : i \in RecordsRead})'
        BY <1>1, <1>2, <2>1, <2>2, <2>4, <2>5 DEF RecordsInv
  <2>7. ASSUME NEW i \in RecordsRead', Processed(i)'
        PROVE  /\ SameFields(file[i], exemplar)'
               /\ ~ starved' => (RuleOf(file[i]) \in S!Stored)'
    <3>1. i \in RecordsRead /\ i \in Nat /\ i <= at  BY <1>2, <2>1 DEF RecordsRead, Records
    <3>2. CASE i < at
          BY <1>1, <2>1, <2>3, <2>4, <3>1, <3>2 DEF RecordsInv, Processed
    <3>3. CASE i = at /\ main' = "read"
          BY <1>1, <2>1, <2>2, <2>4, <2>5, <3>3
    <3> QED  BY <1>1, <2>1, <2>7, <3>1, <3>2, <3>3 DEF Processed
  <2>8. main' = "grow" => (growing.key = RuleOf(Line) /\ SameFields(Line, exemplar))'
        BY <1>1, <2>1, <2>2, <2>4 DEF Line
  <2> QED  BY <2>1, <2>4, <2>6, <2>7, <2>8 DEF RecordsInv
<1>13. CASE ReadLine
  <2>1. main = "read" /\ at' \in {at, at + 1} /\ main' \in {"emit", "record"}
        BY <1>13 DEF ReadLine
  <2>2. ASSUME NEW i \in RecordsRead', Processed(i)'
        PROVE  i \in RecordsRead /\ Processed(i)
    <3>1. i \in Nat /\ i <= Len(file) /\ i <= at' /\ IsAuditRecord(file[i])
          BY <1>1 DEF RecordsRead, Records, IsAuditRecord
    <3>2. i <= at
      <4>1. CASE at' = at  BY <3>1, <4>1
      <4>2. CASE at' = at + 1 /\ main' = IF at' > Len(file) THEN "emit" ELSE "record"
            BY <1>1, <2>2, <3>1, <4>2 DEF Processed
      <4> QED  BY <1>13, <4>1, <4>2 DEF ReadLine
    <3> QED  BY <1>1, <2>1, <3>1, <3>2 DEF RecordsRead, Records, Processed
  <2> QED  BY <1>3, <1>13, <2>1, <2>2 DEF ReadLine, allow_rules, parser_vars
<1>14. CASE EmitRule \/ EmitEnd
  <2>1. UNCHANGED <<nodes, number_nodes>>
        BY <1>14, SetSteps DEF EmitRule, EmitEnd, S!NextKey, S!NextEnd
  <2>2. main = "emit" /\ main' \in {"emit", "success"} /\ at' = at /\ starved' = starved
        /\ exemplar' = exemplar
        BY <1>14 DEF EmitRule, EmitEnd, parser_vars
  <2>3. \A i \in RecordsRead' : Processed(i)' => i \in RecordsRead /\ Processed(i)
        BY <1>2, <2>2 DEF Processed
  <2> QED  BY <1>3, <2>1, <2>2, <2>3
<1>15. CASE UNCHANGED vars
  <2>1. /\ UNCHANGED <<file, at, main, starved, erred, exemplar, nodes, number_nodes, growing, set_status>>
        BY <1>15 DEF vars, parser_vars, allow_rules
  <2>2. S!Stored' = S!Stored /\ RecordsRead' = RecordsRead
        BY <1>2, <2>1 DEF S!Stored, S!Occupied, S!Slots
  <2>3. \A i \in RecordsRead : Processed(i)' = Processed(i)  BY <2>1 DEF Processed
  <2>4. Failed' = Failed  BY <2>1, <2>2 DEF Failed, IsFirst
  <2> QED  BY <2>1, <2>2, <2>3, <2>4 DEF RecordsInv, Line
<1> QED
    BY <1>4, <1>5, <1>6, <1>7, <1>8, <1>9, <1>10, <1>11, <1>12, <1>13, <1>14, <1>15 DEF Next, Done

LEMMA RecordsInvariant == Spec => [](ProgramInv /\ (OrdinaryFile => RecordsInv))
<1>1. Init => RecordsInv  BY RecordsInit
<1>2. ProgramInv /\ (OrdinaryFile => RecordsInv) /\ [Next \/ Done]_vars
      => (OrdinaryFile => RecordsInv)'
  <2>1. [Next \/ Done]_vars => file' = file
        BY DEF Next, Done, Open, SkipLine, NothingToLearn, Learn, ParseLine, IgnoreLine,
               ProcessRecord, ProcessStaleRecord, Grow, ReadLine, EmitRule, EmitEnd, vars
  <2>2. file' = file => (OrdinaryFile' <=> OrdinaryFile)  BY DEF OrdinaryFile, FileLines
  <2> QED  BY <2>1, <2>2, RecordsStep DEF ProgramInv
<1> QED  BY <1>1, <1>2, ProgramInvariant, PTL DEF Spec

-----------------------------------------------------------------------------
(* The texts of rules.                                                      *)
MarkKeys == {"perm", "exe", "path", "end"}

Symbols == Letters \union {Blank}
Texts == Seq(Symbols)
Values == Seq(Letters)

(* Concatenation by a name, for the provers to take it as it is.            *)
Cat(a, b) == a \o b

LEMMA MarksAreTexts ==
  ASSUME NEW key \in MarkKeys
  PROVE  Marks[key] \in Texts /\ Marks[key] # <<>> /\ Marks[key][1] = Blank
BY TextAssumption DEF MarkKeys, Texts, Symbols

LEMMA ValuesAreTexts ==
  ASSUME NEW value \in Values
  PROVE  value \in Texts
BY SeqMonotonic DEF Texts, Values, Symbols

(* A text is determined up to its first blank, and from there on.           *)
LEMMA UpToTheBlank ==
  ASSUME NEW a \in Values, NEW b \in Values, NEW x \in Texts, NEW y \in Texts,
         x # <<>>, y # <<>>, x[1] = Blank, y[1] = Blank, Cat(a, x) = Cat(b, y)
  PROVE  a = b /\ x = y
<1>0. Blank \notin Letters /\ a \o x = b \o y  BY TextAssumption DEF Cat
<1>1. /\ a \in Seq(Symbols) /\ b \in Seq(Symbols) /\ x \in Seq(Symbols) /\ y \in Seq(Symbols)
      /\ a \in Seq(Letters) /\ b \in Seq(Letters)
      BY ValuesAreTexts DEF Texts, Values
<1>2. /\ Len(a) \in Nat /\ Len(b) \in Nat /\ Len(x) \in Nat \ {0} /\ Len(y) \in Nat \ {0}
      BY <1>1, EmptySeq, LenProperties
<1>3. /\ \A i \in 1 .. Len(a) + Len(x) : (a \o x)[i] = IF i <= Len(a) THEN a[i] ELSE x[i - Len(a)]
      /\ \A i \in 1 .. Len(b) + Len(y) : (b \o y)[i] = IF i <= Len(b) THEN b[i] ELSE y[i - Len(b)]
      /\ Len(a \o x) = Len(a) + Len(x) /\ Len(b \o y) = Len(b) + Len(y)
      BY <1>1, ConcatProperties
<1>4. /\ \A i \in 1 .. Len(a) : a[i] \in Letters
      /\ \A i \in 1 .. Len(b) : b[i] \in Letters
      BY <1>1, ElementOfSeq
<1>5. ~ (Len(a) < Len(b))
  <2> SUFFICES ASSUME Len(a) < Len(b) PROVE FALSE  OBVIOUS
  <2>1. Len(a) + 1 \in 1 .. Len(a) + Len(x) /\ Len(a) + 1 \in 1 .. Len(b)
        /\ Len(a) + 1 \in 1 .. Len(b) + Len(y) /\ (Len(a) + 1) - Len(a) = 1
        BY <1>2
  <2>2. (a \o x)[Len(a) + 1] = Blank  BY <1>0, <1>2, <1>3, <2>1
  <2>3. (b \o y)[Len(a) + 1] = b[Len(a) + 1]  BY <1>0, <1>2, <1>3, <2>1
  <2> QED  BY <1>0, <1>4, <2>1, <2>2, <2>3
<1>6. ~ (Len(b) < Len(a))
  <2> SUFFICES ASSUME Len(b) < Len(a) PROVE FALSE  OBVIOUS
  <2>1. Len(b) + 1 \in 1 .. Len(b) + Len(y) /\ Len(b) + 1 \in 1 .. Len(a)
        /\ Len(b) + 1 \in 1 .. Len(a) + Len(x) /\ (Len(b) + 1) - Len(b) = 1
        BY <1>2
  <2>2. (b \o y)[Len(b) + 1] = Blank  BY <1>0, <1>2, <1>3, <2>1
  <2>3. (a \o x)[Len(b) + 1] = a[Len(b) + 1]  BY <1>0, <1>2, <1>3, <2>1
  <2> QED  BY <1>0, <1>4, <2>1, <2>2, <2>3
<1>7. Len(a) = Len(b) /\ Len(x) = Len(y)  BY <1>0, <1>2, <1>3, <1>5, <1>6
<1>8. \A i \in 1 .. Len(a) : a[i] = b[i]
  <2> TAKE i \in 1 .. Len(a)
  <2>1. i \in 1 .. Len(a) + Len(x) /\ i <= Len(a)  BY <1>2
  <2> QED  BY <1>0, <1>3, <1>7, <2>1
<1>9. a = b  BY <1>1, <1>7, <1>8, SeqEqual
<1>10. x = y  BY <1>0, <1>1, <1>9, ConcatSimplifications
<1> QED  BY <1>9, <1>10

(* The beginning of a text, and the rest of it.                             *)
LEMMA CutText ==
  ASSUME NEW T, NEW s \in Seq(T), NEW n \in 0 .. Len(s)
  PROVE  /\ SubSeq(s, 1, n) \in Seq(T) /\ Len(SubSeq(s, 1, n)) = n
         /\ IsPrefix(SubSeq(s, 1, n), s)
         /\ \E rest \in Seq(T) : SubSeq(s, 1, n) \o rest = s
<1>1. Len(s) \in Nat /\ n \in Nat /\ n <= Len(s)  BY LenProperties
<1>2. \A i \in 1 .. Len(s) : s[i] \in T  BY ElementOfSeq
<1>3. SubSeq(s, 1, n) \in Seq(T) /\ Len(SubSeq(s, 1, n)) = n
  <2>1. \A i \in 1 .. n : s[i] \in T  BY <1>1, <1>2
  <2>2. 1 \in Int /\ n \in Int  BY <1>1
  <2>3. SubSeq(s, 1, n) \in Seq(T) /\ Len(SubSeq(s, 1, n)) = IF 1 <= n THEN n - 1 + 1 ELSE 0
        BY ONLY <2>1, <2>2, SubSeqProperties
  <2> QED  BY <1>1, <2>3
<1>4. SubSeq(SubSeq(s, 1, n), 1, n) = SubSeq(s, 1, n)
      BY ONLY <1>3, SubSeqFull
<1>5. IsPrefix(SubSeq(s, 1, n), s)  BY <1>1, <1>3, <1>4 DEF IsPrefix
<1>6. SubSeq(s, n + 1, Len(s)) \in Seq(T)
  <2>1. \A i \in n + 1 .. Len(s) : s[i] \in T  BY <1>1, <1>2
  <2>2. n + 1 \in Int /\ Len(s) \in Int  BY <1>1
  <2> QED  BY ONLY <2>1, <2>2, SubSeqProperties
<1>7. SubSeq(s, 1, n) \o SubSeq(s, n + 1, Len(s)) = s
  <2>1. 1 \in 1 .. Len(s) + 1 /\ n \in 1 - 1 .. Len(s) /\ Len(s) \in n .. Len(s)  BY <1>1
  <2>2. SubSeq(s, 1, n) \o SubSeq(s, n + 1, Len(s)) = SubSeq(s, 1, Len(s))
        BY <2>1, ConcatAdjacentSubSeq
  <2> QED  BY <2>2, SubSeqFull
<1> QED  BY <1>3, <1>5, <1>6, <1>7

(* The same with what stands behind a mark.                                 *)
LEMMA UpToTheMark ==
  ASSUME NEW key \in MarkKeys, NEW a \in Values, NEW b \in Values,
         NEW x \in Texts, NEW y \in Texts,
         Cat(a, Cat(Marks[key], x)) = Cat(b, Cat(Marks[key], y))
  PROVE  a = b /\ x = y
<1> DEFINE m == Marks[key]
<1>0. m \in Texts /\ m # <<>> /\ m[1] = Blank  BY MarksAreTexts
<1> HIDE DEF m
<1>1. ASSUME NEW z \in Texts
      PROVE  Cat(m, z) \in Texts /\ Cat(m, z) # <<>> /\ Cat(m, z)[1] = Blank
  <2>1. Len(m) \in Nat \ {0} /\ Len(z) \in Nat  BY <1>0, EmptySeq, LenProperties DEF Texts
  <2>2. /\ m \o z \in Texts /\ Len(m \o z) = Len(m) + Len(z)
        /\ \A i \in 1 .. Len(m) + Len(z) : (m \o z)[i] = IF i <= Len(m) THEN m[i] ELSE z[i - Len(m)]
        BY <1>0, ConcatProperties DEF Texts
  <2>3. 1 \in 1 .. Len(m) + Len(z) /\ 1 <= Len(m)  BY <2>1
  <2>4. (m \o z)[1] = m[1]  BY <2>2, <2>3
  <2>5. Len(m \o z) # 0  BY <2>1, <2>2
  <2> QED  BY <1>0, <2>2, <2>4, <2>5, EmptySeq DEF Cat
<1>2. a = b /\ Cat(m, x) = Cat(m, y)
  <2>1. Cat(a, Cat(m, x)) = Cat(b, Cat(m, y))  BY DEF m
  <2> QED  BY <1>1, <2>1, UpToTheBlank
<1>3. x = y  BY <1>0, <1>2, ConcatSimplifications DEF Cat, Texts
<1> QED  BY <1>2, <1>3

LEMMA CatTexts ==
  /\ \A a, b \in Texts : Cat(a, b) \in Texts
  /\ <<>> \in Texts /\ \A a \in Texts : Cat(a, <<>>) = a
  /\ Values \subseteq Texts
<1>1. ASSUME NEW a \in Texts, NEW b \in Texts  PROVE Cat(a, b) \in Texts
      BY ConcatProperties DEF Texts, Cat
<1>2. <<>> \in Texts /\ \A a \in Texts : Cat(a, <<>>) = a
      BY EmptySeq, ConcatEmptySeq DEF Texts, Cat
<1>3. Values \subseteq Texts  BY ValuesAreTexts
<1> QED  BY <1>1, <1>2, <1>3

LEMMA CatAssociative ==
  ASSUME NEW a \in Texts, NEW b \in Texts, NEW c \in Texts
  PROVE  Cat(Cat(a, b), c) = Cat(a, Cat(b, c))
BY ConcatAssociative DEF Texts, Cat

LEMMA CatMarks ==
  ASSUME NEW key \in MarkKeys
  PROVE  /\ Marks[key] \in Texts
         /\ \A a, b \in Values, x, y \in Texts :
              Cat(a, Cat(Marks[key], x)) = Cat(b, Cat(Marks[key], y)) => a = b /\ x = y
BY MarksAreTexts, UpToTheMark

AreValues(fields) ==
  fields.dec \in Values /\ fields.perm \in Values /\ fields.exe \in Values /\ fields.path \in Values

Tail4(h, r) == Cat(h.path, Cat(Marks["end"], r))
Tail3(h, r) == Cat(h.exe, Cat(Marks["path"], Tail4(h, r)))
Tail2(h, r) == Cat(h.perm, Cat(Marks["exe"], Tail3(h, r)))
Tail1(h, r) == Cat(h.dec, Cat(Marks["perm"], Tail2(h, r)))

(* A rule, and what follows it, read from the front.                        *)
LEMMA RuleFromTheFront ==
  ASSUME NEW h, AreValues(h), NEW r \in Texts
  PROVE  /\ WholeRule(h) \in Texts /\ WholeRule(h) \o r = Tail1(h, r)
         /\ Tail2(h, r) \in Texts /\ Tail3(h, r) \in Texts /\ Tail4(h, r) \in Texts
<1>1. h.dec \in Texts /\ h.perm \in Texts /\ h.exe \in Texts /\ h.path \in Texts
      BY CatTexts DEF AreValues
<1>2. Marks["perm"] \in Texts /\ Marks["exe"] \in Texts /\ Marks["path"] \in Texts
      /\ Marks["end"] \in Texts
      BY CatMarks DEF MarkKeys
<1>3. Tail4(h, r) \in Texts  BY <1>1, <1>2, CatTexts DEF Tail4
<1>4. Tail3(h, r) \in Texts  BY <1>1, <1>2, <1>3, CatTexts DEF Tail3
<1>5. Tail2(h, r) \in Texts  BY <1>1, <1>2, <1>4, CatTexts DEF Tail2
<1> DEFINE t2 == Cat(h.dec, Marks["perm"])
           t4 == Cat(Cat(t2, h.perm), Marks["exe"])
           t6 == Cat(Cat(t4, h.exe), Marks["path"])
           t8 == Cat(Cat(t6, h.path), Marks["end"])
<1>6. t2 \in Texts  BY <1>1, <1>2, CatTexts
<1>7. Cat(t2, Tail2(h, r)) = Tail1(h, r)
  <2> HIDE DEF Tail2
  <2> QED  BY <1>1, <1>2, <1>5, CatAssociative DEF Tail1
<1> HIDE DEF t2
<1>8. t4 \in Texts  BY <1>1, <1>2, <1>6, CatTexts
<1>9. Cat(t4, Tail3(h, r)) = Cat(t2, Tail2(h, r))
  <2>1. Cat(t2, h.perm) \in Texts /\ Cat(Marks["exe"], Tail3(h, r)) \in Texts
        BY <1>1, <1>2, <1>4, <1>6, CatTexts
  <2> QED  BY <1>1, <1>2, <1>4, <1>6, <2>1, CatAssociative DEF Tail2
<1> HIDE DEF t4
<1>10. t6 \in Texts  BY <1>1, <1>2, <1>8, CatTexts
<1>11. Cat(t6, Tail4(h, r)) = Cat(t4, Tail3(h, r))
  <2>1. Cat(t4, h.exe) \in Texts /\ Cat(Marks["path"], Tail4(h, r)) \in Texts
        BY <1>1, <1>2, <1>3, <1>8, CatTexts
  <2> QED  BY <1>1, <1>2, <1>3, <1>8, <2>1, CatAssociative DEF Tail3
<1> HIDE DEF t6
<1>12. t8 \in Texts  BY <1>1, <1>2, <1>10, CatTexts
<1>13. Cat(t8, r) = Cat(t6, Tail4(h, r))
  <2>1. Cat(t6, h.path) \in Texts /\ Cat(Marks["end"], r) \in Texts
        BY <1>1, <1>2, <1>10, CatTexts
  <2> QED  BY <1>1, <1>2, <1>10, <2>1, CatAssociative DEF Tail4
<1>14. WholeRule(h) = t8  BY DEF WholeRule, Cat, t2, t4, t6
<1> HIDE DEF t8
<1>15. WholeRule(h) \o r = Tail1(h, r)
       BY <1>7, <1>9, <1>11, <1>13, <1>14 DEF Cat
<1> QED  BY <1>3, <1>4, <1>5, <1>12, <1>14, <1>15

(* No rule is another one, or the beginning of another one.                 *)
LEMMA RulesDiffer ==
  ASSUME NEW f, AreValues(f), NEW g, AreValues(g), NEW r \in Texts,
         WholeRule(f) \o r = WholeRule(g)
  PROVE  f.dec = g.dec /\ f.perm = g.perm /\ f.exe = g.exe /\ f.path = g.path
<1>1. Tail1(f, r) = Tail1(g, <<>>)
  <2>1. WholeRule(f) \o r = Tail1(f, r)  BY RuleFromTheFront
  <2>2. WholeRule(g) \o <<>> = Tail1(g, <<>>) /\ WholeRule(g) \in Texts
        BY CatTexts, RuleFromTheFront
  <2>3. WholeRule(g) \o <<>> = WholeRule(g)  BY <2>2, CatTexts DEF Cat
  <2> QED  BY <2>1, <2>2, <2>3
<1>2. /\ Tail2(f, r) \in Texts /\ Tail3(f, r) \in Texts /\ Tail4(f, r) \in Texts
      /\ Tail2(g, <<>>) \in Texts /\ Tail3(g, <<>>) \in Texts /\ Tail4(g, <<>>) \in Texts
      BY CatTexts, RuleFromTheFront
<1>3. \A a, b \in Values, x, y \in Texts :
        /\ Cat(a, Cat(Marks["perm"], x)) = Cat(b, Cat(Marks["perm"], y)) => a = b /\ x = y
        /\ Cat(a, Cat(Marks["exe"], x)) = Cat(b, Cat(Marks["exe"], y)) => a = b /\ x = y
        /\ Cat(a, Cat(Marks["path"], x)) = Cat(b, Cat(Marks["path"], y)) => a = b /\ x = y
        /\ Cat(a, Cat(Marks["end"], x)) = Cat(b, Cat(Marks["end"], y)) => a = b /\ x = y
      BY CatMarks DEF MarkKeys
<1>4. f.dec = g.dec /\ Tail2(f, r) = Tail2(g, <<>>)
      BY <1>1, <1>2, <1>3 DEF Tail1, AreValues
<1>5. f.perm = g.perm /\ Tail3(f, r) = Tail3(g, <<>>)
      BY <1>2, <1>3, <1>4 DEF Tail2, AreValues
<1>6. f.exe = g.exe /\ Tail4(f, r) = Tail4(g, <<>>)
      BY <1>2, <1>3, <1>5 DEF Tail3, AreValues
<1>7. f.path = g.path
  <2>1. <<>> \in Texts  BY CatTexts
  <2> QED  BY <1>3, <1>6, <2>1 DEF Tail4, AreValues
<1> QED  BY <1>4, <1>5, <1>6, <1>7

(* Of a rule that fits the text is all, of one that does not its beginning. *)
LEMMA RuleIs ==
  ASSUME NEW line \in Lines, IsAuditRecord(line)
  PROVE  LET whole == WholeRule(FieldsOf(line))
         IN /\ AreValues(FieldsOf(line))
            /\ RuleOf(line) \in Texts /\ Shows(RuleOf(line), FieldsOf(line))
            /\ Fits(FieldsOf(line)) => RuleOf(line) = whole
            /\ \E rest \in Texts : RuleOf(line) \o rest = whole
<1> DEFINE fields == FieldsOf(line)
           whole == WholeRule(fields)
           size == RuleSize - 2
<1>1. fields \in OfLine(line)  BY DEF FieldsOf, OfLine
<1>2. AreValues(fields)  BY <1>1, FieldsOfALine DEF AreValues, Values, RuleFields
<1>3. <<>> \in Texts /\ \A s \in Texts : s \o <<>> = s
      BY EmptySeq, ConcatEmptySeq DEF Texts
<1>4. whole \in Texts /\ Len(whole) \in Nat
      BY <1>2, <1>3, RuleFromTheFront, LenProperties DEF Texts
<1>5. size \in Nat /\ RuleSize \in Nat  BY SizeAssumption
<1> HIDE DEF whole
<1>6. CASE Len(whole) > size
  <2> DEFINE text == SubSeq(whole, 1, size)
  <2>1. RuleOf(line) = text  BY <1>6 DEF RuleOf, rule_create, whole
  <2>2. ~ Fits(fields)  BY <1>4, <1>5, <1>6 DEF Fits, whole
  <2>3. /\ text \in Texts /\ Len(text) = size /\ IsPrefix(text, whole)
        /\ \E rest \in Texts : text \o rest = whole
    <3>1. size \in 0 .. Len(whole)  BY <1>4, <1>5, <1>6
    <3> QED  BY <1>4, <3>1, CutText DEF Texts
  <2> HIDE DEF text, size
  <2>4. Shows(text, fields)
        BY <2>2, <2>3 DEF Shows, whole, size
  <2> QED  BY <1>2, <2>1, <2>2, <2>3, <2>4 DEF whole
<1>7. CASE ~ (Len(whole) > size)
  <2>1. RuleOf(line) = whole  BY <1>7 DEF RuleOf, rule_create, whole
  <2>2. Fits(fields)  BY <1>4, <1>5, <1>7 DEF Fits, whole
  <2>3. Shows(whole, fields)  BY <2>2 DEF Shows, whole
  <2> QED  BY <1>2, <1>3, <1>4, <2>1, <2>2, <2>3 DEF whole
<1> QED  BY <1>6, <1>7

(* What the set holds was printed, and of each record its rule.             *)
LEMMA PrintedIsStored ==
  ASSUME ProgramInv, RecordsInv, main = "success"
  PROVE  /\ \A k \in DOMAIN output : \E i \in RecordsRead : output[k] = RuleOf(file[i])
         /\ ~ starved => \A i \in RecordsRead : \E k \in DOMAIN output :
                             output[k] = RuleOf(file[i])
<1>1. ToSet(output) = S!Stored
  <2>1. ToSet(output) = Passed /\ \A i \in S!Occupied : i < cursor
        BY DEF ProgramInv, EmitInv
  <2> QED  BY <2>1 DEF Passed, S!Stored
<1>2. S!Stored \subseteq {RuleOf(file[i]) : i \in RecordsRead}
      BY DEF RecordsInv
<1>3. ASSUME ~ starved, NEW i \in RecordsRead
      PROVE  RuleOf(file[i]) \in S!Stored
      BY <1>3 DEF RecordsInv, Processed
<1> QED  BY <1>1, <1>2, <1>3 DEF ToSet

(* A program that succeeds on a file of ordinary records has printed the    *)
(* rule of every one of them, cut at the size of the buffer, and no other,  *)
(* unless memory ran out; after an error, of those it read.                 *)
THEOREM RulesAreTheFiles == Spec => [](OrdinaryFile => RulesOfTheFile)
<1>1. ASSUME ProgramInv, RecordsInv, main = "success"
      PROVE  RulesOfTheFile
  <2>1. \A i \in RecordsRead : Shows(RuleOf(file[i]), FieldsOf(file[i]))
        BY <1>1, RuleIs DEF ProgramInv, PlaceInv, RecordsRead, Records
  <2>2. ~ erred => RecordsRead = Records
        BY <1>1 DEF ProgramInv, PlaceInv, RecordsRead, Records
  <2> QED  BY <1>1, <2>1, <2>2, PrintedIsStored DEF RulesOfTheFile
<1> QED  BY <1>1, RecordsInvariant, PTL DEF RulesOfTheFile

(* And records that differ in what a rule is made of are told apart in what *)
(* it printed, unless both rules are too long for the buffer, whatever its  *)
(* size, the values and the marks between them.                             *)
THEOREM RulesAreToldApart == Spec => [](OrdinaryFile => RulesToldApart)
<1>1. ASSUME ProgramInv, RecordsInv, main = "success", ~ starved,
             NEW i \in RecordsRead, NEW j \in RecordsRead,
             FieldsOf(file[i]) # FieldsOf(file[j]), Fits(FieldsOf(file[i]))
      PROVE  \E k, l \in DOMAIN output :
               /\ Shows(output[k], FieldsOf(file[i])) /\ Shows(output[l], FieldsOf(file[j]))
               /\ output[k] # output[l]
  <2>1. /\ file[i] \in Lines /\ IsAuditRecord(file[i])
        /\ file[j] \in Lines /\ IsAuditRecord(file[j])
        BY <1>1 DEF ProgramInv, PlaceInv, RecordsRead, Records
  <2>2. PICK k \in DOMAIN output : output[k] = RuleOf(file[i])  BY <1>1, PrintedIsStored
  <2>3. PICK l \in DOMAIN output : output[l] = RuleOf(file[j])  BY <1>1, PrintedIsStored
  <2>4. ASSUME RuleOf(file[i]) = RuleOf(file[j])
        PROVE  FALSE
    <3>1. RuleOf(file[i]) = WholeRule(FieldsOf(file[i]))  BY <1>1, <2>1, RuleIs
    <3>2. PICK rest \in Texts : RuleOf(file[j]) \o rest = WholeRule(FieldsOf(file[j]))
          BY <2>1, RuleIs
    <3>3. WholeRule(FieldsOf(file[i])) \o rest = WholeRule(FieldsOf(file[j]))
          BY <2>4, <3>1, <3>2
    <3>4. AreValues(FieldsOf(file[i])) /\ AreValues(FieldsOf(file[j]))
          BY <2>1, RuleIs
    <3>5. /\ FieldsOf(file[i]).dec = FieldsOf(file[j]).dec
          /\ FieldsOf(file[i]).perm = FieldsOf(file[j]).perm
          /\ FieldsOf(file[i]).exe = FieldsOf(file[j]).exe
          /\ FieldsOf(file[i]).path = FieldsOf(file[j]).path
          BY <3>3, <3>4, RulesDiffer
    <3> QED  BY <1>1, <3>5 DEF FieldsOf
  <2> QED  BY <2>1, <2>2, <2>3, <2>4, RuleIs
<1>2. ASSUME ProgramInv, RecordsInv
      PROVE  RulesToldApart
      BY <1>1, <1>2 DEF RulesToldApart
<1> QED  BY <1>2, RecordsInvariant, PTL

LEMMA FirstRecord ==
  ASSUME PlaceInv, NEW f \in 1 .. Len(file), f <= at, IsFirst(f)
  PROVE  (CHOOSE i \in RecordsRead : \A j \in RecordsRead : i <= j) = f
<1>1. Len(file) \in Nat /\ RecordsRead \subseteq Nat  BY DEF PlaceInv, RecordsRead, Records
<1>2. f \in RecordsRead  BY DEF RecordsRead, Records, IsFirst
<1>3. \A j \in RecordsRead : f <= j
  <2> SUFFICES ASSUME NEW j \in RecordsRead, j < f PROVE FALSE  BY <1>1, <1>2
  <2>1. j \in 1 .. f - 1 /\ IsAuditRecord(file[j])  BY <1>1, <1>2 DEF RecordsRead, Records
  <2> QED  BY <2>1 DEF IsFirst
<1>4. \A i \in RecordsRead : (\A j \in RecordsRead : i <= j) => i = f
  <2> SUFFICES ASSUME NEW i \in RecordsRead, \A j \in RecordsRead : i <= j PROVE i = f
      OBVIOUS
  <2>1. i <= f /\ f <= i  BY <1>2, <1>3
  <2> QED  BY <1>1, <1>2, <2>1
<1> QED  BY <1>2, <1>3, <1>4

(* On a file of ordinary records the exit tells about the fields: success   *)
(* means that every record has those of the first, failure with memory      *)
(* enough that there is no record or that the last one read has not.        *)
THEOREM ExitTells == Spec => [](OrdinaryFile => ExitTellsTheFields)
<1> DEFINE first == CHOOSE i \in RecordsRead : \A j \in RecordsRead : i <= j
           Odd(i) == ~ SameFields(file[i], file[first])
<1>1. ASSUME ProgramInv, RecordsInv
      PROVE  ExitTellsTheFields
  <2>1. ASSUME main = "success", NEW i \in (IF erred THEN RecordsRead ELSE Records)
        PROVE  ~ Odd(i)
    <3>1. i \in RecordsRead /\ PlaceInv
          BY <1>1, <2>1 DEF ProgramInv, PlaceInv, RecordsRead, Records
    <3>2. PICK f \in 1 .. Len(file) : f <= at /\ IsFirst(f) /\ exemplar = file[f]
          BY <1>1, <2>1 DEF ProgramInv, ParserInv
    <3>3. first = f  BY <3>1, <3>2, FirstRecord
    <3>4. SameFields(file[i], exemplar)
          BY <1>1, <2>1, <3>1 DEF RecordsInv, Processed
    <3> QED  BY <3>2, <3>3, <3>4
  <2>2. ASSUME main = "failure", ~ starved, ~ erred, at > 0, RecordsRead # {}
        PROVE  Odd(at)
    <3>1. PlaceInv /\ Failed  BY <1>1, <2>2 DEF ProgramInv, RecordsInv
    <3>2. PICK f \in 1 .. at : IsFirst(f) /\ ~ SameFields(file[at], file[f])
          BY <2>2, <3>1 DEF Failed
    <3>3. f \in 1 .. Len(file) /\ f <= at  BY <3>1, <3>2 DEF IsFirst, PlaceInv
    <3>4. first = f  BY <3>1, <3>2, <3>3, FirstRecord
    <3> QED  BY <3>2, <3>4
  <2> QED  BY <2>1, <2>2 DEF ExitTellsTheFields
<1> QED  BY <1>1, RecordsInvariant, PTL
=============================================================================
