------------------------------ MODULE Analyzer ------------------------------
(***************************************************************************)
(* cli/fapolicyd-analyzer.c: the program that reads a log, teaches a parser*)
(* the first audit record, collects one rule per record in a set of strings*)
(* and prints them at the end.                                             *)
(*                                                                         *)
(* It is composed of the parser (parse.c, module Parser) and of the set of *)
(* allow rules (hash_set.c, module HashSet), each with its own variables.  *)
(* The set of deny rules stays empty: nothing adds to it.                  *)
(*                                                                         *)
(* A file is the sequence of its lines; getline may fail before the end, in*)
(* a way the code does not tell from the end.  The values a rule is made of*)
(* (text) are sequences of letters: how long they are decides what of the  *)
(* rule rule_create can print into its buffer.                             *)
(***************************************************************************)
EXTENDS LogLines

CONSTANTS Lines,           \* the lines a file may have
          MaxLines,        \* BOUND: how many of them
          Letters,         \* what their values are made of
          Blank,           \* what they do not hold
          Marks,           \* what rule_create prints between the values
          RuleSize,        \* BOUND: 2048 in the code, the buffer of a rule
          Rules,           \* the rules these lines can lead to
          Hashes,          \* hash functions of the set, [Rules -> Nat]
          RequestedNodes,  \* BOUND: 0 in the code, which stands for 1024 slots
          MaxNodes,        \* BOUND: no growth of the set beyond this
          MallocMayFail,   \* whether an allocation may fail
          None,            \* a NULL slot of the set
          NULL,            \* a null pointer, and no line
          NoValue,         \* "(null)", printed for a field that is not there
          Stale,           \* a value in memory getline has used again
          OK, ALLOCATION_ERROR, PARSE_ERROR, RANGE_ERROR

VARIABLES file, at,        \* the file and the number of the line in hand
          main,            \* where main is, or how it ended
          output,          \* what was printed: a sequence of rules
          starved,         \* history: whether an allocation failed
          erred            \* history: whether getline failed before the end

VARIABLES subject, object, exemplar, imbued, parser_status, parser_reply

VARIABLES nodes, number_nodes, used_nodes, hash, set_status, growing, cursor,
          yielded, late, set_reply

parser_vars == <<subject, object, exemplar, imbued, parser_status, parser_reply>>
allow_rules == <<nodes, number_nodes, used_nodes, hash, set_status, growing,
                 cursor, yielded, late, set_reply>>
vars == <<file, at, main, output, starved, erred, parser_vars, allow_rules>>

Parser == INSTANCE Parser WITH
  status <- parser_status, reply <- parser_reply

Allow == INSTANCE HashSet WITH
  Keys   <- Rules, Calls <- {"add", "next"},
  status <- set_status, reply <- set_reply

ASSUME BoundAssumption == MaxLines \in Nat
ASSUME ParserAssumption ==
  Parser!LinesAssumption /\ Parser!NullAssumption /\ Parser!CodesAssumption
ASSUME SetAssumption == /\ Allow!NoneAssumption /\ Allow!HashesAssumption
                        /\ Allow!NodesAssumption /\ Allow!CallsAssumption

ASSUME SizeAssumption == RuleSize \in Nat \ {0, 1}
(* Values hold no blank, and each mark begins with one. *)
ASSUME TextAssumption ==
  /\ Blank \notin Letters
  /\ \A key \in {"perm", "exe", "path", "end"} :
       Marks[key] \in Seq(Letters \union {Blank}) /\ Marks[key] # <<>> /\ Marks[key][1] = Blank

(* Of the ends, those after "failure" are no exit: what is undefined, abort. *)
Ended == {"success", "failure", "crashed", "aborted", "stale"}

AtEnd == at > Len(file)
Line == file[at]
IsAuditRecord(line) == line.kind = "audit"

-----------------------------------------------------------------------------
(* get_subject_value, get_object_value: the first field with this key.  The *)
(* exemplar was parsed first, so that no key is null.                       *)
Value(array, key) ==
  LET found == {i \in 0 .. array.num - 1 : array.key[i] = key}
      first == CHOOSE i \in found : \A j \in found : i <= j
  IN CASE found = {} \/ (found # {} /\ array.value[first] = NULL) -> NoValue
       [] found # {} /\ array.value[first] = "new" -> Line.text[key]
       [] OTHER -> Stale

(* What process_record takes of the record in hand. *)
Fields == [dec |-> Value(subject, "dec"),  perm |-> Value(subject, "perm"),
           exe |-> Value(subject, "exe"),  path |-> Value(object, "path")]

FieldsAreStale == \E key \in DOMAIN Fields : Fields[key] = Stale

(* The text of a rule, were the buffer large enough; auid and trust do not  *)
(* vary and are part of the marks.                                          *)
WholeRule(fields) ==
  fields.dec \o Marks.perm \o fields.perm \o Marks.exe \o fields.exe
    \o Marks.path \o fields.path \o Marks.end

(* Mutant of rule_create: its arguments in another order, perm where exe    *)
(* should be.                                                               *)
rule_createSwapped(fields) ==
  LET whole == WholeRule([fields EXCEPT !.exe = fields.perm])
  IN IF Len(whole) > RuleSize - 2 THEN SubSeq(whole, 1, RuleSize - 2) ELSE whole

(* snprintf(buf, buf_len - 1, ...) keeps one more place for the NUL, and    *)
(* drops what does not fit; what it returns is not looked at.               *)
rule_create(fields) ==
  LET whole == WholeRule(fields)
  IN IF Len(whole) > RuleSize - 2 THEN SubSeq(whole, 1, RuleSize - 2) ELSE whole

Rule == rule_create(Fields)

(* The values of the lines; what can be made of a record, of all its fields *)
(* or of some, is a rule.                                                   *)
ASSUME RulesAssumption ==
  \A line \in Lines : line.kind = "audit" =>
    LET Of(key) == {line.text[key], NoValue}
    IN \A fields \in [dec : Of("dec"), perm : Of("perm"), exe : Of("exe"), path : Of("path")] :
         /\ \A key \in DOMAIN fields : fields[key] \in Seq(Letters) /\ fields[key] # Stale
         /\ rule_create(fields) \in Rules

Init ==
  /\ \E length \in 0 .. MaxLines : file \in [1 .. length -> Lines]
  /\ at = 0
  /\ main = "open" /\ output = <<>> /\ starved = FALSE /\ erred = FALSE
  /\ Parser!Init /\ Allow!Init

(* The file is opened, or cannot be. *)
Open ==
  /\ main = "open"
  /\ \/ main' = "failure" /\ UNCHANGED at
     \/ main' = "skip" /\ at' = 1
  /\ UNCHANGED <<file, output, starved, erred, parser_vars, allow_rules>>

(* while (getline ...): lines before the first audit record are skipped. *)
SkipLine ==
  /\ main = "skip" /\ ~AtEnd /\ ~IsAuditRecord(Line)
  /\ at' = at + 1
  /\ UNCHANGED <<file, main, output, starved, erred, parser_vars, allow_rules>>

(* No audit record, none before getline fails, or no memory for the parser. *)
NothingToLearn ==
  /\ main = "skip"
  /\ \/ AtEnd /\ UNCHANGED <<starved, erred>>
     \/ ~AtEnd /\ erred' = TRUE /\ UNCHANGED starved
     \/ ~AtEnd /\ IsAuditRecord(Line) /\ MallocMayFail /\ starved' = TRUE /\ UNCHANGED erred
  /\ main' = "failure"
  /\ UNCHANGED <<file, at, output, parser_vars, allow_rules>>

(* Mutant of Learn: the exemplar itself is not parsed. *)
LearnAndGoOn ==
  /\ main = "skip" /\ ~AtEnd /\ IsAuditRecord(Line)
  /\ Parser!Imbue(Line)
  /\ main' = IF parser_reply'.rc = OK THEN "read" ELSE "failure"
  /\ starved' = (parser_reply'.rc = ALLOCATION_ERROR)
  /\ UNCHANGED <<file, at, output, erred, allow_rules>>

(* imbue_parser on the first audit record; the sets of rules are made when  *)
(* it succeeded, and used whether there was memory for them or not, which is*)
(* a crash sooner or later: here at once.                                   *)
Learn ==
  /\ main = "skip" /\ ~AtEnd /\ IsAuditRecord(Line)
  /\ \/ Parser!Imbue(Line)
     \/ Parser!ImbueRefused(Line)
  /\ \/ main' = CASE parser_reply'.rc = OK   -> "record"
                  [] parser_reply'.rc = NULL -> "crashed"
                  [] OTHER                   -> "failure"
     \/ MallocMayFail /\ parser_reply'.rc = OK /\ main' = "crashed"
  /\ starved' = (parser_reply'.rc = ALLOCATION_ERROR \/ main' = "crashed")
  /\ UNCHANGED <<file, at, output, erred, allow_rules>>

(* Mutant of ParseLine: what parse returns is not looked at. *)
ParseLineUnchecked ==
  /\ main = "record" /\ IsAuditRecord(Line)
  /\ Parser!Parse(Line)
  /\ main' = IF parser_reply'.rc = NULL THEN "crashed" ELSE "process"
  /\ UNCHANGED <<file, at, output, starved, erred, allow_rules>>

ParseLine ==
  /\ main = "record" /\ IsAuditRecord(Line)
  /\ Parser!Parse(Line)
  /\ main' = CASE parser_reply'.rc = OK   -> "process"
               [] parser_reply'.rc = NULL -> "crashed"
               [] OTHER                   -> "failure"
  /\ UNCHANGED <<file, at, output, starved, erred, allow_rules>>

IgnoreLine ==
  /\ main = "record" /\ ~IsAuditRecord(Line)
  /\ main' = "read"
  /\ UNCHANGED <<file, at, output, starved, erred, parser_vars, allow_rules>>

(* process_record: one rule is made and added to the allow rules, whatever  *)
(* its decision.  A search that finds the set full cannot occur: the set    *)
(* has three slots or more.                                                 *)
ProcessRecord ==
  /\ main = "process" /\ ~FieldsAreStale
  /\ \/ Allow!AddPresent(Rule) /\ UNCHANGED starved
     \/ Allow!AddAbsent(Rule) /\ starved' = (starved \/ nodes' = nodes)
     \/ Allow!AddGrow(Rule) /\ UNCHANGED starved
     \/ Allow!AddGrowFails(Rule) /\ starved' = TRUE
  /\ main' = IF set_status' = "idle" THEN "read" ELSE "grow"
  /\ UNCHANGED <<file, at, output, erred, parser_vars>>

(* The rule is made of text that is not the record's. *)
ProcessStaleRecord ==
  /\ main = "process" /\ FieldsAreStale
  /\ main' = "stale"
  /\ UNCHANGED <<file, at, output, starved, erred, parser_vars, allow_rules>>

(* hash_set_add while the set grows; abort() ends the program. *)
Grow ==
  /\ main = "grow"
  /\ \/ Allow!RehashNode /\ UNCHANGED starved
     \/ Allow!AddAfterRehash /\ starved' = (starved \/ nodes' = nodes)
  /\ main' = CASE set_status' = "idle"      -> "read"
               [] set_status' = "unindexed" -> "aborted"
               [] OTHER                     -> "grow"
  /\ UNCHANGED <<file, at, output, erred, parser_vars>>

(* Mutants of ReadLine: after another line it does not go on; the end of the*)
(* file is not noticed in time.                                             *)
ReadLineAgain ==
  /\ main = "read"
  /\ at' = IF IsAuditRecord(Line) THEN at + 1 ELSE at
  /\ main' = IF at' > Len(file) THEN "emit" ELSE "record"
  /\ UNCHANGED <<file, output, starved, erred, parser_vars, allow_rules>>

ReadLinePast ==
  /\ main = "read"
  /\ at' = at + 1
  /\ main' = IF at > Len(file) THEN "emit" ELSE "record"
  /\ UNCHANGED <<file, output, starved, erred, parser_vars, allow_rules>>

(* The next getline: a line, the end, or an error before it, for want of    *)
(* memory too, which the loop takes for the end.                            *)
ReadLine ==
  /\ main = "read"
  /\ \/ /\ at' = at + 1 /\ UNCHANGED erred
        /\ main' = IF at' > Len(file) THEN "emit" ELSE "record"
     \/ /\ at < Len(file) /\ UNCHANGED at
        /\ main' = "emit" /\ erred' = TRUE
  /\ UNCHANGED <<file, output, starved, parser_vars, allow_rules>>

EmitRule ==
  /\ main = "emit"
  /\ Allow!NextKey
  /\ output' = Append(output, set_reply'.key)
  /\ UNCHANGED <<file, at, main, starved, erred, parser_vars>>

(* Mutant of EmitEnd: the second loop walks the allow rules again. *)
EmitEndAgain ==
  /\ main = "emit"
  /\ Allow!NextEnd \/ Allow!StartWalk
  /\ UNCHANGED <<file, at, main, output, starved, erred, parser_vars>>

(* The allow rules are exhausted, and there are no deny rules. *)
EmitEnd ==
  /\ main = "emit"
  /\ Allow!NextEnd
  /\ main' = "success"
  /\ UNCHANGED <<file, at, output, starved, erred, parser_vars>>

(* exit: the process is no more. *)
Done == main \in Ended /\ UNCHANGED vars

Next ==
  \/ Open \/ SkipLine \/ NothingToLearn \/ Learn
  \/ ParseLine \/ IgnoreLine \/ ProcessRecord \/ ProcessStaleRecord \/ Grow
  \/ ReadLine \/ EmitRule \/ EmitEnd

(* A program of one thread goes on until it has ended: reading the file and *)
(* printing do not block for ever.  This is WF_vars(Next), as a step is     *)
(* enabled until then, which is checked as the absence of deadlock.         *)
Fairness == []<>(main \in Ended) \/ []<><<Next>>_vars

Spec == Init /\ [][Next \/ Done]_vars /\ Fairness

-----------------------------------------------------------------------------
TypeOK ==
  /\ file \in Seq(Lines) /\ at \in 0 .. Len(file) + 1
  /\ main \in {"open", "skip", "record", "process", "grow", "read", "emit"} \union Ended
  /\ output \in Seq(Rules) /\ starved \in BOOLEAN /\ erred \in BOOLEAN
  /\ main \in {"record", "process", "grow"} => ~AtEnd
  /\ main \notin {"grow", "aborted"} => set_status = "idle"

(* The records of the file and those that were read, and what a rule should *)
(* tell of each.                                                            *)
Records == {i \in 1 .. Len(file) : IsAuditRecord(file[i])}
RecordsRead == {i \in Records : i <= at}

FieldsOf(line) ==
  LET Taken(half, key) ==
        IF key \in ToSet(Part(line, half)) THEN line.text[key] ELSE NoValue
  IN [dec |-> Taken("subject", "dec"), perm |-> Taken("subject", "perm"),
      exe |-> Taken("subject", "exe"), path |-> Taken("object", "path")]

(* A line of the output tells of these fields all there is to tell, or all  *)
(* a line can hold.                                                         *)
Fits(fields) == Len(WholeRule(fields)) < RuleSize - 1

Shows(text, fields) ==
  IF Fits(fields) THEN text = WholeRule(fields)
  ELSE IsPrefix(text, WholeRule(fields)) /\ Len(text) = RuleSize - 2

(* "Holds sets of allow rules and deny rules": a program that succeeds has  *)
(* printed the rule of every audit record of the file, the first and the    *)
(* last included, of a rule that is too long its beginning, and nothing     *)
(* else.  A rule is missing only when there was no memory for it, or when   *)
(* its record stands behind an error of reading, which success hides.       *)
RulesOfTheFile ==
  main = "success" =>
    LET due == IF erred THEN RecordsRead ELSE Records
        ShownBy(i, k) == Shows(output[k], FieldsOf(file[i]))
    IN /\ \A k \in DOMAIN output : \E i \in RecordsRead : ShownBy(i, k)
       /\ ~starved => \A i \in due : \E k \in DOMAIN output : ShownBy(i, k)

(* Records that differ in what a rule is made of are told apart in what is  *)
(* printed, unless the rules of both are cut at the size of the buffer.     *)
RulesToldApart ==
  main = "success" /\ ~starved =>
    \A i, j \in RecordsRead :
      FieldsOf(file[i]) # FieldsOf(file[j]) /\ Fits(FieldsOf(file[i])) =>
        \E k, l \in DOMAIN output :
          /\ Shows(output[k], FieldsOf(file[i])) /\ Shows(output[l], FieldsOf(file[j]))
          /\ output[k] # output[l]

(* Each rule is printed once, however often it occurs and however the rules *)
(* collide, as long as the set did not grow: up to 666 rules.               *)
NoRuleTwice ==
  number_nodes = Allow!InitialNodes =>
    \A i, j \in DOMAIN output : output[i] = output[j] => i = j

(* What main returns tells about the file: with memory enough and no error  *)
(* it fails only on a file that has no record or one that is not of the     *)
(* first's fields, and succeeds only if all records of the file, after an   *)
(* error those it read, with both halves have the first's.                  *)
ExitTellsTheFields ==
  LET first == CHOOSE i \in RecordsRead : \A j \in RecordsRead : i <= j
      Odd(i) == ~ SameFields(file[i], file[first])
  IN /\ main = "success" =>
          \A i \in (IF erred THEN RecordsRead ELSE Records) :
            Odd(i) => Part(file[i], "object") = <<>>
     /\ main = "failure" /\ ~starved /\ ~erred /\ at > 0 => RecordsRead = {} \/ Odd(at)

(* A rule is made of the values of its own record, unless the record was cut*)
(* before its colon: parse accepts it with the object of an earlier line.   *)
StaleOnlyWhenCut ==
  main = "stale" =>
    \A i \in DOMAIN Line.tokens : Line.tokens[i].kind # "colon"

(* The program ends, in some way, on every file. *)
Terminates == <>(main \in Ended)
=============================================================================
