----------------------------- MODULE MCAnalyzer -----------------------------
(***************************************************************************)
(* An instance of Analyzer for TLC: the lines of the files.  A value has   *)
(* one letter and a mark is a blank, so that a rule of four of each just   *)
(* fits into the buffer, and a path of three letters does not.             *)
(***************************************************************************)
EXTENDS Analyzer

F(key) == Field(key, "")

Record(tokens, dec, exe, path) ==
  [kind |-> "audit", tokens |-> tokens, endsBlank |-> FALSE,
   text |-> [dec |-> <<dec>>, perm |-> <<"any">>, exe |-> <<exe>>, path |-> path]]

Subject == <<F("rule"), F("dec"), F("exe")>>
Object == <<Colon, F("path"), F("ftype")>>

(* Five records of the same fields, two of them with long paths that differ *)
(* at the end; one of more, two of fewer fields, and one that was cut before*)
(* its colon.                                                               *)
EqualRecords ==
  {Record(Subject \o Object, "allow", "e1", <<"p">>),
   Record(Subject \o Object, "allow", "e2", <<"p">>),
   Record(Subject \o Object, "deny", "e1", <<"p">>),
   Record(Subject \o Object, "allow", "e1", <<"p", "p", "1">>),
   Record(Subject \o Object, "allow", "e1", <<"p", "p", "2">>)}

OddRecords ==
  {Record(Subject \o Object \o <<F("sha")>>, "allow", "e1", <<"p">>),
   Record(Subject \o <<Colon, F("path")>>, "allow", "e1", <<"p">>),
   Record(<<F("rule"), F("dec")>> \o Object, "allow", "e1", <<"p">>),
   Record(<<F("rule"), F("dec")>>, "allow", "e1", <<"p">>)}

OtherLine ==
  [kind |-> "other", tokens |-> <<Word>>, endsBlank |-> FALSE, text |-> <<>>]

AllLines == EqualRecords \union OddRecords \union {OtherLine}

AllLetters == {"allow", "deny", "any", "e1", "e2", "p", "1", "2", "(null)"}
Null == <<"(null)">>
OneBlank == [key \in {"perm", "exe", "path", "end"} |-> <<Blank>>]

AllRules ==
  UNION {{rule_create(fields) : fields \in
            [dec : {line.text.dec, NoValue}, perm : {line.text.perm, NoValue},
             exe : {line.text.exe, NoValue}, path : {line.text.path, NoValue}]} :
         line \in EqualRecords \union OddRecords}

(* All rules collide; or each has its own slot, which stays or moves when   *)
(* the set grows.                                                           *)
SomeHashes ==
  {[rule \in AllRules |-> 0], [rule \in AllRules |-> 4]}
    \union {[rule \in AllRules |-> CASE rule[1] = "deny" -> third
                                     [] rule[5] = "e2" -> 1
                                     [] OTHER -> 0] : third \in {2, 5}}
=============================================================================
