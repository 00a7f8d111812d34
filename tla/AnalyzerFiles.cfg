SPECIFICATION Spec
CONSTANTS
  MaxLines = 3
  Lines <- AllLines
  Letters <- AllLetters
  Blank = Blank
  Marks <- OneBlank
  RuleSize = 10
  Rules <- AllRules
  Hashes <- SomeHashes
  RequestedNodes = 3
  MaxNodes = 6
  MallocMayFail = TRUE
  None = None
  NULL = NULL
  Text = Text
  NoValue <- Null
  Stale = Stale
  OK = OK
  ALLOCATION_ERROR = ALLOCATION_ERROR
  PARSE_ERROR = PARSE_ERROR
  RANGE_ERROR = RANGE_ERROR
INVARIANTS TypeOK RulesOfTheFile RulesToldApart NoRuleTwice ExitTellsTheFields StaleOnlyWhenCut
PROPERTY Terminates
