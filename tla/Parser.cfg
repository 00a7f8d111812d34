SPECIFICATION FamilySpec
CONSTANTS
  Lines <- AllLines
  MallocMayFail = TRUE
  NULL = NULL
  Text = Text
  OK = OK
  ALLOCATION_ERROR = ALLOCATION_ERROR
  PARSE_ERROR = PARSE_ERROR
  RANGE_ERROR = RANGE_ERROR
CHECK_DEADLOCK FALSE
INVARIANTS TypeOK AcceptsTheSameFields CrashesOnMoreFieldsOnly RecordFresh OneSpareKey DestroyableOnceImbued
