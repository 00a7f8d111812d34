SPECIFICATION CarefulSpec
CONSTANTS
  Keys = {a, b, c}
  Values = {v, w}
  None = None
  OK = OK
  ALLOCATION_ERROR = ALLOCATION_ERROR
  HashValues = {0, 2, 4, 5}
  Hashes <- AllHashes
  RequestedNodes = 3
  MaxNodes = 6
  MallocMayFail = TRUE
  Calls = {"add", "contains", "remove", "clear", "next"}
SYMMETRY Symmetry
VIEW View
CHECK_DEADLOCK FALSE
INVARIANTS TypeOK ReplacingNeverGrows ValueIsLatest OneNodePerKey
