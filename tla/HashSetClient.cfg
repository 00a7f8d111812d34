SPECIFICATION CarefulSpec
CONSTANTS
  Keys = {a, b, c}
  None = None
  OK = OK
  ALLOCATION_ERROR = ALLOCATION_ERROR
  HashMax = 4
  Hashes <- AllHashes
  RequestedNodes = 5
  MaxNodes = 10
  MallocMayFail = FALSE
  Calls = {"add", "contains", "remove", "clear", "next"}
SYMMETRY KeySymmetry
CHECK_DEADLOCK FALSE
PROPERTY KeySetSpec
