SPECIFICATION Spec
CONSTANTS
  Keys = {a, b, c}
  None = None
  OK = OK
  ALLOCATION_ERROR = ALLOCATION_ERROR
  HashMax = 2
  Hashes <- AllHashes
  RequestedNodes = 2
  MaxNodes = 4
  MallocMayFail = TRUE
  Calls = {"add", "contains", "remove", "clear", "next"}
SYMMETRY KeySymmetry
CHECK_DEADLOCK FALSE
INVARIANT FullMeansNoSlotFree
