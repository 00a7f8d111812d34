SPECIFICATION Spec
CONSTANTS
  Keys = {a, b, c}
  None = None
  OK = OK
  ALLOCATION_ERROR = ALLOCATION_ERROR
  HashMax = 5
  Hashes <- AllHashes
  RequestedNodes = 3
  MaxNodes = 6
  MallocMayFail = FALSE
  Calls = {"add"}
SYMMETRY KeySymmetry
CHECK_DEADLOCK FALSE
INVARIANT RehashFindsNodes
