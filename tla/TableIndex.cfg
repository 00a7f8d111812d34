SPECIFICATION Spec
CONSTANTS
  Strings = {a, b, c, d}
  None = None
  FirstColumns = 1
  MaxRows = 4
  MaxColumns = 2
  Rows <- SomeRows
  Columns <- SomeColumns
  HashValues = {0, 1, 4}
  Hashes <- AllHashes
  InitialBuckets = 1
  Threshold = 1
  FirstSlots = 1
SYMMETRY Symmetry
CHECK_DEADLOCK FALSE
INVARIANTS TypeOK Rectangular HashIsSound IndexGroupsRows ItemsAreListed
