\* Every operation; at most three objects and three blocks.
CONSTANTS
  NULL = NULL
  SwigModules <- MCModules
  NameOrder <- MCOrder
  type_initial <- MCTypes
  cast_initial <- MCCasts
  Objects = {o1, o2, o3}
  Blocks = {b1, b2, b3}
ACTION_CONSTRAINT FewBlocks
SYMMETRY MCSymmetry
SPECIFICATION Spec
INVARIANTS OneTypePerName ArgumentsAreSound FieldsFreedOnce
CHECK_DEADLOCK FALSE
