\* A record is parsed and a field of it is read.
CONSTANTS
  NULL = NULL
  SwigModules <- MCModules
  NameOrder <- MCOrder
  type_initial <- MCTypes
  cast_initial <- MCCasts
  Objects = {o1, o2}
  Blocks = {b1, b2, b3}
ACTION_CONSTRAINT FewBlocks
SYMMETRY MCSymmetry
SPECIFICATION Spec
INVARIANT ParsedFieldsReadable
CHECK_DEADLOCK FALSE
