CONSTANTS
  UIntMax = 15
  Keys = {1, 9}
  FifoSizes = {0, 8}
  MaxInserts = 9
SPECIFICATION Spec
INVARIANTS TypeOK HitIsRecent
