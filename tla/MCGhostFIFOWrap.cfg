CONSTANTS
  UIntMax = 11
  Keys = {1, 9}
  FifoSizes = {0}
  MaxInserts = 13
SPECIFICATION Spec
INVARIANT HitIsRecent
