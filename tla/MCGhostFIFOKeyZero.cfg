CONSTANTS
  UIntMax = 15
  Keys = {0, 9}
  FifoSizes = {0}
  MaxInserts = 2
SPECIFICATION Spec
PROPERTY InsertedIsFound
