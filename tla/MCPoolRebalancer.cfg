CONSTANTS
  K = 3
  Keys = {1, 2}
  Classes = {1, 2}
  Aps <- ApsOneTwo
  NumSlabs = 2
  FreeAllocThreshold = 1
  MaxThrows = 1
SPECIFICATION Spec
PROPERTY RebalanceMovesTowardOptimal
PROPERTY RebalanceConverges
