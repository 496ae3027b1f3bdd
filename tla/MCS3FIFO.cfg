CONSTANTS
  n1 = n1
  n2 = n2
  n3 = n3
  Nodes <- ThreeNodes
  Hash <- Hashes
  UIntMax = 3
  TailSize = 0
  MaxRestarts = 1
  MaxAccesses = 3
  MaxEvictions = 3
  None = None
SPECIFICATION SpecBoth
INVARIANT QueuesMatchContainer
 
