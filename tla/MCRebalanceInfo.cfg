CONSTANTS
  Width = 3
  NumHoldOffRounds = 1
  MaxSlabs = 1
  MaxEvents = 3
SPECIFICATION Spec
INVARIANT TypeOK
INVARIANT DeltasCountSinceSnapshot
