CONSTANTS
  K = 4
  Keys = {1, 2}
  Classes = {1, 2}
  MaxSlabs = 2
SPECIFICATION Spec
INVARIANT FpMatchesReference
INVARIANT SolverOptimal
INVARIANT PlanRealizesOptimal
INVARIANT QueryFootprintMonotone
