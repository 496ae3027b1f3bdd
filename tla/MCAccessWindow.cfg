CONSTANTS
  K = 3
  Keys = {1, 2}
  Classes = {1, 2}
  q1 = q1
  q2 = q2
  Queriers <- OneQuerier
SPECIFICATION Spec
INVARIANT TypeOK
INVARIANT HistogramInBounds
 
