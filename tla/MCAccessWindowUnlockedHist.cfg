CONSTANTS
  K = 3
  Keys = {1, 2}
  Classes = {1, 2}
  f1 = f1
  f2 = f2
  q1 = q1
  Feeders <- OneFeeder
  Queriers <- OneQuerier
SPECIFICATION Spec
INVARIANT HistogramInBounds
