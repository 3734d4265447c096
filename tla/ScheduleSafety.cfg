SPECIFICATION Spec
CONSTANTS
  e1 = e1
  e2 = e2
  e3 = e3
  p1 = p1
  w1 = w1
  w2 = w2
  NoItem = NoItem
  Executions = {e1, e2}
  Pairs = {p1}
  PairOf <- OnePair
  Workers = {w1, w2}
  WaitThreshold = 2
  MaxLag = 2
  MaxReceiveCount = 2
  MaxAttempts = 1
  MaxClock = 4
INVARIANTS TypeOK SlotsSpaced  PromisesCovered BurstBounded
SYMMETRY Symmetry
CHECK_DEADLOCK FALSE
