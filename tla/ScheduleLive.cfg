SPECIFICATION FairSpec
CONSTANTS
  e1 = e1
  e2 = e2
  e3 = e3
  p1 = p1
  w1 = w1
  w2 = w2
  NoItem = NoItem
  Executions = {e1}
  Pairs = {p1}
  PairOf <- OnePair
  Workers = {w1}
  WaitThreshold = 1
  MaxLag = 1
  MaxReceiveCount = 2
  MaxAttempts = 2
  MaxClock = 2
PROPERTIES TokenAnswered
CHECK_DEADLOCK FALSE
