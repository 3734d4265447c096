SPECIFICATION Spec
CONSTANTS
  f1 = f1
  f2 = f2
  f3 = f3
  everything = everything
  some = some
  None = None
  Findings = {f1, f2, f3}
  Filters = {everything, some}
  Matches <- MCMatches
  PageSize = 1
  MaxEvents = 4
  MaxFaults = 1
INVARIANTS TypeOK FirstRows MarksShown SpinnerStops
CHECK_DEADLOCK FALSE
