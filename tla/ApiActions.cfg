SPECIFICATION Spec
CONSTANTS
  f1 = f1
  f2 = f2
  f3 = f3
  r1 = r1
  r2 = r2
  None = None
  Findings = {f1, f2, f3}
  MaxVersion = 2
  Requests = {r1, r2}
  Inputs <- MCInputs
  Absent = {f3}
  GetSize = 2
  PutSize = 2
  MaxAttempts = 2
  Outcomes = {"SUCCESS"}
  MaxEvents = 1
  MaxFaults = 1
INVARIANTS TypeOK SuccessComplete ExecutionsTracked NothingUndone
CHECK_DEADLOCK FALSE
