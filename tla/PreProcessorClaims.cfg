SPECIFICATION Spec
CONSTANTS
  f1 = f1
  f2 = f2
  m1 = m1
  m2 = m2
  m3 = m3
  c1 = c1
  c2 = c2
  u1 = u1
  None = None
  Findings = {f1}
  MaxVersion = 2
  Messages = {m1, m2}
  Containers = {c1, c2}
  Users = {}
  Kinds = {"failing", "closed"}
  Workflows = {"NEW"}
  BatchSize = 2
  MaxReceiveCount = 2
  Failures = TRUE
INVARIANTS TypeOK TasksConsistent OneDeliveryStarts
PROPERTIES VersionNeverRegresses ClaimsSpec
SYMMETRY Symmetry
CHECK_DEADLOCK FALSE
