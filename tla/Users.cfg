SPECIFICATION Spec
CONSTANTS
  u1 = u1
  u2 = u2
  c1 = c1
  c2 = c2
  a1 = a1
  a2 = a2
  None = None
  Users = {u1, u2}
  Accounts = {a1, a2}
  Containers = {c1, c2}
  PageLimit = 2
  MaxCalls = 5
  MaxFaults = 1
INVARIANTS TypeOK StoresAgree CacheFollows ListComplete
SYMMETRY Symmetry
CHECK_DEADLOCK FALSE
