SPECIFICATION FairSpec
CONSTANTS
  f1 = f1
  f2 = f2
  a1 = a1
  a2 = a2
  u1 = u1
  u2 = u2
  t1 = t1
  Unset = Unset
  None = None
  Findings = {f2}
  Accounts = {a1, a2}
  Units = {u1, u2}
  Tags = {t1}
  MaxVersion = 2
  UnitsOf <- MCUnitsOf
  AccountOf <- MCAccountOf
  TagsOf <- MCTagsOf
  ChunkOf <- MCChunkOf
  Configs <- NoFilters
  Chunks = 2
  PageSize = 2
  BatchSize = 2
  MaxAttempts = 2
  SyncPeriod = 1
  TtlDays = 2
  MaxFaults = 2
  MaxWrites = 2
INVARIANTS TypeOK
PROPERTIES SuppressionsKept NoRollback GhostsGo
