SPECIFICATION FairSpec
CONSTANTS
  f1 = f1
  f2 = f2
  a1 = a1
  a2 = a2
  u1 = u1
  u2 = u2
  t1 = t1
  Unset = Unset
  None = None
  Findings = {f1, f2}
  Accounts = {a1, a2}
  Units = {u1, u2}
  Tags = {t1}
  MaxVersion = 1
  UnitsOf <- MCUnitsOf
  AccountOf <- MCAccountOf
  TagsOf <- MCTagsOf
  ChunkOf <- MCChunkOf
  Configs <- MCConfigs
  Chunks = 2
  PageSize = 2
  BatchSize = 2
  MaxAttempts = 2
  SyncPeriod = 1
  TtlDays = 2
  MaxFaults = 1
  MaxWrites = 1
INVARIANTS NeverDropped OnlyErrorsLetThrough
PROPERTIES Repaired
