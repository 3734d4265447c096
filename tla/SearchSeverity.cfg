SPECIFICATION Spec
CONSTANTS
  f1 = f1
  f2 = f2
  f3 = f3
  f4 = f4
  AllRows = "all"
  Fields <- MCFields
  RequestedFields <- MCRequestedFields
  TypeNames <- MCTypeNames
  NoValue = 9
  Absent = 8
  Values = {0, 1}
  Contains <- MCContains
  IndexPriority <- MCIndexPriority
  Findings = {f1, f2, f3, f4}
  Attributes <- MCAttributes
  Initial <- MCInitial
  Mutable = "remediationStatus"
  Structured <- MCStructured
  HistoryPriority <- MCHistoryPriority
  FindingOf <- MCFindingOf
  Searches <- BySeverity
  PageSize = 2
  MaxQueries = 2
  MaxRecords = 4
  Places = 5
  MaxChanges = 0
  MaxFaults = 0
INVARIANTS NothingLost
CHECK_DEADLOCK FALSE
