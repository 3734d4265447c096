SPECIFICATION FairSpec
CONSTANTS
  e1 = e1
  f1 = f1
  f2 = f2
  None = None
  Executions = {e1}
  Findings = {f1}
  FindingsOf <- FindingsOfOne
  FirstOf <- FirstOfAll
  Inputs <- InputsAll
  MaxFaults = 2
  Documents = {"Active", "Missing"}
  MaxStarts = 2
  MaxDeliveries = 3
  Ends = {"success", "failed"}
  Timeouts = TRUE
  Closes = TRUE
INVARIANTS TypeOK SuccessBacked 
PROPERTIES OnlyStarterReopens EveryoneTold
CHECK_DEADLOCK FALSE
