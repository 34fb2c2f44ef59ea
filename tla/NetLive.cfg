SPECIFICATION FairServiceSpec
CONSTANTS
  e1 = e1
  e2 = e2
  Exec = {e1, e2}
  Opts <- Limits
  Faults = {"crash", "command"}
  MaxFaults = 1
  MaxStops = 1
  Cleaner = Cleaner
  Free = Free
INVARIANTS
  ServiceIInv
  CleanupNotCutShort
  ListedIsServed
PROPERTIES
  StopReturns
  FinishedLeavesNoPolicies
  StopEndsProcess
