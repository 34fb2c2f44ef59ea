SPECIFICATION Spec
CONSTANTS
  e1 = e1
  e2 = e2
  e3 = e3
  Exec = {e1, e2, e3}
  DisableNtp = {e1, e2}
  Env = {"command", "timeout", "sync"}
  MaxFaults = 2
  MaxStops = 2
\* Every execution ends, or runs out of calls of Stop.
CHECK_DEADLOCK FALSE
INVARIANTS
  IInv
  StoppedClockIsRight
  StoppedServiceRuns
