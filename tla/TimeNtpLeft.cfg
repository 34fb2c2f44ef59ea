SPECIFICATION Spec
CONSTANTS
  e1 = e1
  e2 = e2
  e3 = e3
  Exec = {e1}
  DisableNtp = {e1}
  Env = {"command"}
  MaxFaults = 1
  MaxStops = 3
\* Every execution ends, or runs out of calls of Stop.
CHECK_DEADLOCK FALSE
INVARIANTS
  StopUndoesFailedStart
