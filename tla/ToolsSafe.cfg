SPECIFICATION Spec
CONSTANTS
  e1 = e1
  e2 = e2
  e3 = e3
  Exec = {e2, e3}
  Tool <- Mixed
  Faults = {"kill", "crash", "timeout"}
  MaxFaults = 3
  MaxLate = 1
\* Every execution may end.
CHECK_DEADLOCK FALSE
INVARIANTS
  IInv
