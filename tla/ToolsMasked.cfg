SPECIFICATION Spec
CONSTANTS
  e1 = e1
  e2 = e2
  e3 = e3
  Exec = {e1}
  Tool <- Mixed
  Faults = {"kill"}
  MaxFaults = 1
  MaxLate = 1
\* Every execution may end.
CHECK_DEADLOCK FALSE
PROPERTIES
  CanceledMeansEnded
