SPECIFICATION FairSpec
CONSTANTS
  e1 = e1
  e2 = e2
  e3 = e3
  Exec = {e1, e2}
  Tool <- Mixed
  Faults = {"start", "list", "kill", "timeout", "crash"}
  MaxFaults = 2
  MaxLate = 1
\* Every execution may end.
CHECK_DEADLOCK FALSE
PROPERTIES
  UnmaskedMeansEnded
  StoppedEndsForGood
  DevzeroEndsWithDD
  StopSucceeds
  CompletionIsReported
