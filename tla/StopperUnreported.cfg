SPECIFICATION Spec
CONSTANTS
  e1 = e1
  e2 = e2
  p1 = p1
  p2 = p2
  Exec = {e1}
  Pid = {p1, p2}
  Match <- Overlapping
  Protected = {p2}
  Graceful = {}
  NoDelay = {}
  Unheard = {}
  None = None
\* Every execution ends and processes need not come back.
CHECK_DEADLOCK FALSE
INVARIANTS
  FailureIsReported
