SPECIFICATION Spec
CONSTANTS
  e1 = e1
  e2 = e2
  e3 = e3
  Exec = {e1, e2, e3}
  Opts <- Twins
  Faults = {"crash", "command", "timeout", "giveup"}
  MaxFaults = 2
  Cleaner = Cleaner
  Free = Free
INVARIANTS
  IInv
  CleanupRunsAlone
  OnlyStopsEndAnAttack
  RunningIsAdmitted
  FinishedFreesTheSlot
  FinishedLeavesNoEffect
PROPERTIES
  SlotSpec
