SPECIFICATION ResourceSpec
CONSTANTS
  MB = 20
  MiB = 21
  Word = 256
  MaxBlock = 4
  Total = 200
  Space = {0, 10, 59, 60, 139, 200}
  \* enough to lose a whole byte, or a block, of an even percentage
  FloatError = 1
  Requests <- SomeRequests
  \* more than the drive has, and what wraps around
  Percentages = {0, 5, 33, 70, 75, 100, 120}
  Sizes = {0, 1, 2, 3, 6, 10, 13}
  BlockSizes = {1, 2, 3, 4, 5}
  \* 3 cores fill an int with its sign, 4 wrap around
  Processors = 4
  IntBits = 3
  PtrBits = 5
  Second = 2
  MaxInt = 7
  Stresses <- SomeStresses
  \* too short, rounded, at the limit, beyond it: negative and wrapped around
  Durations = {1, 2, 3, 7, 8, 17}
  Loads = {0, 1, 100, 101}
\* An attack ends.
CHECK_DEADLOCK FALSE
INVARIANTS
  TypeOK
  NotTooMuch
  NotTooLittle
  CpuInv
  AcceptedStressRuns
PROPERTIES
  StressEnds
