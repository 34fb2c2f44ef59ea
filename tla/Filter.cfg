SPECIFICATION Spec
CONSTANTS
  Net <- AllNets
  PrefixLen <- MaskLen
  Merge <- SmallestAround
  Inputs <- Lists
  Limit = 1
  Requests <- SomeRequests
  Interface <- Interfaces
  AnyNet <- NetAny
  AnyPort <- PortRangeAny
  Packets <- Traffic
  NoFilter = NoFilter
  Named = {"eth", "tun"}
\* The filter is built once.
CHECK_DEADLOCK FALSE
INVARIANTS
  CondenseInv
  SortedIsCondensedFully
  ProtectedUntouched
  LimitSparesRestricted
  AffectedAsWanted
PROPERTIES
  NeverGrows
  Terminates
