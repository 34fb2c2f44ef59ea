----------------------------- MODULE MCResources -----------------------------
(* Instances of FillDiskAmount, with a drive of 200 bytes and megabytes of 20 and of 21,  *)
(* and of StressCpu, with ints of 3 bits and masks of 5, for TLC: an attack is one of     *)
(* the two, the other one is a rejected request.                                          *)
EXTENDS FillDiskAmount, StressCpu

CONSTANTS Percentages, Sizes, BlockSizes, Durations, Loads

Methods == {"AT_ONCE", "OVER_TIME"}
SomeRequests ==
  [mode : {"PERCENTAGE"}, size : Percentages, method : Methods, block : BlockSizes]
    \cup [mode : {"MB_TO_FILL", "MB_LEFT"}, size : Sizes, method : Methods, block : BlockSizes]

SomeStresses ==
  [ms : Durations, cores : -1 .. Processors + 1, load : Loads, priority : {"High"}]
    \cup [ms : {Second}, cores : {1}, load : {100}, priority : {"Idle", "Normal"}]

ResourceInit ==
  \/ Init /\ CpuInit /\ stress = CHOOSE r \in Stresses : r.cores > Processors
  \/ CpuInit /\ Init /\ available = Total /\ request = CHOOSE r \in Requests : r.block > MaxBlock

ResourceSpec ==
  /\ ResourceInit
  /\ [][(Next /\ UNCHANGED cpuVars) \/ (CpuNext /\ UNCHANGED vars)]_<<vars, cpuVars>>
  /\ CpuFairness
=============================================================================
