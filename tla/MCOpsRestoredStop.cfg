CONSTANTS
  a = a
  b = b
  Ops = {a, b}
  Kind <- StartStop
  NoRun = NoRun
  MaxSeq = 2
  Slots = 2
  MaxBoot = 1
  MaxFaults = 2
  MaxQueries = 1
  StorageFaults = FALSE
  Restores = TRUE
SPECIFICATION Spec
INVARIANTS StopOnlyOutrunByStop

\* Terminating: every operation is used up and every fault is spent.
CHECK_DEADLOCK FALSE
