CONSTANTS
  a = a
  b = b
  Ops = {a, b}
  Kind <- StartStop
  NoRun = NoRun
  MaxSeq = 2
  Slots = 2
  MaxBoot = 2
  MaxFaults = 1
  MaxQueries = 1
  StorageFaults = TRUE
  Restores = FALSE
SPECIFICATION Spec
INVARIANTS TypeOK AtMostOnce NoResultConflict StopOnlyOutrunByStop
PROPERTIES LedgerSpec
\* Terminating: every operation is used up and every fault is spent.
CHECK_DEADLOCK FALSE
