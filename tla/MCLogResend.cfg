CONSTANTS
  MaxRec = 2
  Batch = 2
  ChunkUnits = 3
  MaxUnits = 4
  MaxGaps = 1
  ManualStarts = {}
  StorageFaults = FALSE
  Transfers = {1,2,3}
  Faults = {"resend"}
  MaxFaults = 3
SPECIFICATION Spec
PROPERTIES ResendKeepsSession
\* Terminating: every record is written and every fault is spent.
CHECK_DEADLOCK FALSE
