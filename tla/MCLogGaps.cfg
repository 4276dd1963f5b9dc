CONSTANTS
  MaxRec = 3
  Batch = 3
  ChunkUnits = 3
  MaxUnits = 6
  MaxGaps = 1
  ManualStarts = {}
  StorageFaults = FALSE
  Transfers = {1,2,3}
  Faults = {"loss"}
  MaxFaults = 2
SPECIFICATION FairSpec
PROPERTIES SplitRequestsComplete
\* Terminating: every record is written and every fault is spent.
CHECK_DEADLOCK FALSE
