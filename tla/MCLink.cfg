\* The system may stop: requests, samples, processes and faults are bounded.
CONSTANTS
  MaxRec = 3
  Batch = 2
  ChunkUnits = 3
  MaxUnits = 4
  MaxGaps = 1
  ManualStarts = {1}
  StorageFaults = TRUE
  Transfers = {1,2,3}
  Faults = {"loss","disconnect","crash","rescan"}
  MaxFaults = 1
  LeaseMs = 2
  Timeout = 1
  MaxNow = 2
  MaxRev = 1
  MaxLease = 2
  MaxSession = 2
  MaxAsks = 4
  c1 = c1
  c2 = c2
  V1Callers = {c1, c2}
  V1MaxSession = 3
  V1MaxRequests = 3
  V1MaxMissed = 1
  V1MaxFaults = 3
  QueueSize = 1
  MaxSamples = 4
  MaxPerPhase = 1
  MaxBoardBoot = 2
  MaxRunFaults = 2
  d1 = d1
  d2 = d2
  Devices = {d1, d2}
  MaxEpoch = 2
  MaxSeq = 2
  MaxSaved = 1
  MaxTurns = 4
  MaxAccidents = 2
SPECIFICATION MCSpec
INVARIANTS TypesOK CursorSound EvidenceSound
  AnswerIsOwn NeverAbandoned CompleteIsWhole EndedIsOver
  RecordsKept InstallationSound
PROPERTIES NoReplyRevokesNewer NewSessionKeepsLease
CHECK_DEADLOCK FALSE
