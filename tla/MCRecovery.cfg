\* The system may stop: records, resends, attempts and faults are bounded.
\* Two releases, an upgrade or repair after the other, three setbacks: enough to
\* interrupt an installation, its rollback and its recovery.
CONSTANTS
  MaxRec = 2
  Batch = 2
  ChunkUnits = 1
  MaxUnits = 4
  MaxGaps = 1
  ManualStarts = {1,2}
  StorageFaults = TRUE
  Transfers = {1,2,3}
  Faults = {"loss","resend","disconnect","crash","abandon","rescan"}
  MaxFaults = 2
  Versions = {1, 2}
  Schema <- Migrating
  MaxAttempts = 2
  MaxRecords = 1
  MaxSetbacks = 3
SPECIFICATION MCFairSpec
INVARIANTS AckedIsDurable ArchivedOnce
  UpgradeTypeOK InstallationIsWhole RolledBackIsBefore SafeRecordsKept WayBack
PROPERTIES LogRecovered RecoveryEnds
CHECK_DEADLOCK FALSE
