\* A repair of the installed release that loses power.
\* The system may stop: attempts, records and setbacks are bounded.
CONSTANTS
  Versions = {1, 2}
  Schema <- Migrating
  MaxAttempts = 2
  MaxRecords = 2
  MaxSetbacks = 3
SPECIFICATION UpgradeSpec
INVARIANTS BootTaskIsThere
CHECK_DEADLOCK FALSE
