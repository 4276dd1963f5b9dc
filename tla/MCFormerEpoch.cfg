\* An epoch a device had before, given again with --replace-pairing
SPECIFICATION InstallSpec
CONSTANTS
  d1 = d1
  d2 = d2
  Devices = {d1, d2}
  MaxEpoch = 2
  MaxSeq = 1
  MaxSaved = 1
  MaxTurns = 4
  MaxAccidents = 2
INVARIANTS
  FormerEpochsRetired
CHECK_DEADLOCK FALSE
