\* An uninstall interrupted after its service was removed, resumed and interrupted again
SPECIFICATION InstallSpec
CONSTANTS
  d1 = d1
  d2 = d2
  Devices = {d1, d2}
  MaxEpoch = 2
  MaxSeq = 1
  MaxSaved = 1
  MaxTurns = 4
  MaxAccidents = 2
INVARIANTS
  UninstallResumes
CHECK_DEADLOCK FALSE
