\* The system may stop: requests, events, records and faults are bounded.
CONSTANTS
  write = write
  command = command
  stop = stop
  read = read
  Writes = {write}
  Commands = {command}
  Stops = {stop}
  Reads = {read}
  MaxRequests = 2
  MaxFaults = 2
  p1 = p1
  Reviewers = {p1}
  ReplayBatch = 1
  RunMaxRecords = 2
  RunMaxBoot = 2
  RunMaxFaults = 1
  RunMaxRev = 3
  a1 = a1
  Alarms = {a1}
  AlarmMaxEvents = 3
  AlarmMaxBoot = 2
  AlarmMaxUp = 1
  AlarmListLost = FALSE
  HttpScenarios <- AllScenarios
  Histories = {"h1"}
  HttpAdmins = {"u2"}
  HttpMaxFaults = 1
  HttpMaxQueries = 1
  MaxSavers = 2
  Definitions = {"cool", "hot"}
  Portable = {"cool"}
  MaxVersion = 2
  MaxTurns = 3
  MaxRecipeSession = 2
  MaxRecipeFaults = 1
SPECIFICATION MCSpec
INVARIANTS TypesOK ClosedIsQuiet UnconfirmedIsIdle AuthorizedIsClosed
  ReportIsWhole AlarmsConverge
  IssuedAsRecorded SessionsSound RecipesSound
PROPERTIES NeverClosedAgain BindSawEvidence EndIsFinal OwnerCommands
CHECK_DEADLOCK FALSE
