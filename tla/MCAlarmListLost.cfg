\* The system may stop: events, boots and archived lists are bounded.
CONSTANTS
  a1 = a1
  Alarms = {a1}
  AlarmMaxEvents = 3
  AlarmMaxBoot = 2
  AlarmMaxUp = 1
  AlarmListLost = TRUE
SPECIFICATION AlarmSpec
INVARIANTS AlarmsConverge
CHECK_DEADLOCK FALSE
