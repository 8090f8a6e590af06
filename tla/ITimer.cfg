SPECIFICATION Spec
CONSTANTS
  TICK = 2
  Values = {0, 1, 4}
  Intervals = {0, 2, 3}
  Horizon = 10
  MaxNest = 2
  MaxSets = 2
  SlowSystems = {FALSE, TRUE}
CHECK_DEADLOCK FALSE
INVARIANTS NoTimerKill OneAlarmPerExpiration AlarmOnTime HookedWhileArmed
