SPECIFICATION LiveSpec
CONSTANTS
  NULL = NULL
  Proc = {p1, p2}
  Entry = {"body", "EndProcess"}
  Priorities = {1}
  SleepTimes = {2}
  Ticks = {1}
  Destructors = {TRUE}
  DestructorYields = TRUE
  MaxCalls = 3
PROPERTIES
  KilledIsReaped
  TimedSleepWakes
  PassesEnd
