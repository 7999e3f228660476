SPECIFICATION UsualSpec
CONSTANTS
  NULL = NULL
  Proc = {p1, p2}
  Entry = {"body", "EndProcess"}
  Priorities = {1, 2}
  SleepTimes <- TimesAndPause
  Ticks = {1}
  Destructors = {TRUE}
  DestructorYields = TRUE
SYMMETRY Symmetry
INVARIANTS
  TypeOK
  NoFatal
  ControlOK
  ListIsLive
  OnlyCurrentRuns
  CursorLive
  SlotsMatchProcesses
PROPERTIES
  KillSticks
  ImplementsLifecycle
