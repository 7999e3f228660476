SPECIFICATION UsualSpec
CONSTANTS
  NULL = NULL
  Proc = {p1, p2, p3}
  Entry = {"body", "EndProcess"}
  Priorities = {1}
  SleepTimes = {}
  Ticks = {1}
  Destructors = {}
  DestructorYields = FALSE
SYMMETRY TreeSymmetry
INVARIANTS
  SiblingsOK
  KillTerminates
PROPERTIES
  ChildrenKept
