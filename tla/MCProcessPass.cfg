SPECIFICATION PassSpec
CONSTANTS
  NULL = NULL
  Proc = {p1, p2, p3, p4}
  Entry = {"body", "EndProcess"}
  Priorities = {1, 2}
  SleepTimes = {}
  Ticks = {1}
  Destructors = {}
  DestructorYields = FALSE
SYMMETRY PassSymmetry
INVARIANTS
  ListOK
  OneTurnEach
