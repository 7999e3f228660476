SPECIFICATION CarefulSpec
CONSTANTS
  Threads = {t1, t2}
  Maps = {m1, m2}
  Keys = {k1, k2}
  Blocks = {b1, b2, b3, b4}
INVARIANTS OneOwner
PROPERTIES GotWhole CallsEnd
CHECK_DEADLOCK FALSE
