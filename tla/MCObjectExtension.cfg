SPECIFICATION Spec
CONSTANTS
  Types = {0, 1}
  Subtypes = {0, 1}
  Sizes = {17}
  Handles = {h1, h2}
  Blocks = {b1, b2}
  NULL = NULL
  MaxExtensions = 2
  MaxSpawns = 2
SYMMETRY Symmetry
INVARIANTS
  DataInsideUnlessLate
  BlocksUnshared
CHECK_DEADLOCK FALSE
