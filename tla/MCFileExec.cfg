SPECIFICATION FileSpec
CONSTANTS
  MODULE_PAGE_COUNT = 9
  Modules = {1, 2, 3, 4}
  PageCounts = {1, 5}
  TLB_ENTRY_COUNT = 4
  Unmapped = 999
  KSEG0 = 200
  PAGE_UNITS = 2
  RAM_BASE = 8
  VirtualPage <- MCVirtualPage
  ZeroJump = 20
  Threads = {main, other}
  main = main
  Home = 0
  BlockOf <- MCBlockOf
  Blocks = {1}
  Listed = {1, 3, 4}
  TooLong = {3}
  Recognised = {1, 2, 4}
  MaxDepth = 2
INVARIANTS OwnCompletion CodeIsOwn
PROPERTIES NoTakeover ImplementsMemory RefusedRightly
CHECK_DEADLOCK FALSE
