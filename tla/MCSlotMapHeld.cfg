SPECIFICATION MCSpec
CONSTANTS
  PageSize = 2
  MinFree = 1
  MaxVersion = 4
  VersionMod = 4
  MaxSlots = 4
  Tags = {0, 1}
INVARIANTS
  HeldFound
