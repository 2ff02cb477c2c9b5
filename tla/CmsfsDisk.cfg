SPECIFICATION Spec
CONSTANTS
  Names = {A, B}
  Total = 7
  MapBits = 12
  ByteBits = 4
  MapBytes = 1
  Ptrs = 2
  Slots = 3
  Spare = 2
  MaxBlocks = 3
  MaxWrite = 2
  MaxUse = 2
  MaxLeak = 0
  Habits = {"alone", "fresh"}
SYMMETRY NameSymmetry
INVARIANTS BlocksExact DirPacked CacheExact ObjectExact
PROPERTIES BugOnlyOnFullDisk
CHECK_DEADLOCK FALSE
