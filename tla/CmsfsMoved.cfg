SPECIFICATION Spec
CONSTANTS
  Names = {A, B}
  Total = 7
  MapBits = 12
  ByteBits = 4
  MapBytes = 1
  Ptrs = 2
  Slots = 3
  Spare = 2
  MaxBlocks = 3
  MaxWrite = 3
  MaxUse = 2
  MaxLeak = 0
  Habits = {"fresh"}
SYMMETRY NameSymmetry
INVARIANTS FollowsMove
CHECK_DEADLOCK FALSE
