SPECIFICATION Spec
CONSTANTS
  Root = Root
  D = D
  F = F
  A = A
  One = One
  Two = Two
  Junk = Junk
  NoCmd = NoCmd
  Paths = {Root, D, F, A}
  Discs = {One, Two}
  Parent <- MCParent
  Lines <- MCLines
  Line <- MCLine
  TableSize = 3
  Garbage = 2
  Ctmo = 1
  DirBuf = 3
  MaxPos = 1
INVARIANTS CacheInv InStep
PROPERTIES FoundIfThere ShowsAll
