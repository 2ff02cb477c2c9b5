SPECIFICATION Spec
CONSTANTS
  Chunk = 2
  MaxBuffer = 5
  FileMax = 8
  BlockSize = 3
  LinkMemory = 6
  MaxLen = 9
  MaxEntries = 2
  Faults = {"write", "truncate"}
INVARIANTS BufferInv
PROPERTIES ImplementsArchive
