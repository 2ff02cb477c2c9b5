SPECIFICATION FairSpec
CONSTANTS
  t1 = t1
  t2 = t2
  t3 = t3
  a = a
  b = b
  c = c
  d = d
  x = x
  Threads = {t1, t2, t3}
  NoThread = NoThread
  Tool = Tool
  InitJob = InitJob
  NoJob = NoJob
  Entries <- SoloEntries
  Kind <- SoloKind
  Parent <- SoloParent
  Opts <- TimeoutOpts
  Faults = {"create", "hang"}
INVARIANTS UniqueOwner OutputExclusion ActiveCount OwnerInv
PROPERTIES FinalIsFinal NoHang
