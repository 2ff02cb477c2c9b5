SPECIFICATION FairSpec
CONSTANTS
  t1 = t1
  t2 = t2
  t3 = t3
  a = a
  b = b
  c = c
  d = d
  x = x
  Threads = {t1, t2}
  NoThread = NoThread
  Tool = Tool
  InitJob = InitJob
  NoJob = NoJob
  Entries <- PairEntries
  Kind <- PairKind
  Parent <- PairParent
  Opts <- Plain
  Faults = {}
PROPERTIES Termination
CHECK_DEADLOCK FALSE
