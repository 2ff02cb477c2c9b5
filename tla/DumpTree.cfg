SPECIFICATION FairSpec
CONSTANTS
  t1 = t1
  t2 = t2
  t3 = t3
  a = a
  b = b
  c = c
  d = d
  x = x
  Threads = {t1, t2}
  NoThread = NoThread
  Tool = Tool
  InitJob = InitJob
  NoJob = NoJob
  Entries <- TreeEntries
  Kind <- TreeKind
  Parent <- TreeParent
  Opts <- TreeOpts
  Faults = {"read", "stat", "opendir"}
INVARIANTS HandleCount CompleteDump
PROPERTIES Termination
