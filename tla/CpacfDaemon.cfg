SPECIFICATION FairSpec
CONSTANTS
  Daemons = {d1, d2}
  Clients = {c1, c2}
  Counters = 2
  CPUs = {p1, p2}
  Asks <- MCAsks
  NoOne = NoOne
  Empty = Empty
INVARIANTS FilesInv CleanEnd RequestInv
PROPERTIES ClientEnds
CHECK_DEADLOCK FALSE
