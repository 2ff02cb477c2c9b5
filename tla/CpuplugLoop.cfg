SPECIFICATION FairSpec
CONSTANTS
  NumCpus = 3
  Files <- MCFiles
  MaxHistory = 3
  CmmUsable = TRUE
  Standby = {{}, {1}}
  Matches <- MCMatches
  Pages = {0, 3}
  Steps <- MCSteps
  MaxEvents = 4
INVARIANTS WithinLimits HistoryExact RestoredAtExit
PROPERTIES NoOvershoot GrowsUnderLoad
CHECK_DEADLOCK FALSE
