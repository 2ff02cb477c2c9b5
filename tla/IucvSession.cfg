SPECIFICATION FairSpec
CONSTANTS
  Chars = {"x", "esc", "d", "r"}
  Escape = "esc"
  BufSize = 2
  Windows = {"w1", "w2"}
  Faults = {"none", "denied", "fork", "exec"}
  MaxKeys = 2
  MaxOutput = 2
  MaxSignals = 1
INVARIANTS SocketInv FailureShown
PROPERTIES ImplementsPipes EndsTogether
CHECK_DEADLOCK FALSE
