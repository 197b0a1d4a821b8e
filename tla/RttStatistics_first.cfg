SPECIFICATION Safety
CONSTANTS
  a = a
  b = b
  Peers = {a, b}
  W = 128
  Skews <- Ahead
  Garbage <- Fresh
  Cuts = FALSE
  Settings <- Never
  MaxTime = 2
  MaxHeaders = 1
  MaxReceipts = 1
INVARIANT NoRttBeyondUptime
CHECK_DEADLOCK FALSE
