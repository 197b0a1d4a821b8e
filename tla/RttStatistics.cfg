\* Every fault.  When the packets are used up the peers may stop.
SPECIFICATION Safety
CONSTANTS
  a = a
  b = b
  Peers = {a, b}
  W = 128
  Skews <- Ahead
  Garbage <- Leftover
  Cuts = TRUE
  Settings <- Back
  MaxTime = 2
  MaxHeaders = 3
  MaxReceipts = 4
INVARIANTS TypeOK FirstSampleKnown HeaderTellsRoundTrip StatisticsAreTrue
SYMMETRY PeerSymmetry
CHECK_DEADLOCK FALSE
