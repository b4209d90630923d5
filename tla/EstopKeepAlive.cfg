SPECIFICATION FairSpec
CONSTANTS
  Interval = 2
  RpcTime = 1
  MaxLost = 1
INVARIANTS SilenceIsBounded StopArrivesInTime
PROPERTIES ChecksInForever StopEnds
CHECK_DEADLOCK FALSE
