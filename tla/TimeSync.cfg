CONSTANTS
  Controllers = {k1, k2}
  Establishers = {e1}
  SyncThread = thread
  Waiters = {w1}
  Clocks = {c1, c2, c3}
  NoClock = NoClock
  Needed = 1
  MaxSamples = 2
SPECIFICATION FairSyncSpec
INVARIANTS
  TerminationNeedsCrossing
  ConversionNeedsLateAnswer
CHECK_DEADLOCK FALSE
PROPERTIES Establishes
