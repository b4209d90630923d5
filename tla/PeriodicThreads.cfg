CONSTANTS
  Interval = 5
  Initial = 1
  Kinds = {"token", "directory", "payload"}
SPECIFICATION FairPeriodicSpec
PROPERTIES
  NeverLostUnnoticed
  FaultIsCleared
  ShutdownReturns
CHECK_DEADLOCK FALSE
