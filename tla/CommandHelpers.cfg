SPECIFICATION FairSpec
CONSTANTS
  Timeout = 4
  Poll = 1
  RpcTime = 1
  Attempts = 3
  Jobs = {"arm", "gripper", "stand", "trajectory", "motorsOff", "power", "robotOff", "services", "dock"}
INVARIANTS
  
  Punctual
PROPERTIES
  ComputerGoesLast
  Returns
CHECK_DEADLOCK FALSE
