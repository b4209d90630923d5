SPECIFICATION FairSpec
CONSTANTS
  body = body
  Resources = {body}
  NoResource = NoResource
  Epochs = {0}
  SeqMod = 8
  NoLease = NoLease
  resource = body
  Interval = 3
  RpcTime = 2
  CallbackTime = 1
  MaxLost = 2
  MaxRoot = 2
  MaxUse = 1
INVARIANTS ChecksInOnTime
PROPERTIES  LossIsReported StopEndsThread
CHECK_DEADLOCK FALSE
