CONSTANTS
  Frames = {vision, odom, body, hand}
  NoName = NoName
  EdgePoses <- MCEdgePoses
  Velocities <- MCVelocities
SYMMETRY FrameSymmetry
SPECIFICATION TreeSpec
CHECK_DEADLOCK FALSE
INVARIANTS
  ValidationIsExact
  TransformsCompose
PROPERTIES
  RerootKeepsTransforms
