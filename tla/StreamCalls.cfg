CONSTANTS
  ChunkSize = 2
  Lengths <- MCLengths
  Window = 1
SPECIFICATION FairSpec
INVARIANTS
  WrittenInOrder
  OkMeansComplete
PROPERTIES
  EndsByItself
