CONSTANTS
  Depth = 3
  DWidth = 2
  TargetStage = 1
  UopQSize = 2
  BranchLimit = 1
  IQSize = 2
  MaxSeq = 3
  Shapes <- MCShapes
  NULL = NULL
SPECIFICATION FairSpec
INVARIANTS
  TypeOK
  OccupancyExact
  UopQAccounting
  EveryUopOnceInOrder
  WrongPathPurged
PROPERTY
  DecodeProgress
