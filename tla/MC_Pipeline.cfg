CONSTANTS
  Depth = 2
  DWidth = 1
  TargetStage = 1
  UopQSize = 2
  DecodeBranchLimit = 1
  IQSize = 1
  ROBSize = 2
  PreDepth = 1
  Width = 1
  CommitBranchLimit = 1
  MaxSeq = 2
  Shapes <- MCShapes
  NULL = NULL
SPECIFICATION FairSpec
CONSTRAINT TailNotUnderflowed
INVARIANT PreciseState
PROPERTY RetireSpec RetireOrSquash
