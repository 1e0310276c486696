CONSTANTS
  ROBSize = 3
  PreDepth = 6
  Width = 3
  BranchLimit = 1
  MaxSeq = 3
  Shapes <- MCShapes
  NULL = NULL
SPECIFICATION Spec
CONSTRAINT TailNotUnderflowed
INVARIANT RetirementOrder
