CONSTANTS
  ROBSize = 3
  PreDepth = 4
  Width = 2
  BranchLimit = 1
  MaxSeq = 3
  Shapes <- MCShapes
  NULL = NULL
SPECIFICATION Spec
INVARIANT RobRing
