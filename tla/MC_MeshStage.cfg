SPECIFICATION StageSpec
CONSTANTS
  MaxSide = 4
  MaxBlocks = 12
  Dims = {0, 1, 2, 3}
  SkipCorner = {TRUE, FALSE}
  MaxStaged = 6
  Shapes <- const_Shapes
  Walls <- const_Walls
  NStages = 2
INVARIANTS
  PlanAgrees
  OrderMatches
  AsOneMesh
