SPECIFICATION Spec
CONSTANTS
  px = 6
  py = 1
  periodic_x = TRUE
  periodic_y = FALSE
  blocks_per_process = 2
  Blocks <- const_Blocks
  Process <- const_Process
  Transfers <- const_Transfers
  Kinds = 1
  MaxRounds = 3
INVARIANTS
  RoundsStayApart
PROPERTIES
  AllComplete
  ImplementsHalo
