SPECIFICATION TagSpec
CONSTANTS
  BlocksPerProcess = 2
  PhyIds = {0, 1, 63}
  Vars = {0, 1, 32766}
  HydroTags = {30485, 30497}
  MaxInFlight = 2
INVARIANTS
  TagsTellApart
  TagsFit
  HydroTagsStandOut
