SPECIFICATION Spec
CONSTANTS
  Sizes <- const_Sizes
  MaxTime = 1
  MaxLegs <- const_MaxLegs
  MaxFaults = 2
INVARIANTS
  OneMoment
  BarriersHold
  OneAtRisk
PROPERTY EveryoneReturns
CHECK_DEADLOCK FALSE
