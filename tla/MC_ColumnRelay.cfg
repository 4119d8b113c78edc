SPECIFICATION Spec
CONSTANTS
  pz = 4
  Process <- const_TwoProcesses
  MaxStages = 3
  MayFail = {2}
INVARIANTS
  RelayInStep
PROPERTIES
  EveryoneReturns
  ImplementsScan
