SPECIFICATION Spec
CONSTANTS
  pz = 3
  nx1 = 2
  Height = 6
  Major <- const_Major
  Vol <- const_Vol
  Process <- const_TwoAndOne
  Limits = 2
  Cases <- const_Cases
  Start <- const_Start
  Change <- const_Change
  TransportFails = {1}
INVARIANTS
  RepairedAsOne
PROPERTIES
  EveryoneReturns
