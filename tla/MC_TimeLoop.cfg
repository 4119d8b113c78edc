SPECIFICATION Spec
CONSTANTS
  Processes = {1, 2}
  Blocks = {1, 2}
  NStages = 2
  MaxRedo = 2
  nlim = 3
  tlim = 16
  ncycle_out = 2
  OutputDt = 8
  CflStep <- const_CflStep
  GravityFixer = TRUE
  ChecksSignals = TRUE
  MayHit = {2}
  MaySignal = {1}
  SuperResolution = TRUE
INVARIANTS
  OneDecision
  BooksBalance
  SignalStopsTheRun
PROPERTY EveryRunEnds
