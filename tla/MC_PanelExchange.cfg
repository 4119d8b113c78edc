SPECIFICATION Spec
CONSTANTS
  Sizes <- const_Sizes
  Interleaved <- const_Interleaved
  MaxStage = 2
INVARIANTS
  GhostsHold
  GhostsFresh
  SeamStatesAgree
  NobodyWaitsForEver
