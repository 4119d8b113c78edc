SPECIFICATION PoolSpec
CONSTANTS
  w1 = w1
  w2 = w2
  w3 = w3
  Workers = {w1, w2, w3}
  MaxJobs = 2
  NoError = NoError
INVARIANTS
  JoinedWhenIdle
  OnlyTheCurrentJob
  ErrorsReachTheCaller
PROPERTIES
  CallerReturns
  ImplementsForkJoin
