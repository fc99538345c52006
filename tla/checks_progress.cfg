SPECIFICATION Spec
CONSTANTS
  c1 = c1
  c2 = c2
  Checks <- MCChecks
  Pooled <- MCChecks
  PoolSize = 1
  Threshold = 2
  MaxStarts = 2
INVARIANT
  RuntimeSafe
PROPERTIES
  StopReturns
  CollectedAgain
