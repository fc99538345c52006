SPECIFICATION ProgressSpec
CONSTANTS
  OutCap = 1
  MaxBatches = 2
  MaxStarts = 2
  Jobs = {"j1", "j2"}
  Command <- MCCommand
  MaxDelay = 1
  MaxCrashes = 1
  MaxLapses = 1
INVARIANTS
  
  NothingForgotten
PROPERTIES
  Converges
  RevokedForGood
  AllServed
  TracerUp
CHECK_DEADLOCK FALSE
