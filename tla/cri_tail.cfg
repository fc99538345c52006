CONSTANTS
  MaxLines = 2
  MaxInodes = 2
  MaxReaders = 2
  MaxRestarts = 1
  MaxCrashes = 1
  Chunk = 1
SPECIFICATION Spec
INVARIANTS
  TypeOK
  
PROPERTY
  Tailed
CHECK_DEADLOCK FALSE
