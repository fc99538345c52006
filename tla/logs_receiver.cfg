SPECIFICATION Spec
CONSTANTS
  r1 = r1
  h1 = h1
  Readers <- MCReaders
  Receivers <- MCReceivers
  Ticker = ticker
  MaxItems = 3
  MaxCrashes = 0
  SizeOf <- MCSizeOf
  MaxBytes = 2
  BatchMax = 2
PROPERTY
  FullQueueAnswers
