SPECIFICATION Spec
CONSTANTS
  r1 = r1
  h1 = h1
  Readers <- MCReaders
  Receivers <- MCReceivers
  Ticker = ticker
  MaxItems = 4
  MaxCrashes = 1
  SizeOf <- MCSizeOf
  MaxBytes = 4
  BatchMax = 3
INVARIANTS
  TypeOK
  ConfirmedIsSafe
  FirstDeliveryInOrder
  WithinLimit
PROPERTIES
  EventuallyDelivered
  EventuallyServed
