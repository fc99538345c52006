SPECIFICATION Spec
CONSTANTS
  s1 = s1
  s2 = s2
  Senders <- MCSenders1
  MaxOffers = 5
  SizeOf <- MCSizeOf
  MaxBytes = 4
INVARIANTS
  TypeOK
  NoSilentLoss
  LedgerExact
  BoundedOutbox
  FreshIsNotRetry
PROPERTY
  KeepsPromise
