SPECIFICATION Spec
CONSTANTS
  s1 = s1
  s2 = s2
  Senders <- MCSenders2
  MaxOffers = 3
  SizeOf <- MCSizeOf
  MaxBytes = 9
INVARIANT
  NoSilentLoss
