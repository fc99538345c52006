SPECIFICATION BridgeSpec
CONSTANTS
  Slots = {1}
  ChanSize = 2
  RingSize = 2
  MaxConns = 2
  MaxSent = 2
INVARIANT
  StatementOfConnection
CHECK_DEADLOCK FALSE
