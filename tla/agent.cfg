SPECIFICATION AgentSpec
CONSTANTS
  c1 = c1
  c2 = c2
  Checks <- MCChecks
  MaxVersion = 3
  MaxRestarts = 1
  AsksUpdate = FALSE
  Languages = {"node", "python"}
  Images = {"node"}
  Pods <- MCPods
  MaxAge = 1
  PollTimeout = 1
  MaxHookTime = 4
  Objects <- MCObjects
  KindOf <- MCKindOf
  OwnerOf <- MCOwnerOf
  Placed = {"p1"}
  EventKey <- MCEventKey
  EventCount <- MCEventCount
  Inventory <- MCInventory
  Extras <- MCExtras
  Limit = 1
  MaxPages = 2
  MaxChurn = 1
  MaxCycles = 2
  Owners = {"a", "b"}
  PidTTL = 2
  MissTTL = 1
  ListTTL = 1
  MaxTime = 3
  ScanPods = {"p", "q"}
  Addresses = {"a"}
  Processes = 2
  OutSize = 1
  MaxMoves = 3
  MaxRounds = 2
SYMMETRY MCSymmetry
INVARIANTS
  AgentTypeOK
  ConfigInSync
  
PROPERTIES
  StopsOnlyDeleted
  SelectionBounded
CHECK_DEADLOCK FALSE
