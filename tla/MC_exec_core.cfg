SPECIFICATION Spec
CONSTANTS
  o1 = o1
  o2 = o2
  f1 = f1
  None = None
  NoToken = NoToken
  Orders <- OneOrder
  Foreign <- OneForeign
  Token <- Tokens
  Qty = 2
  OddLot <- OneOrder
  TransportFaults = TRUE
  ListMayFail = FALSE
  MaxCancels = 1
  MaxModifies = 1
  MaxSweeps = 0
  MaxDrops = 0
  MaxRestarts = 0
INVARIANTS TypeOK MapSound FillsGenuine NoDealLost HiddenOnlyIfCut ClosedSettled QuietAgrees
CHECK_DEADLOCK FALSE
