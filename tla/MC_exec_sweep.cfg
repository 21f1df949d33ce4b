SPECIFICATION Spec
CONSTANTS
  o1 = o1
  o2 = o2
  f1 = f1
  None = None
  NoToken = NoToken
  Orders <- TwoOrders
  Foreign <- NoOrders
  Token <- Tokens
  Qty = 1
  OddLot <- NoOrders
  TransportFaults = FALSE
  ListMayFail = FALSE
  MaxCancels = 0
  MaxModifies = 0
  MaxSweeps = 1
  MaxDrops = 0
  MaxRestarts = 0
INVARIANTS ClosedSettled QuietAgrees
CHECK_DEADLOCK FALSE
