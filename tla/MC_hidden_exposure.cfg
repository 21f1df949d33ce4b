SPECIFICATION Spec
CONSTANTS
  o1 = o1
  o2 = o2
  f1 = f1
  None = None
  NoToken = NoToken
  Orders <- OneOrder
  Foreign <- NoOrders
  Token <- Tokens
  Qty = 2
  OddLot <- NoOrders
  TransportFaults = TRUE
  ListMayFail = FALSE
  MaxCancels = 0
  MaxModifies = 0
  MaxSweeps = 0
  MaxDrops = 0
  MaxRestarts = 0
INVARIANTS RejectedIsDead
CHECK_DEADLOCK FALSE
