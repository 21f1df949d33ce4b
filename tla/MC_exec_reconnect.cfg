SPECIFICATION Spec
CONSTANTS
  o1 = o1
  o2 = o2
  f1 = f1
  None = None
  NoToken = NoToken
  Orders <- OneOrder
  Foreign <- NoOrders
  Token <- Tokens
  Qty = 2
  OddLot <- NoOrders
  TransportFaults = FALSE
  ListMayFail = TRUE
  MaxCancels = 1
  MaxModifies = 0
  MaxSweeps = 0
  MaxDrops = 1
  MaxRestarts = 1
INVARIANTS RejectedIsDead CanceledIsGone
PROPERTY LedgerKept
CHECK_DEADLOCK FALSE
