SPECIFICATION FairSpec
CONSTANTS
  o1 = o1
  o2 = o2
  f1 = f1
  None = None
  NoToken = NoToken
  Orders <- OneOrder
  Foreign <- NoOrders
  Token <- Tokens
  Qty = 1
  OddLot <- NoOrders
  TransportFaults = FALSE
  ListMayFail = FALSE
  MaxCancels = 1
  MaxModifies = 0
  MaxSweeps = 0
  MaxDrops = 1
  MaxRestarts = 1
PROPERTIES SubmitResolves CancelAnswered ClosureReflected EndRecovered AdoptedAfterRestart
CHECK_DEADLOCK FALSE
