\* Up to five commands on one instrument and two drops, calls in order.
SPECIFICATION FairSpec
CONSTANTS
  i1 = i1
  i2 = i2
  Instruments <- One
  InOrder = TRUE
  MaxCommands = 5
  MaxDrops = 2
INVARIANTS TypeOK OnlySubscribed Agreed
PROPERTY Delivered
CHECK_DEADLOCK FALSE
