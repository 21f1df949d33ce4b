\* The node connects both clients at once and disconnects both when it stops.
SPECIFICATION FairSpec
CONSTANTS
  data = data
  exec = exec
  Clients <- Both
  MaxSockets = 3
  MaxDrops = 2
INVARIANTS TypeOK SoleStream NeverSevered StopReaches
PROPERTY Silenced
CHECK_DEADLOCK FALSE
