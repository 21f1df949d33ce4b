\* Both clients connect at once; the connection never drops.
SPECIFICATION Spec
CONSTANTS
  data = data
  exec = exec
  Clients <- Both
  MaxSockets = 2
  MaxDrops = 0
INVARIANT OneStream
CHECK_DEADLOCK FALSE
