SPECIFICATION Spec
CONSTANTS
  c1 = c1
  c2 = c2
  c3 = c3
  None = None
  Daemons = {1, 2}
  Clients <- Terminals
  Scenarios <- TwoStops
  MAX_CONNECTIONS = 1
  QueueBound = 1
  MaxFaults = 0
INVARIANTS
  DeadSocketMeansGone
CHECK_DEADLOCK FALSE
