SPECIFICATION FairSpec
CONSTANTS
  c1 = c1
  c2 = c2
  c3 = c3
  None = None
  Daemons = {1, 2}
  Clients <- Terminals
  Scenarios <- Mixes
  MAX_CONNECTIONS = 1
  QueueBound = 1
  MaxFaults = 1
INVARIANTS
  OneDaemonWorks
  FilesNameTheHolder
  RepliesAreTrue
PROPERTIES
  StoppedMeansNoCalls
  DaemonStops
CHECK_DEADLOCK FALSE
