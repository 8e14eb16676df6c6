SPECIFICATION FairSpec
CONSTANTS
  p1 = p1
  p2 = p2
  short = short
  long = long
  Absent = Absent
  NoPath = NoPath
  Root = Root
  Paths = {p1, p2}
  Contents = {short, long}
  SizeOf <- MCSizeOf
  Openers = {}
  MaxEdits = 2
  MaxFaults = 1
CHECK_DEADLOCK FALSE
INVARIANTS
  NothingForgotten
PROPERTIES
  Converges
