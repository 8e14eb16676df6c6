SPECIFICATION Spec
CONSTANTS
  p1 = p1
  p2 = p2
  short = short
  long = long
  Absent = Absent
  NoPath = NoPath
  Root = Root
  Paths = {p1, p2}
  Contents = {short, long}
  SizeOf <- MCSizeOf
  Openers = {"open"}
  MaxEdits = 2
  MaxFaults = 0
CHECK_DEADLOCK FALSE
INVARIANTS
  OpenIsSafe
