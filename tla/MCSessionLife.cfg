SPECIFICATION FairSpec
CONSTANTS
  a = a
  b = b
  p = p
  None = None
  Conn = {a, b}
  Pid = {p}
  Slots = 2
  MaxCommands <- MCCommands
  MaxFaults = 1
  SlowStart = TRUE
INVARIANTS TypeOK AttributionTrue TrailTrue 
PROPERTIES LeavesNothing
CHECK_DEADLOCK FALSE
