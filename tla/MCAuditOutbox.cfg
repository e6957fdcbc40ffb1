SPECIFICATION FairSpec
CONSTANTS
  rm = rm
  edit = edit
  touch = touch
  Call = {rm, edit, touch}
  Kind <- MCKind
  Limit = 3
  Batch = 2
  Unstorable <- MCUnstorable
  MaxFaults = 2
INVARIANTS TypeOK NoneLost
PROPERTIES CursorSafe ImplementsLog Delivered
CHECK_DEADLOCK FALSE
