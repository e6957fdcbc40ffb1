SPECIFICATION Spec
CONSTANTS
  rm = rm
  edit = edit
  touch = touch
  Call = {rm, edit, touch}
  Kind <- MCKind
  Limit = 2
  Batch = 2
  Unstorable = {}
  MaxFaults = 0
INVARIANT NoUnauditedEffect
CHECK_DEADLOCK FALSE
