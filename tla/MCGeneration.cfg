SPECIFICATION FairSpec
CONSTANTS
  a = a
  b = b
  w1 = w1
  f = f
  g = g
  Caller = {a, b}
  Worker = {w1}
  Inode = {f, g}
  MaxAsks = 3
  Limit = 2
  Threshold = 2
INVARIANTS TypeOK JobsAccounted ProbeOwned
PROPERTIES EveryAskEnds
CHECK_DEADLOCK FALSE
