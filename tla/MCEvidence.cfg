SPECIFICATION FairSpec
CONSTANTS
  s1 = s1
  s2 = s2
  p1 = p1
  Session = {s1, s2}
  Command = {1, 2}
  Suspicious = {2}
  Path = {p1}
  MaxRows = 4
  Batch = 2
  MaxFaults = 1
  MaxCrashes = 1
INVARIANTS TypeOK EvidenceExact NoneSkipped
PROPERTIES EventuallyFinal
CHECK_DEADLOCK FALSE
