SPECIFICATION Spec
CONSTANTS
  Name <- MCName
  Text <- MCText
  Word <- MCWord
  Spelling <- MCSpelling
  Assigned <- MCAssigned
  Referred <- MCReferred
  Number <- MCNumber
  Unsupported = {"$(id)"}
  Line <- MCLine
  Tree0 <- MCTree
  Home <- MCHome
  MaxIO = 3
  MaxPipelines = 3
  MaxEntered = 2
  MaxFaults = 1
INVARIANTS TypeOK MvKeeps ListsRight
PROPERTIES CwdTrue
CHECK_DEADLOCK FALSE
