CONSTANT Limit = 6
SPECIFICATION FairSpec
INVARIANTS
  TypeOK
  StopsInTime
PROPERTIES
  StopWindow
  RunsAgain
  ShownAgain
