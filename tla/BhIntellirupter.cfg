CONSTANTS
  PV = 2
  PT = 3
  Writable = {"Fault"}
  MaxLives = 2
  MaxStarts = 1
  Backlog = 1
  NapScans = 2
SPECIFICATION FairSpec
INVARIANTS
  TypeOK
PROPERTIES
  CountedOnce
  StopsForCause
  ImplementsPLC
  RunsBetweenFaults
  ZoneFollows
