CONSTANTS
  Period = 3
  Stall = 2
  Timeout = 14
SPECIFICATION FairSpec
INVARIANTS
  TypeOK
  Recovers
  Trips
PROPERTY BoardAgrees
