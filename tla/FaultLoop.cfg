CONSTANTS
  MaxLives = 4
  MaxStarts = 2
  Backlog = 2
SPECIFICATION FairSpec
INVARIANTS
  TypeOK
  Paired
  VerdictMatches
  Lockstep
  NoStandoff
PROPERTIES
  EachStepNearer
  ImplementsExchange
  Answered
CHECK_DEADLOCK FALSE
