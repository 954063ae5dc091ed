CONSTANTS
  MaxLives = 2
  MaxStarts = 1
  Backlog = 2
SPECIFICATION FairSpec
PROPERTY EveryReadingAnswered
CHECK_DEADLOCK FALSE
