CONSTANTS
  Network = {"a", "b"}
  TwoAddresses = {"b"}
  MaxLen = 2
  Shown = 1
  MaxPackets = 2
  MaxLists = 2
  MaxAsks = 3
SPECIFICATION FairSpec
INVARIANTS
  TypeOK
  NewestFirst
  QuietVisible
  ShownTrue
  OkMeansWritten
PROPERTY TableFollows
