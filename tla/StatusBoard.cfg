CONSTANTS
  ChallengeZones = {1, 2}
  PinZones = {3}
  Zones = {1, 2, 3}
  None = None
  Browser = {b1}
  Cap = 1
SPECIFICATION FairSpec
INVARIANTS
  TypeOK
  OverrideInformed
  OverrideEarned
PROPERTIES
  HelperFollows
  PagesFollow
  BoardTrue
