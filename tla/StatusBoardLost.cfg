CONSTANTS
  ChallengeZones = {1, 2}
  PinZones = {3}
  Zones = {1, 2, 3}
  None = None
  Browser = {}
  Cap = 1
SPECIFICATION FairSpec
PROPERTY FollowsReconnected
