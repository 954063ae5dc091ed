CONSTANT Limit = 6
SPECIFICATION FairSpec
PROPERTY EStopShown
