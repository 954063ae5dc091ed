CONSTANTS
  PV = 3
  PT = 4
  Writable = {"Trip", "Fault", "Reset"}
SPECIFICATION FairSpec
INVARIANTS
  TypeOK
  LightUntilReset
PROPERTIES
  ImplementsRelay
  FaultsForgotten
