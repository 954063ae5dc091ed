CONSTANTS
  PV = 3
  PT = 4
  Writable = {"Fault"}
SPECIFICATION Spec
PROPERTY EveryFaultCounted
