SPECIFICATION Spec
CONSTANTS
  Node = {A, B}
  EpochMod = 16
  CounterMax = 1
  MaxEpoch = 2
  MaxWire = 2
  MaxFaults = 1
CHECK_DEADLOCK FALSE
INVARIANTS
  NoCallWithoutStore
