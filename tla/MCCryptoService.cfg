SPECIFICATION Spec
CONSTANTS
  MacLengths = {12, 120, 123}
  MaxCalls = 4
  MaxFaults = 2
  MaxGarbles = 1
CHECK_DEADLOCK FALSE
INVARIANTS
  CallsTellTheTruth
  OneFaultOneMac
