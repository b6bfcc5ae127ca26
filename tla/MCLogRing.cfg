SPECIFICATION LogSpec
CONSTANTS
  can = can
  hb = hb
  log = log
  Producer = {can, hb}
  Drainer = log
  Prio <- Priority
  Cap = 4
  Wrap = 8
  LogSeqMod = 4
  DrainMax = 3
  FifoCap = 2
  MaxStall = 2
  MaxCalls = 4
CHECK_DEADLOCK FALSE
INVARIANTS
  DropsAreAccounted
  NumbersContinue
PROPERTIES
  FlushedIsOnTheWire
  ImplementsQueue
  FlushReturns
  BacklogDrains
