SPECIFICATION FairSpec
CONSTANTS
  Client = {can, app}
  NoClient = NoClient
  MaxCall = 4
CHECK_DEADLOCK FALSE
INVARIANTS
  TimelyAnswerIsOwn
  OneOutstanding
PROPERTIES
  EveryCallReturns
