SPECIFICATION Spec
CONSTANTS
  Epoch = {0, 1, 2, 3}
  MaxSeq = 5
  CounterMax = 2
CHECK_DEADLOCK FALSE
INVARIANTS
  SpentWasCommitted
  NeverSentTwice
  FloorIsDurableUnlessRaced
PROPERTIES
  OnlyRolloverGoesBack
