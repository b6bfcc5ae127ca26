SPECIFICATION BodySpec
CONSTANTS
  RawDepth = 1
  AppDepth = 1
  Debounce = 3
  MaxChanges = 2
  MaxPresses = 1
  MaxEpoch = 2
  MaxFaults = 1
PROPERTIES
  ShowsTheDoor
  LightFollowsDoor
