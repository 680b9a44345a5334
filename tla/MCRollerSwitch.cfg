SPECIFICATION FairSpec
CONSTANTS
  RollerTimeout = 5
  ButtonTimeout = 4
  RelayDelay = 1
  Byte = 3
  HandlerTicks = 1
INVARIANTS
  SwitchInv
  RelaysFollow
  RunBound
  Armed
PROPERTIES
  Toggles
  EventuallyStops
