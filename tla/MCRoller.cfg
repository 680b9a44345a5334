SPECIFICATION FairSpec
CONSTANTS
  Rollers = {r1, r2}
  Timeout = 3
  HandlerTicks = 1
  ULongMax = 7
INVARIANTS
  FieldsMatchPins
  Interlock
  DriveBound
PROPERTIES
  MotorSpec
  EventuallyOff
