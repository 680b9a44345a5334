SPECIFICATION FairSpec
CONSTANTS
  MaxPercent = 2
  MaxLevel = 3
  Cycles = 2
  Kinds <- AllKinds
  DIMMER_TIMEOUT <- MCTimeout
  Values <- MCValues
  Minutes <- MCMinutes
  MinuteSeconds = 2
  IntMax <- MCIntMax
  ULongMax = 15
  Byte = 3
  HandlerTicks = 1
INVARIANTS
  LampInv
  SupplyOn
  LightBound
  MotionLights
PROPERTIES
  FullTime
  Settles
