SPECIFICATION Spec
CONSTANTS
  MaxPercent = 100
  MaxLevel = 255
  Cycles = 1
  Kinds <- AvrOnly
  DIMMER_TIMEOUT <- NoTimeout
  Values <- PercentValues
  Minutes = {}
  MinuteSeconds = 60
  IntMax <- Int16
  ULongMax = 1
  Byte = 2
  HandlerTicks = 0
PROPERTY
  SmoothDimming
