SPECIFICATION Spec
CONSTANTS
  s1 = s1
  s2 = s2
  Sensors <- MCSensors
  SensorTab <- MCTab
  SENSOR_COUNT = 2
  Modes <- MCModes
  SendPeriod <- MCPeriod
  Values = {0, 1}
  Byte = 2
  ULongMax = 7
  PassTicks = 1
  MaxQuiet = 12
INVARIANTS
  TimerBound
  Reported
