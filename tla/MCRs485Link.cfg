SPECIFICATION Spec
CONSTANTS
  N = 16
  H = 8
  I = 9
  B = 7
  Y = 11
  MaxSize = 3
  dimmerSpeedID = 3
  led1PwmID = 4
  led2PwmID = 5
  RS485Timeout = 12
  Noise <- MCNoise
  MaxFaults = 2
  MaxBehind = 2
  MaxClean = 4
INVARIANTS
  Recovers
  NothingElse
