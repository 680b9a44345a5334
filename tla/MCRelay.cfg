SPECIFICATION RelaySpec
CONSTANTS
  Relays = {s1, s2}
  Timeout = 4
  Periods = {0, 5, 8}
  MaxTimeout = 15
  Bytes = 4
INVARIANTS
  RunsOut
