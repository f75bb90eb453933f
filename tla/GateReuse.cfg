SPECIFICATION GateSpec
CONSTANTS
  Gates = {g1, g2}
  Ids = {i1}
  Calls = {c1}
  TTL = 0
  MaxClock = 1
INVARIANTS
  UsedOnce
