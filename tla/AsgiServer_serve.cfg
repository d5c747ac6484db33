CONSTANTS
  c1 = c1
  c2 = c2
  k1 = k1
  k2 = k2
  Conns = {c1}
  Calls = {k1, k2}
  MaxServings = 2
  AwaitsServer = TRUE
SPECIFICATION Spec
INVARIANT NoEarlyDisconnect
INVARIANT NobodyServedDown
INVARIANT RunsUntilStopped
PROPERTY StopEndsServing
CHECK_DEADLOCK FALSE
