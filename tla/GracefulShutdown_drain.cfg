CONSTANTS
  r1 = r1
  r2 = r2
  c1 = c1
  c2 = c2
  Requests = {r1, r2}
  Closers = {c1, c2}
  MaxRuns = 2
SPECIFICATION FairSpec
INVARIANT DrainShieldsRequests
INVARIANT CloseLeavesItClosed
PROPERTY CloseReturns
CHECK_DEADLOCK FALSE
