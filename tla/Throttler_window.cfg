CONSTANTS
  None = None
  c1 = c1
  c2 = c2
  px = px
  py = py
  open = open
  own = own
  none = none
  free = free
  h1 = h1
  h2 = h2
  h3 = h3
  h4 = h4
  Clients = {c1, c2}
  Proxies = {px, py}
  Garbage = Garbage
  Claims <- SomeClaims
  Paths <- SomePaths
  Routes = {open, own, none, free}
  Skipped = {free}
  OwnBudget = {own, none}
  HandlerOf <- OneEach
  Budget <- Budgets
  MaxKeys = 2
  TicksPerSecond = 2
  MaxTime = 3
SPECIFICATION Spec
INVARIANT LimitHolds
PROPERTY RefusedOnlyWhenSpent
CHECK_DEADLOCK FALSE
