CONSTANTS
  None = None
  Nameless = Nameless
  Unreadable = Unreadable
  r1 = r1
  r2 = r2
  r3 = r3
  r4 = r4
  alice = alice
  bob = bob
  cached = cached
  mine = mine
  open = open
  attempt = attempt
  cache = cache
  attempts = attempts
  Requests = {r1, r2, r3, r4}
  Asks <- Various
  Stores = {cache, attempts}
  Routes = {cached, mine, open, attempt}
  StoreOf <- StoreOfRoute
  IsCache = {cache}
  HandlerOf <- OneEach
  Controller <- OfController
  Handler <- OfHandler
  Ttl <- Ttls
  Safe = {"GET", "HEAD"}
  RolesOf <- Holds
  Limit = 2
  MaxTime = 2
SPECIFICATION Spec
SYMMETRY Alike
INVARIANT ServedAsDeclared
PROPERTY ReplayIsForTheAsked
PROPERTY NotRunTwice
CHECK_DEADLOCK FALSE
