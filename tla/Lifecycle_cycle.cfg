CONSTANTS
  pool = pool
  repository = repository
  session = session
  profile = profile
  root = root
  leaf = leaf
  None = None
  Lifespans = {first, second}
  Closers = {}
  Resolvers = {early, late}
  Warmed <- SingletonsOnly
  Drained = TRUE
  Providers <- MCProviders
  Durable <- MCDurable
  Deps <- MCDeps
  Modules <- MCModules
SPECIFICATION FairSpec
INVARIANT HooksRunOnce
INVARIANT SingletonsOutliveDependents
PROPERTY NothingDroppedAlive
PROPERTY ImplementsCycle
PROPERTY TeardownEnds
