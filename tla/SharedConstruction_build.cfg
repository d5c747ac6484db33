CONSTANTS
  t1 = t1
  t2 = t2
  s1 = s1
  s2 = s2
  loop = loop
  pool = pool
  key = key
  own = own
  None = None
  Tasks = {t1, t2}
  SyncCallers = {s1, s2}
  Keys = {key, own}
  KeyOf <- RequestKey
  Unshared = {own}
  NativeCancels = TRUE
  Threads <- MCThreads
  ThreadOf <- MCThreadOf
SPECIFICATION FairSpec
INVARIANT OneBuilder
INVARIANT NothingDiscarded
INVARIANT TableMeasuresWork
PROPERTY ImplementsSlots
PROPERTY EveryResolutionEnds
CHECK_DEADLOCK FALSE
