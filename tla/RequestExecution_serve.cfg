CONSTANTS
  None = None
  r1 = r1
  r2 = r2
  r3 = r3
  p1 = p1
  p2 = p2
  Requests = {r1, r2, r3}
  Guarded = {r1, r2}
  Sync = {r1, r3}
  Partitions = {p1, p2}
  PartitionOf <- TwoAndOne
  StoreLimit = 1
  Threads = 1
  NativeCancels = TRUE
SPECIFICATION FairSpec
PROPERTY OnlyTheRefusedAreUndone
INVARIANT TokensCoverThreads
INVARIANT ServedInTime
PROPERTY EveryRequestIsAnswered
CHECK_DEADLOCK FALSE
