CONSTANTS
  None = None
  r1 = r1
  r2 = r2
  Requests = {r1, r2}
  Boot = boot
  guard = guard
  helper = helper
  store = store
  controller = controller
  plain = plain
  mixed = mixed
  Singletons = {guard, store}
  Fleeting = {helper}
  Replaceable = {store, helper}
  Controller = controller
  Needs <- Holds
  Routes = {plain, mixed}
  Components <- Pipelines
  WarmUp <- GraphOrder
  Quiet = TRUE
  Drained = TRUE
  MaxGeneration = 1
SPECIFICATION Spec
SYMMETRY Alike
INVARIANT ServedFresh
INVARIANT OneInstance
CHECK_DEADLOCK FALSE
