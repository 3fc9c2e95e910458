SPECIFICATION FairSpec
CONSTANTS
  NumCmds = 1
  KeyOf <- MCSameKey
  Params = {p1}
  DefaultParams = p1
  Handlers = {h1, h2}
  Ops <- MCRunOps
  Faults <- MCStageFaults
  MaxRequests = 2
  MaxCrashes = 1
INVARIANTS RunningHasWorker QueuedHasJob
PROPERTIES CommandSettles LifecycleHolds
CHECK_DEADLOCK FALSE
