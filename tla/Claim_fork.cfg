SPECIFICATION Spec
CONSTANTS
  Repos <- MCRepos
  Upstream <- MCRepos
  Typed <- MCTyped
  Handlers = {h1}
  Ops = {"create"}
  Faults = {}
  Nobody = nobody
  MaxPolls = 2
  MaxRequests = 2
  MaxCrashes = 0
  MaxForkLosses = 0
INVARIANT CloneIsOfRepo
CHECK_DEADLOCK FALSE
