SPECIFICATION FairSpec
CONSTANTS
  Repos <- MCRepos
  Upstream <- MCUpstream
  Typed <- MCTyped
  Handlers = {h1, h2}
  Ops <- AllOps
  Faults = {"github", "git"}
  Nobody = nobody
  MaxPolls = 2
  MaxRequests = 2
  MaxCrashes = 1
  MaxForkLosses = 1
INVARIANTS TypeOK RowHasClone 
PROPERTIES RequestsEnd
CHECK_DEADLOCK FALSE
