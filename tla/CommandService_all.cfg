SPECIFICATION Spec
CONSTANTS
  NumCmds = 1
  KeyOf <- MCSameKey
  Params = {p1}
  DefaultParams = p1
  Handlers = {h1, h2}
  Ops <- MCAllOps
  Faults <- MCSomeFaults
  MaxRequests = 2
  MaxCrashes = 1
SYMMETRY HandlerSymmetry
INVARIANTS TypeOK  WorkIsFromThisRun CancelNeverFires
CHECK_DEADLOCK FALSE
