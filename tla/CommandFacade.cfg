SPECIFICATION FacadeSpec
CONSTANTS
  NumCmds = 1
  KeyOf <- MCSameKey
  Params = {p1}
  DefaultParams = p1
  Handlers = {h1, h2}
  Ops <- MCFacadeOps
  Faults <- MCRenderFaults
  MaxRequests = 2
  MaxCrashes = 1
INVARIANTS FacadeTypeOK  QuietIsDurable
CHECK_DEADLOCK FALSE
SYMMETRY HandlerSymmetry
