SPECIFICATION Spec
CONSTANTS
  Savers = {"worker", "stop", "lock"}
  Silent = {"lock"}
  MaxSaves = 3
  MaxLines = 2
  MaxRuns = 1
  MaxOpens = 1
  MaxDisconnects = 1
INVARIANTS TypeOK  
CHECK_DEADLOCK FALSE
