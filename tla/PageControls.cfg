SPECIFICATION Spec
CONSTANTS
  MaxSaves = 1
  MaxAsks = 3
INVARIANTS TypeOK 
CHECK_DEADLOCK FALSE
