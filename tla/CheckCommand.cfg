SPECIFICATION Spec
CONSTANTS
  f1 = f1
  f2 = f2
  Files <- MCFiles
  Codes = {empty, c1, c2}
  Empty = empty
  NoReport = noReport
  TargetLists <- MCLists
  Faults <- MCAllFaults
  MaxRuns = 1
  MaxEdits = 1
INVARIANTS TypeOK ResultsAddUp SendsFit FixIsOfFile 
CHECK_DEADLOCK FALSE
