SPECIFICATION FairSpec
CONSTANTS
  f1 = f1
  f2 = f2
  Files <- MCOneFile
  Codes = {empty, c1, c2}
  Empty = empty
  NoReport = noReport
  TargetLists <- MCAgainLists
  Faults <- MCChatFaults
  MaxRuns = 3
  MaxEdits = 0
INVARIANTS SkipIsJustified
PROPERTIES RunEnds
CHECK_DEADLOCK FALSE
