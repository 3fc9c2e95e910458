SPECIFICATION Spec
CONSTANTS
  p1 = p1
  p2 = p2
  Paths <- MCPaths
  c1 = c1
  c2 = c2
  t1 = t1
  Texts <- MCTexts
  Tests <- MCTests
  Empty = empty
  Absent = absent
  Names = {n}
  NoSymbols = noSymbols
  Broken = broken
  NoReport = noReport
  Invocations <- MCInvocations
  Repositories <- MCRepositories
  Edited <- MCEdited
  Faults <- MCFaults
  MaxRuns = 2
  MaxEdits = 1
INVARIANTS TypeOK  SymbolsAreOfCode FilesAreKept GivenIsComplete TestsAreWhereTheyAreSaid
SYMMETRY MCSymmetry
CHECK_DEADLOCK FALSE
