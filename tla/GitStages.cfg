SPECIFICATION Spec
CONSTANTS
  check = check
  test = test
  other = other
  ann = ann
  bob = bob
  lib = lib
  Cmds <- MCCmds
  RepoOf <- MCRepoOf
  ForkOf <- MCForkOf
  KindOf <- MCKindOf
  Main = "main"
  MaxVersion = 1
  MaxRuns = 3
INVARIANTS TypeOK DefaultBranchSurvives CommitIsPushed BranchIsOnMain
CHECK_DEADLOCK FALSE
