SPECIFICATION Spec
CONSTANTS
  MaxForks = 2
  MaxNodes = 9
  SeedRows = 2
INVARIANTS
  NextStatementRuns
  FinishedBeforeCopied
  ReadsSeeEverything
  FenceKnowsObjects
  BuildersAreCounted
CHECK_DEADLOCK FALSE
