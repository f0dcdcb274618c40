SPECIFICATION Spec
CONSTANTS
  MaxQueries = 3
  Queries <- MCQueries
  Verdicts <- MCOneLineVerdicts
INVARIANT StopsAtCompleteEntry
CHECK_DEADLOCK FALSE
