SPECIFICATION Spec
CONSTANTS
  MaxQueries = 2
  Queries <- MCQueries
  Verdicts <- AnyVerdicts
INVARIANT ReplaysQueryForQuery
CHECK_DEADLOCK FALSE
