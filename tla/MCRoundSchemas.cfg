SPECIFICATION Spec
CONSTANTS
  MaxQueries = 2
  Verdicts <- MCVerdicts
INVARIANT SchemasDropped
