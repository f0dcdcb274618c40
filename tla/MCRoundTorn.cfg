SPECIFICATION Spec
CONSTANTS
  MaxQueries = 2
  Verdicts <- MCVerdicts
PROPERTY CrashIsNotTheEnd
