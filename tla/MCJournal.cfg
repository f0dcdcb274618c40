SPECIFICATION Spec
CONSTANTS
  MaxQueries = 3
  Queries <- MCQueries
  Verdicts <- MCOneLineVerdicts
INVARIANTS
  ReplaysTheRound
  VerdictsStayWithQueries
  CutOffLosesTheTailOnly
CHECK_DEADLOCK FALSE
