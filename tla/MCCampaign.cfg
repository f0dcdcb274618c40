SPECIFICATION Spec
CONSTANTS
  Rounds = 3
  MaxUnbuildable = 2
  BannerMayFail = TRUE
  Outcomes <- MCOutcomes
INVARIANTS
  ReportAddsUp
  FindingsAreTheReportable
  EveryFindingHasARepro
  AbortsOnlyAfterARun
