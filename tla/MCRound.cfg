SPECIFICATION Spec
CONSTANTS
  MaxQueries = 3
  Verdicts <- MCVerdicts
INVARIANTS
  TypeOK
  NoQueryLost
  SetupFailureIsFinal
  JournalAgrees
  JournalAhead
  CrashNoteIsTrue
  WorkerReaped
PROPERTIES
  RoundEnds
  ImplementsContract
