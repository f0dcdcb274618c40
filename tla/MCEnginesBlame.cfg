SPECIFICATION Spec
CONSTANTS
  Engines = {"postgres"}
  Queries = 2
INVARIANT
  CrashIsBlamed
