SPECIFICATION Spec
CONSTANTS
  Engines = {"postgres", "clickhouse", "mysql", "cratedb", "tidb", "tidb_docker", "duckdb"}
  Queries = 2
INVARIANTS
  TypeOK
  OnlyTheOwnerStops
  NothingLeftBehind
  KillersAreBlamed
  FindingsHaveACause
PROPERTY
  Recovers
