-------------------------- MODULE EquivalenceTrees --------------------------
(***************************************************************************)
(* Equivalence trees of any depth: the portable builders and those of the  *)
(* base table's engine, in any order.                                      *)
(***************************************************************************)
EXTENDS PostgresRewrites, SqliteRewrites, DuckDBRewrites, ClickHouseRewrites, CrateDBRewrites,
        MySQLRewrites

Dialect ==
  \/ PostgresBuilders \/ SqliteBuilders \/ DuckDBBuilders
  \/ ClickHouseBuilders \/ CrateDBBuilders \/ MySQLBuilders
Next == Portable \/ Dialect
Spec == Init /\ [][Next]_vars
=============================================================================
