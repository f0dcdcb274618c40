---------------------------- MODULE MySQLRewrites ----------------------------
(***************************************************************************)
(* The MySQL builders, and TiDB's, which speaks MySQL's dialect.           *)
(***************************************************************************)
EXTENDS Rewrites

MySQL == catalog.engine = "mysql"
TiDB == catalog.engine = "tidb"

MySqlCreateIndex(kind, c) == [kind |-> "view", index |-> kind, target |-> c]
MySqlCreateTableOption == [kind |-> "view", engine |-> "InnoDB"]
MySqlJsonPackRoundTrip(quoted) == [kind |-> "view", needs_unquote |-> quoted]
TiCreateCachedTable == [kind |-> "view"]

-----------------------------------------------------------------------------
(* What the statements make of a body. *)
\* a prefix is one of a text; a unique index lets NULLs be
visit_mysql_index_object(node, body) ==
  IF node.index = "prefix" => catalog.types[node.target] = "text"
  THEN IF node.index = "unique" THEN UniqueIndex(body) ELSE {body}
  ELSE {}

\* a typed table of InnoDB, filled from the body
visit_mysql_table_option_object(node, body) == {Filled(body)}

\* JSON_OBJECT of the columns.  NULL becomes JSON's null, which CAST makes a 0 of, so it is
\* tested for; a text is in quotes until JSON_UNQUOTE.
JsonNull == 4 * OtherType
Quoted(v) == IF v = JsonNull THEN v ELSE v + 4 * OtherType
visit_mysql_json_pack_round_trip_object(node, body) ==
  LET packed(v, c) == IF v = NULL THEN JsonNull
                      ELSE IF c \in OfType({"text", "date", "jsonb", "int4range", "uuid"}) THEN Quoted(Retyped(v)) ELSE Retyped(v)
      unquoted(j, c) == IF c \in node.needs_unquote THEN j - 4 * OtherType ELSE j
      extract(j, c) == IF j = JsonNull THEN NULL ELSE CastBack(unquoted(j, c))
  IN {Select(body, [row \in DOMAIN body |-> [c \in DOMAIN row |-> extract(packed(row[c], c), c)]])}

\* a typed table, held in the memory of TiDB from here on
visit_tidb_cached_table_object(node, body) == {Filled(body)}

-----------------------------------------------------------------------------
(* The builders. *)
MySqlIndexBuilderBase(KIND, target_columns) ==
  \E body \in tree.reads, c \in target_columns :
    LET node == MySqlCreateIndex(KIND, c)
    IN MySQL /\ AsksQuery /\ PutsObject(node.kind, FALSE, visit_mysql_index_object(node, body))
MySqlPlainIndexBuilder == MySqlIndexBuilderBase("plain", FirstOf(Columns))
MySqlPrefixIndexBuilder == MySqlIndexBuilderBase("prefix", FirstOf(Texts))
MySqlInvisibleIndexBuilder == MySqlIndexBuilderBase("invisible", FirstOf(Columns))
MySqlUniqueIndexBuilder == MySqlIndexBuilderBase("unique", IF HasPk THEN {1} ELSE {})

MySqlInnodbTableBuilder ==
  \E body \in tree.reads :
    LET node == MySqlCreateTableOption
    IN MySQL /\ AsksQuery /\ PutsObject(node.kind, FALSE, visit_mysql_table_option_object(node, body))

\* what JSON does not hold as a number is unquoted
MySqlJsonPackRoundTripBuilder ==
  \E body \in tree.reads :
    LET node == MySqlJsonPackRoundTrip(Columns \ OfType({"boolean", "double", "integer", "decimal"}))
    IN /\ MySQL /\ AsksQuery
       /\ PutsObject(node.kind, FALSE, visit_mysql_json_pack_round_trip_object(node, body))

TiDbCachedTableBuilder ==
  \E body \in tree.reads :
    LET node == TiCreateCachedTable
    IN TiDB /\ AsksQuery /\ PutsObject(node.kind, FALSE, visit_tidb_cached_table_object(node, body))

MySQLBuilders ==
  \/ MySqlPlainIndexBuilder \/ MySqlPrefixIndexBuilder \/ MySqlInvisibleIndexBuilder
  \/ MySqlUniqueIndexBuilder \/ MySqlInnodbTableBuilder \/ MySqlJsonPackRoundTripBuilder
  \/ TiDbCachedTableBuilder
=============================================================================
