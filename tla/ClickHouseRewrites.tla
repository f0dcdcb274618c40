------------------------- MODULE ClickHouseRewrites -------------------------
(***************************************************************************)
(* The ClickHouse builders.  A physical one copies a body into a child     *)
(* table of another layout and exposes a view of the child.                *)
(***************************************************************************)
EXTENDS Rewrites

ClickHouse == catalog.engine = "clickhouse"

\* columns of a fixed width, and those a filter index can be made on
numeric_columns == OfType({"integer", "decimal", "double", "boolean", "date"})
\* Mutant: any column.
bloom_filter_any == Columns

bloom_filter_columns == Columns \ OfType({"decimal", "date"})
string_columns == OfType({"text", "jsonb", "int4range", "uuid"})

ClickHouseCreateProjection(c) == [kind |-> "view", order_by |-> c]
ClickHouseCreateSkipIndex(type, c) == [kind |-> "view", index_type |-> type, column |-> c]
ClickHouseCreatePartLayout(layout, c) == [kind |-> "view", layout |-> layout, key_column |-> c]
ClickHouseCreateCodec(codec, columns) == [kind |-> "view", codec |-> codec, codec_columns |-> columns]

-----------------------------------------------------------------------------
(* What the statements make of a body. *)
\* a second copy of the child's rows, in another order
visit_clickhouse_projection_object(node, body) == {Filled(body)}

\* an index takes some types only; a text index is made on assumeNotNull of its column
visit_clickhouse_skip_index_object(node, body) ==
  LET type == catalog.types[node.column]
      TextIndex == node.index_type \in {"tokenbf", "ngrambf"}
      index_expr == IF TextIndex THEN "not null" ELSE "nullable"
      Takes == /\ node.index_type = "bloom_filter" => type \notin {"decimal", "date"}
               /\ TextIndex => type \in {"text", "jsonb", "int4range", "uuid"} /\ index_expr = "not null"
  IN IF Takes THEN {Filled(body)} ELSE {}

\* PARTITION BY ifNull(key, 0) % 4: the parts together are the table
visit_clickhouse_part_layout_object(node, body) ==
  LET Part(row) == IF row[node.key_column] = NULL THEN 0 ELSE SqlMod(row[node.key_column], 4)
      parts == [i \in 1 .. 7 |-> Filled(Where(body, {row \in DOMAIN body : Part(row) = i - 4}))]
      Partitions == catalog.types[node.key_column] \in {"integer", "decimal", "boolean"}
  IN CASE node.layout \in {"sorted", "fine_granules"} -> {Filled(body)}
       [] node.layout = "partitioned" -> IF Partitions THEN {UnionAll(parts)} ELSE {}

\* Delta stores the differences of values of a fixed width
visit_clickhouse_codec_object(node, body) ==
  IF node.codec = "Delta, ZSTD" => node.codec_columns \cap OfType({"text", "jsonb", "int4range", "uuid"}) = {}
  THEN {Filled(body)} ELSE {}

-----------------------------------------------------------------------------
(* The builders. *)
ClickHouseProjectionBuilder ==
  \E body \in tree.reads, order_by \in Columns :
    LET node == ClickHouseCreateProjection(order_by)
    IN /\ ClickHouse /\ AsksQuery
       /\ PutsObject(node.kind, FALSE, visit_clickhouse_projection_object(node, body))

ClickHouseSkipIndexBuilder(INDEX_TYPE, safe) ==
  \E body \in tree.reads, column \in safe :
    LET node == ClickHouseCreateSkipIndex(INDEX_TYPE, column)
    IN /\ ClickHouse /\ AsksQuery
       /\ PutsObject(node.kind, FALSE, visit_clickhouse_skip_index_object(node, body))
ClickHouseMinMaxIndexBuilder == ClickHouseSkipIndexBuilder("minmax", Columns)
ClickHouseSetIndexBuilder == ClickHouseSkipIndexBuilder("set", Columns)
ClickHouseBloomIndexBuilder == ClickHouseSkipIndexBuilder("bloom_filter", bloom_filter_columns)
ClickHouseTokenBfIndexBuilder == ClickHouseSkipIndexBuilder("tokenbf", string_columns)
ClickHouseNgramBfIndexBuilder == ClickHouseSkipIndexBuilder("ngrambf", string_columns)

\* by the first numeric column, or the first column
keys == IF numeric_columns # {} THEN numeric_columns ELSE Columns
ClickHousePartLayoutBuilder(KIND, key_columns) ==
  \E body \in tree.reads, key \in key_columns :
    LET node == ClickHouseCreatePartLayout(KIND, key)
    IN /\ ClickHouse /\ AsksQuery
       /\ PutsObject(node.kind, FALSE, visit_clickhouse_part_layout_object(node, body))
\* by any key but c_pk, if there is one
ClickHouseSortedTableBuilder ==
  LET non_pk == keys \ (IF HasPk THEN {1} ELSE {})
  IN ClickHousePartLayoutBuilder("sorted", IF non_pk # {} THEN non_pk ELSE FirstOf(keys))
ClickHousePartitionedTableBuilder == ClickHousePartLayoutBuilder("partitioned", FirstOf(keys))
ClickHouseFineGranuleTableBuilder == ClickHousePartLayoutBuilder("fine_granules", FirstOf(keys))

ClickHouseCodecBuilder(CODEC, columns) ==
  \E body \in tree.reads :
    LET node == ClickHouseCreateCodec(CODEC, columns)
    IN /\ ClickHouse /\ AsksQuery /\ columns # {}
       /\ PutsObject(node.kind, FALSE, visit_clickhouse_codec_object(node, body))
ClickHouseZstdCodecBuilder == ClickHouseCodecBuilder("ZSTD", Columns)
ClickHouseDeltaCodecBuilder == ClickHouseCodecBuilder("Delta, ZSTD", numeric_columns)

\* each column packed into a tuple, an array or a map, and taken out again, or coalesce(c, c)
ClickHouseExpressionRoundTripBuilder(rewrite) ==
  ClickHouse /\ dispatch_source /\ PutsQuery(All, {EachColumn(R, rewrite) : R \in tree.reads})
ClickHouseTupleElementRoundTripBuilder ==
  ClickHouseExpressionRoundTripBuilder([v \in ColumnValues |-> <<v>>[1]])
ClickHouseArrayElementRoundTripBuilder ==
  ClickHouseExpressionRoundTripBuilder([v \in ColumnValues |-> Head(<<v>>)])
ClickHouseMapElementRoundTripBuilder ==
  ClickHouseExpressionRoundTripBuilder([v \in ColumnValues |-> [k \in {"k"} |-> v]["k"]])
ClickHouseCoalesceSelfRoundTripBuilder ==
  ClickHouseExpressionRoundTripBuilder([v \in ColumnValues |-> IF v # NULL THEN v ELSE v])

ClickHouseBuilders ==
  \/ ClickHouseProjectionBuilder
  \/ ClickHouseMinMaxIndexBuilder \/ ClickHouseSetIndexBuilder \/ ClickHouseBloomIndexBuilder
  \/ ClickHouseTokenBfIndexBuilder \/ ClickHouseNgramBfIndexBuilder
  \/ ClickHouseSortedTableBuilder \/ ClickHousePartitionedTableBuilder
  \/ ClickHouseFineGranuleTableBuilder
  \/ ClickHouseZstdCodecBuilder \/ ClickHouseDeltaCodecBuilder
  \/ ClickHouseTupleElementRoundTripBuilder \/ ClickHouseArrayElementRoundTripBuilder
  \/ ClickHouseMapElementRoundTripBuilder \/ ClickHouseCoalesceSelfRoundTripBuilder
=============================================================================
