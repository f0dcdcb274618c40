--------------------------- MODULE CrateDBRewrites ---------------------------
(***************************************************************************)
(* The CrateDB builders.  Each copies a body into a child table of another *)
(* layout and exposes a view of the child.  That a copy sees all rows of   *)
(* what it reads takes a REFRESH in between: see Refresh.                  *)
(***************************************************************************)
EXTENDS Rewrites

CrateDB == catalog.engine = "cratedb"

\* columns by their declared types; there are no OBJECT and GEO columns
indexable_columns == Columns
indexable_non_numeric_columns == Columns \ OfType({"decimal"})
fulltext_columns == OfType({"text", "jsonb", "int4range", "uuid"})
bucketable_columns == OfType({"integer"})

CrateCreateColumnIndex(mode, columns) == [kind |-> "view", mode |-> mode, index_columns |-> columns]
CrateCreatePartitioned(c) == [kind |-> "view", bucket_source |-> c, buckets |-> 4]
CrateCreateObjectPack == [kind |-> "view"]
CrateCreateShardLayout(routing) == [kind |-> "view", shards |-> 4, routing_column |-> routing]

-----------------------------------------------------------------------------
(* What the statements make of a body. *)
\* a full-text index takes text
visit_cratedb_column_index_object(node, body) ==
  IF node.mode = "named_fulltext" => node.index_columns \subseteq fulltext_columns
  THEN {Filled(body)} ELSE {}

\* a partition for each value of the generated column, NULL too; the view leaves that column out
visit_cratedb_partitioned_object(node, body) ==
  LET bucket == [row \in DOMAIN body |-> SqlMod(row[node.bucket_source], node.buckets)]
      child == Select(body, [row \in DOMAIN body |-> Append(row, bucket[row])])
  IN IF node.bucket_source \in bucketable_columns THEN {Select(child, [row \in DOMAIN child |-> Front(row)])} ELSE {}

\* rows go to a shard by their id, or by a column, which has to have a value
visit_cratedb_shard_layout_object(node, body) ==
  IF \A row \in DOMAIN body, c \in node.routing_column : row[c] # NULL
  THEN {Filled(body)} ELSE {}

\* one OBJECT per row, and its fields
visit_cratedb_object_pack_object(node, body) ==
  LET packed == Select(body, [row \in DOMAIN body |-> [obj |-> row]])
  IN {Select(packed, [struct \in DOMAIN packed |-> [c \in DOMAIN struct.obj |-> struct.obj[c]]])}

-----------------------------------------------------------------------------
(* The builders. *)
CrateDbColumnIndexBuilder(mode, index_columns) ==
  \E body \in tree.reads :
    LET node == CrateCreateColumnIndex(mode, index_columns)
    IN /\ CrateDB /\ AsksQuery /\ index_columns # {}
       /\ PutsObject(node.kind, FALSE, visit_cratedb_column_index_object(node, body))
CrateDbIndexOffBuilder == CrateDbColumnIndexBuilder("index_off", indexable_non_numeric_columns)
CrateDbColumnstoreOffBuilder == CrateDbColumnIndexBuilder("columnstore_off", indexable_columns)
CrateDbNamedFulltextIndexBuilder == CrateDbColumnIndexBuilder("named_fulltext", fulltext_columns)

CrateDbPartitionedBuilder ==
  \E body \in tree.reads, bucketable \in FirstOf(bucketable_columns) :
    LET node == CrateCreatePartitioned(bucketable)
    IN /\ CrateDB /\ AsksQuery
       /\ PutsObject(node.kind, FALSE, visit_cratedb_partitioned_object(node, body))

CrateDbObjectRoundTripBuilder ==
  \E body \in tree.reads :
    LET node == CrateCreateObjectPack
    IN /\ CrateDB /\ AsksQuery
       /\ PutsObject(node.kind, FALSE, visit_cratedb_object_pack_object(node, body))

CrateDbShardLayoutBuilder(routing_column) ==
  \E body \in tree.reads :
    LET node == CrateCreateShardLayout(routing_column)
    IN /\ CrateDB /\ AsksQuery
       /\ PutsObject(node.kind, FALSE, visit_cratedb_shard_layout_object(node, body))
CrateDbShardCountBuilder == CrateDbShardLayoutBuilder({})
\* by the first whole-number column, or the first column
CrateDbClusteredByBuilder ==
  LET routable == IF bucketable_columns # {} THEN bucketable_columns ELSE Columns
  IN CrateDbShardLayoutBuilder(FirstOf(routable))

CrateDBBuilders ==
  \/ CrateDbIndexOffBuilder \/ CrateDbColumnstoreOffBuilder \/ CrateDbNamedFulltextIndexBuilder
  \/ CrateDbPartitionedBuilder \/ CrateDbObjectRoundTripBuilder \/ CrateDbShardCountBuilder
  \/ CrateDbClusteredByBuilder
=============================================================================
