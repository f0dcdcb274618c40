-------------------------- MODULE PostgresRewrites --------------------------
(***************************************************************************)
(* The PostgreSQL builders.  A builder puts a node, which says what object *)
(* it is and what it is made with; the emitter's visit_ operators say what *)
(* reading the object returns once the node's statements ran on the body,  *)
(* {} when one of them fails.                                              *)
(***************************************************************************)
EXTENDS Rewrites

Postgres == catalog.engine = "postgres"

\* every object is a view over a body
PostgresCreateIndex(index) == [kind |-> "view", index |-> index]
PostgresCreatePrimaryKey == [kind |-> "view", pk_col |-> 1]
PostgresMergeUpsert == [kind |-> "view", pk_col |-> 1]
PostgresGeneratedColumn(c) == [kind |-> "view", target |-> c]
PostgresLegacyInheritance == [kind |-> "view", parent |-> EmptyBag]
PostgresDomainColumn(c) == [kind |-> "view", target |-> c]
PostgresCreateSecurityBarrierView == [kind |-> "view"]
PostgresCreateExtendedStatistics == [kind |-> "view", stat_cols |-> {1, 2}]
PostgresCreatePartitionedTable(split) == [kind |-> "view", partition_key |-> 1, split_at |-> split]
PostgresCreateParallelToggle == [kind |-> "view"]

-----------------------------------------------------------------------------
(* What the statements make of a body. *)
\* an access method takes some types only, and lower() takes text
visit_postgres_index_object(node, body) ==
  LET type == catalog.types[node.index.column]
      Takes == CASE node.index.method = "gin"  -> type = "jsonb"
                 [] node.index.method = "gist" -> type = "int4range"
                 [] node.index.method = "brin" -> type \notin {"jsonb", "boolean"}
                 [] node.index.method \in {"btree", "hash"} -> TRUE
  IN IF Takes /\ (node.index.lower => type = "text") THEN {body} ELSE {}

visit_postgres_primary_key_object(node, body) == PrimaryKey(body)

\* MERGE a copy of the body into it ON c_pk: a matched row takes the other's values, and may be
\* matched once; a row that is not matched, its key being NULL, is left alone
visit_postgres_merge_upsert_object(node, body) ==
  LET src == body
      Matching(row) == {s \in DOMAIN src : Compare(row[node.pk_col], s[node.pk_col]) = "true"}
      once == \A row \in DOMAIN body : \A s, t \in Matching(row) : s = t /\ src[s] = 1
      Updated(row) == IF Matching(row) = {} THEN row ELSE CHOOSE s \in Matching(row) : TRUE
  IN IF once THEN {Select(body, [row \in DOMAIN body |-> Updated(row)])} ELSE {}

\* a column computed from c, CAST to c's type, which the view shows under c's name
visit_postgres_generated_column_object(node, body) ==
  LET c == node.target
      computed == [row \in DOMAIN body |-> Append(row, CastBack(row[c]))]
      shown == [row \in DOMAIN body |-> [row EXCEPT ![c] = computed[row][Len(row) + 1]]]
  IN {Select(body, shown)}

\* a scan of the parent is a scan of its children too
visit_postgres_legacy_inheritance_object(node, body) == {UnionAll(<<node.parent, body>>)}

\* c in a domain over its type, and CAST back by the view
visit_postgres_domain_column_object(node, body) ==
  LET c == node.target
      altered == Select(body, [row \in DOMAIN body |-> [row EXCEPT ![c] = Retyped(row[c])]])
  IN {Select(altered, [row \in DOMAIN altered |-> [row EXCEPT ![c] = CastBack(row[c])]])}

\* a row goes to the partition whose range [from, to) holds its key; no range holds NULL
visit_postgres_partitioned_table_object(node, body) ==
  LET Key(row) == row[node.partition_key]
      lo == {row \in DOMAIN body : Key(row) # NULL /\ Key(row) < node.split_at}
      hi == {row \in DOMAIN body : Key(row) # NULL /\ Key(row) >= node.split_at}
  IN IF lo \cup hi = DOMAIN body THEN {UnionAll(<<Where(body, lo), Where(body, hi)>>)} ELSE {}

\* a barrier to what the planner may push into the view; statistics; settings of the session
visit_postgres_security_barrier_view_object(node, query) == query
visit_postgres_extended_statistics_object(node, body) ==
  IF node.stat_cols \subseteq Columns THEN {body} ELSE {}
visit_postgres_parallel_toggle_object(node, body) == {body}

\* the row of each key that stands for it, any of them
visit_postgres_distinct_on_query(R) ==
  LET Keys == {row[1] : row \in DOMAIN R}
  IN {SetToBag({one[k] : k \in Keys}) : one \in {f \in [Keys -> DOMAIN R] : \A k \in Keys : f[k][1] = k}}
PostgresDistinctOnQuery(source) == UNION {visit_postgres_distinct_on_query(R) : R \in source}

-----------------------------------------------------------------------------
(* The builders. *)
\* SELECT DISTINCT ON (c_pk)
PostgresDistinctOnQueryBuilder ==
  Postgres /\ HasPk /\ dispatch_source /\ PutsQuery(All, PostgresDistinctOnQuery(tree.reads))

\* CAST((ARRAY[c])[1] AS <type>): the element of the array has lost the type's parameters
PostgresArrayPackRoundTripBuilder ==
  /\ Postgres
  /\ dispatch_source
  /\ PutsQuery(All, {Typed(Typeless(R)) : R \in tree.reads})

\* the row in one jsonb object, whose fields come out as text; jsonb has no infinity and no NaN
JSON_SAFE == {"integer", "decimal", "text", "boolean"}
PostgresWholeRowJsonPackBuilder ==
  LET unpacked(row) == [c \in Columns |-> CastBack(row[c])]
      obj(R) == Typeless(R)
  IN /\ Postgres /\ OfType(JSON_SAFE) = Columns
     /\ dispatch_source
     /\ PutsQuery(All, {Select(obj(R), [row \in DOMAIN obj(R) |-> unpacked(row)]) : R \in tree.reads})

\* the nine kinds of index: on c_pk or else the first column, where a kind names no other
index_args ==
  LET Plain(method) == [method |-> method, column |-> 1, lower |-> FALSE, where |-> {}, include |-> {}]
      texts == FirstOf(OfType({"text"}))
  IN {Plain(method) : method \in {"btree", "hash", "brin"}}
       \cup {[Plain("btree") EXCEPT !.where = {c}] : c \in texts}
       \cup {[Plain("btree") EXCEPT !.column = c, !.lower = TRUE] : c \in texts}
       \cup {[Plain("btree") EXCEPT !.include = Columns \ {1}]}
       \cup {[Plain("btree") EXCEPT !.where = {c}, !.include = Columns \ {1}] : c \in texts}
       \cup {[Plain("gin") EXCEPT !.column = c] : c \in FirstOf(OfType({"jsonb"}))}
       \cup {[Plain("gist") EXCEPT !.column = c] : c \in FirstOf(OfType({"int4range"}))}
PostgresIndexBuilder ==
  \E body \in tree.reads, index \in index_args :
    LET node == PostgresCreateIndex(index)
    IN Postgres /\ AsksQuery /\ PutsObject(node.kind, FALSE, visit_postgres_index_object(node, body))

PostgresPrimaryKeyMatBuilder ==
  \E body \in tree.reads :
    LET node == PostgresCreatePrimaryKey
    IN /\ Postgres /\ HasPk /\ AsksQuery
       /\ PutsObject(node.kind, FALSE, visit_postgres_primary_key_object(node, body))

PostgresMergeUpsertBuilder ==
  \E body \in tree.reads :
    LET node == PostgresMergeUpsert
    IN /\ Postgres /\ HasPk /\ AsksQuery
       /\ PutsObject(node.kind, TRUE, visit_postgres_merge_upsert_object(node, body))

PostgresGeneratedColumnBuilder ==
  \E body \in tree.reads, c \in target :
    LET node == PostgresGeneratedColumn(c)
    IN /\ Postgres /\ AsksQuery
       /\ PutsObject(node.kind, FALSE, visit_postgres_generated_column_object(node, body))

PostgresLegacyInheritanceBuilder ==
  \E body \in tree.reads :
    LET node == PostgresLegacyInheritance
    IN /\ Postgres /\ AsksQuery
       /\ PutsObject(node.kind, FALSE, visit_postgres_legacy_inheritance_object(node, body))

PostgresDomainColumnBuilder ==
  \E body \in tree.reads, c \in target :
    LET node == PostgresDomainColumn(c)
    IN /\ Postgres /\ AsksQuery
       /\ PutsObject(node.kind, FALSE, visit_postgres_domain_column_object(node, body))

PostgresUnloggedTableBuilder ==
  \E body \in tree.reads : Postgres /\ AsksQuery /\ PutsObject("table", TRUE, {body})

PostgresSecurityBarrierViewBuilder ==
  LET node == PostgresCreateSecurityBarrierView
  IN /\ Postgres /\ AsksQuery
     /\ PutsObject(node.kind, FALSE, visit_postgres_security_barrier_view_object(node, tree.reads))

PostgresExtendedStatisticsBuilder ==
  \E body \in tree.reads :
    LET node == PostgresCreateExtendedStatistics
    IN /\ Postgres /\ Cardinality(Columns) >= 2 /\ AsksQuery
       /\ PutsObject(node.kind, FALSE, visit_postgres_extended_statistics_object(node, body))

PostgresParallelToggleMatBuilder ==
  \E body \in tree.reads :
    LET node == PostgresCreateParallelToggle
    IN /\ Postgres /\ AsksQuery
       /\ PutsObject(node.kind, FALSE, visit_postgres_parallel_toggle_object(node, body))

PostgresPartitionedTableMatBuilder ==
  \E body \in tree.reads :
    LET node == PostgresCreatePartitionedTable(5)
    IN /\ Postgres /\ HasPk /\ AsksQuery
       /\ PutsObject(node.kind, TRUE, visit_postgres_partitioned_table_object(node, body))

PostgresBuilders ==
  \/ PostgresDistinctOnQueryBuilder \/ PostgresArrayPackRoundTripBuilder
  \/ PostgresWholeRowJsonPackBuilder \/ PostgresIndexBuilder \/ PostgresPrimaryKeyMatBuilder
  \/ PostgresMergeUpsertBuilder \/ PostgresGeneratedColumnBuilder \/ PostgresLegacyInheritanceBuilder
  \/ PostgresDomainColumnBuilder \/ PostgresUnloggedTableBuilder \/ PostgresSecurityBarrierViewBuilder
  \/ PostgresExtendedStatisticsBuilder \/ PostgresParallelToggleMatBuilder
  \/ PostgresPartitionedTableMatBuilder
=============================================================================
