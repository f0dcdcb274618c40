--------------------------- MODULE SqliteRewrites ---------------------------
(***************************************************************************)
(* The SQLite builders.  A builder puts a node, which says what object it  *)
(* is and what it is made with; the emitter's visit_ operators say what    *)
(* reading the object returns once the node's statements ran on the body,  *)
(* {} when one of them fails.  Some bodies are tables and some are views,  *)
(* but each is read once: by the CREATE TABLE AS or by the INSERT.         *)
(***************************************************************************)
EXTENDS Rewrites

\* no index changes a row; its WHERE and what it is ANALYZEd for concern plans only
SqliteCreateIndex(column, unique) == [kind |-> "view", column |-> column, unique |-> unique]
SqliteCreateAnalyzeIndex(column) == [kind |-> "view", column |-> column]
SqliteCreateExprIndex(column) == [kind |-> "view", column |-> column]
\* no view reaches into an attached database: the object is a table in main
SqliteCreateAttach == [kind |-> "table"]
SqliteCreateWithoutRowid == [kind |-> "view", pk_col |-> 1]
SqliteCreateWithoutRowidIndex(column) == [kind |-> "view", pk_col |-> 1, column |-> column]
SqliteCreateGenerated(stored) == [kind |-> "view", gen_of |-> 1, stored |-> stored]
SqliteCreateStrict == [kind |-> "view"]

-----------------------------------------------------------------------------
(* What the statements make of a body. *)
visit_sqlite_index_object(node, body) == IF node.unique THEN UniqueIndex(body) ELSE {body}
visit_sqlite_analyze_index_object(node, body) == {body}
visit_sqlite_expr_index_object(node, body) == {body}

\* the copy in main is made before DETACH takes the mirror away
visit_sqlite_attach_object(node, body) ==
  LET att == [mirror |-> body] IN {att.mirror}

\* CREATE TABLE with types, and INSERT ... SELECT: the columns' types come back
visit_sqlite_without_rowid_object(node, body) == PrimaryKey(Typed(body))
visit_sqlite_without_rowid_index_object(node, body) == PrimaryKey(Typed(body))
\* one more column, the copy of c_pk, which the view leaves out
visit_sqlite_generated_object(node, body) ==
  LET rows == Typed(body)
      child == Select(rows, [row \in DOMAIN rows |-> Append(row, row[node.gen_of])])
  IN {Select(child, [row \in DOMAIN child |-> SubSeq(row, 1, Len(row) - 1)])}
\* STRICT refuses a value of another type than its column's
visit_sqlite_strict_object(node, body) == IF Typed(body) = body THEN {body} ELSE {}

-----------------------------------------------------------------------------
(* The queries. *)
\* an anchor, and a recursive arm WHERE FALSE
SqliteRecursiveCteQuery(source) ==
  LET visit_sqlite_recursive_cte_query(anchor) == UnionAll(<<anchor, Where(anchor, {})>>)
  IN {cast_signature(visit_sqlite_recursive_cte_query(R)) : R \in source}
\* one CTE over another
SqliteNestedMaterializedCteQuery(source) ==
  LET visit_sqlite_nested_materialized_cte_query(inner) == Where(inner, DOMAIN inner)
  IN {cast_signature(visit_sqlite_nested_materialized_cte_query(R)) : R \in source}

-----------------------------------------------------------------------------
(* The builders. *)
sqlite_type == [type \in SqlTypes |->
  CASE type \in {"integer", "boolean"} -> "INTEGER"
    [] type = "double" -> "REAL"
    [] type = "decimal" -> "NUMERIC"
    [] OTHER -> "TEXT"]
sqlite_numeric == {"integer", "decimal", "double"}
\* the column to index: the first that is not c_pk, or else the first
index_column == IF target = {} THEN 1 ELSE CHOOSE c \in target : TRUE
other_columns == Columns \ (IF HasPk THEN {1} ELSE {})

SqliteCreateIndexBuilder ==
  \E body \in tree.reads :
    LET node == SqliteCreateIndex(index_column, FALSE)
    IN Sqlite /\ AsksQuery /\ PutsObject(node.kind, FALSE, visit_sqlite_index_object(node, body))

SqliteUniqueIndexMatBuilder ==
  \E body \in tree.reads :
    LET node == SqliteCreateIndex(1, TRUE)
    IN /\ Sqlite /\ HasPk /\ AsksQuery
       /\ PutsObject(node.kind, FALSE, visit_sqlite_index_object(node, body))

\* WHERE c IS NOT NULL, on c_pk or else on c
SqlitePartialIndexBuilder ==
  \E body \in tree.reads, where \in target :
    LET node == SqliteCreateIndex(IF HasPk THEN 1 ELSE where, FALSE)
    IN Sqlite /\ AsksQuery /\ PutsObject(node.kind, FALSE, visit_sqlite_index_object(node, body))

\* WHERE c, of numbers and texts
SqliteTruthyPartialIndexBuilder ==
  \E body \in tree.reads, where \in FirstOf(other_columns \cap OfType(sqlite_numeric \cup {"text"})) :
    LET node == SqliteCreateIndex(where, FALSE)
    IN Sqlite /\ AsksQuery /\ PutsObject(node.kind, FALSE, visit_sqlite_index_object(node, body))

\* WHERE 0, WHERE 1
SqliteConstantPartialIndexBuilder ==
  \E body \in tree.reads :
    LET node == SqliteCreateIndex(index_column, FALSE)
    IN Sqlite /\ AsksQuery /\ PutsObject(node.kind, FALSE, visit_sqlite_index_object(node, body))

SqliteAnalyzeIndexMatBuilder ==
  \E body \in tree.reads :
    LET node == SqliteCreateAnalyzeIndex(index_column)
    IN Sqlite /\ AsksQuery /\ PutsObject(node.kind, FALSE, visit_sqlite_analyze_index_object(node, body))

\* of a number that is not c_pk, or else of c_pk
SqliteExpressionIndexMatBuilder ==
  LET numbers == other_columns \cap OfType(sqlite_numeric)
      indexed == IF numbers = {} /\ HasPk THEN {1} ELSE FirstOf(numbers)
  IN \E body \in tree.reads, column \in indexed :
       LET node == SqliteCreateExprIndex(column)
       IN Sqlite /\ AsksQuery /\ PutsObject(node.kind, FALSE, visit_sqlite_expr_index_object(node, body))

SqliteAttachRoundTripBuilder ==
  \E body \in tree.reads :
    LET node == SqliteCreateAttach
    IN Sqlite /\ AsksQuery /\ PutsObject(node.kind, FALSE, visit_sqlite_attach_object(node, body))

SqliteWithoutRowidTableBuilder ==
  \E body \in tree.reads :
    LET node == SqliteCreateWithoutRowid
    IN /\ Sqlite /\ HasPk /\ AsksQuery
       /\ PutsObject(node.kind, FALSE, visit_sqlite_without_rowid_object(node, body))

SqliteWithoutRowidIndexedBuilder ==
  \E body \in tree.reads, column \in target :
    LET node == SqliteCreateWithoutRowidIndex(column)
    IN /\ Sqlite /\ HasPk /\ AsksQuery
       /\ PutsObject(node.kind, FALSE, visit_sqlite_without_rowid_index_object(node, body))

\* GENERATED ALWAYS AS (c_pk) VIRTUAL
SqliteGeneratedColumnRoundTripBuilder ==
  \E body \in tree.reads :
    LET node == SqliteCreateGenerated(FALSE)
    IN /\ Sqlite /\ HasPk /\ AsksQuery
       /\ PutsObject(node.kind, FALSE, visit_sqlite_generated_object(node, body))
\* and STORED
SqliteStoredGeneratedColumnRoundTripBuilder ==
  \E body \in tree.reads :
    LET node == SqliteCreateGenerated(TRUE)
    IN /\ Sqlite /\ HasPk /\ AsksQuery
       /\ PutsObject(node.kind, FALSE, visit_sqlite_generated_object(node, body))

\* STRICT has no NUMERIC
SqliteStrictTableBuilder ==
  \E body \in tree.reads :
    LET node == SqliteCreateStrict
    IN /\ Sqlite /\ \A c \in Columns : sqlite_type[catalog.types[c]] # "NUMERIC"
       /\ AsksQuery
       /\ PutsObject(node.kind, FALSE, visit_sqlite_strict_object(node, body))

SqliteRecursiveCteIdentityBuilder ==
  Sqlite /\ AsksRelation(All) /\ PutsQuery(All, SqliteRecursiveCteQuery(tree.reads))
SqliteNestedMaterializedCteBuilder ==
  Sqlite /\ AsksRelation(All) /\ PutsQuery(All, SqliteNestedMaterializedCteQuery(tree.reads))

SqliteBuilders ==
  \/ SqliteCreateIndexBuilder \/ SqliteUniqueIndexMatBuilder \/ SqlitePartialIndexBuilder
  \/ SqliteTruthyPartialIndexBuilder \/ SqliteConstantPartialIndexBuilder
  \/ SqliteAnalyzeIndexMatBuilder \/ SqliteExpressionIndexMatBuilder \/ SqliteAttachRoundTripBuilder
  \/ SqliteWithoutRowidTableBuilder \/ SqliteWithoutRowidIndexedBuilder
  \/ SqliteGeneratedColumnRoundTripBuilder \/ SqliteStoredGeneratedColumnRoundTripBuilder
  \/ SqliteStrictTableBuilder \/ SqliteRecursiveCteIdentityBuilder
  \/ SqliteNestedMaterializedCteBuilder
=============================================================================
