--------------------------- MODULE DuckDBRewrites ---------------------------
(***************************************************************************)
(* The DuckDB builders: nodes, the emitter's visit_ operators, builders.   *)
(***************************************************************************)
EXTENDS Rewrites

DuckDB == catalog.engine = "duckdb"

\* every object is a view: of a macro, of an indexed table, of a table in another database or
\* schema, of an altered or checkpointed table, or of an enumeration
DuckDBCreateMacro == [kind |-> "view"]
DuckDBCreateIndex(unique) == [kind |-> "view", column |-> 1, unique |-> unique]
DuckDBCreateAttach == [kind |-> "view"]
DuckDBCatalogKind == {"schema", "add_drop_column", "checkpoint", "enum_round_trip"}
DuckDBCreateCatalog(round_trip, text) == [kind |-> "view", catalog |-> round_trip, text_col |-> text]

-----------------------------------------------------------------------------
(* What the statements make of a body.  A macro's query is evaluated by    *)
(* every reader.                                                           *)
visit_duckdb_macro_object(node, query) == query
visit_duckdb_index_object(node, body) == IF node.unique THEN UniqueIndex(body) ELSE {body}
visit_duckdb_attach_object(node, body) == LET att == [mirror |-> body] IN {att.mirror}

\* an enumeration of a text column's values, NULL left out: a value it does not have fails to cast
Labels(c, body) == {row[c] : row \in DOMAIN body} \ {NULL}
EnumRoundTrip(c, labels, body) ==
  IF \A row \in DOMAIN body : row[c] # NULL => row[c] \in labels
  THEN {Select(body, [row \in DOMAIN body |-> [row EXCEPT ![c] = CastBack(Retyped(row[c]))]])}
  ELSE {}
\* a table in a schema, or with a column added and dropped again, or written to disk, or the view
\* of the enumeration, which reads the body a second time
visit_duckdb_catalog_object(node, view) ==
  LET added(body) == Select(body, [row \in DOMAIN body |-> Append(row, 42)])
      dropped(rows) == Select(rows, [row \in DOMAIN rows |-> SubSeq(row, 1, Len(row) - 1)])
  IN CASE node.catalog \in {"schema", "checkpoint"} -> view
       [] node.catalog = "add_drop_column" -> {dropped(added(body)) : body \in view}
       [] node.catalog = "enum_round_trip" ->
            UNION {EnumRoundTrip(node.text_col, Labels(node.text_col, body), again) : body \in view, again \in view}

-----------------------------------------------------------------------------
(* The queries. *)
\* the columns in two halves, each ORDERed BY the key, put together by position
Positions(R) == {f \in [1 .. Total(R) -> DOMAIN R] :
                   /\ \A row \in DOMAIN R : Cardinality({i \in DOMAIN f : f[i] = row}) = R[row]
                   /\ \A i, j \in DOMAIN f : i < j => Extra(f[i]) <= Extra(f[j])}
JoinedAt(l, r) == UnionAll([i \in DOMAIN l |-> SetToBag({<<l[i][1], r[i][2]>>})])
visit_duckdb_positional_join_query(L, R) == {JoinedAt(l, r) : l \in Positions(L), r \in Positions(R)}
DuckDBPositionalJoinQuery(source) ==
  UNION {visit_duckdb_positional_join_query(L, R) : L \in source, R \in source}

DuckDBRecursiveCteQuery(source) ==
  LET visit_duckdb_recursive_cte_query(anchor) == UnionAll(<<anchor, Where(anchor, {})>>)
  IN {visit_duckdb_recursive_cte_query(R) : R \in source}

\* SELECT * REPLACE (c0 AS c0)
DuckDBStarReplaceQuery(source) ==
  LET visit_duckdb_star_replace_query(R) ==
        Select(R, [row \in DOMAIN R |-> [row EXCEPT ![1] = row[1]]])
  IN {visit_duckdb_star_replace_query(R) : R \in source}

\* PIVOT groups by c_pk, and takes the first of the group's packed rows
DuckDBPivotStructQuery(source) ==
  LET Keys(R) == {row[1] : row \in DOMAIN R}
      First(R) == {one \in [Keys(R) -> DOMAIN R] : \A k \in Keys(R) : one[k][1] = k}
      visit_duckdb_pivot_struct_query(R) ==
        {SetToBag({<<k, one[k][2]>> : k \in Keys(R)}) : one \in First(R)}
  IN UNION {visit_duckdb_pivot_struct_query(R) : R \in source}

-----------------------------------------------------------------------------
(* The builders. *)
\* ANTI JOIN ON TRUE with what has no rows
DuckDBAntiJoinEmptyRoundTripBuilder ==
  \E sides \in Branches(<<All, {}>>) :
    DuckDB /\ PutsQuery(All, LeftColumns(JoinOnTrue(sides[1], sides[2], "ANTI")))

\* EXCEPT ALL with an empty table
DuckDBExceptAllEmptyTableRoundTripBuilder ==
  \E sides \in Branches(<<All, {}>>) : \E right \in sides[2] :
    DuckDB /\ PutsQuery(All, ExceptAllQuery(sides[1], {right}))

\* ASOF LEFT JOIN with an empty table, ON a column of times: a row of the left table pairs with
\* the latest before it, or with none
DuckDBAsofLeftEmptyRoundTripBuilder ==
  \E sides \in Branches(<<All, {}>>), temporal \in FirstOf(OfType({"date"})) :
    \E left \in sides[1], right \in sides[2] :
      LET upto == {pair \in Cross(left, right) : pair[1][temporal] >= pair[2][temporal]}
      IN DuckDB /\ PutsQuery(All, LeftColumns({Joined(left, right, "LEFT OUTER", upto)}))

DuckDBCreateMacroBuilder ==
  LET node == DuckDBCreateMacro
  IN DuckDB /\ AsksQuery /\ PutsObject(node.kind, FALSE, visit_duckdb_macro_object(node, tree.reads))

DuckDBCreateIndexBuilder ==
  \E body \in tree.reads :
    LET node == DuckDBCreateIndex(FALSE)
    IN DuckDB /\ AsksQuery /\ PutsObject(node.kind, FALSE, visit_duckdb_index_object(node, body))

DuckDBUniqueIndexMatBuilder ==
  \E body \in tree.reads :
    LET node == DuckDBCreateIndex(TRUE)
    IN /\ DuckDB /\ HasPk /\ AsksQuery
       /\ PutsObject(node.kind, FALSE, visit_duckdb_index_object(node, body))

DuckDBAttachedDatabaseBuilder ==
  \E body \in tree.reads :
    LET node == DuckDBCreateAttach
    IN DuckDB /\ AsksQuery /\ PutsObject(node.kind, FALSE, visit_duckdb_attach_object(node, body))

\* a schema, a column added and dropped, a checkpoint
DuckDBCatalogObjectBuilder ==
  \E body \in tree.reads, KIND \in DuckDBCatalogKind \ {"enum_round_trip"} :
    LET node == DuckDBCreateCatalog(KIND, 0)
    IN DuckDB /\ AsksQuery /\ PutsObject(node.kind, FALSE, visit_duckdb_catalog_object(node, {body}))

DuckDBEnumTypeRoundTripBuilder ==
  \E text_col \in FirstOf(OfType({"text"})) :
    LET node == DuckDBCreateCatalog("enum_round_trip", text_col)
    IN /\ DuckDB /\ AsksQuery
       /\ PutsObject(node.kind, FALSE, visit_duckdb_catalog_object(node, tree.reads))

DuckDBPositionalJoinRoundTripBuilder ==
  /\ DuckDB /\ Cardinality(Columns) >= 2
  /\ materialize_row_key
  /\ PutsQuery(All, DuckDBPositionalJoinQuery(tree.reads))

\* QUALIFY ROW_NUMBER() OVER (ORDER BY c0) <= 100000, which no table reaches
ROW_NUMBER_BOUND == 100000
ASSUME BoundAssumption == \A table \in Catalogs : Total(table.rows) <= ROW_NUMBER_BOUND
DuckDBRowNumberBoundQualifyBuilder ==
  LET bounded(R) == Where(R, {row \in DOMAIN R : Extra(row) <= ROW_NUMBER_BOUND})
  IN /\ DuckDB /\ dispatch_source
     /\ PutsQuery(All, {base_items(bounded(R)) : R \in SelectNumbered(tree.reads)})

DuckDBRecursiveCteIdentityBuilder ==
  DuckDB /\ AsksRelation(All) /\ PutsQuery(All, DuckDBRecursiveCteQuery(tree.reads))
DuckDBStarReplaceIdentityBuilder ==
  DuckDB /\ AsksRelation(All) /\ PutsQuery(All, DuckDBStarReplaceQuery(tree.reads))
DuckDBPivotStructRoundTripBuilder ==
  /\ DuckDB /\ HasPk /\ Cardinality(Columns) >= 2
  /\ AsksRelation(All)
  /\ PutsQuery(All, DuckDBPivotStructQuery(tree.reads))

\* each column put into a list or map of one element, and taken out again
DuckDBListPackRoundTripBuilder ==
  LET extracted == [v \in ColumnValues |-> <<v>>[1]]
  IN DuckDB /\ dispatch_source /\ PutsQuery(All, {EachColumn(R, extracted) : R \in tree.reads})
DuckDBListTransformRoundTripBuilder ==
  LET transformed == [v \in ColumnValues |-> [i \in DOMAIN <<v>> |-> <<v>>[i]][1]]
  IN DuckDB /\ dispatch_source /\ PutsQuery(All, {EachColumn(R, transformed) : R \in tree.reads})
DuckDBListFilterRoundTripBuilder ==
  LET filtered == [v \in ColumnValues |-> [i \in {j \in DOMAIN <<v>> : 1 = 1} |-> <<v>>[i]][1]]
  IN DuckDB /\ dispatch_source /\ PutsQuery(All, {EachColumn(R, filtered) : R \in tree.reads})
DuckDBMapPackRoundTripBuilder ==
  LET looked_up == [v \in ColumnValues |-> [k \in {"k"} |-> v]["k"]]
  IN DuckDB /\ dispatch_source /\ PutsQuery(All, {EachColumn(R, looked_up) : R \in tree.reads})

\* a view of the row in one STRUCT, and its fields
DuckDBStructPackRoundTripBuilder ==
  LET packed(R) == Select(R, [row \in DOMAIN R |-> [s |-> row]])
      fields(V) == Select(V, [struct \in DOMAIN V |-> <<struct.s[1], struct.s[2]>>])
  IN DuckDB /\ dispatch_source /\ PutsQuery(All, {fields(packed(R)) : R \in tree.reads})

DuckDBBuilders ==
  \/ DuckDBAntiJoinEmptyRoundTripBuilder \/ DuckDBExceptAllEmptyTableRoundTripBuilder
  \/ DuckDBAsofLeftEmptyRoundTripBuilder \/ DuckDBCreateMacroBuilder \/ DuckDBCreateIndexBuilder
  \/ DuckDBUniqueIndexMatBuilder \/ DuckDBAttachedDatabaseBuilder \/ DuckDBCatalogObjectBuilder
  \/ DuckDBEnumTypeRoundTripBuilder \/ DuckDBPositionalJoinRoundTripBuilder
  \/ DuckDBRowNumberBoundQualifyBuilder \/ DuckDBRecursiveCteIdentityBuilder
  \/ DuckDBStarReplaceIdentityBuilder \/ DuckDBPivotStructRoundTripBuilder
  \/ DuckDBListPackRoundTripBuilder \/ DuckDBListTransformRoundTripBuilder
  \/ DuckDBListFilterRoundTripBuilder \/ DuckDBMapPackRoundTripBuilder
  \/ DuckDBStructPackRoundTripBuilder
=============================================================================
