------------------------------ MODULE Rewrites ------------------------------
(***************************************************************************)
(* The portable equivalence builders: from a base table, each builder      *)
(* makes a query or an object that has to hold the base table's rows.      *)
(*                                                                         *)
(* `tree` is the subtree built so far on one path from a leaf to the root  *)
(* of the tree under construction; a builder's step puts its node on top.  *)
(* A builder that asks for further children gets, next to `tree`, children *)
(* that keep what they were asked for (Other), and `tree` may be any one   *)
(* of them; every builder is in turn at the top, so every child's promise  *)
(* is checked where it is made.                                            *)
(*                                                                         *)
(* A subtree is                                                            *)
(*   node   what stands at its root: the base table, a query, a view, or a *)
(*          table                                                          *)
(*   shape  the columns it was asked for: the base table's ("rows"), those *)
(*          and ROW_NUMBER() ("keyed"), those and a constant tag           *)
(*          ("tagged"), or the tag or key channel of an expansion          *)
(*   kept   the rows it was asked for: those the filter is true of         *)
(*   dml    whether its builder lists AcceptsDmlConstraint                 *)
(*   reads  what reading it may return.  A table was evaluated once when   *)
(*          it was created; a view or query is evaluated by every reader,  *)
(*          which may get another result each time.  A statement that      *)
(*          fails leaves nothing to read: {}.                              *)
(*                                                                         *)
(* A generated predicate is any predicate that gives the same answer each  *)
(* time it is evaluated on the same row.                                   *)
(***************************************************************************)
EXTENDS Relations

SqlTypes ==
  {"integer", "decimal", "double", "text", "boolean", "jsonb", "int4range", "uuid", "date"}

CONSTANTS Catalogs,   \* the base tables: each [engine, rows, types, pk]; pk: c0 is the column c_pk
          MaxRows     \* the largest table an expansion is stacked on

\* A base table has two columns and rows of distinguishable values, -0.0 among floating point
\* numbers only, and c_pk is a whole number, never NULL, that no two rows share.  A row number is
\* a value like another.
IsCatalog(table) ==
  LET rows == table.rows
  IN /\ table.types \in SqlTypes \X SqlTypes
     /\ IsFiniteSet(DOMAIN rows) /\ DOMAIN rows \subseteq Value \X Value
     /\ rows \in [DOMAIN rows -> Nat \ {0}] /\ Total(rows) < OtherType
     /\ \A row \in DOMAIN rows, c \in {1, 2} : row[c] = MinusZero => table.types[c] = "double"
     /\ table.pk =>
          /\ table.types[1] = "integer"
          /\ \A row, other \in DOMAIN rows :
               row[1] # NULL /\ rows[row] = 1 /\ (row[1] = other[1] => row = other)

ASSUME ValuesAssumption ==
  NULL \notin Int /\ MinusZero \notin Int /\ NULL # MinusZero /\ OtherType \in Nat \ {0, 1}
ASSUME CatalogsAssumption == \A table \in Catalogs : IsCatalog(table)

VARIABLES catalog, tree
vars == <<catalog, tree>>

Base == catalog.rows
All == DOMAIN Base
Columns == DOMAIN catalog.types
Predicates == [All -> Truth]

\* what types can do, as SqlType.get_properties says
ORDERABLE == SqlTypes \ {"jsonb", "int4range"}
AGGREGATABLE == SqlTypes \ {"jsonb", "int4range"}
GROUPABLE == SqlTypes
\* and what the engines have: MIN and MAX
HasMinMax(type) ==
  type \notin {"jsonb", "int4range"} /\ (catalog.engine = "postgres" => type \notin {"boolean", "uuid"})

-----------------------------------------------------------------------------
(* The columns of rows: c0 and c1, and behind them the key or tag. *)
Columns2(row) == SubSeq(row, 1, 2)
Front(row) == SubSeq(row, 1, Len(row) - 1)
base_items(R) == Select(R, [row \in DOMAIN R |-> Columns2(row)])
Widened(R, value) == Select(R, [row \in DOMAIN R |-> Append(Columns2(row), value)])
WithExtra(R, values) == Where(R, {row \in DOMAIN R : Extra(row) \in values})
KEEP == 1
THROWAWAY == 0

-----------------------------------------------------------------------------
(* The requests a builder makes of the factory, when `tree` meets them. *)
IsRelation == tree.node \in {"view", "table"}
AsksRows(kept) == tree.shape = "rows" /\ tree.kept = kept

\* the base table or a rewrite of it, always with all rows
dispatch_source == tree.node # "query" /\ AsksRows(All)
AsksRelation(kept) == IsRelation /\ AsksRows(kept)
AsksQuery == tree.node = "query"
\* the base columns and ROW_NUMBER(), in something that can be written to
materialize_row_key == IsRelation /\ tree.shape = "keyed" /\ tree.dml
AsksChannel(channel) == IsRelation /\ tree.shape = channel
Other(kept) == {Where(Base, kept)}

Puts(node, shape, kept, dml, reads) ==
  /\ tree' = [node |-> node, shape |-> shape, kept |-> kept, dml |-> dml, reads |-> reads]
  /\ UNCHANGED catalog
PutsQuery(kept, results) == Puts("query", "rows", kept, FALSE, results)
PutsView(results) == Puts("view", "rows", All, FALSE, results)
\* an object made of the query asked for: its columns and rows are those of the request
PutsObject(node, dml, results) == Puts(node, tree.shape, tree.kept, dml, results)

-----------------------------------------------------------------------------
(* Query nodes: the set of what evaluating the query may return, from the  *)
(* sets of what reading its sources may.                                   *)
\* SQLite gives a column of an expression or of a compound no type: each is CAST to its own again
Sqlite == catalog.engine = "sqlite"
Typeless(R) == Select(R, [row \in DOMAIN R |-> [i \in DOMAIN row |-> Retyped(row[i])]])
Typed(R) == Select(R, [row \in DOMAIN R |-> [i \in DOMAIN row |-> CastBack(row[i])]])
cast_signature(R) == IF Sqlite THEN Typed(Typeless(R)) ELSE R

SelectStar(source, kept) == {Where(R, kept) : R \in source}
SelectQuery(source, kept) == {cast_signature(base_items(Where(R, kept))) : R \in source}

\* Mutant: RANK() instead of ROW_NUMBER().
SelectRanked(source) ==
  LET Before(v, w) == v # NULL /\ w # NULL /\ v < w
      rank(R, row) == 1 + Cardinality({other \in DOMAIN R : Before(other[1], row[1])})
  IN {Select(R, [row \in DOMAIN R |-> Append(row, rank(R, row))]) : R \in source}
SelectNumbered(source) == UNION {Numbered(R) : R \in source}
UnionAllQuery(branches) ==
  LET Reads == UNION {branches[i] : i \in DOMAIN branches}
  IN {cast_signature(UnionAll(picked)) : picked \in {p \in [DOMAIN branches -> Reads] :
                                       \A i \in DOMAIN branches : p[i] \in branches[i]}}
ExceptAllQuery(left, right) == {cast_signature(ExceptAll(L, R)) : L \in left, R \in right}
IntersectAllQuery(left, right) == {cast_signature(IntersectAll(L, R)) : L \in left, R \in right}
\* WITH cte AS (SELECT * FROM source WHERE kept) SELECT * FROM cte
CteQuery(source, kept) == {Where(cte, DOMAIN cte) : cte \in SelectStar(source, kept)}
LateralReprojectQuery(source) == {base_items(R) : R \in source}
\* what has no FULL OUTER JOIN writes a LEFT one: a keyed table and what is made of it have the
\* same keys
lowered(type) ==
  IF type = "FULL OUTER" /\ catalog.engine \in {"mysql", "tidb", "clickhouse", "cratedb"}
  THEN "LEFT OUTER" ELSE type
\* a join ON TRUE, one ON the row keys, and the columns of the left side
JoinOnTrue(left, right, type) == {Joined(L, R, type, Cross(L, R)) : L \in left, R \in right}
JoinOnKeys(left, right, type) ==
  {Joined(L, R, lowered(type), SameKey(L, R)) : L \in left, R \in right}
LeftColumns(joins) == {cast_signature(Select(J, [pair \in DOMAIN J |-> Columns2(pair[1])])) : J \in joins}

-----------------------------------------------------------------------------
(* Queries over one source. *)
BaseTableSource ==
  [node |-> "base", shape |-> "rows", kept |-> All, dml |-> FALSE, reads |-> {Base}]

SelectStarQueryBuilder ==
  \E kept \in SUBSET All : dispatch_source /\ PutsQuery(kept, SelectStar(tree.reads, kept))

ExplicitProjectionQueryBuilder ==
  \E kept \in SUBSET All : dispatch_source /\ PutsQuery(kept, SelectQuery(tree.reads, kept))

\* a plain CTE, one the engine must materialize, or one it must not
CteQueryBuilder ==
  \E kept \in SUBSET All : dispatch_source /\ PutsQuery(kept, CteQuery(tree.reads, kept))

LateralReprojectQueryBuilder ==
  dispatch_source /\ PutsQuery(All, LateralReprojectQuery(tree.reads))

\* a view with one more column, and a query that leaves the column out
AddDropColumnQueryBuilder ==
  LET wider == {Widened(R, NULL) : R \in tree.reads}
  IN dispatch_source /\ PutsQuery(All, {base_items(R) : R \in wider})

\* QUALIFY ROW_NUMBER() OVER (ORDER BY c0) >= 1
QualifyQueryBuilder ==
  /\ dispatch_source
  /\ PutsQuery(All, {base_items(WithExtra(R, Nat \ {0})) : R \in SelectNumbered(tree.reads)})

\* the inner ORDER BY says nothing about which rows there are
OrderedScanQueryBuilder == dispatch_source /\ PutsQuery(All, SelectQuery(tree.reads, All))

\* the only builder that returns the columns it is asked for
ProjectionQueryBuilder ==
  /\ dispatch_source
  /\ \/ Puts("query", "keyed", All, FALSE, SelectNumbered(tree.reads))
     \/ Puts("query", "tagged", All, FALSE, {Widened(R, KEEP) : R \in tree.reads})

-----------------------------------------------------------------------------
(* Rewrites of each column to an expression of the same value. *)
Texts == {c \in Columns : catalog.types[c] = "text"}

\* _free_predicate: a generated one, or one made of a column: any of them
free_predicate == Predicates
CaseWhen(p, row, value) == IF p[row] = "true" THEN value ELSE NULL

\* CASE WHEN p OR NOT p OR p IS NULL THEN c END, with another p for each column
EetCaseColumnQueryBuilder ==
  \E p, q \in free_predicate :
    LET always(row) == <<CaseWhen(determined_true(p), row, row[1]),
                         CaseWhen(determined_true(q), row, row[2])>>
    IN dispatch_source /\ PutsQuery(All, {Select(R, [row \in DOMAIN R |-> always(row)]) : R \in tree.reads})

EetDeterminedFilterQueryBuilder ==
  \E kept \in SUBSET All, p \in free_predicate :
    dispatch_source /\ PutsQuery(kept, SelectStar(tree.reads, conjoin(kept, determined_true(p))))

\* CASE WHEN c IS NULL THEN NULL ELSE decode(encode(c)) END; what an engine's codec makes of
\* NULL, NULL or the empty string, must not matter
roundtrip(value, OfNull) ==
  LET decoded == IF value = NULL THEN OfNull ELSE value
  IN IF value = NULL THEN NULL ELSE decoded
\* the columns a codec is drawn for: one codec for all of them, or one for each
plan == Texts
CodecRoundTripQueryBuilder ==
  \E OfNull \in {NULL, 0} :
    LET coded(row) == [c \in Columns |-> IF c \in plan THEN roundtrip(row[c], OfNull) ELSE row[c]]
    IN /\ plan # {} /\ dispatch_source
       /\ PutsQuery(All, {Select(R, [row \in DOMAIN R |-> coded(row)]) : R \in tree.reads})

\* <fn>(c) OVER (PARTITION BY c [ORDER BY c]) of each eligible column
WindowFunctions == {"MIN", "MAX", "FIRST_VALUE", "LAST_VALUE"}
\* Mutant: floating point columns are eligible.
eligible_doubles(type, function, ordered) ==
  /\ type \in GROUPABLE
  /\ ordered => type \in ORDERABLE
  /\ function \in {"MIN", "MAX"} => type \in AGGREGATABLE /\ type # "boolean"

eligible(type, function, ordered) ==
  LET aggregate == function \in {"MIN", "MAX"}
  IN /\ type \in GROUPABLE
     /\ ordered => type \in ORDERABLE
     /\ aggregate => type \in AGGREGATABLE /\ type # "boolean"
     /\ type # "double"
\* a partition holds equal values, which may be different ones
PartitionValues(R, c, row) == {other[c] : other \in {r \in DOMAIN R : Alike(r[c], row[c])}}
\* the lists of columns that put the rewritten ones through the function
WindowLists(R, rewritten) ==
  {list \in [DOMAIN R -> {row[1] : row \in DOMAIN R} \X {row[2] : row \in DOMAIN R}] :
     \A row \in DOMAIN R, c \in Columns :
       list[row][c] \in IF c \in rewritten THEN PartitionValues(R, c, row) ELSE {row[c]}}
WindowRewriteQueryBuilder ==
  \E function \in WindowFunctions, framed \in BOOLEAN :
    LET ordered == function \in {"FIRST_VALUE", "LAST_VALUE"} \/ framed
        rewritten == {c \in Columns : eligible(catalog.types[c], function, ordered)}
        Runs == function \in {"MIN", "MAX"} => \A c \in rewritten : HasMinMax(catalog.types[c])
    IN /\ rewritten # {} /\ dispatch_source
       /\ PutsQuery(All, IF Runs THEN UNION {{Select(R, list) : list \in WindowLists(R, rewritten)} : R \in tree.reads}
                         ELSE {})

-----------------------------------------------------------------------------
(* Set operations. *)
\* the branches asked for, of which the tree is any one
Branches(kept) ==
  {[i \in DOMAIN kept |-> IF i = own THEN tree.reads ELSE Other(kept[i])] :
     own \in {i \in DOMAIN kept : AsksRelation(kept[i])}}

\* a column of whole numbers, NULL or not
integer_keys == {c \in Columns : catalog.types[c] = "integer"}
even(row, c) == Compare(SqlMod(row[c], 2), 0)
odd(row, c) == Or3(Not3(Compare(SqlMod(row[c], 2), 0)), IF row[c] = NULL THEN "true" ELSE "false")
PartitionUnionQueryBuilder ==
  \E current \in SUBSET All, key \in integer_keys :
    \E branches \in Branches(<<conjoin(current, [row \in All |-> even(row, key)]),
                               conjoin(current, [row \in All |-> odd(row, key)])>>) :
      PutsQuery(current, UnionAllQuery(branches))

\* p, NOT p, p IS NULL
TlpPartitionUnionQueryBuilder ==
  \E current \in SUBSET All, p \in Predicates :
    \E branches \in Branches(<<conjoin(current, p), conjoin(current, Negation(p)),
                               conjoin(current, Unknown(p))>>) :
      PutsQuery(current, UnionAllQuery(branches))

\* one view for each residue of the row number
RankModUnionQueryBuilder ==
  \E modulus \in {2, 3, 4} :
    LET Residue(R, i) == WithExtra(R, {n \in 1 .. Total(R) : n % modulus = i})
        branches == [i \in 1 .. modulus |-> {base_items(Residue(R, i - 1)) : R \in tree.reads}]
    IN materialize_row_key /\ PutsQuery(All, UnionAllQuery(branches))

\* R with (R WHERE 1 = 0), and R INTERSECT ALL R
UnionEmptyRoundTripBuilder ==
  \E sides \in Branches(<<All, {}>>) : PutsQuery(All, UnionAllQuery(sides))
ExceptEmptyRoundTripBuilder ==
  \E sides \in Branches(<<All, {}>>) : PutsQuery(All, ExceptAllQuery(sides[1], sides[2]))
IntersectSelfRoundTripBuilder ==
  \E sides \in Branches(<<All, All>>) : PutsQuery(All, IntersectAllQuery(sides[1], sides[2]))

\* the key makes the doubled rows distinct per row
DistinctUnionDuplicateQueryBuilder ==
  LET doubled == UnionAllQuery(<<tree.reads, tree.reads>>)
      deduped == {SetToBag(DOMAIN R) : R \in doubled}
  IN /\ \A c \in Columns : catalog.types[c] \in GROUPABLE
     /\ materialize_row_key
     /\ \E stored \in deduped : PutsQuery(All, {base_items(stored)})

\* GROUP BY the base columns and the key
DistinctAsGroupByQueryBuilder ==
  /\ materialize_row_key
  /\ PutsQuery(All, UNION {GroupBy(R, [row \in DOMAIN R |-> row]) : R \in tree.reads})

-----------------------------------------------------------------------------
(* Joins.  All but the first join a keyed table with something made of it. *)
LeftJoinEmptyQueryBuilder ==
  \E sides \in Branches(<<All, {}>>) :
    PutsQuery(All, LeftColumns(JoinOnTrue(sides[1], sides[2], "LEFT OUTER")))

\* the flag table: one row per keyed row, its flag and its key
Flags(R) == Select(R, [row \in DOMAIN R |-> <<1, Extra(row)>>])

SemiJoinFlagRoundTripBuilder ==
  \E keyed \in tree.reads :
    /\ materialize_row_key
    /\ PutsQuery(All, LeftColumns(JoinOnKeys(tree.reads, {Flags(keyed)}, "SEMI")))

\* the flag column keeps the pairs it is 1 in
FlagTableJoinQueryBuilder ==
  \E keyed \in tree.reads, type \in {"INNER", "LEFT OUTER", "RIGHT OUTER", "FULL OUTER"} :
    LET joins == JoinOnKeys(tree.reads, {Flags(keyed)}, type)
    IN /\ materialize_row_key
       /\ PutsQuery(All, LeftColumns({Where(J, {pair \in DOMAIN J : pair[2][1] = 1}) : J \in joins}))

\* two views of half the columns each
SequenceOuterJoinQueryBuilder ==
  LET Half(c) == {Select(R, [row \in DOMAIN R |-> <<row[c], Extra(row)>>]) : R \in tree.reads}
      Halves(J) == Select(J, [pair \in DOMAIN J |-> <<pair[1][1], pair[2][1]>>])
  IN /\ materialize_row_key
     /\ PutsQuery(All, {Halves(J) : J \in JoinOnKeys(Half(1), Half(2), "FULL OUTER")})

\* CROSS JOIN, and a WHERE on the keys
CrossJoinFilterAsInnerBuilder ==
  \E keyed \in tree.reads :
    LET cross == JoinOnTrue(tree.reads, {Flags(keyed)}, "CROSS")
    IN /\ materialize_row_key
       /\ PutsQuery(All, LeftColumns({Where(J, {pair \in DOMAIN J : Extra(pair[1]) = Extra(pair[2])}) :
                                        J \in cross}))

-----------------------------------------------------------------------------
(* CREATE <keyword> <name> AS <query>.  The query's filter and columns are *)
(* those the object was asked for.  A table is one result of its query,    *)
(* fixed; a view is its query.  The temporary kinds last as long as the    *)
(* session.                                                                *)
CreateView(query) == query
CreateTable(rows) == {rows}
CreateTemporaryView(query) == query
CreateTemporaryTable(rows) == {rows}
CreateMaterializedView(rows) == {rows}

\* statements on a table, by which it keeps its rows
DeleteReinsertTable(rows, predicate) == Insert(Delete(rows, predicate), Where(Base, predicate))
NoopUpdateTable(rows, predicate) == Update(rows, predicate, [row \in DOMAIN rows |-> row])

\* Mutant: a view passes for something that can be written to.
CreateViewAcceptingDml == AsksQuery /\ PutsObject("view", TRUE, CreateView(tree.reads))

CreateViewBuilder == AsksQuery /\ PutsObject("view", FALSE, CreateView(tree.reads))
CreateTableBuilder ==
  \E rows \in tree.reads : AsksQuery /\ PutsObject("table", TRUE, CreateTable(rows))
CreateTemporaryViewBuilder == AsksQuery /\ PutsObject("view", FALSE, CreateTemporaryView(tree.reads))
CreateTemporaryTableBuilder ==
  \E rows \in tree.reads : AsksQuery /\ PutsObject("table", TRUE, CreateTemporaryTable(rows))
CreateMaterializedViewBuilder ==
  \E rows \in tree.reads : AsksQuery /\ PutsObject("view", FALSE, CreateMaterializedView(rows))

\* a generated predicate, or one of a key, or none
mutation_predicate ==
  {Keeps(p) : p \in Predicates}
    \cup {{row \in All : Compare(SqlMod(row[c], 2), 1) = "true"} : c \in integer_keys} \cup {All}

\* DELETE some rows, and INSERT them again from the base table
DeleteReinsertTableBuilder ==
  \E rows \in tree.reads, predicate \in mutation_predicate :
    /\ AsksQuery /\ AsksRows(All)
    /\ Puts("table", "rows", All, TRUE, {DeleteReinsertTable(rows, predicate)})

\* SET c0 = c0, c1 = c1
NoopUpdateTableBuilder ==
  \E rows \in tree.reads, predicate \in mutation_predicate :
    /\ AsksQuery /\ AsksRows(All)
    /\ Puts("table", "rows", All, TRUE, {NoopUpdateTable(rows, predicate)})

-----------------------------------------------------------------------------
(* Expansions: an expander adds rows that its channel marks, a reducer     *)
(* above it takes them away again.                                         *)
Rowcounts == {2, 3}   \* how often a base row is written out

InsertExtrasExpansion(rows, extras) == Insert(rows, extras)
TagPruneDeleteTable(R) == base_items(Delete(R, {row \in DOMAIN R : Extra(row) # KEEP}))

TagExplodeExpansionBuilder ==
  \E keep \in tree.reads, rowcount \in Rowcounts :
    LET throw == Widened(keep, THROWAWAY)
        branches == [i \in 1 .. rowcount |-> IF i = 1 THEN keep ELSE throw]
    IN /\ IsRelation /\ tree.shape = "tagged" /\ tree.dml
       /\ Puts("table", "tag", All, TRUE, {UnionAll(branches)})

\* Mutant: the extra rows carry the tag of those they were made of.
TagInsertExtrasSameTag ==
  \E rows \in tree.reads :
    /\ AsksChannel("tag") /\ tree.dml
    /\ Total(rows) <= MaxRows
    /\ Puts("table", "tag", All, TRUE, {InsertExtrasExpansion(rows, WithExtra(rows, {KEEP}))})

\* INSERT INTO child SELECT c0, c1, 0 FROM child WHERE tag = 1
TagInsertExtrasExpansionBuilder ==
  \E rows \in tree.reads :
    /\ AsksChannel("tag") /\ tree.dml
    /\ Total(rows) <= MaxRows
    /\ Puts("table", "tag", All, TRUE, {InsertExtrasExpansion(rows, Widened(WithExtra(rows, {KEEP}), THROWAWAY))})

\* DELETE what is not kept, in place, and look at the base columns
TagPruneDeleteReduceBuilder ==
  /\ AsksChannel("tag") /\ tree.dml
  /\ PutsView({TagPruneDeleteTable(R) : R \in tree.reads})

\* a view of what is kept
TagPruneFilterReduceBuilder ==
  /\ AsksChannel("tag")
  /\ PutsView({base_items(WithExtra(R, {KEEP})) : R \in tree.reads})

KeyExplodeExpansionBuilder ==
  \E rowcount \in Rowcounts :
    /\ materialize_row_key
    /\ \E rows \in UnionAllQuery([i \in 1 .. rowcount |-> tree.reads]) :
         Puts("table", "key", All, TRUE, {rows})

KeyInsertExtrasExpansionBuilder ==
  \E rows \in tree.reads :
    /\ AsksChannel("key")
    /\ Total(rows) <= MaxRows
    /\ Puts("table", "key", All, TRUE, {InsertExtrasExpansion(rows, rows)})

\* the row of each group that stands for it
OnePerKey(R) ==
  LET Keys == {Extra(row) : row \in DOMAIN R}
  IN {SetToBag({one[k] : k \in Keys}) :
        one \in {f \in [Keys -> DOMAIN R] : \A k \in Keys : Extra(f[k]) = k}}

KeyDistinctReduceBuilder ==
  /\ AsksChannel("key")
  /\ \A c \in Columns : catalog.types[c] \in GROUPABLE
  /\ PutsView({base_items(SetToBag(DOMAIN R)) : R \in tree.reads})

\* GROUP BY key, ANY_VALUE of each column
KeyGroupAggregateReduceBuilder ==
  /\ AsksChannel("key")
  /\ PutsView(UNION {GroupBy(R, [row \in DOMAIN R |-> Extra(row)]) : R \in tree.reads})

\* MAX(c) OVER (PARTITION BY key), and DISTINCT
Largest(values) ==
  IF values = {NULL} THEN NULL
  ELSE CHOOSE v \in values \ {NULL} :
         v = MinusZero \/ \A w \in values \ {NULL, MinusZero} : w <= v
KeyWindowAggregateReduceBuilder ==
  LET PerKey(R, row, c) == Largest({other[c] : other \in {r \in DOMAIN R : Extra(r) = Extra(row)}})
      windowed(R) == {<<PerKey(R, row, 1), PerKey(R, row, 2), Extra(row)>> : row \in DOMAIN R}
      Runs == \A c \in Columns : HasMinMax(catalog.types[c])
  IN /\ AsksChannel("key")
     /\ \A c \in Columns : catalog.types[c] \in AGGREGATABLE \cap GROUPABLE
     /\ PutsView(IF Runs THEN {base_items(SetToBag(windowed(R))) : R \in tree.reads} ELSE {})

\* QUALIFY ROW_NUMBER() OVER (PARTITION BY key ORDER BY key) = 1
KeyQualifyDedupReduceBuilder ==
  /\ AsksChannel("key")
  /\ PutsView({base_items(one) : one \in UNION {OnePerKey(R) : R \in tree.reads}})

-----------------------------------------------------------------------------
(* What the builders of several engines use.  Most write the query they    *)
(* ask for into a table, the body, run statements on or next to it, and    *)
(* expose a view.  {} is what a statement that fails leaves.               *)
HasPk == catalog.pk
OfType(types) == {c \in Columns : catalog.types[c] \in types}
FirstOf(columns) == {c \in columns : \A d \in columns : c <= d}
\* the first column that is not c_pk
target == FirstOf(Columns \ (IF HasPk THEN {1} ELSE {}))

\* what PRIMARY KEY and UNIQUE (NULL apart) demand of the first column
UniqueFirst(R) ==
  \A row, other \in DOMAIN R : Compare(row[1], other[1]) = "true" => row = other /\ R[row] = 1
NoNullFirst(R) == \A row \in DOMAIN R : row[1] # NULL
UniqueIndex(R) == IF UniqueFirst(R) THEN {R} ELSE {}
PrimaryKey(R) == IF UniqueFirst(R) /\ NoNullFirst(R) THEN {R} ELSE {}

\* every column through an expression, given as what it makes of each value
ColumnValues == UNION {{row[c] : c \in Columns} : row \in All}
EachColumn(R, rewriter) == Select(R, [row \in DOMAIN R |-> [c \in Columns |-> rewriter[row[c]]]])
\* INSERT INTO child SELECT of all columns FROM body, into a child created empty
Filled(body) == Insert(EmptyBag, Select(body, [row \in DOMAIN body |-> row]))

-----------------------------------------------------------------------------
Init == catalog \in Catalogs /\ tree = BaseTableSource

Queries ==
  \/ SelectStarQueryBuilder \/ ExplicitProjectionQueryBuilder \/ CteQueryBuilder
  \/ LateralReprojectQueryBuilder \/ AddDropColumnQueryBuilder \/ QualifyQueryBuilder
  \/ OrderedScanQueryBuilder \/ ProjectionQueryBuilder
  \/ EetCaseColumnQueryBuilder \/ EetDeterminedFilterQueryBuilder
  \/ CodecRoundTripQueryBuilder \/ WindowRewriteQueryBuilder
  \/ PartitionUnionQueryBuilder \/ TlpPartitionUnionQueryBuilder \/ RankModUnionQueryBuilder
  \/ UnionEmptyRoundTripBuilder \/ ExceptEmptyRoundTripBuilder \/ IntersectSelfRoundTripBuilder
  \/ DistinctUnionDuplicateQueryBuilder \/ DistinctAsGroupByQueryBuilder
  \/ LeftJoinEmptyQueryBuilder \/ SemiJoinFlagRoundTripBuilder \/ FlagTableJoinQueryBuilder
  \/ SequenceOuterJoinQueryBuilder \/ CrossJoinFilterAsInnerBuilder
Objects ==
  \/ CreateViewBuilder \/ CreateTableBuilder \/ CreateTemporaryViewBuilder
  \/ CreateTemporaryTableBuilder \/ CreateMaterializedViewBuilder
  \/ DeleteReinsertTableBuilder \/ NoopUpdateTableBuilder
Expansions ==
  \/ TagExplodeExpansionBuilder \/ TagInsertExtrasExpansionBuilder
  \/ TagPruneDeleteReduceBuilder \/ TagPruneFilterReduceBuilder
  \/ KeyExplodeExpansionBuilder \/ KeyInsertExtrasExpansionBuilder
  \/ KeyDistinctReduceBuilder \/ KeyGroupAggregateReduceBuilder
  \/ KeyWindowAggregateReduceBuilder \/ KeyQualifyDedupReduceBuilder
Portable == Queries \/ Objects \/ Expansions

-----------------------------------------------------------------------------
\* Whatever builders were stacked in whatever order, every read of the subtree returns exactly the
\* base table's rows its request asks for, each as often as in the base table.
RowsKept == \A R \in tree.reads : tree.shape = "rows" => R = Where(Base, tree.kept)

\* A row number tells the rows apart, duplicates of one another too, and stays with its row:
\* dropped, it leaves the base table; copies of a row share it and agree on everything else.
KeysTellRowsApart ==
  \A R \in tree.reads :
    LET Keys == {Extra(row) : row \in DOMAIN R}
    IN tree.shape \in {"keyed", "key"} =>
         /\ Cardinality(Keys) = Cardinality(DOMAIN R)
         /\ base_items(SetToBag(DOMAIN R)) = Where(Base, tree.kept)
         /\ tree.shape = "keyed" => \A row \in DOMAIN R : R[row] = 1

\* What is tagged to be kept is the base table, however often an expansion was extended.
TaggedRowsKept ==
  \A R \in tree.reads : tree.shape \in {"tagged", "tag"} => base_items(WithExtra(R, {KEEP})) = Base

\* What was asked to be written to is read the same by every reader: a row number in it is the
\* same number in every branch that reads it.
WritableReadsAgree == tree.dml => Cardinality(tree.reads) = 1

\* No builder puts a statement that the engine refuses on a column of the types it declared
\* eligible, whatever is stacked below it; a type that has no MIN and MAX though get_properties says
\* AGGREGATABLE is apart.
StatementsRun ==
  \/ \E c \in Columns : catalog.types[c] \in AGGREGATABLE /\ ~HasMinMax(catalog.types[c])
  \/ tree.reads # {}

\* The docstring of get_properties, which every such type is to override so that "the builders that
\* consult it then decline": nothing is refused for its types.  It does
\* not hold of uuid on PostgreSQL, as MCRewritesRefused.cfg shows.
BuildersDecline == tree.reads # {}
=============================================================================
