----------------------------- MODULE MCRewrites -----------------------------
EXTENDS EquivalenceTrees

Rows(seq) == [row \in {seq[i] : i \in DOMAIN seq} |-> Cardinality({i \in DOMAIN seq : seq[i] = row})]

\* the rows sample_rows starts from: one that is NULL but for its key, one twice
Keyed(v) == Rows(<< <<1, NULL>>, <<2, v>>, <<3, v>> >>)
\* without c_pk the repeated row is a duplicate
Keyless(v) == Rows(<< <<NULL, NULL>>, <<-1, v>>, <<-1, v>> >>)
\* rows the row number may order either way
Ties == Rows(<< <<-1, 1>>, <<-1, 2>>, <<NULL, 1>> >>)
\* two numbers that are equal and different
Zeros == Rows(<< <<1, MinusZero>>, <<2, 0>> >>)

Table(engine, type, rows, pk) == [engine |-> engine, types |-> <<"integer", type>>, rows |-> rows, pk |-> pk]
WithPk(engine, types) == {Table(engine, type, Keyed(1), TRUE) : type \in types}

MCCatalogs ==
  WithPk("postgres", {"text", "jsonb", "int4range", "uuid"})
    \cup WithPk("sqlite", {"text"})
    \cup WithPk("duckdb", {"text", "date"})
    \cup WithPk("clickhouse", {"text", "decimal", "date"})
    \cup WithPk("cratedb", {"text", "decimal"})
    \cup WithPk("mysql", {"text", "date"})
    \cup WithPk("tidb", {"text"})
    \cup {Table("postgres", "double", Zeros, TRUE), Table("duckdb", "double", Zeros, TRUE),
          Table("duckdb", "integer", Ties, FALSE),
          Table("sqlite", "text", Keyless(1), FALSE), Table("duckdb", "text", Keyless(1), FALSE)}
=============================================================================
