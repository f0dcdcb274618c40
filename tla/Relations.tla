----------------------------- MODULE Relations -----------------------------
(***************************************************************************)
(* Tables and queries as the equivalence generator uses them.  A relation  *)
(* is a bag of rows, a row a tuple of column values.  Two relations hold   *)
(* the same data when they are the same bag: order does not count.         *)
(* Each operator says what the SQL of one rendering method returns.  Where *)
(* SQL leaves the result open (which number a tied row gets, which row of  *)
(* a group a value comes from) it is the set of all results.               *)
(***************************************************************************)
EXTENDS Integers, Sequences, FiniteSets

CONSTANTS NULL,        \* SQL's NULL
          MinusZero,   \* the floating point number -0.0, equal to 0 and yet another value
          OtherType    \* numbers from here on stand for values of another type than their column's

-----------------------------------------------------------------------------
(* Three-valued logic.  A predicate maps rows to truth values, and a WHERE *)
(* keeps the rows on which it is "true".                                   *)
Truth == {"true", "false", "null"}
Not3(a) == CASE a = "true" -> "false" [] a = "false" -> "true" [] a = "null" -> "null"
Or3(a, b) == IF "true" \in {a, b} THEN "true" ELSE IF "null" \in {a, b} THEN "null" ELSE "false"
IsNull3(a) == IF a = "null" THEN "true" ELSE "false"

\* p OR NOT p OR p IS NULL
determined_true(p) == [row \in DOMAIN p |-> Or3(Or3(p[row], Not3(p[row])), IsNull3(p[row]))]
Negation(p) == [row \in DOMAIN p |-> Not3(p[row])]
Unknown(p) == [row \in DOMAIN p |-> IsNull3(p[row])]
Keeps(p) == {row \in DOMAIN p : p[row] = "true"}

\* a filter is the set of rows it keeps; AND keeps what both keep
conjoin(kept, p) == kept \cap Keeps(p)

\* MOD(v, n): the sign of the dividend, NULL on NULL
SqlMod(v, n) == IF v = NULL THEN NULL
                ELSE IF v = MinusZero THEN 0
                ELSE IF v < 0 THEN - ((- v) % n) ELSE v % n
Compare(v, w) == IF NULL \in {v, w} THEN "null" ELSE IF v = w THEN "true" ELSE "false"

\* values that GROUP BY and PARTITION BY put together
Alike(v, w) == v = w \/ {v, w} = {0, MinusZero}

\* a value of another type is another value, and a CAST back makes it the same one again; NULL
\* is NULL in every type
Value == {NULL, MinusZero} \cup ((1 - OtherType) .. (OtherType - 1))
Retyped(v) == IF v \in Int /\ v < OtherType THEN v + 2 * OtherType ELSE v
CastBack(v) == IF v \in Int /\ v > OtherType THEN v - 2 * OtherType ELSE v

-----------------------------------------------------------------------------
(* Relations as bags: how often each row is there. *)
SetToBag(S) == [row \in S |-> 1]
EmptyBag == SetToBag({})
Count(row, R) == IF row \in DOMAIN R THEN R[row] ELSE 0
R (+) S == [row \in DOMAIN R \cup DOMAIN S |-> Count(row, R) + Count(row, S)]
R (-) S ==
  [row \in {left \in DOMAIN R : R[left] > Count(left, S)} |-> R[row] - Count(row, S)]
\* how many rows there are, each as often as it is there
Total(R) == Cardinality(UNION {{row} \X (1 .. R[row]) : row \in DOMAIN R})

-----------------------------------------------------------------------------
(* SELECT with its clauses. *)
\* the last column of a row: a key or a tag
Extra(row) == row[Len(row)]
Where(R, kept) == [row \in DOMAIN R \cap kept |-> R[row]]
Select(R, list) ==
  [out \in {list[row] : row \in DOMAIN R} |-> Total(Where(R, {row \in DOMAIN R : list[row] = out}))]

\* ROW_NUMBER() OVER (ORDER BY c), appended to every row: ties get their numbers in any order,
\* and NULLs come first on some engines and last on others
Numbered(R) ==
  LET n == Total(R)
      Before(v, w) == v # NULL /\ w # NULL /\ v < w
      NullsLast(f) == \A i, j \in 1 .. n : f[i][1] = NULL /\ i < j => f[j][1] = NULL
      NullsFirst(f) == \A i, j \in 1 .. n : f[j][1] = NULL /\ i < j => f[i][1] = NULL
      Sorted == {f \in [1 .. n -> DOMAIN R] :
                   /\ \A row \in DOMAIN R : Cardinality({i \in 1 .. n : f[i] = row}) = R[row]
                   /\ \A i, j \in 1 .. n : i < j => ~ Before(f[j][1], f[i][1])
                   /\ NullsFirst(f) \/ NullsLast(f)}
  IN {SetToBag({Append(f[i], i) : i \in 1 .. n}) : f \in Sorted}

\* GROUP BY the columns Key projects, every other column ANY_VALUE of its group: each column is
\* taken from some row of the group, not all of them from one
GroupBy(R, key) ==
  LET keys == {key[row] : row \in DOMAIN R}
      Group(k) == {row \in DOMAIN R : key[row] = k}
      Mixed(k) == {row[1] : row \in Group(k)} \X {row[2] : row \in Group(k)}
      Outcomes == {G \in [keys -> UNION {Mixed(k) : k \in keys}] : \A k \in keys : G[k] \in Mixed(k)}
  IN {Select(SetToBag(keys), G) : G \in Outcomes}

-----------------------------------------------------------------------------
(* Set operations that keep duplicates. *)
UnionAll(branches) ==
  [row \in UNION {DOMAIN branches[i] : i \in DOMAIN branches} |->
     Total([i \in DOMAIN branches |-> Count(row, branches[i])])]
ExceptAll(L, R) == L (-) R

IntersectAll(L, R) == [row \in DOMAIN L \cap DOMAIN R |-> IF L[row] < R[row] THEN L[row] ELSE R[row]]

(***************************************************************************)
(* A join is a bag of pairs of rows, with NoRow on the side that has none. *)
(* on is the set of pairs its condition is true of.                        *)
(***************************************************************************)
NoRow == <<NULL, NULL, NULL>>
Cross(L, R) == (DOMAIN L) \X (DOMAIN R)
LeftAlone(L, rows) == [pair \in rows \X {NoRow} |-> L[pair[1]]]
RightAlone(R, rows) == [pair \in {NoRow} \X rows |-> R[pair[2]]]
Joined(L, R, type, on) ==
  LET matched == Cross(L, R) \cap on
      LeftOnly == {l \in DOMAIN L : \A pair \in matched : pair[1] # l}
      RightOnly == {r \in DOMAIN R : \A pair \in matched : pair[2] # r}
      inner == [pair \in matched |-> L[pair[1]] * R[pair[2]]]
      left  == LeftAlone(L, LeftOnly)
      right == RightAlone(R, RightOnly)
  IN CASE type \in {"INNER", "CROSS"} -> inner
       [] type = "LEFT OUTER"  -> inner (+) left
       [] type = "RIGHT OUTER" -> inner (+) right
       [] type = "FULL OUTER"  -> inner (+) left (+) right
       [] type = "SEMI" -> LeftAlone(L, DOMAIN L \ LeftOnly)
       [] type = "ANTI" -> left
\* the pairs whose last columns, the row keys, are equal
SameKey(L, R) == {pair \in Cross(L, R) : Extra(pair[1]) = Extra(pair[2])}

-----------------------------------------------------------------------------
(* DELETE, INSERT ... SELECT and UPDATE of a table. *)
Delete(R, kept) == [row \in DOMAIN R \ kept |-> R[row]]
Insert(R, S) == R (+) S
Update(R, kept, list) == Select(R, [row \in DOMAIN R |-> IF row \in kept THEN list[row] ELSE row])
=============================================================================
