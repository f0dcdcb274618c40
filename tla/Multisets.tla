----------------------------- MODULE Multisets -----------------------------
(***************************************************************************)
(* The oracle's comparison (compare_multisets in eqgen/fuzz/database.py):  *)
(* two results are compared as multisets, first exactly and then, for the  *)
(* rows left over, up to the float tolerance.  A row is one numeric cell,  *)
(* an integer; cells further apart than Tolerance stand for rows that      *)
(* differ in anything else.  The rows arrive one by one from the two       *)
(* cursors; then the two loops run, a row, or a pair of rows, at a step.   *)
(***************************************************************************)
EXTENDS Integers, Sequences, FiniteSets

CONSTANTS
  Cells,      \* the rows an engine can return
  Tolerance,  \* how far apart two cells can be and still agree
  MaxRows     \* bound: rows fetched from one side

ASSUME MultisetsAssumption ==
  Cells \subseteq Int /\ Tolerance \in Nat /\ MaxRows \in Nat

VARIABLES
  pc,              \* "fetch", "exact", "approximate" or "done"
  base, other,     \* the rows fetched, in the order they arrived
  missing, extra,  \* the Counters of the rows not consumed yet
  reconciled,      \* rows that agreed through the tolerance only
  i, j             \* where the loops stand, as positions in base and other

vars == <<pc, base, other, missing, extra, reconciled, i, j>>

-----------------------------------------------------------------------------
(* The algorithm *)

_values_close(a, b) == a - b <= Tolerance /\ b - a <= Tolerance

\* Mutant: a set instead of a Counter.
CounterForgetsDuplicates(rows) ==
  [c \in Cells |-> IF \E k \in DOMAIN rows : rows[k] = c THEN 1 ELSE 0]

Counter(rows) ==
  [c \in Cells |-> Cardinality({k \in DOMAIN rows : rows[k] = c})]

\* A Counter iterates over its keys in the order they were first seen, so the
\* loops come to a row at its first position.
IsKey(rows, k) == \A l \in 1..(k - 1) : rows[l] # rows[k]

Least(m, n) == IF m <= n THEN m ELSE n

Init ==
  /\ pc = "fetch"
  /\ base = <<>> /\ other = <<>>
  /\ missing = [c \in Cells |-> 0] /\ extra = [c \in Cells |-> 0]
  /\ reconciled = 0 /\ i = 1 /\ j = 1

FetchBase ==
  /\ pc = "fetch" /\ Len(base) < MaxRows
  /\ \E row \in Cells : base' = Append(base, row)
  /\ UNCHANGED <<pc, other, missing, extra, reconciled, i, j>>

FetchOther ==
  /\ pc = "fetch" /\ Len(other) < MaxRows
  /\ \E row \in Cells : other' = Append(other, row)
  /\ UNCHANGED <<pc, base, missing, extra, reconciled, i, j>>

Count ==
  /\ pc = "fetch" /\ pc' = "exact"
  /\ missing' = Counter(base) /\ extra' = Counter(other)
  /\ UNCHANGED <<base, other, reconciled, i, j>>

\* As many rows as both sides have leave both.
Consume(base_row, other_row, shared) ==
  /\ missing' = [missing EXCEPT ![base_row] = @ - shared]
  /\ extra' = [extra EXCEPT ![other_row] = @ - shared]

\* Mutant: the shared rows stay in extra.
ExactRowOneSide ==
  /\ pc = "exact" /\ i <= Len(base)
  /\ LET shared == IF IsKey(base, i) THEN extra[base[i]] ELSE 0
     IN  missing' = [missing EXCEPT ![base[i]] = @ - Least(@, shared)]
  /\ i' = i + 1
  /\ UNCHANGED <<pc, base, other, extra, reconciled, j>>

\* The first loop: the rows both sides have, bit for bit, leave both.
ExactRow ==
  /\ pc = "exact" /\ i <= Len(base)
  /\ LET row == base[i] IN
     \/ IsKey(base, i) /\ Consume(row, row, Least(missing[row], extra[row]))
     \/ ~IsKey(base, i) /\ UNCHANGED <<missing, extra>>
  /\ i' = i + 1
  /\ UNCHANGED <<pc, base, other, reconciled, j>>

ExactDone ==
  /\ pc = "exact" /\ i = Len(base) + 1
  /\ pc' = "approximate" /\ i' = 1
  /\ UNCHANGED <<base, other, missing, extra, reconciled, j>>

\* The second loop is done with a row: it is none of the keys, it has all been
\* consumed, before or just now, or there is no row left to try.
NextBaseRow ==
  /\ pc = "approximate" /\ i <= Len(base)
  /\ ~IsKey(base, i) \/ missing[base[i]] = 0 \/ j = Len(other) + 1
  /\ i' = i + 1 /\ j' = 1
  /\ UNCHANGED <<pc, base, other, missing, extra, reconciled>>

\* Mutant: one row of a pair is consumed, whatever its count.
PairTakesOne ==
  /\ pc = "approximate" /\ i <= Len(base) /\ j <= Len(other)
  /\ IsKey(base, i) /\ missing[base[i]] > 0
  /\ LET close == /\ IsKey(other, j) /\ other[j] # base[i]
                  /\ _values_close(base[i], other[j])
         shared == Least(1, extra[other[j]]) IN
     \/ /\ close /\ Consume(base[i], other[j], shared)
        /\ reconciled' = reconciled + shared
     \/ ~close /\ UNCHANGED <<missing, extra, reconciled>>
  /\ j' = j + 1
  /\ UNCHANGED <<pc, base, other, i>>

\* The inner loop: a close pair of left-over rows is consumed.
Pair ==
  /\ pc = "approximate" /\ i <= Len(base) /\ j <= Len(other)
  /\ IsKey(base, i) /\ missing[base[i]] > 0
  /\ LET close == /\ IsKey(other, j) /\ other[j] # base[i]
                  /\ _values_close(base[i], other[j])
         shared == Least(missing[base[i]], extra[other[j]]) IN
     \/ /\ close /\ Consume(base[i], other[j], shared)
        /\ reconciled' = reconciled + shared
     \/ ~close /\ UNCHANGED <<missing, extra, reconciled>>
  /\ j' = j + 1
  /\ UNCHANGED <<pc, base, other, i>>

\* MultisetDiff: the rows left over on either side, and those reconciled.
Return ==
  /\ pc = "approximate" /\ i = Len(base) + 1
  /\ pc' = "done"
  /\ UNCHANGED <<base, other, missing, extra, reconciled, i, j>>

Next ==
  \/ FetchBase \/ FetchOther \/ Count \/ ExactRow \/ ExactDone
  \/ NextBaseRow \/ Pair \/ Return

Spec == Init /\ [][Next]_vars

\* MultisetDiff.equal: nothing is left on either side.
Equal == \A c \in Cells : missing[c] = 0 /\ extra[c] = 0

-----------------------------------------------------------------------------
(* Properties *)

\* Rows of the two sides paired off: f[k] is the position in other of the row
\* that the k-th of base is paired with, for the k in its domain.
Injective(f) == \A k, l \in DOMAIN f : f[k] = f[l] => k = l
Pairings(domain) == {f \in [domain -> DOMAIN other] : Injective(f)}
Agreeing(f) == \A k \in DOMAIN f : _values_close(base[k], other[f[k]])

\* The reference: all rows can be paired off, each with one that agrees up to
\* the tolerance.
CanBePaired ==
  /\ Len(base) = Len(other)
  /\ \E f \in Pairings(DOMAIN base) : Agreeing(f)

\* A mismatch is never passed: rows that count as equal can be paired off,
\* duplicates counted.
NoFalsePass == pc = "done" /\ Equal => CanBePaired

\* Nor is one made up, unless agreement up to the tolerance is not transitive
\* among the rows at hand.
Rows == {base[k] : k \in DOMAIN base} \cup {other[k] : k \in DOMAIN other}
Transitive == \A a, b, c \in Rows :
  _values_close(a, b) /\ _values_close(b, c) => _values_close(a, c)
NoFalseMismatch == pc = "done" /\ Transitive /\ CanBePaired => Equal

\* How many rows of each kind a pairing leaves over, pairs up as they are, and
\* pairs up through the tolerance.
BaseLeft(f, c) == {k \in DOMAIN base \ DOMAIN f : base[k] = c}
OtherLeft(f, c) ==
  {k \in DOMAIN other : other[k] = c /\ \A l \in DOMAIN f : f[l] # k}
Exact(f, c) == {k \in DOMAIN f : base[k] = c /\ other[f[k]] = c}
Inexact(f) == {k \in DOMAIN f : base[k] # other[f[k]]}

\* A pairing that accounts for what has been consumed so far.
Explains(f) ==
  /\ Agreeing(f)
  /\ \A c \in Cells : /\ missing[c] = Cardinality(BaseLeft(f, c))
                      /\ extra[c] = Cardinality(OtherLeft(f, c))
  /\ reconciled = Cardinality(Inexact(f))

\* What is reported is what cannot be accounted for.  There is a pairing that
\* has as many rows paired with themselves as both sides have of them, as many
\* rows paired through the tolerance as are called reconciled, and exactly the
\* rows reported left over; and no row reported on one side agrees with one
\* reported on the other.
ReportsTheRemainder ==
  pc = "done" =>
    /\ \E domain \in SUBSET DOMAIN base : \E f \in Pairings(domain) :
         /\ Explains(f)
         /\ \A c \in Cells : Cardinality(Exact(f, c)) =
                               Least(Counter(base)[c], Counter(other)[c])
    /\ \A b, o \in Cells :
         missing[b] > 0 /\ extra[o] > 0 => ~_values_close(b, o)

-----------------------------------------------------------------------------
(* The inductive invariant behind the properties                           *)

TypeOK ==
  /\ pc \in {"fetch", "exact", "approximate", "done"}
  /\ base \in Seq(Cells) /\ other \in Seq(Cells)
  /\ missing \in [Cells -> Nat] /\ extra \in [Cells -> Nat]
  /\ reconciled \in Nat
  /\ i \in 1..(Len(base) + 1) /\ j \in 1..(Len(other) + 1)

\* While rows are consumed as they are, every row of a kind that has left is
\* paired with itself; later that number is settled.
ExactSoFar(f) ==
  \A c \in Cells :
    LET exact == Cardinality(Exact(f, c)) IN
    IF pc = "exact"
      THEN /\ exact + missing[c] = Counter(base)[c]
           /\ exact + extra[c] = Counter(other)[c]
      ELSE exact = Least(Counter(base)[c], Counter(other)[c])

\* At every turn of the loops a pairing accounts for what has been consumed.
Accounted ==
  pc # "fetch" =>
    \E domain \in SUBSET DOMAIN base : \E f \in Pairings(domain) :
      Explains(f) /\ ExactSoFar(f)

\* What the loops are done with: no two rows left over there agree.
Clear(b, o) == missing[b] = 0 \/ extra[o] = 0 \/ ~_values_close(b, o)
Visited ==
  /\ pc = "fetch" => i = 1 /\ j = 1 /\ reconciled = 0
  /\ pc = "exact" =>
       /\ j = 1
       /\ \A k \in 1..(i - 1) : missing[base[k]] = 0 \/ extra[base[k]] = 0
  /\ pc \in {"approximate", "done"} =>
       /\ \A c \in Cells : missing[c] = 0 \/ extra[c] = 0
       /\ \A k \in 1..(i - 1), l \in 1..Len(other) : Clear(base[k], other[l])
       /\ i <= Len(base) => \A l \in 1..(j - 1) : Clear(base[i], other[l])
  /\ pc = "done" => i = Len(base) + 1

IInv == TypeOK /\ Accounted /\ Visited
=============================================================================
