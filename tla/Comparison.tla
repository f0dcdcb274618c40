----------------------------- MODULE Comparison -----------------------------
(***************************************************************************)
(* One query, run on both sides (eqgen/fuzz/compare.py): the comparison    *)
(* compare_one builds from the two outcomes, and the predicates by which   *)
(* the report classifies it.                                               *)
(***************************************************************************)
EXTENDS Naturals

\* What Database.query returns: rows, an error, or an error that the adapter
\* recognises.  It never has both rows and an error.
QueryOutcomes == {"rows", "error", "known_issue"}

\* What compare_multisets returns; one reconciled row stands for any number.
MultisetDiffs == [equal : BOOLEAN, reconciled : 0..1]

\* Each side has had its own attempt; the base's known issue is not kept.
compare_one(base, equivalent, diff) ==
  IF base = "rows" /\ equivalent = "rows"
    THEN [equal |-> diff.equal, reconciled |-> diff.reconciled,
          base_error |-> FALSE, equivalent_error |-> FALSE,
          equivalent_known_issue |-> FALSE]
    ELSE [equal |-> FALSE, reconciled |-> 0,
          base_error |-> base # "rows",
          equivalent_error |-> equivalent # "rows",
          equivalent_known_issue |-> equivalent = "known_issue"]

QueryComparisons ==
  {compare_one(b, e, d) : b \in QueryOutcomes, e \in QueryOutcomes,
                          d \in MultisetDiffs}

is_uncomparable(c) == c.base_error
is_pass(c) == ~c.base_error /\ ~c.equivalent_error /\ c.equal
is_known_issue(c) == ~c.base_error /\ c.equivalent_known_issue
is_error(c) ==
  ~c.base_error /\ c.equivalent_error /\ ~c.equivalent_known_issue
is_mismatch(c) == ~c.base_error /\ ~c.equivalent_error /\ ~c.equal
is_reportable(c) == is_error(c) \/ is_mismatch(c)
=============================================================================
