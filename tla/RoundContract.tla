--------------------------- MODULE RoundContract ---------------------------
(***************************************************************************)
(* What run_round (eqgen/fuzz/round.py) promises the campaign: the queries *)
(* it pulls are answered one after the other, and the round settles once   *)
(* and for all on one fate, however its worker behaves.                    *)
(***************************************************************************)
EXTENDS Naturals, Sequences

CONSTANTS Verdicts, MaxQueries

VARIABLES
  answered,   \* the verdicts, in the order the queries were pulled
  fate        \* "open" until the round settles

vars == <<answered, fate>>

Init == answered = <<>> /\ fate = "open"

\* The next query has a verdict.
Answer(v) ==
  /\ fate = "open" /\ Len(answered) < MaxQueries
  /\ answered' = Append(answered, v)
  /\ UNCHANGED fate

\* The equivalence did not build or the engine died building it: a round that
\* has answered a query is never discarded this way.
Discard == fate = "open" /\ answered = <<>> /\ fate' = "discarded"

\* The source ended, the budget ran out, or a query took the engine down; the
\* last needs a query that has no answer.
Settle ==
  /\ fate = "open"
  /\ \/ fate' = "finished"
     \/ Len(answered) < MaxQueries /\ fate' = "crashed"

\* Ctrl-C, an exception of the query source, or a message cut off by a crash.
Raise == fate = "open" /\ fate' = "raised"

Next ==
  \/ \E v \in Verdicts : Answer(v)
  \/ (Discard \/ Settle \/ Raise) /\ UNCHANGED answered

Spec == Init /\ [][Next]_vars

\* The round does settle: what run_round owes the campaign besides safety.
Settles == <>(fate # "open")
=============================================================================
