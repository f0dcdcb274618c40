----------------------------- MODULE MCCampaign -----------------------------
(* Instances of the campaign.  A round answers at most two queries, and      *)
(* the comparisons include one of every class.                               *)
EXTENDS Campaign

SomeDiff == [equal |-> TRUE, reconciled |-> 0]
Mismatch == compare_one("rows", "rows", [equal |-> FALSE, reconciled |-> 0])
Error == compare_one("rows", "error", SomeDiff)
SomeComparisons ==
  {Mismatch, Error,
   compare_one("rows", "rows", SomeDiff),
   compare_one("rows", "known_issue", SomeDiff),
   compare_one("known_issue", "known_issue", SomeDiff)}

\* Every comparison alone, two findings of one kind, and findings of each kind.
SomeResults ==
  {<<>>, <<Mismatch, Mismatch>>, <<Error, Mismatch>>}
    \cup {<<c>> : c \in SomeComparisons}

\* A diverged object, like a failed setup, makes the rest of no account.
MCOutcomes ==
  {o \in [setup_error : BOOLEAN, setup_crash : BOOLEAN,
          object : {"none", "equal", "diverged"}, results : SomeResults,
          crashed : BOOLEAN, note : {"none", "hung", "signal"}] :
     /\ WellFormed(o)
     /\ o.object = "diverged" => o.results \in {<<>>, <<Mismatch>>}}
=============================================================================
