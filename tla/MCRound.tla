------------------------------ MODULE MCRound ------------------------------
(* Model values for the round: two verdicts are enough, since run_round never *)
(* looks at one.                                                              *)
EXTENDS Round

MCVerdicts == {"pass", "mismatch"}
=============================================================================
