----------------------------- MODULE MCEngines -----------------------------
(* All engines, with rounds of two queries.                                *)
EXTENDS Engines
=============================================================================
