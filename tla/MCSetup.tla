------------------------------- MODULE MCSetup -------------------------------
(* One or two forks of one base table; the bounds are in MCSetup.cfg. *)
EXTENDS Setup
=============================================================================
