---------------------------- MODULE MCMultisets ----------------------------
(* Four cells in a chain, each close to its neighbours only, and one apart.  *)
EXTENDS Multisets

MCCells == {1, 2, 3, 4, 9}
=============================================================================
