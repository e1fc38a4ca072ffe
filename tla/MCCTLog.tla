------------------------------ MODULE MCCTLog -------------------------------
(* Model-checking instance of CTLog.                                       *)
EXTENDS CTLog, TLC

Symmetry == Permutations(Reporters)
=============================================================================
