------------------------------ MODULE MCFleet -------------------------------
(* Model-checking instance of Fleet.                                       *)
EXTENDS Fleet, TLC

Symmetry == Permutations(Nodes)
=============================================================================
