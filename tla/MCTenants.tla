----------------------------- MODULE MCTenants ------------------------------
(* Model-checking instance of Tenants.                                     *)
EXTENDS Tenants, TLC

Symmetry == Permutations(Orgs) \cup Permutations(Requests) \cup Permutations(Objs)
=============================================================================
