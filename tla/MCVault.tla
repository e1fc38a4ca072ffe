------------------------------ MODULE MCVault -------------------------------
(* Model-checking instance of Vault.                                       *)
EXTENDS Vault, TLC

Symmetry == Permutations(Orgs)
=============================================================================
