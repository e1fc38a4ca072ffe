--------------------------- MODULE MCOrgRecovery ----------------------------
(* Model-checking instance of OrgRecovery.                                 *)
EXTENDS OrgRecovery

Symmetry == Permutations(Certs) \cup Permutations(Ids)
=============================================================================
