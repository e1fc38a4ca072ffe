---------------------------- MODULE MCCouncilNet ----------------------------
(* Small instances of CouncilNet for TLC.                                  *)
EXTENDS CouncilNet, TLC

\* Members are interchangeable, and so are invocations.
Symmetry == Permutations(Members) \cup Permutations(Initiators)
=============================================================================
