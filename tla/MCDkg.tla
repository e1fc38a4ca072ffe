------------------------------- MODULE MCDkg --------------------------------
(* Model-checking instance of Dkg; members are ordered, so no symmetry.    *)
EXTENDS Dkg
=============================================================================
