--------------------------- MODULE MCWatchedChain ---------------------------
(* Model-checking instance of WatchedChain.                                *)
EXTENDS WatchedChain

Symmetry == Permutations(Certs)
=============================================================================
