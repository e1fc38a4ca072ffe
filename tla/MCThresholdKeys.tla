-------------------------- MODULE MCThresholdKeys ---------------------------
(* Model-checking instance of ThresholdKeys.                               *)
EXTENDS ThresholdKeys

MCNonce == [m \in Seats |-> [d |-> m % L, e |-> (m + 1) % L, rho |-> (2 * m + 1) % L]]
MCBlind == [a |-> 2, b |-> 3]
=============================================================================
