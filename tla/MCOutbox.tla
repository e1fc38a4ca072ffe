------------------------------ MODULE MCOutbox ------------------------------
(* Model-checking instance of Outbox: one event both endpoints want, and   *)
(* one that a single endpoint wants.                                       *)
EXTENDS Outbox, TLC

CONSTANTS h1, h2, e1, e2

MCWants == (e1 :> {h1, h2}) @@ (e2 :> {h1})
=============================================================================
