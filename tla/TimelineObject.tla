--------------------------- MODULE TimelineObject ---------------------------
(* One Timeline object, and the names that its events and its council have. *)
EXTENDS Timeline

CONSTANTS
    Certs,      \* certificate ids that operators use
    Council     \* the council's group key, the gateway's trust anchor

VARIABLE tl     \* the Timeline
=============================================================================
