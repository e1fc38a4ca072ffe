----------------------------- MODULE HandoffLog -----------------------------
(***************************************************************************)
(* What the recovery council promises its operators, whatever the protocol *)
(* does underneath: the handoffs form one log.  Epochs are handed over in  *)
(* order, without gaps, each of them once and to one recovery, for ever.   *)
(***************************************************************************)
EXTENDS Naturals

CONSTANT Recoveries     \* recovery attempts that may end in a handoff

VARIABLE log            \* the handoffs published: a set of [epoch, by]

Epochs == {h.epoch : h \in log}

Init == log = {}

\* A recovery extends the log: its epoch is free and follows the newest one.
HandOver(r) ==
    \E e \in {1} \cup {x + 1 : x \in Epochs} :
        /\ e \notin Epochs
        /\ log' = log \cup {[epoch |-> e, by |-> r]}

Next == \E r \in Recoveries : HandOver(r)

Spec == Init /\ [][Next]_log
=============================================================================
