------------------------------- MODULE Fleet --------------------------------
(***************************************************************************)
(* From watchdog scores to DETECTED evidence (fleet.go, ensemble.go, and   *)
(* handleScores, watchOrg and minBadIndex of api.go).                      *)
(*                                                                         *)
(* A frame is folded into the score map in one critical section of the     *)
(* fleet's mutex and the verdict is computed and broadcast in a second     *)
(* one, so frames interleave between the two.  The subscriber's channel    *)
(* has a capacity; a verdict that does not fit is dropped.  watchOrg takes *)
(* verdicts in order and appends a DETECTED event on the rising edge, with *)
(* the lowest index that the low scores name.  An adopted recovery clears  *)
(* the flag and leaves a chain of another length, but not other scores.    *)
(*                                                                         *)
(* A watchdog's view (what its next frame says) changes at any time, and   *)
(* it may be down.  Time is abstracted to a score being fresh or older     *)
(* than staleFor, five cycles, which takes a node that is down.            *)
(***************************************************************************)
EXTENDS Integers, Sequences, FiniteSets, FiniteSetsExt

CONSTANTS
    Nodes,      \* watchdogs
    Quorum,     \* low scores needed for a verdict
    Cap,        \* capacity of a subscription (16 in the code)
    MaxLen      \* chain lengths from MaxLen on are not told apart

ASSUME FleetParams == Quorum \in Nat \ {0} /\ Cap \in Nat \ {0} /\ MaxLen \in Nat \ {0}

VARIABLES
    up,         \* watchdogs that run
    view,       \* view[n]: what n sees: an index that is bad, NoIndex, or -1
    scores,     \* FleetServer.scores: [bad, fresh], bad = -1 for a high score
    enrolled,   \* nodes with an entry in scores
    inflight,   \* nodes whose Ingest is between its two critical sections
    chan,       \* verdicts queued for watchOrg: [det, bad]
    detected,   \* Tenant.detected
    len,        \* length of the timeline
    anchor,     \* the latest DETECTED event: [at, bad], at = -1 when none
    current     \* the newest verdict was queued and describes the scores (history)

vars == <<up, view, scores, enrolled, inflight, chan, detected, len, anchor, current>>

\* A low score whose evidence names no index.
NoIndex == MaxLen + 1

NoScore == [bad |-> -1, fresh |-> FALSE]

NoAnchor == [at |-> -1, bad |-> 0]

AtMost(n) == Min({n, MaxLen})

Init ==
    /\ up = Nodes
    /\ view = [n \in Nodes |-> -1]
    /\ scores = [n \in Nodes |-> NoScore]
    /\ enrolled = {}
    /\ inflight = {}
    /\ chan = <<>>
    /\ detected = FALSE
    /\ len = 0
    /\ anchor = NoAnchor
    /\ current = TRUE
-----------------------------------------------------------------------------
(* The fleet server                                                        *)

\* A watchdog starts or stops to see damage at one of the chain's events, or
\* damage it cannot place.
Look(n, bad) ==
    /\ bad < len \/ bad = NoIndex
    /\ view' = [view EXCEPT ![n] = bad]
    /\ UNCHANGED <<up, scores, enrolled, inflight, chan, detected, len, anchor, current>>

\* A watchdog stops, or is started again.
Toggle(n) ==
    /\ up' = IF n \in up THEN up \ {n} ELSE up \cup {n}
    /\ UNCHANGED <<view, scores, enrolled, inflight, chan, detected, len, anchor, current>>

\* Mutant of Ingest: the map keeps a node's low score when a clean one comes.
IngestWorst(n) ==
    /\ n \in up \ inflight
    /\ scores' = [scores EXCEPT ![n] =
                    [bad |-> IF view[n] < 0 THEN @.bad ELSE view[n], fresh |-> TRUE]]
    /\ enrolled' = enrolled \cup {n}
    /\ inflight' = inflight \cup {n}
    /\ UNCHANGED <<up, view, chan, detected, len, anchor, current>>

\* Ingest, first critical section.
Ingest(n) ==
    /\ n \in up \ inflight
    /\ scores' = [scores EXCEPT ![n] = [bad |-> view[n], fresh |-> TRUE]]
    /\ enrolled' = enrolled \cup {n}
    /\ inflight' = inflight \cup {n}
    /\ UNCHANGED <<up, view, chan, detected, len, anchor, current>>

Fresh == {n \in enrolled : scores[n].fresh}

Low == {n \in Fresh : scores[n].bad >= 0}

Detect == Cardinality(Low) >= Quorum

\* minBadIndex over the fresh low scores.
MinBadIndex ==
    LET named == {scores[n].bad : n \in Low} \ {NoIndex}
    IN  IF named = {} THEN -1 ELSE Min(named)

Verdict == [det |-> Detect, bad |-> MinBadIndex]

\* Mutant of Emit: the verdict leaves the new score out.
EmitWithoutOwn(n) ==
    /\ n \in inflight
    /\ inflight' = inflight \ {n}
    /\ IF Len(chan) < Cap
         THEN /\ chan' = Append(chan, [Verdict EXCEPT !.det = Cardinality(Low \ {n}) >= Quorum])
              /\ current' = TRUE
         ELSE current' = FALSE /\ UNCHANGED chan
    /\ UNCHANGED <<up, view, scores, enrolled, detected, len, anchor>>

\* emit: the verdict over what the map holds now, broadcast without blocking.
Emit(n) ==
    /\ n \in inflight
    /\ inflight' = inflight \ {n}
    /\ IF Len(chan) < Cap
         THEN chan' = Append(chan, Verdict) /\ current' = TRUE
         ELSE current' = FALSE /\ UNCHANGED chan
    /\ UNCHANGED <<up, view, scores, enrolled, detected, len, anchor>>

\* A node has been silent for staleFor; emit skips its score from now on.
Expire(n) ==
    /\ n \in Fresh \ up
    /\ scores' = [scores EXCEPT ![n].fresh = FALSE]
    /\ current' = FALSE
    /\ UNCHANGED <<up, view, enrolled, inflight, chan, detected, len, anchor>>
-----------------------------------------------------------------------------
(* The gateway                                                             *)

\* watchOrg, one verdict: append on the rising edge (which raises the flag even
\* when the chain has no signing key and the append fails), lower the flag on a
\* clear one.
Watch ==
    /\ chan # <<>>
    /\ chan' = Tail(chan)
    /\ LET v == Head(chan)
           bad == IF v.bad < 0 THEN len ELSE v.bad
       IN  /\ detected' = v.det
           /\ \/ /\ v.det /\ ~detected
                 /\ len' = AtMost(len + 1)
                 /\ anchor' = [at |-> len, bad |-> bad]
              \/ UNCHANGED <<len, anchor>>
    /\ UNCHANGED <<up, view, scores, enrolled, inflight, current>>

\* Any other event.
Extend ==
    /\ len < MaxLen
    /\ len' = len + 1
    /\ UNCHANGED <<up, view, scores, enrolled, inflight, chan, detected, anchor, current>>

\* handleRecover: the fork keeps n events and adds the handoff and the commit;
\* the watchdogs see a clean chain, the score map is not touched.
Adopt(n) ==
    /\ anchor # NoAnchor
    /\ n < len
    /\ len' = AtMost(n + 2)
    /\ anchor' = NoAnchor
    /\ view' = [m \in Nodes |-> -1]
    /\ detected' = FALSE
    /\ current' = FALSE
    /\ UNCHANGED <<up, scores, enrolled, inflight, chan>>

Next ==
    \/ \E n \in Nodes :
         Ingest(n) \/ Emit(n) \/ Expire(n) \/ Toggle(n) \/ \E b \in -1..NoIndex : Look(n, b)
    \/ Watch
    \/ Extend
    \/ \E n \in 0..MaxLen : Adopt(n)

Spec == Init /\ [][Next]_vars

\* Every watchdog that runs sends a frame each cycle, the handler that took it
\* finishes, the watcher goroutine runs, and time passes.
FairSpec == /\ Spec
            /\ \A n \in Nodes : WF_vars(Ingest(n)) /\ WF_vars(Emit(n)) /\ WF_vars(Expire(n))
            /\ WF_vars(Watch)
-----------------------------------------------------------------------------
(* Properties                                                              *)

Verdicts == [det : BOOLEAN, bad : -1..MaxLen]

\* Type correctness.
TypeOK ==
    /\ up \subseteq Nodes
    /\ view \in [Nodes -> -1..NoIndex]
    /\ scores \in [Nodes -> [bad : -1..NoIndex, fresh : BOOLEAN]]
    /\ enrolled \subseteq Nodes /\ inflight \subseteq Nodes
    /\ chan \in Seq(Verdicts)
    /\ Len(chan) <= Cap
    /\ detected \in BOOLEAN
    /\ len \in 0..MaxLen
    /\ anchor \in [at : -1..MaxLen, bad : 0..MaxLen]
    /\ current \in BOOLEAN

\* However the two critical sections of several frames interleave, once all
\* frames are through and the watcher has caught up, the organisation's flag
\* is the verdict over the scores as they are, provided that the last verdict
\* was neither dropped nor outdated by silence or by an adoption.
AgreesWhenQuiet ==
    (inflight = {} /\ chan = <<>> /\ current) => detected = Detect

Sees(n) == n \in up /\ view[n] >= 0

Clean(n) == n \in up /\ view[n] < 0

\* Damage that a quorum of running watchdogs keeps seeing is flagged again and
\* again, whatever verdicts are dropped, scores expire, nodes come and go, and
\* recoveries reset the flag.
LastingDamageFlagged ==
    \A Q \in SUBSET Nodes : Cardinality(Q) >= Quorum =>
        (<>[](\A n \in Q : Sees(n)) => []<>detected)

\* Once all but fewer than a quorum are clean or down for good, the flag goes
\* and stays down, the scores of silent nodes notwithstanding; it takes one
\* node that runs, since a verdict is made only when a frame comes in.
FlagGoesDown ==
    \A C \in SUBSET Nodes \ {{}}, D \in SUBSET Nodes :
        Cardinality(Nodes \ (C \cup D)) < Quorum =>
            (<>[]((\A n \in C : Clean(n)) /\ D \cap up = {}) => <>[]~detected)

\* In the long run the flag is up when a quorum sees damage and down when it
\* does not, whatever the bounded subscription drops.
FlagFollowsDamage == LastingDamageFlagged /\ FlagGoesDown
-----------------------------------------------------------------------------
(* Claims of the documentation that the code does not keep                 *)

\* docs/10-gateway.md: "DETECTED (evidence carries the rollback anchor)": the
\* index names a point of the chain it is recorded on.
AnchorOnChain == anchor = NoAnchor \/ anchor.bad <= anchor.at
=============================================================================
