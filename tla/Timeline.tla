------------------------------ MODULE Timeline ------------------------------
(***************************************************************************)
(* The trust timeline (timeline.go) and what recovery derives from it      *)
(* (rollback.go, graph.go, council.go): a hash chain of signed events,     *)
(* the walk that verifies it across key switches, forks, the fold into     *)
(* certificate states, the invalidation set and the re-issuance.           *)
(*                                                                         *)
(* Operators only.  A digest is an injective tag around the event, so two  *)
(* digests are equal iff algorithm and event are; a key pair is one value, *)
(* and a signature is the key that made it (Forged when none did).         *)
(* Indices are the code's: the event with index i is events[i + 1].        *)
(***************************************************************************)
EXTENDS Integers, Sequences, FiniteSets, SequencesExt

CONSTANTS
    None,       \* nil: no hash, no key, no via certificate
    Forged      \* a signature that no key produced

\* The fields an event's payload can carry, blank until a constructor or the
\* append fills them in.
Blank == [type |-> None, cert |-> None, id |-> None, via |-> None, num |-> 0,
          pub |-> None, cp |-> None, by |-> None, parent |-> None, sig |-> None]

IssueEv(c, i, v)  == [Blank EXCEPT !.type = "ISSUE", !.cert = c, !.id = i, !.via = v]
RevokeEv(c)       == [Blank EXCEPT !.type = "REVOKE", !.cert = c]
DetectedEv(bad)   == [Blank EXCEPT !.type = "DETECTED", !.num = bad]
RotateEv(pub)     == [Blank EXCEPT !.type = "KEY_ROTATE", !.pub = pub]
CommitEv(epoch)   == [Blank EXCEPT !.type = "COMMIT", !.num = epoch]
\* The council's FrostCommit: epoch, checkpoint, new root key, and the group
\* key under which its aggregated signature verifies.
RecoveryEv(epoch, cp, pub, by) ==
    [Blank EXCEPT !.type = "RECOVERY", !.num = epoch, !.cp = cp, !.pub = pub, !.by = by]

Digest(algo, e) == <<algo, e>>
Hash(e) == Digest("sha256", e)

NewTimeline(key, algo) ==
    [events |-> <<>>, key |-> key, pub |-> key, start |-> key,
     council |-> None, rotations |-> <<>>, algo |-> algo]

\* head(): the link digest of the last event, nil for an empty chain.
HeadOf(tl) ==
    IF tl.events = <<>> THEN None ELSE Digest(tl.algo, Last(tl.events))

\* append(): callers test tl.key first, a read-only timeline returns an error.
AppendEv(tl, body) ==
    [tl EXCEPT !.events =
        Append(@, [body EXCEPT !.parent = HeadOf(tl), !.sig = tl.key])]

AppendAll(tl, bodies) ==
    LET upTo[n \in 0..Len(bodies)] ==
            IF n = 0 THEN tl ELSE AppendEv(upTo[n - 1], bodies[n])
    IN  upTo[Len(bodies)]

\* Mutant of RotateKey: the rotation is signed by the incoming key.
RotateKeySwapped(tl, new) ==
    LET t == AppendEv([tl EXCEPT !.key = new], RotateEv(new))
    IN  [t EXCEPT !.rotations = Append(@, [at |-> Len(t.events) - 1, key |-> tl.key]),
                  !.key = new, !.pub = new]

RotateKey(tl, new) ==
    LET t == AppendEv(tl, RotateEv(new))
    IN  [t EXCEPT !.rotations = Append(@, [at |-> Len(t.events) - 1, key |-> tl.key]),
                  !.key = new, !.pub = new]
-----------------------------------------------------------------------------
(* Verification                                                            *)

Switches == {"KEY_ROTATE", "RECOVERY"}

\* The key named by the latest of the switch events with the given indices.
KeyAfter(tl, idxs) ==
    IF idxs = {} THEN tl.start ELSE tl.events[Max(idxs) + 1].pub

\* The key that must have signed event i: a RECOVERY is signed by the key it
\* installs, a KEY_ROTATE by the key it retires.
KeyInForce(tl, i) ==
    KeyAfter(tl, {j \in 0..i : \/ tl.events[j + 1].type = "RECOVERY"
                               \/ tl.events[j + 1].type = "KEY_ROTATE" /\ j < i})

\* What event i must chain to.
Expected(tl, i) == IF i = 0 THEN None ELSE Digest(tl.algo, tl.events[i])

BadEvent(tl, i) ==
    LET e == tl.events[i + 1]
    IN  \/ e.parent # Expected(tl, i)
        \/ /\ e.type = "RECOVERY"
           /\ \/ tl.council = None
              \/ e.by # tl.council
              \/ e.cp # Expected(tl, i)
        \/ e.sig # KeyInForce(tl, i)

\* walkVerify over events[0..n): the first bad index, or -1.
WalkVerify(tl, n) ==
    LET bad == {i \in 0..n - 1 : BadEvent(tl, i)}
    IN  IF bad = {} THEN -1 ELSE Min(bad)

LocateBadEvent(tl) == WalkVerify(tl, Len(tl.events))
Verify(tl) == LocateBadEvent(tl) = -1
VerifyPrefix(tl, n) == WalkVerify(tl, Min({n, Len(tl.events)})) = -1
-----------------------------------------------------------------------------
(* Forks                                                                   *)

PubForPrefix(tl, idx) ==
    KeyAfter(tl, {j \in 0..idx : tl.events[j + 1].type \in Switches})

\* The signing key current at event idx: the first rotation at or after idx
\* keeps it, past the last rotation the live key applies.
KeyAt(tl, idx) ==
    LET later == {k \in DOMAIN tl.rotations : tl.rotations[k].at >= idx}
    IN  IF later = {} THEN tl.key ELSE tl.rotations[Min(later)].key

\* Fork(atHash); None when the checkpoint is not in the timeline.
Fork(tl, h) ==
    LET at == {i \in 0..Len(tl.events) - 1 : Hash(tl.events[i + 1]) = h}
        idx == Max(at)
        start == PubForPrefix(tl, idx)
    IN  IF at = {} THEN None
        ELSE [events |-> SubSeq(tl.events, 1, idx + 1), key |-> KeyAt(tl, idx),
              pub |-> start, start |-> start, council |-> tl.council,
              rotations |-> <<>>, algo |-> tl.algo]

RollbackCheckpoint(tl, bad) ==
    IF bad <= 0 THEN None ELSE Hash(tl.events[bad])

\* A compromise from genesis rolls back to an empty SHA-256 chain.
Rollback(tl, bad) ==
    IF bad <= 0 THEN NewTimeline(tl.key, "sha256")
    ELSE Fork(tl, RollbackCheckpoint(tl, bad))

\* Marshal then UnmarshalTimeline: the signing key travels only on request,
\* the keys rotated away never do.
Reloaded(tl, includeKey) ==
    [tl EXCEPT !.key = IF includeKey THEN @ ELSE None, !.rotations = <<>>]
-----------------------------------------------------------------------------
(* Certificate states                                                      *)

\* Mutant of FoldEvent: issuing a revoked certificate again revives it.
FoldEventRevives(s, e) ==
    CASE e.type = "ISSUE" ->
           [c \in DOMAIN s \cup {e.cert} |->
              IF c = e.cert THEN [id |-> e.id, revoked |-> FALSE] ELSE s[c]]
      [] e.type = "REVOKE" /\ e.cert \in DOMAIN s ->
           [s EXCEPT ![e.cert].revoked = TRUE]
      [] OTHER -> s

FoldEvent(s, e) ==
    CASE e.type = "ISSUE" /\ ~(e.cert \in DOMAIN s /\ s[e.cert].revoked) ->
           [c \in DOMAIN s \cup {e.cert} |->
              IF c = e.cert THEN [id |-> e.id, revoked |-> FALSE] ELSE s[c]]
      [] e.type = "REVOKE" /\ e.cert \in DOMAIN s ->
           [s EXCEPT ![e.cert].revoked = TRUE]
      [] OTHER -> s

\* The state derived from a sequence of events: cert -> [id, revoked].
Fold(events) ==
    LET upTo[n \in 0..Len(events)] ==
            IF n = 0 THEN <<>> ELSE FoldEvent(upTo[n - 1], events[n])
    IN  upTo[Len(events)]

LiveCerts(s) == {c \in DOMAIN s : ~s[c].revoked}
RevokedCerts(s) == {c \in DOMAIN s : s[c].revoked}
-----------------------------------------------------------------------------
(* Blast radius and re-issuance                                            *)

\* BuildGraph and Reachable, from certificate nodes: an identity node has no
\* incoming edge, so only the via edges are ever followed.
Issues(events) == {e \in ToSet(events) : e.type = "ISSUE"}

\* Mutant of Reachable: looks at the seeds' direct children only.
ReachableOnce(events, seeds) ==
    seeds \cup {e.cert : e \in {x \in Issues(events) : x.via \in seeds}}

Reachable(events, seeds) ==
    LET issues == Issues(events)
        step[n \in 0..Cardinality(issues)] ==
            IF n = 0 THEN seeds
            ELSE step[n - 1] \cup {e.cert : e \in {x \in issues : x.via \in step[n - 1]}}
    IN  step[Cardinality(issues)]

BadWindow(events, bad) == SubSeq(events, bad + 1, Len(events))

\* Mutant of AffectedCerts: revocations of the window are not seeds.
AffectedIssuedOnly(events, bad) ==
    Reachable(events, {e.cert : e \in Issues(BadWindow(events, bad))})

\* Mutant of AffectedCerts: identities are supernodes.
AffectedByIdentity(events, bad) ==
    LET hit == {e.id : e \in Issues(BadWindow(events, bad))}
    IN  Reachable(events, {e.cert : e \in {x \in Issues(events) : x.id \in hit}}
                          \cup {e.cert : e \in {x \in ToSet(BadWindow(events, bad)) :
                                                   x.type = "REVOKE"}})

\* InvalidationSet: certificates issued or revoked in the bad window and all
\* that was issued via them; identities named by the window's issuances.
AffectedCerts(events, bad) ==
    Reachable(events, {e.cert : e \in {x \in ToSet(BadWindow(events, bad)) :
                                          x.type \in {"ISSUE", "REVOKE"}}})

AffectedIds(events, bad) == {e.id : e \in Issues(BadWindow(events, bad))}

\* The id of the certificate a recovery at this epoch re-issues for i.
ReissuedName(i, epoch) == <<i, epoch + 1>>

\* reissueOnFork: the code ranges over maps, so each half comes in an order of
\* the runtime's choosing; one fixed order stands for all, since no two events
\* of a half touch the same certificate.
ReissueOnFork(fork, certs, ids, epoch) ==
    LET issue(i) == IssueEv(ReissuedName(i, epoch), i, None)
    IN  AppendAll(fork, SetToSeq({issue(i) : i \in ids})
                        \o SetToSeq({RevokeEv(c) : c \in certs}))

\* lastEpoch: the highest epoch of a COMMIT event.
LastEpoch(tl) ==
    Max({0} \cup {e.num : e \in {x \in ToSet(tl.events) : x.type = "COMMIT"}})

\* SignCommit: the council's threshold signature on the handoff to the new root.
SignCommit(tl, bad, root, epoch) ==
    RecoveryEv(epoch + 1, RollbackCheckpoint(tl, bad), root, tl.council)

\* finishRecovery, and the tail of RemoteRecover: roll back, hand over to the
\* new root, re-issue, commit.
RecoveryFork(tl, bad, root, epoch) ==
    LET base == [Rollback(tl, bad) EXCEPT !.key = root, !.pub = root,
                                          !.council = tl.council]
        handoff == AppendEv(base, SignCommit(tl, bad, root, epoch))
        reissued == ReissueOnFork(handoff, AffectedCerts(tl.events, bad),
                                  AffectedIds(tl.events, bad), epoch)
    IN  AppendEv(reissued, CommitEv(epoch + 1))

\* VerifyRecovery: P3 no resurrection, P5 minimal blast.
P3(pre, post) ==
    \A c \in RevokedCerts(pre) : c \in DOMAIN post /\ post[c] = pre[c]

P5(pre, post, certs, ids) ==
    /\ \A c \in DOMAIN pre \ certs : c \in DOMAIN post /\ post[c] = pre[c]
    /\ \A c \in DOMAIN post \ DOMAIN pre : post[c].id \in ids

VerifyRecovery(pre, post, certs, ids) == P3(pre, post) /\ P5(pre, post, certs, ids)
=============================================================================
