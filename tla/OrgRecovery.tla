---------------------------- MODULE OrgRecovery -----------------------------
(***************************************************************************)
(* One organisation's timeline at the gateway (api.go): operators issue    *)
(* and revoke, the fleet watcher appends DETECTED evidence, the council    *)
(* turns a copy of the timeline into a recovery fork offline, and the      *)
(* gateway adopts a submitted fork.  Between the copy and the adoption the *)
(* gateway keeps serving, and several forks may be outstanding.            *)
(*                                                                         *)
(* Each gateway action is one critical section of Store.mu.  What the      *)
(* council has signed is what Recover (the to-council command, whose epoch *)
(* counter starts at 0 in every process) or RemoteRecover would return;    *)
(* the signing protocol itself is module CouncilNet.                       *)
(***************************************************************************)
EXTENDS TimelineObject

CONSTANTS
    Ids,            \* identities
    MaxOps,         \* bound on appended issues, revocations and detections
    MaxRecoveries   \* bound on council recoveries

ASSUME NamesFresh == None \notin Certs \cup Ids /\ Council # None
ASSUME OpBounds == MaxOps \in Nat /\ MaxRecoveries \in Nat

VARIABLES
    detected,   \* Tenant.detected
    forks,      \* recovery artifacts produced so far: [pre, bad, fork]
    ops         \* appends so far

orgVars == <<tl, detected, forks, ops>>

\* Root keys are numbered: 0 signs the first chain, recovery n installs n.
Root(n) == n

State == Fold(tl.events)

HoldsKey == tl.key # None

OrgInit ==
    /\ tl = [NewTimeline(Root(0), "sha256") EXCEPT !.council = Council]
    /\ detected = FALSE
    /\ forks = {}
    /\ ops = 0
-----------------------------------------------------------------------------
(* The gateway                                                             *)

AppendAndSave(body) ==
    /\ HoldsKey
    /\ ops < MaxOps
    /\ tl' = AppendEv(tl, body)
    /\ ops' = ops + 1

\* handleIssue; any operator may name any certificate, known or not.
Issue(c, i, v) ==
    /\ AppendAndSave(IssueEv(c, i, v))
    /\ UNCHANGED <<detected, forks>>

Revoke(c) ==
    /\ AppendAndSave(RevokeEv(c))
    /\ UNCHANGED <<detected, forks>>

\* watchOrg on a DETECTED verdict: minBadIndex gives any index up to the
\* chain's length.
Detect(bad) ==
    /\ ~detected
    /\ AppendAndSave(DetectedEv(bad))
    /\ detected' = TRUE
    /\ UNCHANGED forks

\* watchOrg when the timeline is read-only: the append fails, the flag is set.
DetectReadOnly ==
    /\ ~detected /\ ~HoldsKey
    /\ detected' = TRUE
    /\ UNCHANGED <<tl, forks, ops>>

\* watchOrg on a verdict that is not DETECTED.
AllClear ==
    /\ detected
    /\ detected' = FALSE
    /\ UNCHANGED <<tl, forks, ops>>
-----------------------------------------------------------------------------
(* The council                                                             *)

Evidence == {i \in DOMAIN tl.events : tl.events[i].type = "DETECTED"}

\* The epoch a recovery builds on: the networked path reads it off the
\* timeline, the command line starts from a fresh Council.
BaseEpoch(net) == IF net THEN LastEpoch(tl) ELSE 0

\* Members re-verify the bare fork and want a checkpoint (councilnet.go).
MembersAgree(bad) == bad > 0 /\ Verify(Rollback(tl, bad))

\* evidenceBadIndex: the index that the latest evidence carries.
BadIndex == tl.events[Max(Evidence)].num

\* Council.Recover with a quorum of shares, up to the signing: the kept prefix
\* verifies.  A genesis rollback needs the chain's signing key in the copy.
EvidenceHolds(bad) == VerifyPrefix(tl, bad) /\ (bad = 0 => HoldsKey)

\* The council works on the copy of the timeline that comes with the latest
\* evidence.
CouncilRecover(net) ==
    /\ Evidence # {}
    /\ Cardinality(forks) < MaxRecoveries
    /\ LET bad == BadIndex
           epoch == BaseEpoch(net)
       IN  /\ EvidenceHolds(bad)
           /\ net => MembersAgree(bad)
           /\ forks' = forks \cup
                {[pre |-> tl, bad |-> bad,
                  fork |-> RecoveryFork(tl, bad, Root(Cardinality(forks) + 1), epoch)]}
    /\ UNCHANGED <<tl, detected, ops>>
-----------------------------------------------------------------------------
(* Adoption: handleRecover                                                 *)

Handoffs(events) == {i \in DOMAIN events : events[i].type = "RECOVERY"}

\* Events before the fork's first handoff are exactly the org's events.
Descends(fork) ==
    LET n == Min(Handoffs(fork.events)) - 1
    IN  /\ Len(tl.events) >= n
        /\ \A i \in 1..n : Hash(tl.events[i]) = Hash(fork.events[i])

\* Mutant of Adoptable: the epoch is not compared.
AdoptableReplay(fork) ==
    Verify(fork) /\ Handoffs(fork.events) # {} /\ Descends(fork)

Adoptable(fork) ==
    /\ Verify(fork)
    /\ Handoffs(fork.events) # {}
    /\ Descends(fork)
    /\ LastEpoch(fork) > LastEpoch(tl)

\* Mutant of Adopt: the organisation goes on signing with the key it had.
AdoptKeepingKey(r, includeKey) ==
    /\ Adoptable(r.fork)
    /\ tl' = [Reloaded(r.fork, includeKey) EXCEPT !.key = tl.key]
    /\ detected' = FALSE
    /\ UNCHANGED <<forks, ops>>

\* The artifact carries the new root's signing key or not: to-council writes
\* fork.json without it, a caller of the library may marshal it with.
\* The checks of the request's form and of the council's quorum signature
\* (api.go:798-807) pass for every fork the council made. When the save that
\* follows fails the fork is in force all the same: the caller gets an error,
\* the state here is that of Adopt.
Adopt(r, includeKey) ==
    /\ Adoptable(r.fork)
    /\ tl' = Reloaded(r.fork, includeKey)
    /\ detected' = FALSE
    /\ UNCHANGED <<forks, ops>>

OrgNext ==
    \/ \E c \in Certs, i \in Ids, v \in Certs \cup {None} : Issue(c, i, v)
    \/ \E c \in Certs : Revoke(c)
    \/ \E bad \in 0..Len(tl.events) : Detect(bad)
    \/ DetectReadOnly
    \/ AllClear
    \/ \E net \in BOOLEAN : CouncilRecover(net)
    \/ \E r \in forks, k \in BOOLEAN : Adopt(r, k)

OrgSpec == OrgInit /\ [][OrgNext]_orgVars
-----------------------------------------------------------------------------
(* Properties                                                              *)

\* Whatever is issued, revoked, detected and adopted, in any order, the chain
\* the gateway serves verifies end to end (Timeline.Verify), and the key it
\* signs with, when it holds one, is the one verifiers expect next.
ChainVerifies ==
    /\ Verify(tl)
    /\ tl.key \in {None, PubForPrefix(tl, Len(tl.events) - 1)}

\* P3 against the whole timeline the council was given, bad window included
\* (VerifyRecovery looks at the prefix only): a certificate that was revoked
\* there is not valid on the fork.
NoResurrection ==
    \A r \in forks :
        RevokedCerts(Fold(r.pre.events)) \cap LiveCerts(Fold(r.fork.events)) = {}

\* A reference for InvalidationSet that shares nothing with the BFS: c is
\* tainted iff it is in every set that has the seeds and is closed under
\* "issued via".
Tainted(events, seeds) ==
    LET named == seeds \cup {e.cert : e \in Issues(events)}
        closed == {S \in SUBSET named :
                     /\ seeds \subseteq S
                     /\ \A e \in Issues(events) : e.via \in S => e.cert \in S}
    IN  {c \in named : \A S \in closed : c \in S}

WindowCerts(r, types) ==
    {e.cert : e \in {x \in ToSet(BadWindow(r.pre.events, r.bad)) : x.type \in types}}

\* Recovery contains the damage: no certificate issued in the bad window, and
\* none issued via one, however indirectly, is valid on the fork.
DamageContained ==
    \A r \in forks :
        Tainted(r.pre.events, WindowCerts(r, {"ISSUE"}))
            \cap LiveCerts(Fold(r.fork.events)) = {}

\* P5 against the reference: a certificate of the verified prefix that no
\* event of the window taints is on the fork exactly as before, and every
\* certificate the fork adds belongs to an identity named in the window.  The
\* council's own check agrees, so the branch of to-council that throws a
\* signed handoff away is never taken.
MinimalBlast ==
    \A r \in forks :
        LET pre  == Fold(SubSeq(r.pre.events, 1, r.bad))
            post == Fold(r.fork.events)
            ids  == AffectedIds(r.pre.events, r.bad)
        IN  /\ P5(pre, post, Tainted(r.pre.events, WindowCerts(r, {"ISSUE", "REVOKE"})), ids)
            /\ VerifyRecovery(pre, post, AffectedCerts(r.pre.events, r.bad), ids)

\* Fold is the declarative state, on any history and on a fork: a certificate
\* exists iff it was issued, is revoked iff some revocation follows an
\* issuance, and once revoked it stays so whatever is issued later (L3 of the
\* design, sticky revocation).
FoldMeaning ==
    LET is(i, type, c) == tl.events[i].type = type /\ tl.events[i].cert = c
        N == DOMAIN tl.events
    IN  \A c \in Certs :
            /\ c \in DOMAIN State <=> \E i \in N : is(i, "ISSUE", c)
            /\ c \in RevokedCerts(State) <=>
                 \E i, j \in N : i < j /\ is(i, "ISSUE", c) /\ is(j, "REVOKE", c)

Rewrites == ~IsPrefix(tl.events, tl'.events)

\* handleRecover against replay and foreign forks: whenever the served history
\* is rewritten, by whichever of the outstanding forks, the committed epoch
\* goes up, and everything in front of the newest handoff was already the
\* org's own history, although events are compared up to the first one only.
AdoptsForward ==
    [][Rewrites =>
         /\ LastEpoch(tl') > LastEpoch(tl)
         /\ LET h == Max(Handoffs(tl'.events))
            IN  IsPrefix(SubSeq(tl'.events, 1, h - 1), tl.events)]_orgVars
-----------------------------------------------------------------------------
(* Claims of the documentation that the code does not keep                 *)

\* docs/07-testing.md, P3: "revoked certs never valid again": what the gateway
\* reports as revoked it does not report as valid next.
RevokedNeverValid == [][RevokedCerts(State) \cap LiveCerts(State') = {}]_orgVars

\* timeline.go on key switches: "a fork after recovery/re-key verifies its
\* full length".
ForkVerifies == \A r \in forks : Verify(r.pre) => Verify(r.fork)

\* api_test.go after a recovery: certificates of the bad window "are rolled
\* back and can never reappear".  reissueOnFork writes a REVOKE for each.
RolledBackStaysGone ==
    \A c \in Certs :
        (\E i \in DOMAIN tl.events : tl.events[i].type = "REVOKE"
                                     /\ tl.events[i].cert = c
                                     /\ i > Min(Handoffs(tl.events) \cup {Len(tl.events)}))
            => c \notin LiveCerts(State)

\* docs/06-workflow.md: recovery will "re-issue fresh certs for damaged
\* identities onto the new canonical fork": whoever loses a valid certificate
\* of the verified prefix gets a new one.
DamagedReissued ==
    \A r \in forks :
        LET pre  == Fold(SubSeq(r.pre.events, 1, r.bad))
            post == Fold(r.fork.events)
        IN  \A c \in LiveCerts(pre) \ LiveCerts(post) :
                \E n \in LiveCerts(post) \ DOMAIN pre : post[n].id = pre[c].id

\* council.go on the new root seed: "handed to the coordinator via RootSeed
\* and zeroized there once persisted", so that the adopted chain can be
\* continued.
SignerKept == HoldsKey

\* docs/10-gateway.md: to-council recover "threshold-signs the epoch handoff",
\* and the gateway adopts it when "epochs ... advance": a fork of the chain as
\* served, rolled back to before any handoff, is adoptable.
CurrentForkAdoptable ==
    \A r \in forks :
        (r.pre = tl /\ \A h \in Handoffs(tl.events) : r.bad < h) => Adoptable(r.fork)
=============================================================================
