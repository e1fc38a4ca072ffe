----------------------------- MODULE CouncilNet -----------------------------
(***************************************************************************)
(* The networked council recovery protocol (councilnet.go): persistent     *)
(* council members answer VOTE (FROST round 1, a nonce commitment) and     *)
(* COMMIT_REQ (round 2, a partial signature); an initiator is ONE call of  *)
(* RemoteRecover, which walks its endpoints twice and publishes an epoch   *)
(* handoff once enough partial signatures are in.                          *)
(*                                                                         *)
(* Members crash and restart, keeping only the epoch file.  Calls are      *)
(* synchronous for the initiator, but a call may fail on its side while    *)
(* the request is still on its way to the member, and a reply may be lost. *)
(*                                                                         *)
(* Cryptography is abstracted: a nonce pair is the number of the draw that *)
(* made it, a partial signature is the record of who signed what with      *)
(* which nonce, and an aggregate is valid iff every committed signer's     *)
(* partial is in.  What an initiator sends is fixed when the round starts, *)
(* so a request names its initiator instead of carrying a copy.            *)
(***************************************************************************)
EXTENDS Integers, FiniteSets

CONSTANTS
    Members,        \* council nodes holding a FROST share
    Initiators,     \* invocations of RemoteRecover
    MinVotes,       \* minVotes: the signing threshold (3 of 5 as deployed)
    Checkpoints,    \* hashes of candidate verified-prefix heads
    Genesis,        \* the nil checkpoint of a recovery with bad_index 0
    NoSession,      \* a member without a pending FROST session
    NoMember,       \* an initiator without an outstanding call
    LossyEpochFile, \* TRUE: os.WriteFile of the epoch file may fail or tear
    MaxCrashes,     \* bound on member crashes
    MaxDrops        \* bound on calls that fail for no fault of the member

ASSUME MembersFinite == IsFiniteSet(Members)
ASSUME NoMemberFresh == NoMember \notin Members
ASSUME MinVotesPos == MinVotes \in Nat \ {0}
ASSUME LossyBoolean == LossyEpochFile \in BOOLEAN
ASSUME BoundsNat == MaxCrashes \in Nat /\ MaxDrops \in Nat

VARIABLES
    up,         \* up[m]: the member process is running
    epoch,      \* epoch[m]: CouncilMemberServer.epoch
    disk,       \* disk[m]: the epoch a restart would load from epochPath
    used,       \* used[m]: FrostSigner.used
    pending,    \* pending[m]: CouncilMemberServer.pending
    draws,      \* draws[m]: nonce pairs drawn so far (names the next one)
    pc,         \* pc[i]: where RemoteRecover stands
    snap,       \* snap[i]: the timeline and evidence it was given
    asked,      \* asked[i]: endpoints the loop of this round has passed
    waiting,    \* waiting[i]: the member of the outstanding call
    commits,    \* commits[i]: round-1 nonce commitments collected
    shares,     \* shares[i]: members whose partial signature was accepted
    wire,       \* requests and replies in flight
    partials,   \* every partial signature released (history)
    crashes, drops

memberVars == <<up, epoch, disk, used, pending, draws>>
initVars   == <<pc, snap, asked, waiting, commits, shares>>
vars == <<up, epoch, disk, used, pending, draws, pc, snap, asked, waiting,
          commits, shares, wire, partials, crashes, drops>>
-----------------------------------------------------------------------------
(* The snapshot an initiator works from: the highest committed epoch on    *)
(* its timeline, the head of the prefix it keeps, and whether that prefix  *)
(* already contains a key switch (EvRecovery or EvKeyRotate).              *)
Snapshots == [last : Nat, cp : Checkpoints \cup {Genesis}, past : BOOLEAN]

Sessions  == [epoch : Nat, cp : Checkpoints \cup {Genesis}, nonce : Nat]

ASSUME NoSessionFresh == NoSession \notin Sessions

Commitments == [mem : Members, nonce : Nat]

Kinds == {"VOTE", "VOTE_RESP", "COMMIT_REQ", "COMMIT_RESP", "REFUSED"}

Messages == [kind : Kinds, ini : Initiators, mem : Members, nonce : Nat]

Partials == [mem : Members, nonce : Nat, ini : Initiators, epoch : Nat]

\* The epoch of the handoff that initiator i asks to be signed.
EpochOf(i) == snap[i].last + 1

Published == {i \in Initiators : pc[i] = "done"}

Requests == {"VOTE", "COMMIT_REQ"}

Request(k, i, m) == [kind |-> k, ini |-> i, mem |-> m, nonce |-> 0]

\* The reply kind round-trips only while its caller still waits for it.
Awaited(q) ==
    /\ waiting[q.ini] = q.mem
    /\ pc[q.ini] = IF q.kind = "VOTE" THEN "round1" ELSE "round2"

Answer(q, k, n) ==
    wire' = (wire \ {q}) \cup
            IF Awaited(q)
            THEN {[kind |-> k, ini |-> q.ini, mem |-> q.mem, nonce |-> n]}
            ELSE {}

TypeOK ==
    /\ up \in [Members -> BOOLEAN]
    /\ epoch \in [Members -> Nat]
    /\ disk \in [Members -> Nat]
    /\ used \in [Members -> BOOLEAN]
    /\ pending \in [Members -> Sessions \cup {NoSession}]
    /\ draws \in [Members -> Nat]
    /\ pc \in [Initiators -> {"idle", "round1", "round2", "done", "failed"}]
    /\ snap \in [Initiators -> Snapshots]
    /\ asked \in [Initiators -> SUBSET Members]
    /\ waiting \in [Initiators -> Members \cup {NoMember}]
    /\ commits \in [Initiators -> SUBSET Commitments]
    /\ shares \in [Initiators -> SUBSET Members]
    /\ wire \in SUBSET Messages
    /\ partials \in SUBSET Partials
    /\ crashes \in 0..MaxCrashes
    /\ drops \in 0..MaxDrops

Init ==
    /\ up = [m \in Members |-> TRUE]
    /\ epoch = [m \in Members |-> 0]
    /\ disk = [m \in Members |-> 0]
    /\ used = [m \in Members |-> FALSE]
    /\ pending = [m \in Members |-> NoSession]
    /\ draws = [m \in Members |-> 0]
    /\ pc = [i \in Initiators |-> "idle"]
    /\ snap = [i \in Initiators |-> [last |-> 0, cp |-> Genesis, past |-> FALSE]]
    /\ asked = [i \in Initiators |-> {}]
    /\ waiting = [i \in Initiators |-> NoMember]
    /\ commits = [i \in Initiators |-> {}]
    /\ shares = [i \in Initiators |-> {}]
    /\ wire = {}
    /\ partials = {}
    /\ crashes = 0
    /\ drops = 0
-----------------------------------------------------------------------------
(* RemoteRecover                                                           *)

\* The caller's timeline is the original one or a published fork, possibly
\* an old copy; its prefix up to bad_index verifies.
Start(i) ==
    /\ pc[i] = "idle"
    /\ \E last \in {0} \cup {EpochOf(j) : j \in Published},
          cp \in Checkpoints \cup {Genesis}, past \in BOOLEAN :
         /\ past => last > 0 /\ cp # Genesis
         /\ snap' = [snap EXCEPT ![i] = [last |-> last, cp |-> cp, past |-> past]]
    /\ pc' = [pc EXCEPT ![i] = "round1"]
    /\ UNCHANGED <<memberVars, asked, waiting, commits, shares, wire,
                   partials, crashes, drops>>

\* Mutant of Enough: one answer too few is enough.
EnoughLess(i) ==
    \/ pc[i] = "round1" /\ Cardinality(commits[i]) >= MinVotes - 1
    \/ pc[i] = "round2" /\ Cardinality(shares[i]) >= MinVotes - 1

\* The loops stop as soon as minVotes answers are in.
Enough(i) ==
    \/ pc[i] = "round1" /\ Cardinality(commits[i]) >= MinVotes
    \/ pc[i] = "round2" /\ Cardinality(shares[i]) >= MinVotes

\* The next endpoint of the loop (the endpoint list may have any order).
NextEndpoint(i, m) ==
    /\ pc[i] \in {"round1", "round2"}
    /\ waiting[i] = NoMember
    /\ m \notin asked[i]
    /\ ~Enough(i)

\* dialCouncil succeeds and the request frame is written.
Call(i, m) ==
    /\ NextEndpoint(i, m)
    /\ up[m]
    /\ wire' = wire \cup
         {Request(IF pc[i] = "round1" THEN "VOTE" ELSE "COMMIT_REQ", i, m)}
    /\ asked' = [asked EXCEPT ![i] = @ \cup {m}]
    /\ waiting' = [waiting EXCEPT ![i] = m]
    /\ UNCHANGED <<memberVars, pc, snap, commits, shares, partials, crashes, drops>>

\* dialCouncil fails because the member is down: the loop continues.
DialDown(i, m) ==
    /\ NextEndpoint(i, m)
    /\ ~up[m]
    /\ asked' = [asked EXCEPT ![i] = @ \cup {m}]
    /\ UNCHANGED <<memberVars, pc, snap, waiting, commits, shares, wire,
                   partials, crashes, drops>>

Reply(i, k, r) ==
    /\ r \in wire
    /\ r.ini = i
    /\ r.kind = k
    /\ r.mem = waiting[i]
    /\ wire' = wire \ {r}
    /\ waiting' = [waiting EXCEPT ![i] = NoMember]
    /\ UNCHANGED <<memberVars, pc, snap, asked, partials, crashes, drops>>

\* The round-1 loop keeps the commitment for FrostAggregator.AddCommit.
AddCommit(i, r) ==
    commits' = [commits EXCEPT ![i] = @ \cup {[mem |-> r.mem, nonce |-> r.nonce]}]

\* FrostAggregator.AddShare verifies the partial signature against its signer's
\* commitment; what a member releases for this transcript passes.
AddShare(i, r) == shares' = [shares EXCEPT ![i] = @ \cup {r.mem}]

ReceiveVote(i) ==
    \E r \in wire :
        /\ Reply(i, "VOTE_RESP", r)
        /\ AddCommit(i, r)
        /\ UNCHANGED shares

ReceiveShare(i) ==
    \E r \in wire :
        /\ Reply(i, "COMMIT_RESP", r)
        /\ AddShare(i, r)
        /\ UNCHANGED commits

ReceiveRefusal(i) ==
    \E r \in wire :
        /\ Reply(i, "REFUSED", r)
        /\ UNCHANGED <<commits, shares>>

\* roundTripPQ returns an error: the member crashed on the connection, ...
CallBroken(i) ==
    /\ waiting[i] # NoMember
    /\ {q \in wire : q.ini = i /\ q.mem = waiting[i]} = {}
    /\ waiting' = [waiting EXCEPT ![i] = NoMember]
    /\ UNCHANGED <<memberVars, pc, snap, asked, commits, shares, wire,
                   partials, crashes, drops>>

\* ... or the connection was lost: a reply is gone, a request may still
\* reach the member.
CallLost(i) ==
    /\ waiting[i] # NoMember
    /\ drops < MaxDrops
    /\ drops' = drops + 1
    /\ waiting' = [waiting EXCEPT ![i] = NoMember]
    /\ wire' = {q \in wire : q.ini = i /\ q.mem = waiting[i] => q.kind \in Requests}
    /\ UNCHANGED <<memberVars, pc, snap, asked, commits, shares, partials, crashes>>

\* Mutant of BeginRound2: the loop goes on where round 1 stopped.
BeginRound2Resumes(i) ==
    /\ pc[i] = "round1"
    /\ waiting[i] = NoMember
    /\ Enough(i)
    /\ pc' = [pc EXCEPT ![i] = "round2"]
    /\ UNCHANGED <<memberVars, snap, asked, waiting, commits, shares, wire,
                   partials, crashes, drops>>

\* Round 1 ends with a quorum of commitments: recoverRollback makes the fork
\* and its fresh root, the challenge is derived, the loop starts over.
BeginRound2(i) ==
    /\ pc[i] = "round1"
    /\ waiting[i] = NoMember
    /\ Enough(i)
    /\ pc' = [pc EXCEPT ![i] = "round2"]
    /\ asked' = [asked EXCEPT ![i] = {}]
    /\ UNCHANGED <<memberVars, snap, waiting, commits, shares, wire,
                   partials, crashes, drops>>

\* Either loop runs out of endpoints below minVotes.
GiveUp(i) ==
    /\ pc[i] \in {"round1", "round2"}
    /\ waiting[i] = NoMember
    /\ asked[i] = Members
    /\ ~Enough(i)
    /\ pc' = [pc EXCEPT ![i] = "failed"]
    /\ UNCHANGED <<memberVars, snap, asked, waiting, commits, shares, wire,
                   partials, crashes, drops>>

\* Aggregate needs the share of every committed signer.
Aggregates(i) == {c.mem : c \in commits[i]} \subseteq shares[i]

\* The aggregated signature is valid; the handoff and the EvCommit event go on
\* the fork, which is returned to the operator.
Publish(i) ==
    /\ pc[i] = "round2"
    /\ waiting[i] = NoMember
    /\ Enough(i)
    /\ Aggregates(i)
    /\ pc' = [pc EXCEPT ![i] = "done"]
    /\ UNCHANGED <<memberVars, snap, asked, waiting, commits, shares, wire,
                   partials, crashes, drops>>
-----------------------------------------------------------------------------
(* CouncilMemberServer                                                     *)

\* The request a running member takes from a connection.
Handles(m, q, k) ==
    /\ up[m]
    /\ q \in wire
    /\ q.kind = k
    /\ q.mem = m

VoteRefused(m, i) == EpochOf(i) <= epoch[m] \/ used[m]

\* Mutant of Vote: the nonce pair depends on the share only.
VoteSameNonce(m) ==
    \E q \in wire :
        /\ Handles(m, q, "VOTE")
        /\ ~VoteRefused(m, q.ini)
        /\ used' = [used EXCEPT ![m] = TRUE]
        /\ pending' = [pending EXCEPT ![m] =
               [epoch |-> EpochOf(q.ini), cp |-> snap[q.ini].cp, nonce |-> draws[m] + 1]]
        /\ Answer(q, "VOTE_RESP", draws[m] + 1)
        /\ UNCHANGED <<up, epoch, disk, draws, initVars, partials, crashes, drops>>

\* FrostSigner.Commit draws a nonce pair, once in the life of a signer.
SignerCommit(m) ==
    /\ ~used[m]
    /\ used' = [used EXCEPT ![m] = TRUE]
    /\ draws' = [draws EXCEPT ![m] = @ + 1]

Vote(m) ==
    \E q \in wire :
        /\ Handles(m, q, "VOTE")
        /\ ~VoteRefused(m, q.ini)
        /\ SignerCommit(m)
        /\ pending' = [pending EXCEPT ![m] =
               [epoch |-> EpochOf(q.ini), cp |-> snap[q.ini].cp, nonce |-> draws[m] + 1]]
        /\ Answer(q, "VOTE_RESP", draws[m] + 1)
        /\ UNCHANGED <<up, epoch, disk, initVars, partials, crashes, drops>>

RefuseVote(m) ==
    \E q \in wire :
        /\ Handles(m, q, "VOTE")
        /\ VoteRefused(m, q.ini)
        /\ Answer(q, "REFUSED", 0)
        /\ UNCHANGED <<memberVars, initVars, partials, crashes, drops>>

\* The commitments that initiator i puts into the signing transcript; the member
\* recomputes the challenge from them and compares.
Transcript(i) == commits[i]

\* FrostSigner.SignShare: the partial signature of m's pending nonce pair over
\* the handoff of i.
SignShare(m, i) ==
    [mem |-> m, nonce |-> pending[m].nonce, ini |-> i, epoch |-> EpochOf(i)]

\* Every check of commit: a session, the epoch beyond the committed one, the
\* handoff matching the vote, a checkpoint that is not nil, a fork that
\* verifies (it does not when the kept prefix holds a key switch: Fork gives
\* it the key after the prefix as start key), our own commitment in the
\* transcript.  The P3/P5 re-check compares the bare fork with itself.
CommitAccepted(m, i) ==
    /\ pending[m] # NoSession
    /\ EpochOf(i) > epoch[m]
    /\ EpochOf(i) = pending[m].epoch
    /\ snap[i].cp # Genesis
    /\ snap[i].cp = pending[m].cp
    /\ ~snap[i].past
    /\ [mem |-> m, nonce |-> pending[m].nonce] \in Transcript(i)

\* What the epoch file holds after persistEpoch wrote e: WriteFile's error
\* is ignored, so the file may be untouched, or truncated and unreadable.
FileAfterWrite(m, e) ==
    {e} \cup IF LossyEpochFile THEN {disk[m], 0} ELSE {}

\* Mutant of Commit: the member signs and stays at its epoch.
CommitKeepsEpoch(m) ==
    \E q \in wire :
        /\ Handles(m, q, "COMMIT_REQ")
        /\ CommitAccepted(m, q.ini)
        /\ partials' = partials \cup {SignShare(m, q.ini)}
        /\ pending' = [pending EXCEPT ![m] = NoSession]
        /\ Answer(q, "COMMIT_RESP", 0)
        /\ UNCHANGED <<up, used, draws, epoch, disk, initVars, crashes, drops>>

Commit(m) ==
    \E q \in wire :
        /\ Handles(m, q, "COMMIT_REQ")
        /\ CommitAccepted(m, q.ini)
        /\ partials' = partials \cup {SignShare(m, q.ini)}
        /\ epoch' = [epoch EXCEPT ![m] = EpochOf(q.ini)]
        /\ \E d \in FileAfterWrite(m, EpochOf(q.ini)) : disk' = [disk EXCEPT ![m] = d]
        /\ pending' = [pending EXCEPT ![m] = NoSession]
        /\ Answer(q, "COMMIT_RESP", 0)
        /\ UNCHANGED <<up, used, draws, initVars, crashes, drops>>

RefuseCommit(m) ==
    \E q \in wire :
        /\ Handles(m, q, "COMMIT_REQ")
        /\ ~CommitAccepted(m, q.ini)
        /\ Answer(q, "REFUSED", 0)
        /\ UNCHANGED <<memberVars, initVars, partials, crashes, drops>>

\* The connections of a crashed process are reset: its requests are gone.
LoseRequests(m) == wire' = {q \in wire : q.mem = m => q.kind \notin Requests}

Crash(m) ==
    /\ up[m]
    /\ crashes < MaxCrashes
    /\ crashes' = crashes + 1
    /\ up' = [up EXCEPT ![m] = FALSE]
    /\ LoseRequests(m)
    /\ UNCHANGED <<epoch, disk, used, pending, draws, initVars, partials, drops>>

\* A crash inside commit, once the epoch file has been written: the partial
\* signature is never released.
CrashInCommit(m) ==
    /\ crashes < MaxCrashes
    /\ \E q \in wire :
        /\ Handles(m, q, "COMMIT_REQ")
        /\ CommitAccepted(m, q.ini)
        /\ \E d \in FileAfterWrite(m, EpochOf(q.ini)) : disk' = [disk EXCEPT ![m] = d]
    /\ crashes' = crashes + 1
    /\ up' = [up EXCEPT ![m] = FALSE]
    /\ LoseRequests(m)
    /\ UNCHANGED <<epoch, used, pending, draws, initVars, partials, drops>>

\* Mutant of Restart: the epoch file is not read.
RestartAtZero(m) ==
    /\ ~up[m]
    /\ up' = [up EXCEPT ![m] = TRUE]
    /\ epoch' = [epoch EXCEPT ![m] = 0]
    /\ used' = [used EXCEPT ![m] = FALSE]
    /\ pending' = [pending EXCEPT ![m] = NoSession]
    /\ UNCHANGED <<disk, draws, initVars, wire, partials, crashes, drops>>

\* NewCouncilMemberServer on the same epoch file and share: an unreadable
\* file leaves epoch 0, the FROST nonce state is fresh.
Restart(m) ==
    /\ ~up[m]
    /\ up' = [up EXCEPT ![m] = TRUE]
    /\ epoch' = [epoch EXCEPT ![m] = disk[m]]
    /\ used' = [used EXCEPT ![m] = FALSE]
    /\ pending' = [pending EXCEPT ![m] = NoSession]
    /\ UNCHANGED <<disk, draws, initVars, wire, partials, crashes, drops>>
-----------------------------------------------------------------------------
InitiatorStep(i) ==
    \/ \E m \in Members : Call(i, m) \/ DialDown(i, m)
    \/ ReceiveVote(i) \/ ReceiveShare(i) \/ ReceiveRefusal(i)
    \/ CallBroken(i) \/ BeginRound2(i) \/ GiveUp(i) \/ Publish(i)

MemberStep(m) == Vote(m) \/ RefuseVote(m) \/ Commit(m) \/ RefuseCommit(m)

Fault ==
    \/ \E i \in Initiators : CallLost(i)
    \/ \E m \in Members : Crash(m) \/ CrashInCommit(m)

Next ==
    \/ \E i \in Initiators : Start(i) \/ InitiatorStep(i)
    \/ \E m \in Members : MemberStep(m) \/ Restart(m)
    \/ Fault

Spec == Init /\ [][Next]_vars

-----------------------------------------------------------------------------
(* Correctness properties                                                  *)

\* P1 at council level: whatever crashes, restarts, lost replies and
\* competing initiators do between the two rounds, at most one handoff is
\* ever published for an epoch (every member signs an epoch once, and two
\* signing quorums share a member).
OneHandoffPerEpoch ==
    \A i, j \in Published : EpochOf(i) = EpochOf(j) => i = j

\* The handoffs that operators hold, as the abstract log sees them.
Log == INSTANCE HandoffLog WITH
    Recoveries <- Initiators,
    log <- {[epoch |-> EpochOf(i), by |-> i] : i \in Published}

\* Two rounds over a lossy network, restarting members and competing calls of
\* RemoteRecover implement one gap-free log of handoffs: a published handoff
\* is never replaced, and each one follows the newest before it.
ImplementsHandoffLog == Log!Spec

\* A FROST nonce pair answers one transcript only: two partial signatures
\* made with one pair would reveal the member's share (Commit and commit,
\* with a restart possibly between the rounds).
NonceSingleUse ==
    \A p, q \in partials : p.mem = q.mem /\ p.nonce = q.nonce => p = q

\* A published handoff carries the released signature of MinVotes distinct
\* members, each given for this very recovery.
PublishedIsSigned ==
    \A i \in Published :
        Cardinality({m \in Members :
            \E p \in partials : p.mem = m /\ p.ini = i /\ p.epoch = EpochOf(i)}) >= MinVotes

\* A member never goes back behind an epoch it committed to, not even by
\* restarting from its epoch file.
EpochNeverRegresses ==
    [][\A m \in Members : epoch'[m] >= epoch[m]]_vars

\* A call of RemoteRecover that fails has a cause outside the protocol: a
\* lost connection, a crash, another recovery attempt, or a rollback point
\* that members reject (nil checkpoint, or past a key switch).
FailureHasCause ==
    \A i \in Initiators :
        pc[i] = "failed" =>
            \/ drops > 0
            \/ crashes > 0
            \/ snap[i].past
            \/ snap[i].cp = Genesis
            \/ \E j \in Initiators \ {i} : pc[j] # "idle"

Quiet == \A i \in Initiators : pc[i] \notin {"round1", "round2"}

\* K3 of the test plan, on the network: with a single recovery, one member
\* killed and no lost connection, recovery continues (a quorum is left).
KillOneMemberRecovers ==
    \A i \in Initiators :
        /\ pc[i] = "failed"
        /\ drops = 0
        /\ crashes = 1
        /\ ~snap[i].past /\ snap[i].cp # Genesis
        => \E j \in Initiators \ {i} : pc[j] # "idle"

\* Would m vote in a recovery of the newest published timeline?
WouldVote(m) ==
    /\ ~used[m]
    /\ epoch[m] = 0 \/ \E i \in Published : epoch[m] <= EpochOf(i)

\* Members are persistent servers: once a recovery is through and nothing
\* crashed or was lost, enough of them can take part in the next one.
ServesNextRecovery ==
    Quiet /\ crashes = 0 /\ drops = 0
        => Cardinality({m \in Members : WouldVote(m)}) >= MinVotes

\* Between two recoveries, enough members hold no epoch beyond the newest
\* published one, so that a retry can assemble minVotes votes (after a
\* restart, if need be).
RetryHasQuorum ==
    Quiet => Cardinality({m \in Members :
                 disk[m] = 0 \/ \E i \in Published : disk[m] <= EpochOf(i)}) >= MinVotes
=============================================================================
