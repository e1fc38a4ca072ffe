# TrustOrchestrator in TLA+

This directory holds the specification of TrustOrchestrator: TLA+ modules that
model its stateful parts, TLC configurations that check them on small instances,
and TLAPS proofs for arbitrary ones. `PROJECT.json` is the index: which
definition models which lines, what each run checks, which mutation of the model
breaks each property, the findings and the hazards.

    tlc -workers 2 -config <run>.cfg <MC module>     # one run of PROJECT.json
    tlapm CouncilNetProofs.tla                       # one of the *Proofs modules

## 1. The system

A *gateway* keeps, for each organisation (tenant), a signed hash-chained
*timeline* of trust events: certificates issued and revoked, detections, key
rotations, recoveries. *Watchdogs* score the timeline; when a quorum of scores is
low the gateway appends a DETECTED event with a rollback index. A *council* then
rolls the timeline back to the last good event, threshold-signs (FROST) an epoch
handoff to a new root key, re-issues what was damaged and revokes what was
tainted; the gateway verifies and adopts the resulting fork. Around this sit
webhooks with a durable outbox, encrypted storage whose key the council shares, a
ceremony that creates the council's key, and a transparency log.

| Part (source) | State | Operations | What is hard |
|---|---|---|---|
| Networked council (`councilnet.go`, `frost.go`) | member: epoch, epoch file, pending session, used flag; initiator: round, commitments, shares | VOTE, COMMIT, the two rounds of `RemoteRecover`, restart | competing recoveries, crashes inside `commit`, lost replies, nonce reuse |
| Timeline (`timeline.go`, `hash.go`) | events, signing key, start key, council key, rotations | append, rotate, verify, fork, save and load, fold | which key is in force where, forks across key switches |
| Recovery and adoption (`rollback.go`, `graph.go`, `council.go`, `api.go`) | the served timeline, forks in flight, the detected flag | issue, revoke, detect, recover, adopt | the gateway keeps serving while the council works on a copy |
| Outbox (`webhooks.go`) | queue, `outbox.json`, the batch in hand | fire, drain, deliver, settle | handlers and the drain loop interleave; crash between POST and save; a save whose error is ignored; a POST that hangs |
| Tenant store (`store.go`, `api.go`) | tenant map, tenant objects, timeline files, `gateway.json`, trash | route, append, create, delete, backup, restore, boot | stale `*Tenant` pointers, crashes and failed writes between two files |
| Vault (`vault.go`, `store.go`, `cmd/gateway`) | `gateway.keys`, data key, sealed files, deferred tenants | boot, unlock, upgrade, rotate | crash or failed write while re-sealing, boots without shares |
| Key generation (`dkg.go`, `cmd/council`) | received commitments and shares, process state | dial, serve, retry, finish, exit | everyone dials everyone, restarts with a new polynomial |
| Transparency (`ctlog.go`, `api.go`, `client.go`) | the log, the trusted head | tree head, proofs, gossip | proof shapes, unlocked head, moving trusted size |
| Request pipeline (`api.go`, `auth.go`, `ratelimit.go`) | users and tokens (memory and `gateway.json`), replay cache, token buckets | gates, limiter, lookup, execute, store; create user, mint token | requests with one key interleave, saves fail, the cache overflows or expires |
| Key material (`frost.go`, `reshare.go`, `blindfrost.go`, `shamir.go`) | share files, sub-shares in flight | ceremonies, resharing, signing, joining | shares of several generations, dealers that did not reach everybody, sets below the threshold |
| Watchdogs and mirror (`watchdogs.go`, `audit.go`) | W2's cursor and cadence, the auditor's copy | cycle, mirror | incremental checks across rotations, damage behind the cursor, cut tails |
| Fleet (`fleet.go`, `ensemble.go`, `api.go`) | scores, subscription, flag | ingest, emit, watch | two critical sections per frame, dropped verdicts, stale scores |

Interactions: the fleet's verdicts append to the timeline (`watchOrg`), which
triggers webhooks; DETECTED evidence starts the council; the council's fork
replaces the timeline (`handleRecover`), which the transparency log shows as a
rewritten log; all files go through the store and the vault; the ceremony gives
the council its key. All gateway state but the gossip head is guarded by one
mutex, `Store.mu`; the council's members and the ceremony talk over mTLS frames.

## 2. Modules

`MC*.tla` modules only add symmetry sets and constant values. Operators whose
comment begins with "Mutant of" are wrong on purpose: PROJECT.json names the
definition each replaces and the property that must then fail.

**CouncilNet.** An initiator is one call of `RemoteRecover`; `Start`, `Call`,
`Receive*`, `CallBroken`, `CallLost`, `BeginRound2`, `GiveUp`, `Publish` are its
steps, `Vote`, `Commit` and their refusals the member's handlers. A member loses
everything but its epoch file in `Crash`; `CrashInCommit` stops between the write
of the file and the reply. `LossyEpochFile` models the ignored error of
`persistEpoch`. A nonce pair is the number of the draw, a partial signature the
record of what was signed with which nonce, and an aggregate is valid iff every
committed signer's partial is in: `SignerCommit`, `SignShare`, `AddCommit`,
`AddShare`, `Transcript` and `Aggregates` stand for the signer and the aggregator of
`frost.go`.

**HandoffLog.** This is what the council promises: the
handoffs form one log, epochs in order, without gaps, each to one recovery.
CouncilNet's published recoveries are that log (`Log == INSTANCE HandoffLog WITH`),
`ImplementsHandoffLog` is its specification, checked by TLC and proved in
`CouncilNetProofs`.

**Timeline, TimelineObject, OrgRecovery, ChainLife, WatchedChain.** `Timeline` is
the data type: operators for append, rotation, `walkVerify`, forks, the fold, the
invalidation set, re-issuance and `VerifyRecovery`. `TimelineObject` declares one
object of it, which the next two extend. `OrgRecovery` is one organisation at the gateway with
council recoveries in flight; the council acts on the copy that comes with the
evidence, and `Adopt` is `handleRecover` with all of its checks. `ChainLife`
is one chain with rotations, reloads and damage; `WatchedChain` extends it with an
auditor's mirror (`Grow` appends and mirrors), with watchdog W2 (`Cycle`: an
incremental check from its cursor, a full scan every FullEvery cycles, 10 in the
code) and with W4's comparison of heads. Damage is an event altered, dropped, cut
off, or never mirrored. Digests are injective
tags, a signature is the key that made it.

**Outbox.** A job is an endpoint and an event. `AppendEvent`, `CollectHooks` and
`QueueJobs` are the three critical sections of a handler, `TakeDue`, `Deliver` and
`Settle` those of the drain loop. A save may fail, and nobody is told: the file
then stays as it was (`saved` remembers the outcome). A POST has no timeout: it may
`Hang`, and the one drain loop waits for it, until it returns or for ever (`stuck`).

**Tenants.** Tenants are heap objects, since a request keeps a pointer across two
critical sections. A timeline is the generation of its root key and the requests
appended. `Create*`, `Delete*` and `Restore*` are split at file writes, where a
crash may fall and each write may fail; Store.mu stays held in between except in
Restore. A create that is refused because of a failed write leaves the tenant in
the map, unwatched (`unmade` remembers those without a file). No code makes
the trash directory, an operator may: `trashDir` is either in Init.

**Vault.** A data key is its epoch; a file is sealed under an epoch or, as 0, in
the old form. The boot sequence is `Boot`, `MintKeys` or `OpenKeys`,
`LoadDeferred`, `Reseal` file by file, `Serve`. A rotation replaces `gateway.keys`
and the vault in memory before it re-seals; the process may die at any file, and a
write that fails ends it there (`RotateFails`). `missed` is the files that such a
rotation was stopped before and that were not written since.

**Dkg.** Polynomials are named by the process run that drew them, the group key is
the set of polynomials combined. A call is dial, record at the peer, reply; each
side may die in between.

**CTLog.** The Merkle functions are translated as recursive functions over
symbolic hashes, each of which also names the entries below it; the verifiers'
loops are the states of a walk over the proof. A reporter is fetch head, fetch proof, post; the handler's
unlocked reads and writes of the trusted head are steps of their own.

**Requests.** `Receive` is the part of `route` before the replay cache (token, role,
bucket, organisation, both scopes), then `Lookup`, `Execute` and `Store` are
steps of their own, since `route` takes the lock for each. Handlers that mint
users and tokens change memory first and save second (`Saves`); `issue` stands for
every route with an org scope, `delete` is the one route of an organisation
registered without (api.go:100), and viewer stands for every role that may only
read. The replay key is the sequence of its parts joined by a separator that ids
and headers may contain (`Join`, `IdemKey`), as the code joins them unescaped.
`Restart` keeps what `gateway.json` has.

**ThresholdKeys.** The curve is a group of prime order L, a point its discrete
logarithm, so the commitments, Lagrange coefficients and partial signatures of the
code are computed as written, modulo L (7 in the runs); the loops over coefficients
and members are recursive functions. A share file carries the generation of the
polynomial it lies on and whether its member, and the dealers, heard every dealer
(`gen`, `whole`: history that no action reads but to bound the misses). Signing changes no file and is an
operator; in a resharing members combine on their own, so one that stops leaves
files of two generations, and each combines the commitments and sub-shares of
whichever dealers reached it, since the code does not count them.

**Fleet.** A frame is `Ingest` then `Emit`, the gateway's watcher is `Watch`;
watchdogs change their view, stop and start; time is a score being fresh or stale.

## 3. What the runs check

| Run | Instance | Shows |
|---|---|---|
| CouncilNet_safety | 3 members, threshold 2, 2 initiators, 2 crashes, 1 lost call, reliable epoch file | the protocol implements the log of handoffs (`ImplementsHandoffLog`, which has one handoff per epoch in it), `PublishedIsSigned`, `NonceSingleUse`, `EpochNeverRegresses`; a failed recovery has a cause outside the protocol (`FailureHasCause`) |
| OrgRecovery | 3 certificates, 1 identity, 4 events, 2 recoveries | no resurrection, damage contained, minimal blast against a reference closure, the code's own check agreeing (`MinimalBlast`), the fold has its declarative meaning (`FoldMeaning`), the served chain verifies, adoption only goes forward |
| WatchedChain | 3 events, 3 keys, 2 acts of damage, either digest, a full scan every 3 cycles | exact localisation of damage (`FindsFirstDamage`); W2 flags new damage at once and old damage within its cadence (`DamageFlagged`); an alarm without damage is a rotation's and ends with the next full scan (`AlarmHasCause`); W2, W4 and the mirror's check together miss nothing (`QuietMeansIntact`) |
| Requests | 3 requests, 2 users (the id of one has the separator in it), 3 tokens, 2 organisations, 2 keys (one with the separator), a cache that one entry fills, a window of one instant, 1 restart, 1 failed write, deletions | a retry sent after the answer replays (`RetryReplays`), replays match what was asked unless the separator is in a part of the key (`ReplayMatches`), both scopes hold on the scoped routes and the role on all (`ScopeHolds`), a token that was shown works across restarts (`ShownTokenWorks`), the bucket is exactly the sliding bound (`LimiterExact`) |
| ThresholdKeys | field of 7, 3 founders and a joiner, thresholds 2 and 3, 2 resharings, either ceremony, 1 member that missed a dealer | every quorum of one generation whose members heard every dealer joins to the group key and signs under it, plain and blind (`KeyKept`); any other set signs exactly what its shares join to (`SignsIffJoins`); every file loads and a garbled one is caught (`FilesLoad`) |
| Outbox | 2 events, 2 endpoints, 2 crashes, 2 failures, 2 failed writes, 1 POST that hangs, fair | after a save that reached the file the queue is on disk and settled jobs are not (`DiskMatchesQueue`), at most one delivery per incarnation, every job is tried unless the gateway crashes or a POST hangs for ever |
| Tenants | 1 organisation, 2 requests, 2 generations, 1 delete, 1 restore, 1 crash, 2 failed writes, fair | the next process boots, answers are durable, histories do not shrink, requests are answered |
| Vault | 3 organisations, 2 events, 3 epochs, right and wrong shares | the sealed key reopens everything but what a rotation was stopped before, no event lost, old keys useless |
| Dkg | 3 members, 2 runs each, 1 lost connection, fair | finished pairs agree (`PairAgrees`); without faults the ceremony completes |
| CTLog | 7 entries (3 once reporters start), 1 rewrite, 4 posts, 2 reporters | both proofs are exact for every shape (`ProofsExact`), accepted heads extend what was read as trusted (`AcceptedExtends`), an alarm on a head of the log has one of three causes (`GossipAlarmHasCause`) |
| Fleet | 2 nodes, quorum 2, capacity 1, fair | flag and scores agree when quiet; lasting damage is flagged, cleared damage clears (`FlagFollowsDamage`) |
| Outbox_v_retry | 1 failure | expected violation, section 4 |

Where a property is conditional, the condition is what the code fails without,
and section 4 names the failure: `DiskMatchesQueue` takes that the last save of the
queue reached the file; `EveryJobTried` that no POST hangs for ever; `Boots` that no
restore ran and no file was moved to the trash, and it excepts tenants whose create
was refused without a file; `AckedDurable` and `FilesKeepHistory` that no delete or
restore destroyed the file on purpose; `SharesReopen` and `OldKeyUseless` except the
files that a rotation was stopped before; `ReplayMatches` speaks of requests without
the separator in path, user id or key; `ScopeHolds` of the routes with an org scope;
`KeyKept` of members that heard every dealer; `AcceptedExtends` takes that the size
read was not zero (the first head is taken on trust);
`Completes` that there is no fault and no early exit; `MinimalBlast` that no
operator names a certificate like a re-issued one (the run's certificates are model
values). `RetryReplays` names its exceptions: a restart, the
end of the window, an overflow of the cache (`Overflowed`: more than IdemCap keys
were stored, and one more answer after that). `DamageFlagged` leaves the genesis event
to the full scan, the only check that looks at its parent. `TypeOK` states the
shape of a module's state; section 5 says where it is proved.

The bounds let the interesting cases happen: two quorums of 2 out of 3 must meet
in one member; two crashes let a member die before and after it signs; four events
give a prefix, a two-step via chain and a window; seven log entries cover trees
that are full, one short of full and one over; capacity 1 makes the subscription
overflow; a replay cache that one entry fills and a window of one instant make both limits
bite within three requests; two reporters and four posts let one post move the
trusted size between another's answer, proof and report, or between its read of
size and root; three cycles between full scans leave room for damage
behind the cursor; a field of 7 is the smallest in which four members, thresholds 2
and 3 and a dealer's scalar above the order all fit; two generations let a delete and a create replace the tenant that a
request still points to. CHECK_DEADLOCK is off where the bounded system may stop
(all requests served, all recoveries over); WatchedChain keeps it on.

Fairness. Outbox: the ticker keeps
draining, a started handler finishes, a supervisor restarts the process; a POST that
hangs need not return (nothing bounds it, webhooks.go:195), any other ends. Tenants:
goroutines run on; `Append` and `RestoreSwap` compete for `Store.mu`, whose
starvation mode makes waiting for it strongly fair. Dkg: every process runs and a
dial window ends. Fleet: a running watchdog sends a frame each cycle, handlers
and the watcher run, time passes.

## 4. Findings and divergences

The run **Outbox_v_retry** expects a violation of a statement the repository makes
(PROJECT.json, "findings"): a failed delivery is never retried, against "dropped
after 5 attempts" (webhooks.go:8).

Other statements the code does not keep are defined at the end of the modules.
TLC refutes each of these when it is added to a configuration with the constants
given (unnamed constants as in section 3).

| Module: definition | Constants | What the code does | What the repository says |
|---|---|---|---|
| CouncilNet: `OneHandoffPerEpoch` | LossyEpochFile TRUE, 1 crash | persistEpoch (councilnet.go:137) drops the write's error; two handoffs share an epoch | councilnet.go:116 "persists the last committed epoch across restarts" |
| CouncilNet: `KillOneMemberRecovers` | 1 initiator, 1 crash | a voter that dies between the rounds fails the recovery although a quorum is left (councilnet.go:487) | kill_test.go:36 "kill 1 council member mid-recovery -> recovery continues" |
| CouncilNet: `ServesNextRecovery` | 1 initiator | a signer votes once in the life of its process (councilnet.go:278) | councilnet.go:2 "persistent mTLS servers" |
| CouncilNet: `RetryHasQuorum` | 1 initiator, 1 lost call | a lost COMMIT reply leaves members ahead (councilnet.go:359); the retry is stale | councilnet.go:386 members that fail "simply don't contribute" |
| OrgRecovery: `RevokedNeverValid` | 2 certificates, 2 identities | handleRecover (api.go:838) replaces the timeline by a fork of an older copy; a revocation made while the council works is dropped, and the certificate is valid again | docs/07-testing.md:77 "revoked certs never valid again" |
| OrgRecovery: `ForkVerifies` | 2 certificates, 2 identities | a rollback behind an earlier handoff does not verify (timeline.go:345) | timeline.go:217 "a fork after recovery/re-key verifies its full length" |
| OrgRecovery: `RolledBackStaysGone` | same | a rolled-back id can be issued again (council.go:262) | api_test.go:296 "can never reappear" |
| OrgRecovery: `DamagedReissued` | same | an identity hit through a via chain gets no new certificate (rollback.go:23) | docs/06-workflow.md:65 "re-issue fresh certs for damaged identities" |
| OrgRecovery: `SignerKept` | same | to-council drops the new root seed (cmd/council/main.go:307); the adopted chain is read-only | council.go:271 "handed to the coordinator via RootSeed" |
| OrgRecovery: `CurrentForkAdoptable` | same | to-council signs epoch 1 every time (council.go:30) | docs/10-gateway.md:85 "epochs must advance" |
| ChainLife: `ForkContinues` | as WatchedChain | forks at a rotation, or of a reloaded chain, sign with the wrong key (timeline.go:367) | timeline.go:63 "so forks can continue under the key that was current at their branch point" |
| ChainLife: `RecoveryVerifies` | as WatchedChain | on a dual-digest chain the handoff's checkpoint is the other digest (council.go:315) | hash.go:14 "dual mode changes only the *link* (ParentHash) digest" |
| WatchedChain: `IntactIsQuiet` | as the run | events appended before a rotation and not yet checked are verified with the key after it (watchdogs.go:161): an alarm on an intact chain until the next full scan | watchdogs.go:143 "delta-verify of new events" |
| WatchedChain: `CleanMirrorQuiet` | as the run | the mirror's head is a plain hash, the timeline's is a link digest (audit.go:26): under the dual digest W4 always alarms | core_test.go:410 "must see a clean mirror (no alarm)" |
| Requests: `OwnReplaysOnly` | as the run | on the scoped routes the user is not in the request context, so not in the replay key (api.go:240) | api.go:231 "keeps one client's replay from serving another's result" |
| Requests: `OwnTokensOnly` | as the run | on the other routes it is, but the parts are joined unescaped (api.go:243): user "a" with key "x\|y" and user "a\|x" with key "y" share an entry, also one that holds a raw token | the same |
| Requests: `EveryRouteScoped` | as the run | the route that deletes an organisation is registered without an org scope (api.go:100): an admin confined to one deletes another | docs/10-gateway.md:31 "The org-scope check runs on every tenant route (403 outside scope)" |
| ThresholdKeys: `GenerationKeepsKey` | as the run | ReshareCombine compares the number of commitments with that of sub-shares only (reshare.go:88): a member that one dealer did not reach combines the rest, and its file is under another key | reshare.go:79 "The group key is unchanged" |
| ThresholdKeys: `FewSignersFail` | as the run | FrostRound with too few signers returns a signature that does not verify, and no error (frost.go:794); the self-check passes since its two signers had signed before | frost.go:866 "2 signers must fail" |
| Outbox: `SurvivesRestarts` | as the run | saveOutboxLocked ignores the error of the write (webhooks.go:185): the file stays behind the queue until the next save | docs/10-gateway.md:59 "pending jobs survive restarts" |
| Outbox: `HangDelaysNobody` (fair) | as the run | the POST has no timeout (webhooks.go:195): one endpoint that accepts and hangs stops the only drain loop | webhooks.go:8 "dropped after 5 attempts" |
| Outbox: `PendingIsReplayed` | 1 crash | settling one job saves a queue without the rest of the batch (webhooks.go:111) | webhooks.go:7 "replays the pending jobs on restart" |
| Tenants: `Recoverable` | 1 delete | with no trash directory, delete and create overwrite the only copy (store.go:222) | store.go:220 "moved aside, not deleted" |
| Tenants: `ScoresAreWatched` | 1 restore | restored tenants have no watcher (store.go:423) | api.go:751 "the watcher goroutine (watchOrg) appends DETECTED" |
| Tenants: `FileIsServed` | as the run | a request that holds a deleted tenant saves it over the file of a new tenant of the same id (api.go:153) | store.go:41 "one isolated trust timeline" |
| Tenants: `Bootable` | 1 delete, 1 crash, and 1 restore for the second trace; 1 failed write | a crash between rename and gateway.json (store.go:231), or after the Restore of a deleted tenant wrote gateway.json first (store.go:416), prevents the boot; so does a create whose timeline cannot be written (store.go:210: the tenant stays in the map, and the next saveMeta lists it) | store.go:377 "each tenant timeline written first, meta last" |
| Vault: `RotationIsTotal` | as the run | a re-seal that fails ends the rotation (store.go:485, :524); the gateway serves on with the rest of the files under the old data key | api.go:1021 "Old DEK snapshots stop working the moment this returns" |
| Vault: `AllReopen` | as the run | gateway.keys is replaced before the files are re-sealed (store.go:469); a crash or a failed write in between leaves files under a key that is gone | vault.go:42 "the sealed form (gateway.keys) is what survives on disk" |
| Vault: `ThresholdEnforced` | as the run | rotation and first unlock accept any shares (store.go:469) | api.go:1018 "a 3-of-5 unwrap session" |
| Vault: `KeepsServing` | as the run | an issue on a deferred tenant panics with Store.mu held | store.go:131 "instead of dying" |
| Vault: `StaysWired` | as the run | unlocked tenants have a fleet without watcher (store.go:511) | store.go:135 "keep watchOrg wired" |
| Dkg: `GroupIdentical` | MaxRuns 2 | a member restarted after a peer finished completes with another key (dkg.go:265) | dkg.go:115 "must be identical on every member" |
| Dkg: `NoneLeftBehind` | MaxRuns 1 | a member exits before its last reply is written (dkg.go:265) | dkg.go:114 "finalize once all N-1 pairs are done" |
| Dkg: `RunReturns` (fair) | 1 lost connection | a member waits for ever for a peer that aborted (dkg.go:150) | dkg.go:14 "no deadlock" |
| CTLog: `NoFalseAlarm` | as the run | another reporter's post moves the trusted size away from where a proof starts (ctlog.go:342), overlapping or not | ctlog.go:298 "A false alarm here is impossible" |
| CTLog: `HeadMatchesSize` | as the run | size and root are stored without a lock (api.go:594) | store.go:52 "highest CT tree head accepted", "...and its root hash" |
| Fleet: `AnchorOnChain` | MaxLen 6 | a verdict older than an adoption is recorded on the adopted chain (api.go:1074) | docs/10-gateway.md:83 "evidence carries the rollback anchor" |

Three observations have no statement to set them against. A recovery calls the new
certificate of identity `a` "a-re1", "a-re2", ... (council.go:251), and nothing
stops an operator from issuing a certificate of that name to somebody else: with
such a certificate of `b` in the verified prefix, the re-issue for `a` takes it over,
the council's own check fails and `MinimalBlast` is violated, as TLC shows with
Certs = {c1, <<a, 1>>} and two identities. The proof of `BlastIsMinimal` came upon
it. The other two are about key material.
`ReshareCombine` does not compare the summed commitments with the group key, so a
resharing by members of two generations (one was interrupted) goes through and gives
files under another key; the model lets members of one generation take part.
And `FrostSplit` with threshold 1 hands out the dealer's scalar unreduced, which
`Signer` refuses to load; the thresholds modelled are at least 2.

## 5. Proofs

TLAPS proves, for every value of the constants that satisfies the modules' named
assumptions:

*CouncilNetProofs.* `TypeCorrect`; `NonceSafety` (no nonce pair answers two
transcripts, lossy epoch file or not); `PublishedSigned`; and, assuming a reliable
epoch file (`~LossyEpochFile`), `EpochMonotonic`, and with `QuorumsMeet`
(2·MinVotes > number of members, as 3 of 5 is) `HandoffSafety`: one handoff per
epoch. The inductive invariant has two halves. `BaseInv` needs no assumption:
types; a partial signature belongs to a started recovery (`PartialsOfStarted`); a
share an initiator counts was released by that member for it (`SharesReleased`);
calls belong to active initiators; who is done has its shares; nonces in sessions
are unused draws (`NoncesFresh`), which makes `NonceSingleUse` inductive.
`EpochInv` needs the file: a running member's epoch is the file's
(`EpochPersisted`), an epoch that was signed is on file (`PartialsPersisted`), so a
member signs an epoch once (`OnePartialPerEpoch`). One member common to two
quorums (`QuorumArgument`) then gives the theorem. OneHandoffPerEpoch alone is not
inductive: it says nothing of the partial signatures already released.

`CouncilImplementsLog`: under the same two assumptions CouncilNet implements
HandoffLog. Every step starts a recovery, publishes one or leaves the log alone
(`StepShape`); a recovery starts from an epoch that was published
(`StartsFromLog`, the invariant added to those above), so a publication extends the
log by a free epoch that follows one in it.

`FailuresHaveCauses` (`FailureHasCause`), assuming that there are enough members for
a quorum (`EnoughMembers`), says that a recovery left alone succeeds. `CauseInv`
follows one that nothing disturbed (`Undisturbed`: no crash, no lost connection, no
other recovery, a rollback that members can accept): members that no call has
reached are as they started (`Untouched`); in round 1 everybody who was asked has
voted and its commitment is in, or its answer is on the wire (`Round1Sound`); in
round 2 every voter has signed, is being asked, or is still ready to sign for the
session it voted in (`Round2Sound`); and the recovery has not failed (`Progress`).
When a round is over all members have been asked, so that there is a quorum
(`NeverGivesUp`). It uses `NoSessionFresh`: no session is a session.

*TimelineProofs, the watched chain.* Its four properties, for any length, any
number of rotations, reloads, cuts and acts of damage, and any cadence:
`WalkFindsFirst` (`FindsFirstDamage`), `DamageIsFlagged`, `AlarmsHaveCauses` and
`QuietIsIntact`. The invariant `FirstDamage` says that everything in front of the
first damage is good and that the first damage is a broken link or a forged
signature, which no later rotation makes good. That an event moved up by a dropped
one never happens to fit is the hard part: it holds since digests nest. `Nested`
says that some numbering of the events ever seen rises along the chain and gives
each the number of its parent plus one, whatever was altered, dropped or cut; an
event therefore never chains to one that was not right in front of it
(`DropKeeps`). `CadenceInv` bounds the streaks of missed and of spurious alarms by
the cycles counted since the last full scan, which, being exact, ends both.
`QuietIsIntact` rests on `SameHeadSameChain`: two linked chains with one head are
equal, by the least distance from the head at which they differ. All theorems
of this module assume `NilIsNoDigest`, that a nil hash is the digest of nothing, a statement about every
value that TLC cannot enumerate; it holds of a model value. `ChainNames` keeps
`None` and `Forged` apart from keys.

*TimelineProofs, recoveries.* The six properties of `OrgRecovery`, for any
certificates and identities, histories of any length, any number of recoveries in
flight and any order of adoption. `OrgInvariant` is the invariant `OrgInv`, of which
`ChainVerifies` is a part: the served chain verifies, its evidence names an index
in front of it and its commits carry epochs (`Healthy`, `Sane`); the key in hand is the one verifiers expect; and a fork
that was handed out was made from a healthy copy with the shape that recoveries give
it (`Recovered`: the prefix up to the bad index, the handoff, re-issues,
revocations, the commit). What ties a fork to a chain that has moved on is the epoch
(`ForkInv`): the served chain never commits less than the copy did, and while it
commits the same it still starts with the copy, since only an adoption rewrites
history and each commits more. So a fork that `handleRecover` lets through is one
of the org's own present history, or changes nothing; that is `AdoptionGoesForward`
(`AdoptsForward`, an action property).

`FoldIsMeant` (`FoldMeaning`), `NoneResurrected` (`NoResurrection`),
`DamageIsContained` (`DamageContained`) and `BlastIsMinimal` (`MinimalBlast`) say
what recursive functions compute on whole histories. `Fold`, `AppendAll` and
`Reachable` are unfolded by lemmas and argued by the least number at which the claim
fails (`MinNat`). An entry of the fold stands for the events seen so far
(`Amounts`). The events of a chain that verifies are all different, since digests
nest, so the checkpoint that `Fork` looks up is the right one. The rounds of
`Reachable` grow, one round that adds nothing is the last, and there are more rounds
than certificates (`Rounds`, a pigeonhole argument): the bounded search is
the least closed set, the reference `Tainted`. `BlastIsMinimal` has one hypothesis
more, `NamesReserved`: no certificate of an operator has the name of a re-issued
one. It is not decoration, section 4 has the case without it.

*TenantsProofs.* `TypeCorrect`, `BootsAlways` (`Boots`), `AckedStays`
(`AckedDurable`), `HistoryKept` (`FilesKeepHistory`, an action property), with
crashes and failed writes anywhere. The invariant: what `gateway.json` lists and
what is live has its file, unless its create was refused, until a restore
or a move to the trash (`ListedHaveFiles`: `Boots` closed under saving the list);
until a restore, a generation has one object in the process at most, however
many stale pointers there are to it (`OneObject`), and its file holds nothing but
what that object does (`FileIsObject`), so a save through a stale pointer loses
nothing of it; generations are counted (`GensCounted`), so that a
chain created anew is told from the old one; and before any delete, what was
answered is in the file of a tenant that is served, and that is listed once the
process is dead (`Calm`, `Undisturbed`).

*RequestsProofs.* `TokensDurable` (`ShownTokenWorks`) and `ReplaysAreTheSame`
(`ReplayMatches`), for any window and capacity of the cache and any texts of paths, ids
and keys. `JoinTells` is the lemma about the replay key: texts without the separator
are told apart after joining. The invariant ties
the cache to the requests that filled it (`CacheHolds`), a token in an answer to
its owner in memory and on disk (`TokensKept`: a failed save may leave the two
different elsewhere), and a request on its way to the present life of the process
(`Underway`). One lemma (`RequestKeeps`) covers every step of a request.
`ScopesHold` (`ScopeHolds`, on every route with an org scope): a token that was shown, or that let a request in, has
the owner, the role and the lists it was minted with, in memory and on disk alike
(`Agreed`, `Minted`, `LetIn`), although saves fail and processes restart.
`LimiterIsExact` (`LimiterExact`): at its last update the level of a bucket is the
least of what the grants since any earlier one leave, capped by the burst
(`Exact`). `RetriesReplay` (`RetryReplays`): an answer that was stored in this life is in the
cache, or its window is over, or the cache has been emptied, which takes more than
IdemCap keys and one more answer. The attempt to prove an earlier form, which
counted keys only, failed at the emptying step: a full cache is also emptied by an
answer under a key it holds, as TLC confirms with four requests. `Overflowed` is
the corrected exception.

*OutboxProofs.* `TypeCorrect`; `DiskAgrees` (`DiskMatchesQueue`: after a save that
reached the file, whatever failed before; its two
halves are inductive only together, given types); `DeliveredOnce` (`OncePerIncarnation`) from
`OnceInv`: a job is held in one place only (queue, batch, in flight), only queued
events have jobs, and a job that is held has been received at most once per
crash.

*VaultProofs.* `AnswersDurable` (`EventsKept`), `RotationRetiresKeys`
(`OldKeyUseless`) and `CrashReopens` (`SharesReopen`), with crashes and failed
writes at any file, of a rotation too; the files that a rotation was stopped before
are the exception of the last two (`missed`). The invariant says
that a timeline in memory holds what is in its file (`MemHoldsFile`), that past the load
a gateway with a vault has all timelines in memory and the files it is through
with under its newest key (`VaultedLoaded`), and what each phase of the boot has
established (`Phases`, `LeftIsPending`): a re-seal writes files from memory, so
`EventsKept` alone is not inductive. `SealedUnderKeys` carries `SharesReopen`
through the phases in which the process runs.

*KeyProofs, key generation.* `FinishedPairsAgree` (`PairAgrees`), for any number of members, runs
and lost connections. `Mutual` is the heart: material that the dialing side holds
is of the peer's present run and the peer recorded the dialer in return, or the
peer has been started again and has recorded nothing of the dialer. It holds of
what is recorded and of a reply on its way (`CallMutual`). A member that finished
recorded everybody, which rules the second case out. That the dial loop's target
is an open peer rests on the well-foundedness of the naturals (`TargetOpen`).

*KeyProofs, key material.* `KeyIsKept` (`KeyKept`), `SignatureIffJoin`
(`SignsIffJoins`) and `FilesAlwaysLoad` (`FilesLoad`), for every prime order of the
group, members, thresholds and number of resharings. Sums, products and powers are
recursive functions whose equations come first (`SumEquations`, `PowerEquations`, by
induction on the function's domain). Congruence modulo L is an equivalence that
sums and products respect, and a factor that is not zero cancels (`Cancel`).
Lagrange's theorem at zero (`MomentsAre`) follows from a recurrence: one more
signer changes each coefficient by a factor (`LagrangeStep`), so the m-th moment of
the coefficients of a set is made of moments of the set without that signer
(`MomentStep`); by induction on the set's size the coefficients add up to one and
annihilate the powers below it. `Interpolation` is the consequence for shares of a
polynomial. The invariant `KeysInv`: every file loads and lies on the polynomial that
it is committed to, whichever dealers its member heard (`FilesGood`); that
polynomial has the group key for constant and is one for a generation, among members
that heard every dealer (`OnePolynomial`); and a resharing by such members deals the
group key again (`RoundGood`), since its dealers are a quorum and weigh what they
deal.
`PrimeOrder` is used as the existence of inverses, `KeyParams` says that
x-coordinates are between 0 and L and thresholds at least 2, and
`ErrorIsNoSignature` that nil is no signature.

*ObserverProofs, the fleet.* `TypeCorrect`, and `FlagAgrees` (`AgreesWhenQuiet`) from
`NewestIsRight`: the last verdict in the subscription, or the flag when it is
empty, is the verdict over the scores.

*ObserverProofs, the transparency log.* `GossipTypes`; `ServedProofsAreExact` (`ProofsExact`) for
trees of every size, after any appends and adopted forks. The recursive functions
are unfolded by their equations (`MthEquation`, `InclusionPath`, `ConsistencyPath`,
`WalkEquations`); `SplitIs`, the lemmas about bits and the entries of a hash
(`MthEntries`, `MthSame`) are what they rest on. Completeness compares
the walk of a verifier in a subtree with its walk in the tree around it: in a left
subtree the two differ only in how often the size's frontier can still be halved, in
a right one they take the same rounds (`LeftStep`, `RightStep`), until the subtree
ends and one more round joins the sibling (`LeftEnd`, `RightEnd`). This gives
`InclusionWalk` and `ConsistencyWalk` by induction on the subtree's size. Soundness
needs no tree: each round of `Climb` puts the same entries on both sides or new ones
behind, so what verifies has the old root's entries in front of the new one's
(`ConsistencySound`).

The gossip endpoint is proved for any number of reporters in any interleaving, the
unlocked reads and writes of the trusted head included. `AcceptedExtendsWhatWasRead`
(`AcceptedExtends`): what it accepts extends the root that it read, unless it read
the size zero; `VerifiedInv` says that a report that is accepted was verified against
what was read. `AlarmHasItsCause` (`GossipAlarmHasCause`) says when a reporter of
the log's own heads is alarmed: after a rewrite, when its proof does not start at
the size read, or when that size is not the size of the root read. `HonestInv` says
that before any recovery all roots that reporters and the gateway hold are roots of
the log, though not at the size they are stored with (`SomeHead`), and that a
reporter's proof leads from the root of its known size to its head; it needs the
completeness of consistency proofs and that a root tells its size (`RootOfItsSize`).

Assumptions on constants are few and say that nil is none of the values it stands
in for (`NilIsNoRecord`, `NilIsNoValue`, `NoSessionFresh`, `ChainNames`), that
bounds are numbers, and, in the theorems that need them, the hypotheses named
above. No proof uses a bound of the model (MaxLen, MaxCrashes, ...) for anything but
its type.

Only model-checked. Liveness (`EveryJobTried`, `Answered`, `Completes`,
`FlagFollowsDamage`) is out of the prover's reach. Every safety property of a
passing run is stated by a theorem. That the runs' counterexamples (section 4) are
behaviours of the code is shown by TLC only, on the instances given there.

## 6. Not modelled

Hashes, signatures outside FROST, ciphers, X.509 and the post-quantum channel are
symbolic or left out: that they are hard to break is not a matter for a model
checker. The CUSUM detectors (W1, W3, W5) work on real-valued rates whose meaning is
statistical; their change point is kept after the drift is over (watchdogs.go:111),
which PROJECT.json lists as a hazard without a property. `RemoteRecover` has no
deadline on its calls: a member that accepts and hangs is not modelled. Transports are connections that may fail. Clients, SDKs, reports,
benchmarks, probes and deployment files keep no state of their own. A bad_index
beyond the chain, which panics in `rollbackCheckpoint`, is outside the inputs
enumerated. Audit ring and counters are left out.

Smaller abstractions. The limiter reads the clock twice and counts in floating
point (ratelimit.go:49-50); the model has one integer clock. `POST /v1/restore`
replaces the users and is not a request of Requests (Tenants has it). A path is one
sequence of pieces. `Adopt` leaves out the checks of a fork's form (api.go:798-807),
which the forks in flight, made by the council, all pass, and the file that
`saveTenant` writes afterwards (api.go:841): when that write fails the fork stays
adopted in memory, which is the step modelled, and only the answer is an error.

## 7. Plan

Order of work, most important behaviour first; 1–13 are done.

1. CouncilNet with proofs. 2. Timeline, OrgRecovery, ChainLife. 3. Outbox with
proofs. 4. Tenants, Vault. 5. Dkg. 6. CTLog, Fleet. 7. Requests (replay cache,
tokens, limiter). 8. WatchedChain (W2, W4, mirror), ThresholdKeys.
9. HandoffLog and the proof that CouncilNet implements it.
10. Proofs about Vault, Dkg, Fleet and Requests (tokens, replays).
11. Proofs about Tenants, the scopes, retries and limiter of Requests, failures of
    CouncilNet, and WatchedChain.
12. Proofs about OrgRecovery: `ChainVerifies`, adoption, the fold and the three
    properties of recovery forks.
13. Proofs about ThresholdKeys (modular arithmetic, interpolation) and CTLog (the
    Merkle proofs and the gossip), with sums and trees as recursive functions.
14. An abstract at-most-once channel implemented by Outbox; workload identities and
    revocation lists (`identity.go`); the CUSUM change point over integer counts.
