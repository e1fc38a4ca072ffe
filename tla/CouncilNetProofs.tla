-------------------------- MODULE CouncilNetProofs --------------------------
(***************************************************************************)
(* Proofs about CouncilNet, for any number of members and initiators and   *)
(* any number of crashes and lost calls: nonce pairs are used once, a      *)
(* published handoff is signed by a quorum and is the only one of its      *)
(* epoch, the protocol implements HandoffLog, and a recovery fails only    *)
(* for a cause outside of it.                                              *)
(***************************************************************************)
EXTENDS CouncilNet, FiniteSetTheorems, TLAPS

\* The configuration the deployment uses (3 of 5): two signing quorums meet.
QuorumsMeet == 2 * MinVotes > Cardinality(Members)
-----------------------------------------------------------------------------
(* The strengthening of the safety invariants.                             *)

\* A running member's epoch is the persisted one; a crash inside commit can
\* only leave the file ahead of what memory held.
EpochPersisted ==
    \A m \in Members : epoch[m] <= disk[m] /\ (up[m] => epoch[m] = disk[m])

\* A released partial signature is for the epoch of a started recovery.
PartialsOfStarted ==
    \A p \in partials : pc[p.ini] # "idle" /\ p.epoch = EpochOf(p.ini)

\* The epoch of a released partial signature is on the signer's disk.
PartialsPersisted == \A p \in partials : p.epoch <= disk[p.mem]

\* A member signs an epoch for one initiator only.
OnePartialPerEpoch ==
    \A p, q \in partials : p.mem = q.mem /\ p.epoch = q.epoch => p.ini = q.ini

\* A share the initiator counts, or is about to, was really released.
SharesReleased ==
    /\ \A i \in Initiators : \A m \in shares[i] :
          \E p \in partials : p.mem = m /\ p.ini = i
    /\ \A r \in wire : r.kind = "COMMIT_RESP" =>
          \E p \in partials : p.mem = r.mem /\ p.ini = r.ini

\* Messages belong to started recoveries, and a finished one takes no more.
CallsOfActive ==
    /\ \A r \in wire : pc[r.ini] # "idle"
    /\ \A i \in Initiators :
          pc[i] \notin {"round1", "round2"} => waiting[i] = NoMember

\* A finished recovery counted enough shares.
DoneHasShares == \A i \in Published : Cardinality(shares[i]) >= MinVotes

\* Nonces drawn so far, and the pending one not yet signed with.
NoncesFresh ==
    /\ \A p \in partials : p.nonce <= draws[p.mem]
    /\ \A m \in Members : pending[m] # NoSession =>
          /\ pending[m].nonce <= draws[m]
          /\ \A p \in partials : p.mem = m => p.nonce # pending[m].nonce

\* What holds whatever the epoch file does ...
BaseInv ==
    /\ TypeOK
    /\ PartialsOfStarted
    /\ SharesReleased
    /\ CallsOfActive
    /\ DoneHasShares
    /\ NoncesFresh
    /\ NonceSingleUse

\* ... and what needs it to be reliable.
EpochInv ==
    /\ EpochPersisted
    /\ PartialsPersisted
    /\ OnePartialPerEpoch
-----------------------------------------------------------------------------
\* TypeOK holds initially.
LEMMA InitTypeOK == Init => TypeOK
BY BoundsNat DEF Init, TypeOK, Snapshots, Sessions, Commitments, Messages, Partials

\* Every step of the protocol preserves TypeOK.
LEMMA NextTypeOK == TypeOK /\ [Next]_vars => TypeOK'
<1> SUFFICES ASSUME TypeOK, [Next]_vars PROVE TypeOK'
  OBVIOUS
<1> USE BoundsNat, MinVotesPos, NoMemberFresh
<1>1. ASSUME NEW i \in Initiators, Start(i) PROVE TypeOK'
  <2>1. PICK last \in {0} \cup {EpochOf(j) : j \in Published},
             cp \in Checkpoints \cup {Genesis}, past \in BOOLEAN :
             snap' = [snap EXCEPT ![i] = [last |-> last, cp |-> cp, past |-> past]]
    BY <1>1, Zenon DEF Start
  <2>2. last \in Nat
    BY DEF TypeOK, EpochOf, Published, Snapshots
  <2>3. snap' \in [Initiators -> Snapshots]
    BY <2>1, <2>2 DEF TypeOK, Snapshots
  <2>4. QED
    BY <1>1, <2>3 DEF Start, TypeOK, memberVars
<1>2. ASSUME NEW i \in Initiators, NEW m \in Members, Call(i, m) PROVE TypeOK'
  BY <1>2 DEF Call, Request, TypeOK, memberVars, Messages, Kinds
<1>3. ASSUME NEW i \in Initiators, NEW m \in Members, DialDown(i, m) PROVE TypeOK'
  BY <1>3 DEF DialDown, TypeOK, memberVars
<1>4. ASSUME NEW i \in Initiators, ReceiveVote(i) PROVE TypeOK'
  <2>1. PICK r \in wire : /\ Reply(i, "VOTE_RESP", r)
                          /\ commits' = [commits EXCEPT ![i] = @ \cup {[mem |-> r.mem, nonce |-> r.nonce]}]
                          /\ UNCHANGED shares
    BY <1>4, Zenon DEF ReceiveVote, AddCommit
  <2>2. r \in Messages
    BY DEF TypeOK
  <2>3. [mem |-> r.mem, nonce |-> r.nonce] \in Commitments
    BY <2>2 DEF Messages, Commitments
  <2>4. QED
    BY <2>1, <2>3 DEF Reply, TypeOK, memberVars
<1>5. ASSUME NEW i \in Initiators, ReceiveShare(i) PROVE TypeOK'
  BY <1>5 DEF ReceiveShare, Reply, TypeOK, memberVars, Messages, AddShare
<1>6. ASSUME NEW i \in Initiators, ReceiveRefusal(i) PROVE TypeOK'
  BY <1>6 DEF ReceiveRefusal, Reply, TypeOK, memberVars
<1>7. ASSUME NEW i \in Initiators, CallBroken(i) PROVE TypeOK'
  BY <1>7 DEF CallBroken, TypeOK, memberVars
<1>8. ASSUME NEW i \in Initiators, CallLost(i) PROVE TypeOK'
  BY <1>8 DEF CallLost, TypeOK, memberVars
<1>9. ASSUME NEW i \in Initiators, BeginRound2(i) PROVE TypeOK'
  BY <1>9 DEF BeginRound2, TypeOK, memberVars
<1>10. ASSUME NEW i \in Initiators, GiveUp(i) PROVE TypeOK'
  BY <1>10 DEF GiveUp, TypeOK, memberVars
<1>11. ASSUME NEW i \in Initiators, Publish(i) PROVE TypeOK'
  BY <1>11 DEF Publish, TypeOK, memberVars
<1>12. ASSUME NEW m \in Members, Vote(m) PROVE TypeOK'
  <2>1. PICK q \in wire :
          /\ Handles(m, q, "VOTE")
          /\ used' = [used EXCEPT ![m] = TRUE]
          /\ draws' = [draws EXCEPT ![m] = @ + 1]
          /\ pending' = [pending EXCEPT ![m] =
               [epoch |-> EpochOf(q.ini), cp |-> snap[q.ini].cp, nonce |-> draws[m] + 1]]
          /\ Answer(q, "VOTE_RESP", draws[m] + 1)
          /\ UNCHANGED <<up, epoch, disk, initVars, partials, crashes, drops>>
    BY <1>12, Zenon DEF Vote, SignerCommit
  <2>2. q \in Messages /\ q.ini \in Initiators /\ draws[m] \in Nat
    BY DEF TypeOK, Messages
  <2>3. [epoch |-> EpochOf(q.ini), cp |-> snap[q.ini].cp, nonce |-> draws[m] + 1] \in Sessions
    BY <2>2 DEF TypeOK, Snapshots, Sessions, EpochOf
  <2>4. wire' \in SUBSET Messages
    BY <2>1, <2>2 DEF TypeOK, Answer, Messages, Kinds
  <2>5. QED
    BY <2>1, <2>2, <2>3, <2>4 DEF TypeOK, initVars
<1>13. ASSUME NEW m \in Members, RefuseVote(m) PROVE TypeOK'
  BY <1>13 DEF RefuseVote, Answer, TypeOK, memberVars, initVars, Messages, Kinds
<1>14. ASSUME NEW m \in Members, Commit(m) PROVE TypeOK'
  <2>1. PICK q \in wire :
        /\ Handles(m, q, "COMMIT_REQ")
        /\ CommitAccepted(m, q.ini)
        /\ partials' = partials \cup
             {[mem |-> m, nonce |-> pending[m].nonce, ini |-> q.ini, epoch |-> EpochOf(q.ini)]}
        /\ epoch' = [epoch EXCEPT ![m] = EpochOf(q.ini)]
        /\ \E d \in FileAfterWrite(m, EpochOf(q.ini)) : disk' = [disk EXCEPT ![m] = d]
        /\ pending' = [pending EXCEPT ![m] = NoSession]
        /\ Answer(q, "COMMIT_RESP", 0)
        /\ UNCHANGED <<up, used, draws, initVars, crashes, drops>>
    BY <1>14, Zenon DEF Commit, SignShare
  <2>2. q \in Messages /\ q.ini \in Initiators /\ EpochOf(q.ini) \in Nat
    BY DEF TypeOK, Messages, EpochOf, Snapshots
  <2>3. pending[m].nonce \in Nat
    BY <2>1 DEF TypeOK, CommitAccepted, Sessions
  <2>4. disk' \in [Members -> Nat]
    BY <2>1, <2>2 DEF TypeOK, FileAfterWrite
  <2>5. wire' \in SUBSET Messages
    BY <2>1, <2>2 DEF TypeOK, Answer, Messages, Kinds
  <2>6. partials' \in SUBSET Partials
    BY <2>1, <2>2, <2>3 DEF TypeOK, Partials
  <2>7. QED
    BY <2>1, <2>2, <2>4, <2>5, <2>6 DEF TypeOK, initVars
<1>15. ASSUME NEW m \in Members, RefuseCommit(m) PROVE TypeOK'
  BY <1>15 DEF RefuseCommit, Answer, TypeOK, memberVars, initVars, Messages, Kinds
<1>16. ASSUME NEW m \in Members, Crash(m) PROVE TypeOK'
  BY <1>16 DEF Crash, LoseRequests, TypeOK, initVars
<1>17. ASSUME NEW m \in Members, CrashInCommit(m) PROVE TypeOK'
  <2>1. PICK q \in wire :
          \E d \in FileAfterWrite(m, EpochOf(q.ini)) : disk' = [disk EXCEPT ![m] = d]
    BY <1>17, Zenon DEF CrashInCommit
  <2>2. q.ini \in Initiators /\ EpochOf(q.ini) \in Nat
    BY DEF TypeOK, Messages, EpochOf, Snapshots
  <2>3. disk' \in [Members -> Nat]
    BY <2>1, <2>2 DEF TypeOK, FileAfterWrite
  <2>4. QED
    BY <1>17, <2>3 DEF CrashInCommit, LoseRequests, TypeOK, initVars
<1>18. ASSUME NEW m \in Members, Restart(m) PROVE TypeOK'
  BY <1>18 DEF Restart, TypeOK, initVars
<1>19. CASE UNCHANGED vars
  BY <1>19 DEF vars, TypeOK
<1>20. QED
  BY <1>1, <1>2, <1>3, <1>4, <1>5, <1>6, <1>7, <1>8, <1>9, <1>10, <1>11, <1>12,
     <1>13, <1>14, <1>15, <1>16, <1>17, <1>18, <1>19
     DEF Next, InitiatorStep, MemberStep, Fault

\* Type correctness of the council protocol, with or without a reliable
\* epoch file.
THEOREM TypeCorrect == Spec => []TypeOK
BY InitTypeOK, NextTypeOK, PTL DEF Spec
-----------------------------------------------------------------------------
(* The part of the invariant that holds even with a lossy epoch file.      *)

\* Nothing has been signed initially.
LEMMA InitBaseInv == Init => BaseInv
<1> SUFFICES ASSUME Init PROVE BaseInv
  OBVIOUS
<1>1. TypeOK
  BY InitTypeOK
<1>2. QED
  BY <1>1 DEF Init, BaseInv, PartialsOfStarted, SharesReleased, CallsOfActive,
              DoneHasShares, Published, NoncesFresh, NonceSingleUse

\* Every step of the protocol preserves BaseInv.
LEMMA NextBaseInv == BaseInv /\ [Next]_vars => BaseInv'
<1> SUFFICES ASSUME BaseInv, [Next]_vars PROVE BaseInv'
  OBVIOUS
<1> DEFINE Rest == /\ PartialsOfStarted /\ SharesReleased /\ CallsOfActive
                   /\ DoneHasShares /\ NoncesFresh /\ NonceSingleUse
<1>0. TypeOK /\ TypeOK' /\ Rest
  BY NextTypeOK DEF BaseInv
<1> USE NoMemberFresh
<1>1. ASSUME NEW i \in Initiators, Start(i) PROVE Rest'
  <2>1. /\ pc[i] = "idle"
        /\ pc' = [pc EXCEPT ![i] = "round1"]
        /\ \A j \in Initiators : j # i => snap'[j] = snap[j]
        /\ UNCHANGED <<memberVars, asked, waiting, commits, shares, wire, partials>>
    BY <1>0, <1>1 DEF Start, TypeOK
  <2>2. PartialsOfStarted'
    BY <1>0, <2>1 DEF PartialsOfStarted, TypeOK, Partials, EpochOf
  <2>3. SharesReleased' /\ NoncesFresh' /\ NonceSingleUse'
    BY <1>0, <2>1 DEF SharesReleased, NoncesFresh, NonceSingleUse, memberVars
  <2>4. CallsOfActive'
    BY <1>0, <2>1 DEF CallsOfActive, TypeOK, Messages
  <2>5. DoneHasShares'
    BY <1>0, <2>1 DEF DoneHasShares, Published, TypeOK
  <2>6. QED
    BY <2>2, <2>3, <2>4, <2>5
<1>2. ASSUME NEW i \in Initiators, NEW m \in Members, Call(i, m) PROVE Rest'
  <2>1. /\ pc[i] \in {"round1", "round2"}
        /\ UNCHANGED <<memberVars, pc, snap, commits, shares, partials>>
        /\ waiting' = [waiting EXCEPT ![i] = m]
        /\ \E k \in {"VOTE", "COMMIT_REQ"} : wire' = wire \cup {Request(k, i, m)}
    BY <1>2 DEF Call, NextEndpoint
  <2>2. PICK k \in {"VOTE", "COMMIT_REQ"} : wire' = wire \cup {Request(k, i, m)}
    BY <2>1
  <2>3. CallsOfActive'
    BY <1>0, <2>1, <2>2 DEF CallsOfActive, TypeOK, Request
  <2>4. SharesReleased'
    BY <1>0, <2>1, <2>2 DEF SharesReleased, Request
  <2>5. PartialsOfStarted' /\ DoneHasShares' /\ NoncesFresh' /\ NonceSingleUse'
    BY <1>0, <2>1 DEF PartialsOfStarted, DoneHasShares, NoncesFresh, NonceSingleUse,
                      memberVars, Published, EpochOf
  <2>6. QED
    BY <2>3, <2>4, <2>5
<1>3. ASSUME NEW i \in Initiators, NEW m \in Members, DialDown(i, m) PROVE Rest'
  BY <1>0, <1>3 DEF DialDown, PartialsOfStarted, SharesReleased, CallsOfActive,
       DoneHasShares, NoncesFresh, NonceSingleUse, memberVars, Published, EpochOf
<1>4. ASSUME NEW i \in Initiators, ReceiveVote(i) \/ ReceiveRefusal(i) PROVE Rest'
  <2>1. PICK r \in wire : /\ wire' = wire \ {r}
                          /\ waiting' = [waiting EXCEPT ![i] = NoMember]
                          /\ UNCHANGED <<memberVars, pc, snap, shares, partials>>
    BY <1>4 DEF ReceiveVote, ReceiveRefusal, Reply
  <2>2. QED
    BY <1>0, <2>1 DEF TypeOK, PartialsOfStarted, SharesReleased, CallsOfActive,
       DoneHasShares, NoncesFresh, NonceSingleUse, memberVars, Published, EpochOf
<1>5. ASSUME NEW i \in Initiators, ReceiveShare(i) PROVE Rest'
  <2>1. PICK r \in wire : /\ r.ini = i /\ r.kind = "COMMIT_RESP" /\ r.mem = waiting[i]
                          /\ wire' = wire \ {r}
                          /\ waiting' = [waiting EXCEPT ![i] = NoMember]
                          /\ shares' = [shares EXCEPT ![i] = @ \cup {r.mem}]
                          /\ UNCHANGED <<memberVars, pc, snap, partials>>
    BY <1>5 DEF ReceiveShare, Reply, AddShare
  <2>2. r.mem \in Members
    BY <1>0 DEF TypeOK, Messages
  <2>3. pc[i] # "done"
    BY <1>0, <2>1, <2>2 DEF CallsOfActive
  <2>4. DoneHasShares'
    BY <1>0, <2>1, <2>3 DEF DoneHasShares, Published, TypeOK
  <2>5. SharesReleased'
    BY <1>0, <2>1 DEF SharesReleased, TypeOK
  <2>6. CallsOfActive'
    BY <1>0, <2>1 DEF CallsOfActive, TypeOK
  <2>7. PartialsOfStarted' /\ NoncesFresh' /\ NonceSingleUse'
    BY <1>0, <2>1 DEF PartialsOfStarted, NoncesFresh, NonceSingleUse, memberVars, EpochOf
  <2>8. QED
    BY <2>4, <2>5, <2>6, <2>7
<1>6. ASSUME NEW i \in Initiators, CallBroken(i) \/ CallLost(i) PROVE Rest'
  <2>1. /\ wire' \subseteq wire
        /\ waiting' = [waiting EXCEPT ![i] = NoMember]
        /\ UNCHANGED <<memberVars, pc, snap, shares, partials>>
    BY <1>6 DEF CallBroken, CallLost
  <2>2. QED
    BY <1>0, <2>1 DEF TypeOK, PartialsOfStarted, SharesReleased, CallsOfActive,
       DoneHasShares, NoncesFresh, NonceSingleUse, memberVars, Published, EpochOf
<1>7. ASSUME NEW i \in Initiators, BeginRound2(i) \/ GiveUp(i) PROVE Rest'
  <2>1. /\ waiting[i] = NoMember
        /\ \E s \in {"round2", "failed"} : pc' = [pc EXCEPT ![i] = s]
        /\ UNCHANGED <<memberVars, snap, waiting, shares, wire, partials>>
    BY <1>7 DEF BeginRound2, GiveUp
  <2>2. PICK s \in {"round2", "failed"} : pc' = [pc EXCEPT ![i] = s]
    BY <2>1
  <2>3. PartialsOfStarted' /\ CallsOfActive' /\ DoneHasShares'
    BY <1>0, <2>1, <2>2 DEF TypeOK, PartialsOfStarted, CallsOfActive, DoneHasShares,
       Published, EpochOf, Messages, Partials
  <2>4. SharesReleased' /\ NoncesFresh' /\ NonceSingleUse'
    BY <1>0, <2>1 DEF SharesReleased, NoncesFresh, NonceSingleUse, memberVars
  <2>5. QED
    BY <2>3, <2>4
<1>8. ASSUME NEW i \in Initiators, Publish(i) PROVE Rest'
  <2>1. /\ waiting[i] = NoMember
        /\ Cardinality(shares[i]) >= MinVotes
        /\ pc' = [pc EXCEPT ![i] = "done"]
        /\ UNCHANGED <<memberVars, snap, waiting, shares, wire, partials>>
    BY <1>8 DEF Publish, Enough
  <2>2. PartialsOfStarted' /\ CallsOfActive' /\ DoneHasShares'
    BY <1>0, <2>1 DEF TypeOK, PartialsOfStarted, CallsOfActive, DoneHasShares,
       Published, EpochOf, Messages, Partials
  <2>3. SharesReleased' /\ NoncesFresh' /\ NonceSingleUse'
    BY <1>0, <2>1 DEF SharesReleased, NoncesFresh, NonceSingleUse, memberVars
  <2>4. QED
    BY <2>2, <2>3
<1>9. ASSUME NEW m \in Members, Vote(m) PROVE Rest'
  <2>1. PICK q \in wire :
          /\ draws' = [draws EXCEPT ![m] = @ + 1]
          /\ pending' = [pending EXCEPT ![m] =
               [epoch |-> EpochOf(q.ini), cp |-> snap[q.ini].cp, nonce |-> draws[m] + 1]]
          /\ Answer(q, "VOTE_RESP", draws[m] + 1)
          /\ UNCHANGED <<initVars, partials>>
    BY <1>9 DEF Vote, SignerCommit
  <2>2. PartialsOfStarted' /\ DoneHasShares' /\ NonceSingleUse'
    BY <1>0, <2>1 DEF PartialsOfStarted, DoneHasShares, NonceSingleUse, initVars,
                      Published, EpochOf
  <2>3. SharesReleased' /\ CallsOfActive'
    BY <1>0, <2>1 DEF SharesReleased, CallsOfActive, Answer, initVars
  <2>4. NoncesFresh'
    <3>1. \A p \in partials : p.nonce \in Nat /\ p.mem \in Members
      BY <1>0 DEF TypeOK, Partials
    <3>2. draws[m] \in Nat /\ draws'[m] = draws[m] + 1 /\ pending'[m].nonce = draws[m] + 1
      BY <1>0, <2>1 DEF TypeOK
    <3>3. \A n \in Members : n # m => draws'[n] = draws[n] /\ pending'[n] = pending[n]
      BY <1>0, <2>1 DEF TypeOK
    <3>4. partials' = partials
      BY <2>1
    <3>5. \A p \in partials : p.nonce <= draws[p.mem]
      BY <1>0 DEF NoncesFresh
    <3>6. \A p \in partials : p.nonce <= draws'[p.mem]
      BY <3>1, <3>2, <3>3, <3>5
    <3>7. \A p \in partials : p.mem = m => p.nonce # pending'[m].nonce
      BY <3>1, <3>2, <3>5
    <3>8. ASSUME NEW n \in Members, pending'[n] # NoSession
          PROVE  /\ pending'[n].nonce <= draws'[n]
                 /\ \A p \in partials : p.mem = n => p.nonce # pending'[n].nonce
      <4>1. CASE n = m
        BY <3>2, <3>7, <4>1
      <4>2. CASE n # m
        BY <1>0, <3>3, <3>8, <4>2 DEF NoncesFresh
      <4>3. QED
        BY <4>1, <4>2
    <3>9. QED
      BY <3>4, <3>6, <3>8 DEF NoncesFresh
  <2>5. QED
    BY <2>2, <2>3, <2>4
<1>10. ASSUME NEW m \in Members, RefuseVote(m) \/ RefuseCommit(m) PROVE Rest'
  <2>1. PICK q \in wire : /\ Answer(q, "REFUSED", 0)
                          /\ UNCHANGED <<memberVars, initVars, partials>>
    BY <1>10 DEF RefuseVote, RefuseCommit
  <2>2. SharesReleased' /\ CallsOfActive'
    BY <1>0, <2>1 DEF SharesReleased, CallsOfActive, Answer, initVars
  <2>3. PartialsOfStarted' /\ DoneHasShares' /\ NoncesFresh' /\ NonceSingleUse'
    BY <1>0, <2>1 DEF PartialsOfStarted, DoneHasShares, NoncesFresh, NonceSingleUse,
                      initVars, memberVars, Published, EpochOf
  <2>4. QED
    BY <2>2, <2>3
<1>11. ASSUME NEW m \in Members, Commit(m) PROVE Rest'
  <2>1. PICK q \in wire :
          /\ Handles(m, q, "COMMIT_REQ")
          /\ CommitAccepted(m, q.ini)
          /\ partials' = partials \cup
               {[mem |-> m, nonce |-> pending[m].nonce, ini |-> q.ini, epoch |-> EpochOf(q.ini)]}
          /\ pending' = [pending EXCEPT ![m] = NoSession]
          /\ Answer(q, "COMMIT_RESP", 0)
          /\ UNCHANGED <<draws, initVars>>
    BY <1>11, Zenon DEF Commit, SignShare
  <2> DEFINE new == [mem |-> m, nonce |-> pending[m].nonce, ini |-> q.ini, epoch |-> EpochOf(q.ini)]
  <2>2. /\ q.ini \in Initiators /\ q.mem = m /\ pc[q.ini] # "idle"
        /\ new.mem = m /\ new.ini = q.ini /\ new.nonce = pending[m].nonce
        /\ new.epoch = EpochOf(q.ini)
    BY <1>0, <2>1 DEF TypeOK, Messages, CallsOfActive, Handles
  <2>3. PartialsOfStarted'
    BY <1>0, <2>1, <2>2 DEF PartialsOfStarted, initVars, EpochOf
  <2>4. SharesReleased'
    <3>1. new \in partials' /\ partials \subseteq partials' /\ UNCHANGED shares
      BY <2>1 DEF initVars
    <3>2. \A r \in wire' : r \in wire \/ (r.mem = m /\ r.ini = q.ini)
      BY <2>1, <2>2 DEF Answer
    <3>3. \A i \in Initiators : \A n \in shares'[i] : \E p \in partials' : p.mem = n /\ p.ini = i
      BY <1>0, <3>1 DEF SharesReleased
    <3>4. \A r \in wire' : r.kind = "COMMIT_RESP" =>
             \E p \in partials' : p.mem = r.mem /\ p.ini = r.ini
      BY <1>0, <2>2, <3>1, <3>2 DEF SharesReleased
    <3>5. QED
      BY <3>3, <3>4 DEF SharesReleased
  <2>5. CallsOfActive'
    BY <1>0, <2>1 DEF CallsOfActive, Answer, initVars
  <2>6. DoneHasShares'
    BY <1>0, <2>1 DEF DoneHasShares, Published, initVars
  <2>7. /\ pending[m] # NoSession
        /\ pending[m].nonce <= draws[m]
        /\ \A p \in partials : p.mem = m => p.nonce # pending[m].nonce
    BY <1>0, <2>1 DEF NoncesFresh, CommitAccepted
  <2>8. NonceSingleUse'
    BY <1>0, <2>1, <2>2, <2>7 DEF NonceSingleUse
  <2>9. NoncesFresh'
    <3>1. \A p \in partials' : p.nonce <= draws'[p.mem]
      BY <1>0, <2>1, <2>2, <2>7 DEF NoncesFresh
    <3>2. \A n \in Members : pending'[n] # NoSession =>
            /\ n # m
            /\ pending'[n] = pending[n]
      BY <1>0, <2>1 DEF TypeOK
    <3>3. QED
      BY <1>0, <2>1, <2>2, <3>1, <3>2 DEF NoncesFresh
  <2>10. QED
    BY <2>3, <2>4, <2>5, <2>6, <2>8, <2>9
<1>12. ASSUME NEW m \in Members, Crash(m) \/ CrashInCommit(m) PROVE Rest'
  <2>1. /\ wire' \subseteq wire
        /\ UNCHANGED <<pending, draws, initVars, partials>>
    BY <1>12 DEF Crash, CrashInCommit, LoseRequests
  <2>2. QED
    BY <1>0, <2>1 DEF PartialsOfStarted, SharesReleased, CallsOfActive,
       DoneHasShares, NoncesFresh, NonceSingleUse, initVars, Published, EpochOf
<1>13. ASSUME NEW m \in Members, Restart(m) PROVE Rest'
  <2>1. /\ pending' = [pending EXCEPT ![m] = NoSession]
        /\ UNCHANGED <<draws, initVars, wire, partials>>
    BY <1>13 DEF Restart
  <2>2. NoncesFresh'
    BY <1>0, <2>1 DEF NoncesFresh, TypeOK
  <2>3. QED
    BY <1>0, <2>1, <2>2 DEF PartialsOfStarted, SharesReleased, CallsOfActive,
       DoneHasShares, NonceSingleUse, initVars, Published, EpochOf
<1>14. ASSUME UNCHANGED vars PROVE Rest'
  <2>1. UNCHANGED <<pending, draws, pc, snap, waiting, shares, wire, partials>>
    BY <1>14 DEF vars
  <2>2. PartialsOfStarted' /\ DoneHasShares'
    BY <1>0, <2>1 DEF PartialsOfStarted, DoneHasShares, Published, EpochOf
  <2>3. SharesReleased' /\ CallsOfActive'
    BY <1>0, <2>1 DEF SharesReleased, CallsOfActive
  <2>4. NoncesFresh' /\ NonceSingleUse'
    BY <1>0, <2>1 DEF NoncesFresh, NonceSingleUse
  <2>5. QED
    BY <2>2, <2>3, <2>4
<1> HIDE DEF Rest
<1>15. Rest'
  BY <1>1, <1>2, <1>3, <1>4, <1>5, <1>6, <1>7, <1>8, <1>9, <1>10, <1>11, <1>12,
     <1>13, <1>14 DEF Next, InitiatorStep, MemberStep, Fault
<1>16. QED
  BY <1>0, <1>15 DEF BaseInv, Rest

\* BaseInv is an invariant.
LEMMA BaseInvariant == Spec => []BaseInv
BY InitBaseInv, NextBaseInv, PTL DEF Spec

\* No FROST nonce pair ever answers two transcripts, whatever crashes,
\* restarts, lost calls and epoch-file faults happen (vote and commit).
THEOREM NonceSafety == Spec => []NonceSingleUse
<1>1. BaseInv => NonceSingleUse
  BY DEF BaseInv
<1>2. QED
  BY <1>1, BaseInvariant, PTL
-----------------------------------------------------------------------------
(* The part that needs persistEpoch to be reliable.                        *)

\* Nothing has been persisted initially.
LEMMA InitEpochInv == Init => EpochInv
BY DEF Init, EpochInv, EpochPersisted, PartialsPersisted, OnePartialPerEpoch

\* Every step preserves EpochInv as long as the epoch file is reliable.
LEMMA NextEpochInv ==
    ASSUME ~LossyEpochFile
    PROVE  BaseInv /\ EpochInv /\ [Next]_vars => EpochInv'
<1> SUFFICES ASSUME BaseInv, EpochInv, [Next]_vars PROVE EpochInv'
  OBVIOUS
<1>0. TypeOK /\ TypeOK' /\ EpochPersisted /\ PartialsPersisted /\ OnePartialPerEpoch
  BY NextTypeOK DEF BaseInv, EpochInv
<1>1. ASSUME UNCHANGED <<up, epoch, disk, partials>> PROVE EpochInv'
  BY <1>0, <1>1 DEF EpochInv, EpochPersisted, PartialsPersisted, OnePartialPerEpoch
<1>2. ASSUME NEW m \in Members, Commit(m) PROVE EpochInv'
  <2>1. PICK q \in wire :
          /\ Handles(m, q, "COMMIT_REQ")
          /\ CommitAccepted(m, q.ini)
          /\ partials' = partials \cup
               {[mem |-> m, nonce |-> pending[m].nonce, ini |-> q.ini, epoch |-> EpochOf(q.ini)]}
          /\ epoch' = [epoch EXCEPT ![m] = EpochOf(q.ini)]
          /\ \E d \in FileAfterWrite(m, EpochOf(q.ini)) : disk' = [disk EXCEPT ![m] = d]
          /\ UNCHANGED up
    BY <1>2, Zenon DEF Commit, SignShare
  <2> DEFINE new == [mem |-> m, nonce |-> pending[m].nonce, ini |-> q.ini, epoch |-> EpochOf(q.ini)]
  <2>2. /\ disk' = [disk EXCEPT ![m] = EpochOf(q.ini)]
        /\ up[m] /\ EpochOf(q.ini) > epoch[m] /\ epoch[m] = disk[m]
        /\ q.ini \in Initiators /\ EpochOf(q.ini) \in Nat
        /\ new.mem = m /\ new.ini = q.ini /\ new.epoch = EpochOf(q.ini)
    BY <1>0, <2>1 DEF FileAfterWrite, Handles, CommitAccepted, EpochPersisted, TypeOK,
                      Messages, EpochOf, Snapshots
  <2>3. EpochPersisted'
    BY <1>0, <2>1, <2>2 DEF EpochPersisted, TypeOK
  <2>4. \A p \in partials : p.mem \in Members /\ p.epoch \in Nat /\ p.epoch <= disk[p.mem]
    BY <1>0 DEF PartialsPersisted, TypeOK, Partials
  <2>5. PartialsPersisted'
    BY <1>0, <2>1, <2>2, <2>4 DEF PartialsPersisted, TypeOK
  <2>6. \A p \in partials : p.mem = m => p.epoch # EpochOf(q.ini)
    BY <1>0, <2>2, <2>4 DEF TypeOK
  <2>7. OnePartialPerEpoch'
    BY <1>0, <2>1, <2>2, <2>6 DEF OnePartialPerEpoch
  <2>8. QED
    BY <2>3, <2>5, <2>7 DEF EpochInv
<1>3. ASSUME NEW m \in Members, Crash(m) PROVE EpochInv'
  BY <1>0, <1>3 DEF Crash, EpochInv, EpochPersisted, PartialsPersisted,
                    OnePartialPerEpoch, TypeOK
<1>4. ASSUME NEW m \in Members, CrashInCommit(m) PROVE EpochInv'
  <2>1. PICK q \in wire :
          /\ Handles(m, q, "COMMIT_REQ")
          /\ CommitAccepted(m, q.ini)
          /\ \E d \in FileAfterWrite(m, EpochOf(q.ini)) : disk' = [disk EXCEPT ![m] = d]
    BY <1>4, Zenon DEF CrashInCommit
  <2>2. /\ disk' = [disk EXCEPT ![m] = EpochOf(q.ini)]
        /\ EpochOf(q.ini) > epoch[m] /\ epoch[m] = disk[m]
        /\ EpochOf(q.ini) \in Nat
    <3>1. FileAfterWrite(m, EpochOf(q.ini)) = {EpochOf(q.ini)}
      BY DEF FileAfterWrite
    <3>2. EpochOf(q.ini) \in Nat
      BY <1>0 DEF TypeOK, Messages, EpochOf, Snapshots
    <3>3. up[m] /\ EpochOf(q.ini) > epoch[m]
      BY <2>1 DEF Handles, CommitAccepted
    <3>4. QED
      BY <1>0, <2>1, <3>1, <3>2, <3>3 DEF EpochPersisted
  <2>3. up' = [up EXCEPT ![m] = FALSE] /\ UNCHANGED <<epoch, partials>>
    BY <1>4 DEF CrashInCommit
  <2>4. EpochPersisted'
    BY <1>0, <2>2, <2>3 DEF EpochPersisted, TypeOK
  <2>5. \A p \in partials : p.mem \in Members /\ p.epoch \in Nat /\ p.epoch <= disk[p.mem]
    BY <1>0 DEF PartialsPersisted, TypeOK, Partials
  <2>6. PartialsPersisted'
    <3>1. \A n \in Members : disk'[n] \in Nat /\ disk[n] \in Nat /\ disk'[n] >= disk[n]
      BY <1>0, <2>2 DEF TypeOK
    <3>2. QED
      BY <2>3, <2>5, <3>1 DEF PartialsPersisted
  <2>7. QED
    BY <1>0, <2>3, <2>4, <2>6 DEF EpochInv, OnePartialPerEpoch
<1>5. ASSUME NEW m \in Members, Restart(m) PROVE EpochInv'
  BY <1>0, <1>5 DEF Restart, EpochInv, EpochPersisted, PartialsPersisted,
                    OnePartialPerEpoch, TypeOK
<1>6. ASSUME NEW i \in Initiators, Start(i) \/ InitiatorStep(i) \/ CallLost(i)
      PROVE  UNCHANGED <<up, epoch, disk, partials>>
  BY <1>6 DEF Start, InitiatorStep, Call, DialDown, ReceiveVote, ReceiveShare,
     ReceiveRefusal, Reply, CallBroken, CallLost, BeginRound2, GiveUp, Publish, memberVars
<1>7. ASSUME NEW m \in Members, Vote(m) \/ RefuseVote(m) \/ RefuseCommit(m)
      PROVE  UNCHANGED <<up, epoch, disk, partials>>
  BY <1>7 DEF Vote, RefuseVote, RefuseCommit, memberVars
<1>8. ASSUME UNCHANGED vars PROVE UNCHANGED <<up, epoch, disk, partials>>
  BY <1>8 DEF vars
<1>9. QED
  BY <1>1, <1>2, <1>3, <1>4, <1>5, <1>6, <1>7, <1>8 DEF Next, MemberStep, Fault

\* EpochInv is an invariant under a reliable epoch file.
LEMMA EpochInvariant ==
    ASSUME ~LossyEpochFile
    PROVE  Spec => [](BaseInv /\ EpochInv)
<1>1. Init => BaseInv /\ EpochInv
  BY InitBaseInv, InitEpochInv
<1>2. BaseInv /\ EpochInv /\ [Next]_vars => (BaseInv /\ EpochInv)'
  BY NextBaseInv, NextEpochInv
<1>3. QED
  BY <1>1, <1>2, PTL DEF Spec

\* The quorum argument: the signers of two published handoffs of one epoch
\* have a member in common, and that member signed the epoch once.
LEMMA QuorumArgument ==
    ASSUME QuorumsMeet
    PROVE  BaseInv /\ EpochInv => OneHandoffPerEpoch
<1> SUFFICES ASSUME BaseInv, EpochInv, NEW i \in Published, NEW j \in Published,
                    EpochOf(i) = EpochOf(j)
             PROVE  i = j
  BY DEF OneHandoffPerEpoch
<1>1. /\ i \in Initiators /\ j \in Initiators
      /\ shares[i] \subseteq Members /\ shares[j] \subseteq Members
      /\ Cardinality(shares[i]) >= MinVotes /\ Cardinality(shares[j]) >= MinVotes
  BY DEF BaseInv, TypeOK, DoneHasShares, Published
<1>2. /\ Cardinality(shares[i]) \in Nat /\ Cardinality(shares[j]) \in Nat
      /\ Cardinality(Members) \in Nat
  BY <1>1, MembersFinite, FS_Subset, FS_CardinalityType
<1>3. Cardinality(shares[i]) + Cardinality(shares[j]) > Cardinality(Members)
  BY <1>1, <1>2, MinVotesPos DEF QuorumsMeet
<1>4. shares[i] \cap shares[j] # {}
  BY <1>1, <1>3, MembersFinite, FS_MajoritiesIntersect
<1>5. PICK m : m \in shares[i] /\ m \in shares[j]
  BY <1>4
<1>6. PICK p \in partials : p.mem = m /\ p.ini = i
  BY <1>1, <1>5 DEF BaseInv, SharesReleased
<1>7. PICK q \in partials : q.mem = m /\ q.ini = j
  BY <1>1, <1>5 DEF BaseInv, SharesReleased
<1>8. p.epoch = q.epoch
  BY <1>6, <1>7 DEF BaseInv, PartialsOfStarted
<1>9. QED
  BY <1>6, <1>7, <1>8 DEF EpochInv, OnePartialPerEpoch

\* At most one handoff is ever published for an epoch, for every council in
\* which two signing quorums intersect and whose epoch files are reliable.
THEOREM HandoffSafety ==
    ASSUME ~LossyEpochFile, QuorumsMeet
    PROVE  Spec => []OneHandoffPerEpoch
BY EpochInvariant, QuorumArgument, PTL

\* Every published handoff carries the signatures of MinVotes members.
THEOREM PublishedSigned == Spec => []PublishedIsSigned
<1>1. BaseInv => PublishedIsSigned
  <2> SUFFICES ASSUME BaseInv, NEW i \in Published
               PROVE  Cardinality({m \in Members : \E p \in partials :
                          p.mem = m /\ p.ini = i /\ p.epoch = EpochOf(i)}) >= MinVotes
    BY DEF PublishedIsSigned
  <2> DEFINE Signers == {m \in Members : \E p \in partials :
                          p.mem = m /\ p.ini = i /\ p.epoch = EpochOf(i)}
  <2>1. i \in Initiators /\ shares[i] \subseteq Members /\ Cardinality(shares[i]) >= MinVotes
    BY DEF BaseInv, TypeOK, DoneHasShares, Published
  <2>2. shares[i] \subseteq Signers
    BY <2>1 DEF BaseInv, SharesReleased, PartialsOfStarted
  <2>3. IsFiniteSet(Signers)
    BY MembersFinite, FS_Subset
  <2>4. /\ Cardinality(shares[i]) <= Cardinality(Signers)
        /\ Cardinality(Signers) \in Nat /\ Cardinality(shares[i]) \in Nat
    BY <2>2, <2>3, FS_Subset, FS_CardinalityType
  <2>5. QED
    BY <2>1, <2>4, MinVotesPos
<1>2. QED
  BY <1>1, BaseInvariant, PTL

\* No member goes back behind an epoch it committed to, across any number
\* of crashes and restarts, if its epoch file is reliable.
THEOREM EpochMonotonic ==
    ASSUME ~LossyEpochFile
    PROVE  Spec => EpochNeverRegresses
<1>1. BaseInv /\ EpochInv /\ [Next]_vars => [\A m \in Members : epoch'[m] >= epoch[m]]_vars
  <2> SUFFICES ASSUME BaseInv, EpochInv, Next
               PROVE  \A n \in Members : epoch'[n] >= epoch[n]
    OBVIOUS
  <2>0. TypeOK /\ EpochPersisted
    BY DEF BaseInv, EpochInv
  <2>1. ASSUME UNCHANGED epoch PROVE \A n \in Members : epoch'[n] >= epoch[n]
    BY <2>0, <2>1 DEF TypeOK
  <2>2. ASSUME NEW m \in Members, Commit(m) PROVE \A n \in Members : epoch'[n] >= epoch[n]
    <3>1. PICK q \in wire : /\ CommitAccepted(m, q.ini)
                            /\ epoch' = [epoch EXCEPT ![m] = EpochOf(q.ini)]
      BY <2>2, Zenon DEF Commit
    <3>2. EpochOf(q.ini) \in Nat /\ EpochOf(q.ini) > epoch[m]
      BY <2>0, <3>1 DEF TypeOK, Messages, Snapshots, EpochOf, CommitAccepted
    <3>3. QED
      BY <2>0, <3>1, <3>2 DEF TypeOK
  <2>3. ASSUME NEW m \in Members, Restart(m) PROVE \A n \in Members : epoch'[n] >= epoch[n]
    BY <2>0, <2>3 DEF Restart, EpochPersisted, TypeOK
  <2>4. ASSUME NEW i \in Initiators, Start(i) \/ InitiatorStep(i) \/ CallLost(i)
        PROVE  UNCHANGED epoch
    BY <2>4 DEF Start, InitiatorStep, Call, DialDown, ReceiveVote, ReceiveShare,
       ReceiveRefusal, Reply, CallBroken, CallLost, BeginRound2, GiveUp, Publish, memberVars
  <2>5. ASSUME NEW m \in Members,
               Vote(m) \/ RefuseVote(m) \/ RefuseCommit(m) \/ Crash(m) \/ CrashInCommit(m)
        PROVE  UNCHANGED epoch
    BY <2>5 DEF Vote, RefuseVote, RefuseCommit, Crash, CrashInCommit, memberVars
  <2>6. QED
    BY <2>1, <2>2, <2>3, <2>4, <2>5 DEF Next, MemberStep, Fault
<1>2. QED
  BY <1>1, EpochInvariant, PTL DEF Spec, EpochNeverRegresses
-----------------------------------------------------------------------------
(* A recovery that meets no trouble succeeds.                              *)

\* There are at least as many members as a recovery needs votes.
EnoughMembers == MinVotes <= Cardinality(Members)

\* The call of RemoteRecover that nothing outside the protocol disturbs: the
\* negation of the causes that FailureHasCause names.
Undisturbed(i) ==
    /\ pc[i] # "idle"
    /\ drops = 0
    /\ crashes = 0
    /\ ~snap[i].past
    /\ snap[i].cp # Genesis
    /\ \A j \in Initiators \ {i} : pc[j] = "idle"

\* What a call finds when it is the first one.
Untouched ==
    /\ \A i \in Initiators : pc[i] = "idle" =>
          asked[i] = {} /\ commits[i] = {} /\ shares[i] = {}
    /\ crashes = 0 => \A m \in Members : up[m]
    /\ crashes = 0 /\ (\A i \in Initiators : pc[i] = "idle") =>
          \A m \in Members : epoch[m] = 0 /\ ~used[m]

\* The member's session is the one of this recovery.
Voted(m, i) ==
    /\ pending[m] # NoSession
    /\ pending[m].epoch = EpochOf(i)
    /\ pending[m].cp = snap[i].cp

\* The only message is the request of the outstanding call or its reply.
OneCall(i) == \A q, r \in wire : q = r /\ r.mem = waiting[i]

\* In round 1 everybody who was asked has voted, ...
Round1Sound(i) ==
    /\ OneCall(i)
    /\ waiting[i] # NoMember => wire # {}
    /\ \A m \in Members : epoch[m] = 0 /\ (m \notin asked[i] => ~used[m])
    /\ \A m \in asked[i] : m # waiting[i] =>
          Voted(m, i) /\ [mem |-> m, nonce |-> pending[m].nonce] \in commits[i]
    /\ \A c \in commits[i] :
          /\ c.mem \in asked[i]
          /\ c.mem # waiting[i]
          /\ c.nonce = pending[c.mem].nonce
    /\ \A r \in wire :
          /\ r.mem \in asked[i]
          /\ \/ r.kind = "VOTE" /\ ~used[r.mem]
             \/ r.kind = "VOTE_RESP" /\ Voted(r.mem, i) /\ r.nonce = pending[r.mem].nonce

\* ... a voter is ready to sign until it does, ...
Ready(c, i) ==
    /\ Voted(c.mem, i)
    /\ pending[c.mem].nonce = c.nonce
    /\ epoch[c.mem] = 0

\* ... and in round 2 every voter who was asked has signed.
Round2Sound(i) ==
    /\ OneCall(i)
    /\ Cardinality(commits[i]) >= MinVotes
    /\ \A c, d \in commits[i] : c.mem = d.mem => c = d
    /\ \A r \in wire : r.kind \in {"COMMIT_REQ", "COMMIT_RESP", "REFUSED"}
    /\ \A c \in commits[i] :
          \/ c.mem \in shares[i]
          \/ c.mem \notin asked[i] /\ Ready(c, i)
          \/ /\ c.mem = waiting[i]
             /\ \E r \in wire : \/ r.kind = "COMMIT_REQ" /\ Ready(c, i)
                                \/ r.kind = "COMMIT_RESP"

Progress(i) ==
    /\ pc[i] # "failed"
    /\ pc[i] = "round1" => Round1Sound(i)
    /\ pc[i] = "round2" => Round2Sound(i)

CauseInv == Untouched /\ \A i \in Initiators : Undisturbed(i) => Progress(i)

\* Nobody has been asked initially.
LEMMA InitCauseInv == Init => CauseInv
BY DEF Init, CauseInv, Untouched, Undisturbed

\* What a call finds stays as it is until a call starts or a member crashes.
LEMMA UntouchedStep == BaseInv /\ Untouched /\ [Next]_vars => Untouched'
<1> SUFFICES ASSUME BaseInv, Untouched, [Next]_vars PROVE Untouched'
  OBVIOUS
<1>0. TypeOK /\ TypeOK' /\ CallsOfActive
  BY NextTypeOK DEF BaseInv
<1> USE BoundsNat
<1>1. ASSUME NEW i \in Initiators, Start(i) PROVE Untouched'
  BY <1>0, <1>1 DEF Start, Untouched, TypeOK, memberVars
<1>2. ASSUME NEW i \in Initiators, pc[i] # "idle",
             \A j \in Initiators : pc'[j] = "idle" <=> pc[j] = "idle",
             \A j \in Initiators \ {i} :
                asked'[j] = asked[j] /\ commits'[j] = commits[j] /\ shares'[j] = shares[j],
             UNCHANGED <<memberVars, crashes>>
      PROVE  Untouched'
  BY <1>0, <1>2 DEF Untouched, memberVars
<1>3. ASSUME NEW i \in Initiators, NEW m \in Members, Call(i, m) \/ DialDown(i, m)
      PROVE  Untouched'
  BY <1>0, <1>2, <1>3 DEF Call, DialDown, NextEndpoint, TypeOK
<1>4. ASSUME NEW i \in Initiators, BeginRound2(i) \/ GiveUp(i) \/ Publish(i)
      PROVE  Untouched'
  BY <1>0, <1>2, <1>4 DEF BeginRound2, GiveUp, Publish, TypeOK
<1>5. ASSUME NEW i \in Initiators, CallBroken(i) \/ CallLost(i) PROVE Untouched'
  BY <1>0, <1>2, <1>5 DEF CallBroken, CallLost, CallsOfActive, TypeOK
<1>6. ASSUME NEW i \in Initiators, ReceiveVote(i) \/ ReceiveShare(i) \/ ReceiveRefusal(i)
      PROVE  Untouched'
  <2>1. pc[i] # "idle"
    BY <1>0, <1>6 DEF ReceiveVote, ReceiveShare, ReceiveRefusal, Reply, CallsOfActive
  <2>2. QED
    BY <1>0, <1>2, <1>6, <2>1 DEF ReceiveVote, ReceiveShare, ReceiveRefusal, Reply,
       AddCommit, AddShare, TypeOK
<1>7. ASSUME NEW m \in Members, MemberStep(m) PROVE Untouched'
  <2>1. PICK q \in wire : UNCHANGED <<up, initVars, crashes>>
    BY <1>7 DEF MemberStep, Vote, RefuseVote, Commit, RefuseCommit, memberVars
  <2>2. q.ini \in Initiators /\ pc[q.ini] # "idle"
    BY <1>0 DEF TypeOK, Messages, CallsOfActive
  <2>3. QED
    BY <2>1, <2>2 DEF Untouched, initVars
<1>8. ASSUME NEW m \in Members, Crash(m) \/ CrashInCommit(m) PROVE Untouched'
  BY <1>0, <1>8 DEF Crash, CrashInCommit, Untouched, initVars, TypeOK
<1>9. ASSUME NEW m \in Members, Restart(m) PROVE Untouched'
  BY <1>0, <1>9 DEF Restart, Untouched, initVars, TypeOK
<1>10. CASE UNCHANGED vars
  BY <1>10 DEF vars, Untouched
<1>11. QED
  BY <1>1, <1>3, <1>4, <1>5, <1>6, <1>7, <1>8, <1>9, <1>10
     DEF Next, InitiatorStep, Fault

\* A call that begins undisturbed finds fresh members and an empty network.
LEMMA FirstCall ==
    ASSUME BaseInv, CauseInv, NEW i \in Initiators, Start(i), Undisturbed(i)', TypeOK'
    PROVE  Progress(i)'
<1>0. TypeOK /\ CallsOfActive /\ Untouched
  BY DEF BaseInv, CauseInv
<1>1. /\ pc' = [pc EXCEPT ![i] = "round1"]
      /\ pc[i] = "idle"
      /\ UNCHANGED <<memberVars, asked, waiting, commits, shares, wire, crashes>>
  BY DEF Start
<1>2. \A j \in Initiators : pc[j] = "idle"
  BY <1>0, <1>1 DEF Undisturbed, TypeOK
<1>3. wire = {} /\ crashes = 0 /\ waiting[i] = NoMember /\ asked[i] = {} /\ commits[i] = {}
  BY <1>0, <1>1, <1>2 DEF CallsOfActive, TypeOK, Messages, Undisturbed, Untouched
<1>4. \A m \in Members : epoch[m] = 0 /\ ~used[m]
  BY <1>0, <1>2, <1>3 DEF Untouched
<1>5. Round1Sound(i)'
  BY <1>1, <1>3, <1>4 DEF Round1Sound, OneCall, memberVars
<1>6. pc'[i] = "round1"
  BY <1>0, <1>1 DEF TypeOK
<1>7. QED
  BY <1>5, <1>6 DEF Progress

\* Whoever is asked answers, so a loop that has asked everybody has enough.
LEMMA NeverGivesUp ==
    ASSUME BaseInv, EnoughMembers, NEW i \in Initiators, Undisturbed(i), Progress(i),
           waiting[i] = NoMember, asked[i] = Members, pc[i] \in {"round1", "round2"}
    PROVE  Enough(i)
<1>0. TypeOK
  BY DEF BaseInv
<1> DEFINE Voters == {c.mem : c \in commits[i]}
<1>1. commits[i] \subseteq Commitments /\ Voters \subseteq Members
  BY <1>0 DEF TypeOK, Commitments
<1>2. IsFiniteSet(Voters)
  BY <1>1, MembersFinite, FS_Subset
<1>3. \A c, d \in commits[i] : c.mem = d.mem => c = d
  <2>1. CASE pc[i] = "round1"
    BY <1>1, <2>1 DEF Progress, Round1Sound, Commitments
  <2>2. CASE pc[i] = "round2"
    BY <2>2 DEF Progress, Round2Sound
  <2>3. QED
    BY <2>1, <2>2
<1> DEFINE f == [m \in Voters |-> CHOOSE c \in commits[i] : c.mem = m]
           g == [c \in commits[i] |-> c.mem]
<1>4. f \in Surjection(Voters, commits[i])
  <2>1. \A m \in Voters : f[m] \in commits[i] /\ f[m].mem = m
    OBVIOUS
  <2>2. \A c \in commits[i] : c.mem \in Voters /\ f[c.mem] = c
    BY <1>3, <2>1
  <2>3. f \in [Voters -> commits[i]]
    BY <2>1
  <2> HIDE DEF f, Voters
  <2>4. QED
    BY <2>2, <2>3 DEF Surjection
<1>5. g \in Surjection(commits[i], Voters)
  <2>1. g \in [commits[i] -> Voters]
    OBVIOUS
  <2>2. \A m \in Voters : \E c \in commits[i] : g[c] = m
    OBVIOUS
  <2> HIDE DEF g, Voters
  <2>3. QED
    BY <2>1, <2>2 DEF Surjection
<1> HIDE DEF f, g
<1>6. /\ IsFiniteSet(commits[i])
      /\ Cardinality(commits[i]) = Cardinality(Voters)
      /\ Cardinality(Voters) \in Nat
  <2>1. IsFiniteSet(commits[i]) /\ Cardinality(commits[i]) <= Cardinality(Voters)
    BY <1>2, <1>4, FS_Surjection
  <2>2. Cardinality(Voters) <= Cardinality(commits[i])
    BY <1>5, <2>1, FS_Surjection
  <2>3. QED
    BY <1>2, <2>1, <2>2, FS_CardinalityType
<1>7. CASE pc[i] = "round1"
  <2>1. \A m \in Members : [mem |-> m, nonce |-> pending[m].nonce] \in commits[i]
    BY <1>7, NoMemberFresh DEF Progress, Round1Sound
  <2>2. Voters = Members
    <3>1. \A m \in Members : m \in Voters
      <4> TAKE m \in Members
      <4>1. [mem |-> m, nonce |-> pending[m].nonce].mem = m
        OBVIOUS
      <4>2. QED
        BY <2>1, <4>1
    <3>2. QED
      BY <1>1, <3>1
  <2>3. QED
    BY <1>6, <1>7, <2>2, MinVotesPos DEF Enough, EnoughMembers
<1>8. CASE pc[i] = "round2"
  <2>1. Voters \subseteq shares[i]
    BY <1>1, <1>8, NoMemberFresh DEF Progress, Round2Sound, Commitments
  <2>2. shares[i] \subseteq Members
    BY <1>0 DEF TypeOK
  <2>3. IsFiniteSet(shares[i]) /\ Cardinality(Voters) <= Cardinality(shares[i])
    BY <2>1, <2>2, MembersFinite, FS_Subset
  <2>4. Cardinality(commits[i]) >= MinVotes /\ Cardinality(shares[i]) \in Nat
    BY <1>8, <2>3, FS_CardinalityType DEF Progress, Round2Sound
  <2>5. QED
    BY <1>6, <1>8, <2>3, <2>4, MinVotesPos DEF Enough
<1>9. QED
  BY <1>7, <1>8

\* The steps of the initiator keep its call sound.
LEMMA InitiatorProgress ==
    ASSUME BaseInv, Untouched, EnoughMembers, TypeOK', NEW i \in Initiators,
           Undisturbed(i), Progress(i), InitiatorStep(i)
    PROVE  Progress(i)'
<1>0. TypeOK /\ CallsOfActive
  BY DEF BaseInv
<1>1. \A r \in wire : r \in Messages /\ r.ini = i /\ r.mem \in Members
  BY <1>0 DEF TypeOK, Messages, CallsOfActive, Undisturbed
<1>2. \A m \in Members : up[m]
  BY DEF Untouched, Undisturbed
<1>3. waiting[i] = NoMember /\ OneCall(i) => wire = {}
  BY <1>1, NoMemberFresh DEF OneCall
<1> USE NoMemberFresh
<1>4. ASSUME NEW m \in Members, Call(i, m) PROVE Progress(i)'
  <2>1. /\ pc[i] \in {"round1", "round2"} /\ waiting[i] = NoMember /\ m \notin asked[i]
        /\ wire' = wire \cup {Request(IF pc[i] = "round1" THEN "VOTE" ELSE "COMMIT_REQ", i, m)}
        /\ asked' = [asked EXCEPT ![i] = @ \cup {m}]
        /\ waiting' = [waiting EXCEPT ![i] = m]
        /\ UNCHANGED <<memberVars, pc, snap, commits, shares>>
    BY <1>4 DEF Call, NextEndpoint
  <2>2. asked'[i] = asked[i] \cup {m} /\ waiting'[i] = m
    BY <1>0, <2>1 DEF TypeOK
  <2>3. CASE pc[i] = "round1"
    <3>1. Round1Sound(i) /\ wire' = {Request("VOTE", i, m)}
      BY <1>3, <2>1, <2>3 DEF Progress, Round1Sound
    <3>2. \A r \in wire' : r = Request("VOTE", i, m) /\ r.mem = m /\ r.kind = "VOTE"
      BY <3>1 DEF Request
    <3>3. \A n \in Members : epoch'[n] = 0 /\ (n \notin asked'[i] => ~used'[n])
      BY <2>1, <2>2, <3>1 DEF Round1Sound, memberVars
    <3>4. \A n \in asked'[i] : n # m =>
             Voted(n, i)' /\ [mem |-> n, nonce |-> pending'[n].nonce] \in commits'[i]
      BY <2>1, <2>2, <3>1, <1>0 DEF Round1Sound, Voted, EpochOf, memberVars, TypeOK
    <3>5. \A c \in commits'[i] :
             c.mem \in asked'[i] /\ c.mem # m /\ c.nonce = pending'[c.mem].nonce
      BY <2>1, <2>2, <3>1 DEF Round1Sound, memberVars
    <3>6. ~used'[m]
      BY <2>1, <3>1 DEF Round1Sound, memberVars
    <3>7. Round1Sound(i)'
      BY <2>2, <3>1, <3>2, <3>3, <3>4, <3>5, <3>6 DEF Round1Sound, OneCall
    <3>8. QED
      BY <2>1, <2>3, <3>7 DEF Progress
  <2>4. CASE pc[i] = "round2"
    <3>1. Round2Sound(i) /\ wire' = {Request("COMMIT_REQ", i, m)}
      BY <1>3, <2>1, <2>4 DEF Progress, Round2Sound
    <3>2. /\ \A r \in wire' : r = Request("COMMIT_REQ", i, m) /\ r.mem = m
          /\ \E r \in wire' : r.kind = "COMMIT_REQ"
          /\ \A r \in wire' : r.kind = "COMMIT_REQ"
      BY <3>1 DEF Request
    <3>3. \A c \in commits[i] : Ready(c, i)' <=> Ready(c, i)
      BY <2>1 DEF Ready, Voted, EpochOf, memberVars
    <3>4. wire = {}
      BY <1>3, <2>1, <3>1 DEF Round2Sound
    <3>5. \A c \in commits[i] : c.mem \in shares[i] \/ (c.mem \notin asked[i] /\ Ready(c, i))
      BY <3>1, <3>4 DEF Round2Sound, Ready, Voted
    <3>6. \A c \in commits'[i] :
            \/ c.mem \in shares'[i]
            \/ c.mem \notin asked'[i] /\ Ready(c, i)'
            \/ c.mem = m /\ Ready(c, i)'
      BY <2>1, <2>2, <3>3, <3>5, Zenon
    <3>7. Round2Sound(i)'
      BY <2>1, <2>2, <3>1, <3>2, <3>6 DEF Round2Sound, OneCall
    <3>8. QED
      BY <2>1, <2>4, <3>7 DEF Progress
  <2>5. QED
    BY <2>1, <2>3, <2>4
<1>5. ASSUME NEW m \in Members, DialDown(i, m) PROVE Progress(i)'
  BY <1>2, <1>5 DEF DialDown
<1>6. ASSUME NEW r \in wire, NEW k \in {"VOTE_RESP", "COMMIT_RESP", "REFUSED"}, Reply(i, k, r)
      PROVE  /\ pc[i] \in {"round1", "round2"} /\ pc'[i] = pc[i]
             /\ waiting'[i] = NoMember /\ r.mem = waiting[i] /\ r.kind = k
             /\ pc[i] = "round1" => Round1Sound(i) /\ k = "VOTE_RESP" /\ wire' = {}
             /\ pc[i] = "round2" => Round2Sound(i) /\ k # "VOTE_RESP" /\ wire' = {}
             /\ \A q \in wire : q = r
             /\ UNCHANGED <<memberVars, snap, asked>>
  <2>1. /\ r.mem = waiting[i] /\ r.kind = k /\ wire' = wire \ {r}
        /\ waiting' = [waiting EXCEPT ![i] = NoMember]
        /\ UNCHANGED <<memberVars, pc, snap, asked>>
    BY <1>6 DEF Reply
  <2>2. waiting'[i] = NoMember /\ waiting[i] # NoMember
    BY <1>0, <1>1, <2>1 DEF TypeOK
  <2>3. pc[i] \in {"round1", "round2"}
    BY <1>0, <2>2 DEF CallsOfActive
  <2>4. OneCall(i)
    BY <2>3 DEF Progress, Round1Sound, Round2Sound
  <2>5. \A q \in wire : q = r
    BY <2>4 DEF OneCall
  <2>6. wire' = {}
    BY <2>1, <2>5
  <2>7. pc[i] = "round1" => Round1Sound(i) /\ k = "VOTE_RESP"
    BY <2>1 DEF Progress, Round1Sound
  <2>8. pc[i] = "round2" => Round2Sound(i) /\ k # "VOTE_RESP"
    BY <2>1 DEF Progress, Round2Sound
  <2>9. QED
    BY <2>1, <2>2, <2>3, <2>5, <2>6, <2>7, <2>8
<1>7. CASE ReceiveVote(i)
  <2>1. PICK r \in wire : /\ Reply(i, "VOTE_RESP", r)
                          /\ commits' = [commits EXCEPT ![i] = @ \cup {[mem |-> r.mem, nonce |-> r.nonce]}]
    BY <1>7 DEF ReceiveVote, AddCommit
  <2> DEFINE new == [mem |-> r.mem, nonce |-> r.nonce]
  <2>2. /\ pc[i] = "round1" /\ pc'[i] = "round1" /\ Round1Sound(i)
        /\ waiting'[i] = NoMember /\ r.mem = waiting[i] /\ r.kind = "VOTE_RESP"
        /\ wire' = {}
        /\ UNCHANGED <<memberVars, snap, asked>>
    BY <1>6, <2>1
  <2>3. commits'[i] = commits[i] \cup {new}
    BY <1>0, <2>1 DEF TypeOK
  <2>4. new.mem = r.mem /\ new.nonce = r.nonce
    OBVIOUS
  <2>5. r.mem \in asked[i] /\ Voted(r.mem, i) /\ r.nonce = pending[r.mem].nonce
    BY <2>2 DEF Round1Sound
  <2>6. new = [mem |-> r.mem, nonce |-> pending[r.mem].nonce]
    BY <2>5
  <2>7. r.mem # NoMember /\ asked[i] \subseteq Members
    BY <1>0, <1>1 DEF TypeOK
  <2> HIDE DEF new
  <2>8. Round1Sound(i)'
    <3>1. \A m \in asked'[i] : Voted(m, i)' /\ [mem |-> m, nonce |-> pending'[m].nonce] \in commits'[i]
      BY <2>2, <2>3, <2>5, <2>6 DEF Round1Sound, Voted, EpochOf, memberVars
    <3>2. \A c \in commits'[i] :
             c.mem \in asked'[i] /\ c.mem # NoMember /\ c.nonce = pending'[c.mem].nonce
      BY <2>2, <2>3, <2>4, <2>5, <2>7 DEF Round1Sound, memberVars
    <3>3. \A m \in Members : epoch'[m] = 0 /\ (m \notin asked'[i] => ~used'[m])
      BY <2>2 DEF Round1Sound, memberVars
    <3>4. QED
      BY <2>2, <3>1, <3>2, <3>3 DEF Round1Sound, OneCall
  <2>9. QED
    BY <2>2, <2>8 DEF Progress
<1>8. CASE ReceiveShare(i)
  <2>1. PICK r \in wire : /\ Reply(i, "COMMIT_RESP", r)
                          /\ shares' = [shares EXCEPT ![i] = @ \cup {r.mem}]
                          /\ UNCHANGED commits
    BY <1>8 DEF ReceiveShare, AddShare
  <2>2. /\ pc[i] = "round2" /\ pc'[i] = "round2" /\ Round2Sound(i)
        /\ waiting'[i] = NoMember /\ r.mem = waiting[i]
        /\ wire' = {}
        /\ UNCHANGED <<memberVars, snap, asked>>
    BY <1>6, <2>1
  <2>3. shares'[i] = shares[i] \cup {r.mem}
    BY <1>0, <2>1 DEF TypeOK
  <2>4. Round2Sound(i)'
    BY <2>1, <2>2, <2>3 DEF Round2Sound, OneCall, Voted, Ready, EpochOf, memberVars
  <2>5. QED
    BY <2>2, <2>4 DEF Progress
<1>9. CASE ReceiveRefusal(i)
  <2>1. PICK r \in wire : Reply(i, "REFUSED", r) /\ UNCHANGED <<commits, shares>>
    BY <1>9 DEF ReceiveRefusal
  <2>2. /\ pc[i] = "round2" /\ pc'[i] = "round2" /\ Round2Sound(i)
        /\ waiting'[i] = NoMember /\ r.mem = waiting[i] /\ r.kind = "REFUSED"
        /\ wire' = {} /\ \A q \in wire : q = r
        /\ UNCHANGED <<memberVars, snap, asked>>
    BY <1>6, <2>1
  <2>3. \A c \in commits[i] : c.mem \in shares[i] \/ (c.mem \notin asked[i] /\ Ready(c, i))
    BY <2>2 DEF Round2Sound, Ready, Voted
  <2>4. Round2Sound(i)'
    BY <2>1, <2>2, <2>3 DEF Round2Sound, OneCall, Voted, Ready, EpochOf, memberVars
  <2>5. QED
    BY <2>2, <2>4 DEF Progress
<1>10. CASE CallBroken(i)
  <2>1. /\ waiting[i] # NoMember
        /\ {q \in wire : q.ini = i /\ q.mem = waiting[i]} = {}
        /\ waiting' = [waiting EXCEPT ![i] = NoMember]
        /\ UNCHANGED <<memberVars, pc, snap, asked, commits, shares, wire>>
    BY <1>10 DEF CallBroken
  <2>2. pc[i] \in {"round1", "round2"}
    BY <1>0, <2>1 DEF CallsOfActive
  <2>3. wire = {}
    BY <1>1, <2>1, <2>2 DEF Progress, Round1Sound, Round2Sound, OneCall
  <2>4. pc[i] = "round2" /\ Round2Sound(i)
    BY <2>1, <2>2, <2>3 DEF Progress, Round1Sound
  <2>5. \A c \in commits[i] : c.mem \in shares[i] \/ (c.mem \notin asked[i] /\ Ready(c, i))
    BY <2>3, <2>4 DEF Round2Sound, Ready, Voted
  <2>6. Round2Sound(i)'
    BY <2>1, <2>3, <2>4, <2>5 DEF Round2Sound, OneCall, Voted, Ready, EpochOf, memberVars
  <2>7. QED
    BY <2>1, <2>4, <2>6 DEF Progress
<1>11. CASE BeginRound2(i)
  <2>1. /\ pc[i] = "round1" /\ waiting[i] = NoMember
        /\ Cardinality(commits[i]) >= MinVotes
        /\ pc' = [pc EXCEPT ![i] = "round2"]
        /\ asked' = [asked EXCEPT ![i] = {}]
        /\ UNCHANGED <<memberVars, snap, waiting, commits, shares, wire>>
    BY <1>11 DEF BeginRound2, Enough
  <2>2. pc'[i] = "round2" /\ asked'[i] = {} /\ commits[i] \subseteq Commitments
    BY <1>0, <2>1 DEF TypeOK
  <2>3. Round1Sound(i) /\ wire = {}
    BY <1>3, <2>1 DEF Progress, Round1Sound
  <2>4. \A c, d \in commits[i] : c.mem = d.mem => c = d
    BY <2>2, <2>3 DEF Round1Sound, Commitments
  <2>5. \A c \in commits[i] : Ready(c, i)
    BY <2>2, <2>3 DEF Round1Sound, Ready, Commitments
  <2>6. Round2Sound(i)'
    BY <2>1, <2>2, <2>3, <2>4, <2>5 DEF Round2Sound, OneCall, Voted, Ready, EpochOf, memberVars
  <2>7. QED
    BY <2>2, <2>6 DEF Progress
<1>12. CASE GiveUp(i)
  BY <1>12, NeverGivesUp DEF GiveUp
<1>13. CASE Publish(i)
  BY <1>0, <1>13 DEF Publish, Progress, TypeOK
<1>14. QED
  BY <1>4, <1>5, <1>7, <1>8, <1>9, <1>10, <1>11, <1>12, <1>13 DEF InitiatorStep

\* The members' handlers keep an undisturbed call sound.
LEMMA MemberProgress ==
    ASSUME BaseInv, TypeOK', NEW i \in Initiators, Undisturbed(i), Progress(i),
           NEW m \in Members, MemberStep(m)
    PROVE  Progress(i)'
<1>0. TypeOK /\ CallsOfActive
  BY DEF BaseInv
<1>1. \A r \in wire : r \in Messages /\ r.ini = i /\ r.mem \in Members
  BY <1>0 DEF TypeOK, Messages, CallsOfActive, Undisturbed
<1>2. EpochOf(i) \in Nat /\ EpochOf(i) > 0
  BY <1>0 DEF TypeOK, Snapshots, EpochOf
<1>3. UNCHANGED initVars
  BY DEF MemberStep, Vote, RefuseVote, Commit, RefuseCommit
<1>4. CASE pc[i] \notin {"round1", "round2"}
  BY <1>3, <1>4 DEF Progress, initVars
<1>5. ASSUME NEW q \in wire, Handles(m, q, "VOTE"), pc[i] \in {"round1", "round2"}
      PROVE  /\ pc[i] = "round1" /\ Round1Sound(i) /\ q.ini = i /\ wire = {q}
             /\ waiting[i] = m /\ m \in asked[i] /\ Awaited(q) /\ ~VoteRefused(m, i)
  <2>1. pc[i] = "round1" /\ Round1Sound(i) /\ q.ini = i /\ q.mem = m /\ q.kind = "VOTE"
    BY <1>1, <1>5 DEF Progress, Round2Sound, Handles
  <2>2. wire = {q} /\ waiting[i] = m /\ m \in asked[i] /\ ~used[m] /\ epoch[m] = 0
    BY <2>1 DEF Round1Sound, OneCall
  <2>3. QED
    BY <1>2, <2>1, <2>2 DEF Awaited, VoteRefused
<1>6. ASSUME NEW q \in wire, Handles(m, q, "COMMIT_REQ"), pc[i] \in {"round1", "round2"}
      PROVE  /\ pc[i] = "round2" /\ Round2Sound(i) /\ q.ini = i /\ wire = {q}
             /\ waiting[i] = m /\ Awaited(q)
  <2>1. pc[i] = "round2" /\ Round2Sound(i) /\ q.ini = i /\ q.mem = m /\ q.kind = "COMMIT_REQ"
    BY <1>1, <1>6 DEF Progress, Round1Sound, Handles
  <2>2. wire = {q} /\ waiting[i] = m
    BY <2>1 DEF Round2Sound, OneCall
  <2>3. QED
    BY <2>1, <2>2 DEF Awaited
<1>7. ASSUME pc[i] \in {"round1", "round2"}, Vote(m) PROVE Progress(i)'
  <2>1. PICK q \in wire :
          /\ Handles(m, q, "VOTE")
          /\ used' = [used EXCEPT ![m] = TRUE]
          /\ pending' = [pending EXCEPT ![m] =
               [epoch |-> EpochOf(q.ini), cp |-> snap[q.ini].cp, nonce |-> draws[m] + 1]]
          /\ Answer(q, "VOTE_RESP", draws[m] + 1)
          /\ UNCHANGED <<epoch, initVars>>
    BY <1>7, Zenon DEF Vote, SignerCommit
  <2> DEFINE s == [epoch |-> EpochOf(i), cp |-> snap[i].cp, nonce |-> draws[m] + 1]
             r == [kind |-> "VOTE_RESP", ini |-> i, mem |-> m, nonce |-> draws[m] + 1]
  <2>2. /\ pc[i] = "round1" /\ Round1Sound(i) /\ q.ini = i /\ q.mem = m /\ wire = {q}
        /\ waiting[i] = m /\ m \in asked[i] /\ Awaited(q)
    BY <1>5, <1>7, <2>1 DEF Handles
  <2>3. /\ pending'[m] = s /\ wire' = {r}
        /\ \A n \in Members \ {m} : pending'[n] = pending[n] /\ used'[n] = used[n]
    BY <1>0, <2>1, <2>2 DEF TypeOK, Answer
  <2>4. s \in Sessions /\ s.epoch = EpochOf(i) /\ s.cp = snap[i].cp /\ s.nonce = draws[m] + 1
    BY <1>0 DEF TypeOK, Sessions, Snapshots, EpochOf
  <2>5. r.kind = "VOTE_RESP" /\ r.mem = m /\ r.nonce = draws[m] + 1
    OBVIOUS
  <2>6. pending'[m] # NoSession
    BY <2>3, <2>4, NoSessionFresh
  <2> HIDE DEF s, r
  <2>7. asked[i] \subseteq Members /\ commits[i] \subseteq Commitments
    BY <1>0 DEF TypeOK
  <2>8. Voted(m, i)'
    BY <2>1, <2>3, <2>4, <2>6 DEF Voted, EpochOf, initVars
  <2>9. \A n \in asked'[i] : n # m =>
           Voted(n, i)' /\ [mem |-> n, nonce |-> pending'[n].nonce] \in commits'[i]
    BY <2>1, <2>2, <2>3, <2>7 DEF Round1Sound, Voted, EpochOf, initVars
  <2>10. \A c \in commits'[i] :
           c.mem \in asked'[i] /\ c.mem # m /\ c.nonce = pending'[c.mem].nonce
    BY <2>1, <2>2, <2>3, <2>7 DEF Round1Sound, initVars, Commitments
  <2>11. \A n \in Members : epoch'[n] = 0 /\ (n \notin asked'[i] => ~used'[n])
    BY <2>1, <2>2, <2>3 DEF Round1Sound, initVars
  <2>12. Round1Sound(i)'
    BY <2>1, <2>2, <2>3, <2>4, <2>5, <2>8, <2>9, <2>10, <2>11
       DEF Round1Sound, OneCall, initVars
  <2>13. QED
    BY <1>3, <2>2, <2>12 DEF Progress, initVars
<1>8. ASSUME pc[i] \in {"round1", "round2"}, RefuseVote(m) PROVE FALSE
  BY <1>5, <1>8 DEF RefuseVote
<1>9. ASSUME pc[i] \in {"round1", "round2"}, Commit(m) PROVE Progress(i)'
  <2>1. PICK q \in wire :
          /\ Handles(m, q, "COMMIT_REQ")
          /\ epoch' = [epoch EXCEPT ![m] = EpochOf(q.ini)]
          /\ pending' = [pending EXCEPT ![m] = NoSession]
          /\ Answer(q, "COMMIT_RESP", 0)
          /\ UNCHANGED initVars
    BY <1>9, Zenon DEF Commit
  <2> DEFINE r == [kind |-> "COMMIT_RESP", ini |-> i, mem |-> m, nonce |-> 0]
  <2>2. /\ pc[i] = "round2" /\ Round2Sound(i) /\ q.ini = i /\ q.mem = m /\ wire = {q}
        /\ waiting[i] = m /\ Awaited(q)
    BY <1>6, <1>9, <2>1 DEF Handles
  <2>3. /\ wire' = {r} /\ r.kind = "COMMIT_RESP" /\ r.mem = m
        /\ \A n \in Members \ {m} : pending'[n] = pending[n] /\ epoch'[n] = epoch[n]
    BY <1>0, <2>1, <2>2 DEF TypeOK, Answer
  <2> HIDE DEF r
  <2>4. \A c \in commits[i] : c.mem \in Members
    BY <1>0 DEF TypeOK, Commitments
  <2>5. \A c \in commits'[i] :
           \/ c.mem \in shares'[i]
           \/ c.mem \notin asked'[i] /\ Ready(c, i)'
           \/ c.mem = m
    BY <2>1, <2>2, <2>3, <2>4 DEF Round2Sound, Ready, Voted, EpochOf, initVars
  <2>6. Round2Sound(i)'
    BY <2>1, <2>2, <2>3, <2>5 DEF Round2Sound, OneCall, initVars
  <2>7. QED
    BY <1>3, <2>2, <2>6 DEF Progress, initVars
<1>10. ASSUME pc[i] \in {"round1", "round2"}, RefuseCommit(m) PROVE Progress(i)'
  <2>1. PICK q \in wire :
          /\ Handles(m, q, "COMMIT_REQ")
          /\ ~CommitAccepted(m, q.ini)
          /\ Answer(q, "REFUSED", 0)
          /\ UNCHANGED <<memberVars, initVars>>
    BY <1>10, Zenon DEF RefuseCommit
  <2>2. /\ pc[i] = "round2" /\ Round2Sound(i) /\ q.ini = i /\ q.mem = m /\ wire = {q}
        /\ waiting[i] = m /\ Awaited(q)
    BY <1>6, <1>10, <2>1 DEF Handles
  <2>3. wire' = {[kind |-> "REFUSED", ini |-> i, mem |-> m, nonce |-> 0]}
    BY <2>1, <2>2 DEF Answer
  <2>4. ASSUME NEW c \in commits[i], Ready(c, i), c.mem = m PROVE FALSE
    <3>1. c = [mem |-> m, nonce |-> pending[m].nonce]
      BY <1>0, <2>4 DEF TypeOK, Commitments, Ready
    <3>2. CommitAccepted(m, i)
      BY <1>2, <2>4, <3>1 DEF CommitAccepted, Ready, Voted, Undisturbed, Transcript
    <3>3. QED
      BY <2>1, <2>2, <3>2
  <2>5. \A c \in commits[i] : c.mem \in shares[i] \/ (c.mem \notin asked[i] /\ Ready(c, i))
    BY <2>1, <2>2, <2>4 DEF Round2Sound, Handles, Ready, Voted
  <2>6. Round2Sound(i)'
    BY <2>1, <2>2, <2>3, <2>5
       DEF Round2Sound, OneCall, Ready, Voted, EpochOf, initVars, memberVars
  <2>7. QED
    BY <1>3, <2>2, <2>6 DEF Progress, initVars
<1>11. QED
  BY <1>4, <1>7, <1>8, <1>9, <1>10 DEF MemberStep

\* Every step keeps CauseInv.
LEMMA NextCauseInv ==
    ASSUME EnoughMembers
    PROVE  BaseInv /\ CauseInv /\ [Next]_vars => CauseInv'
<1> SUFFICES ASSUME BaseInv, CauseInv, [Next]_vars,
                    NEW i \in Initiators, Undisturbed(i)'
             PROVE  Progress(i)'
  BY UntouchedStep DEF CauseInv
<1>0. TypeOK /\ TypeOK' /\ CallsOfActive /\ CallsOfActive' /\ Untouched
  BY NextBaseInv DEF BaseInv, CauseInv
<1>1. CASE Start(i)
  BY <1>0, <1>1, FirstCall
<1>2. ASSUME UNCHANGED snap, \A j \in Initiators : pc'[j] = "idle" <=> pc[j] = "idle",
             drops' = 0 => drops = 0, crashes' = 0 => crashes = 0
      PROVE  Undisturbed(i) /\ Progress(i)
  <2>1. Undisturbed(i)
    BY <1>2 DEF Undisturbed
  <2>2. QED
    BY <2>1 DEF CauseInv
<1>3. ASSUME NEW j \in Initiators, Start(j), j # i PROVE FALSE
  BY <1>0, <1>3 DEF Start, Undisturbed, TypeOK
<1>4. ASSUME NEW j \in Initiators, InitiatorStep(j)
      PROVE  /\ pc[j] # "idle" /\ UNCHANGED <<snap, drops, crashes>>
             /\ \A k \in Initiators : pc'[k] = "idle" <=> pc[k] = "idle"
  <2>1. CASE \E m \in Members : Call(j, m) \/ DialDown(j, m)
    BY <2>1 DEF Call, DialDown, NextEndpoint
  <2>2. CASE ReceiveVote(j) \/ ReceiveShare(j) \/ ReceiveRefusal(j)
    BY <1>0, <2>2 DEF ReceiveVote, ReceiveShare, ReceiveRefusal, Reply, CallsOfActive
  <2>3. CASE CallBroken(j)
    BY <1>0, <2>3 DEF CallBroken, CallsOfActive
  <2>4. CASE BeginRound2(j) \/ GiveUp(j) \/ Publish(j)
    BY <1>0, <2>4 DEF BeginRound2, GiveUp, Publish, TypeOK
  <2>5. QED
    BY <1>4, <2>1, <2>2, <2>3, <2>4 DEF InitiatorStep
<1>5. ASSUME NEW j \in Initiators, InitiatorStep(j) PROVE Progress(i)'
  <2>1. Undisturbed(i) /\ Progress(i)
    BY <1>2, <1>4, <1>5
  <2>2. j = i
    BY <1>4, <1>5, <2>1 DEF Undisturbed
  <2>3. QED
    BY <1>0, <1>5, <2>1, <2>2, InitiatorProgress
<1>6. ASSUME NEW m \in Members, MemberStep(m) PROVE Progress(i)'
  <2>1. UNCHANGED <<initVars, drops, crashes>>
    BY <1>6 DEF MemberStep, Vote, RefuseVote, Commit, RefuseCommit
  <2>2. Undisturbed(i) /\ Progress(i)
    BY <1>2, <2>1 DEF initVars
  <2>3. QED
    BY <1>0, <1>6, <2>2, MemberProgress
<1>7. ASSUME NEW m \in Members, Restart(m) PROVE FALSE
  BY <1>0, <1>7 DEF Restart, Untouched, Undisturbed
<1>8. CASE Fault
  BY <1>0, <1>8, BoundsNat DEF Fault, CallLost, Crash, CrashInCommit, Undisturbed, TypeOK
<1>9. CASE UNCHANGED vars
  <2>1. Undisturbed(i) /\ Progress(i)
    BY <1>2, <1>9 DEF vars
  <2>2. QED
    BY <1>9, <2>1 DEF vars, Progress, Round1Sound, Round2Sound, OneCall, Voted, Ready, EpochOf
<1>10. QED
  BY <1>1, <1>3, <1>5, <1>6, <1>7, <1>8, <1>9 DEF Next

\* A call of RemoteRecover that fails has a cause outside the protocol, for any
\* number of members of which MinVotes can vote: left alone, the first recovery
\* of a council always gets its votes and its signatures.
THEOREM FailuresHaveCauses ==
    ASSUME EnoughMembers
    PROVE  Spec => []FailureHasCause
<1>1. TypeOK /\ CauseInv => FailureHasCause
  BY BoundsNat DEF FailureHasCause, CauseInv, Undisturbed, Progress, TypeOK
<1>2. Spec => []BaseInv
  BY BaseInvariant
<1>3. Init => CauseInv
  BY InitCauseInv
<1>4. BaseInv /\ CauseInv /\ [Next]_vars => CauseInv'
  BY NextCauseInv
<1>5. BaseInv => TypeOK
  BY DEF BaseInv
<1>6. QED
  BY <1>1, <1>2, <1>3, <1>4, <1>5, PTL DEF Spec
-----------------------------------------------------------------------------
(* The protocol implements the abstract log of handoffs.                   *)

\* The timeline a recovery started from ends with a handoff that was really
\* published, or with none.
StartsFromLog ==
    \A i \in Initiators : pc[i] # "idle" =>
        snap[i].last = 0 \/ \E j \in Published : snap[i].last = EpochOf(j)

\* How a step can touch what the log shows: a recovery starts, ...
Starts(i) ==
    /\ pc[i] = "idle"
    /\ pc' = [pc EXCEPT ![i] = "round1"]
    /\ \A j \in Initiators : j # i => snap'[j] = snap[j]
    /\ snap'[i].last \in {0} \cup {EpochOf(j) : j \in Published}

\* ... a recovery publishes, ...
Publishes(i) ==
    /\ pc[i] = "round2"
    /\ pc' = [pc EXCEPT ![i] = "done"]
    /\ UNCHANGED snap

\* ... or nothing of it changes.
Silent ==
    /\ UNCHANGED snap
    /\ Published' = Published
    /\ \A i \in Initiators : pc[i] = "idle" => pc'[i] = "idle"
-----------------------------------------------------------------------------
\* Every step is one of the three.
LEMMA StepShape ==
    ASSUME TypeOK, [Next]_vars
    PROVE  \/ \E i \in Initiators : Starts(i) \/ Publishes(i)
           \/ Silent
<1>1. ASSUME NEW i \in Initiators, Start(i) PROVE Starts(i)
  <2>1. PICK last \in {0} \cup {EpochOf(j) : j \in Published},
             cp \in Checkpoints \cup {Genesis}, past \in BOOLEAN :
             snap' = [snap EXCEPT ![i] = [last |-> last, cp |-> cp, past |-> past]]
    BY <1>1 DEF Start
  <2>2. snap'[i].last = last /\ \A j \in Initiators : j # i => snap'[j] = snap[j]
    BY <2>1 DEF TypeOK
  <2>3. QED
    BY <1>1, <2>2 DEF Start, Starts
<1>2. ASSUME NEW i \in Initiators, Publish(i) PROVE Publishes(i)
  BY <1>2 DEF Publish, Publishes
<1>3. ASSUME NEW i \in Initiators, BeginRound2(i) \/ GiveUp(i) PROVE Silent
  BY <1>3 DEF BeginRound2, GiveUp, Silent, Published, TypeOK
<1>4. ASSUME UNCHANGED <<pc, snap>> PROVE Silent
  BY <1>4 DEF Silent, Published
<1>5. ASSUME NEW i \in Initiators, NEW m \in Members, Call(i, m) \/ DialDown(i, m)
      PROVE  UNCHANGED <<pc, snap>>
  BY <1>5 DEF Call, DialDown
<1>6. ASSUME NEW i \in Initiators,
             ReceiveVote(i) \/ ReceiveShare(i) \/ ReceiveRefusal(i) \/ CallBroken(i)
               \/ CallLost(i)
      PROVE  UNCHANGED <<pc, snap>>
  BY <1>6 DEF ReceiveVote, ReceiveShare, ReceiveRefusal, Reply, CallBroken, CallLost
<1>7. ASSUME NEW m \in Members,
             MemberStep(m) \/ Restart(m) \/ Crash(m) \/ CrashInCommit(m)
      PROVE  UNCHANGED <<pc, snap>>
  BY <1>7 DEF MemberStep, Vote, RefuseVote, Commit, RefuseCommit, Restart, Crash,
              CrashInCommit, initVars
<1>8. CASE UNCHANGED vars
  BY <1>4, <1>8 DEF vars
<1>9. CASE Next
  BY <1>1, <1>2, <1>3, <1>4, <1>5, <1>6, <1>7, <1>9 DEF Next, InitiatorStep, Fault
<1>10. QED
  BY <1>8, <1>9

\* The set of handoffs never shrinks, so a start point stays a handoff.
LEMMA StartsFromLogStep ==
    TypeOK /\ StartsFromLog /\ [Next]_vars => StartsFromLog'
<1> SUFFICES ASSUME TypeOK, StartsFromLog, [Next]_vars,
                    NEW k \in Initiators, pc'[k] # "idle"
             PROVE  snap'[k].last = 0 \/ \E j \in Published' : snap'[k].last = EpochOf(j)'
  BY DEF StartsFromLog
<1>1. CASE Silent
  BY <1>1 DEF Silent, StartsFromLog, EpochOf
<1>2. ASSUME NEW i \in Initiators, Publishes(i)
      PROVE  snap'[k].last = 0 \/ \E j \in Published' : snap'[k].last = EpochOf(j)'
  <2>1. Published \subseteq Published' /\ UNCHANGED snap
    BY <1>2 DEF Publishes, Published, TypeOK
  <2>2. pc[k] # "idle"
    BY <1>2 DEF Publishes, TypeOK
  <2>3. QED
    BY <2>1, <2>2 DEF StartsFromLog, EpochOf
<1>3. ASSUME NEW i \in Initiators, Starts(i)
      PROVE  snap'[k].last = 0 \/ \E j \in Published' : snap'[k].last = EpochOf(j)'
  <2>1. /\ Published' = Published
        /\ \A j \in Published : EpochOf(j)' = EpochOf(j)
    BY <1>3 DEF Starts, Published, TypeOK, EpochOf
  <2>2. snap'[k].last = 0 \/ \E j \in Published : snap'[k].last = EpochOf(j)
    BY <1>3 DEF Starts, StartsFromLog, TypeOK
  <2>3. QED
    BY <2>1, <2>2
<1>4. QED
  BY <1>1, <1>2, <1>3, StepShape

\* A step of the protocol extends the log by one handoff or leaves it alone.
LEMMA LogStep ==
    ASSUME TypeOK, TypeOK', StartsFromLog, OneHandoffPerEpoch', [Next]_vars
    PROVE  [Log!Next]_({[epoch |-> EpochOf(i), by |-> i] : i \in Published})
<1> DEFINE L == {[epoch |-> EpochOf(i), by |-> i] : i \in Published}
<1>1. CASE Silent
  BY <1>1 DEF Silent, EpochOf
<1>2. ASSUME NEW i \in Initiators, Starts(i) PROVE UNCHANGED L
  <2>1. /\ Published' = Published
        /\ \A j \in Published : EpochOf(j)' = EpochOf(j)
    BY <1>2 DEF Starts, Published, TypeOK, EpochOf
  <2>2. QED
    BY <2>1
<1>3. ASSUME NEW i \in Initiators, Publishes(i) PROVE Log!Next
  <2>1. /\ i \notin Published
        /\ Published' = Published \cup {i}
        /\ \A j \in Initiators : EpochOf(j)' = EpochOf(j)
    BY <1>3 DEF Publishes, Published, TypeOK, EpochOf
  <2>2. Log!Epochs = {EpochOf(j) : j \in Published}
    <3>1. ASSUME NEW x \in Log!Epochs PROVE x \in {EpochOf(j) : j \in Published}
      BY <3>1 DEF Log!Epochs
    <3>2. ASSUME NEW j \in Published PROVE EpochOf(j) \in Log!Epochs
      <4>1. [epoch |-> EpochOf(j), by |-> j] \in L
        BY <3>2
      <4>2. [epoch |-> EpochOf(j), by |-> j].epoch = EpochOf(j)
        OBVIOUS
      <4>3. QED
        BY <4>1, <4>2, Zenon DEF Log!Epochs
    <3>3. QED
      BY <3>1, <3>2
  <2>3. EpochOf(i) \notin Log!Epochs
    BY <2>1, <2>2 DEF OneHandoffPerEpoch, Published
  <2>4. EpochOf(i) \in {1} \cup {x + 1 : x \in Log!Epochs}
    BY <1>3, <2>2 DEF StartsFromLog, Publishes, EpochOf
  <2>5. L' = L \cup {[epoch |-> EpochOf(i), by |-> i]}
    BY <2>1 DEF Published
  <2>6. Log!HandOver(i)
    BY <2>3, <2>4, <2>5 DEF Log!HandOver
  <2>7. QED
    BY <2>6 DEF Log!Next
<1>4. QED
  BY <1>1, <1>2, <1>3, StepShape

\* The two-round protocol implements the log of handoffs, for every number of
\* members, recoveries, crashes and lost calls, if two signing quorums meet
\* and epoch files are reliable.
THEOREM CouncilImplementsLog ==
    ASSUME ~LossyEpochFile, QuorumsMeet
    PROVE  Spec => ImplementsHandoffLog
<1> DEFINE L == {[epoch |-> EpochOf(i), by |-> i] : i \in Published}
<1>1. Init => Log!Init /\ StartsFromLog
  BY DEF Init, Log!Init, Published, StartsFromLog
<1>2. Spec => []TypeOK
  BY TypeCorrect
<1>3. Spec => []OneHandoffPerEpoch
  BY HandoffSafety
<1>4. TypeOK /\ StartsFromLog /\ [Next]_vars => StartsFromLog'
  BY StartsFromLogStep
<1>5. TypeOK /\ TypeOK' /\ StartsFromLog /\ OneHandoffPerEpoch' /\ [Next]_vars
        => [Log!Next]_L
  BY LogStep
<1>6. QED
  BY <1>1, <1>2, <1>3, <1>4, <1>5, PTL DEF Spec, ImplementsHandoffLog, Log!Spec
=============================================================================
