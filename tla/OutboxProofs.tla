---------------------------- MODULE OutboxProofs ----------------------------
(***************************************************************************)
(* Proofs about webhook delivery: type correctness, what outbox.json holds *)
(* at every moment, and at-most-once delivery per incarnation of the       *)
(* gateway, for any endpoints, events, filters and bounds.                 *)
(***************************************************************************)
EXTENDS Outbox, TLAPS

(***************************************************************************)
(* Type correctness.                                                       *)
(***************************************************************************)

\* Settling a result leaves a set of jobs.
LEMMA SettledType ==
    ASSUME NEW q \in SUBSET Jobs, NEW s \in Sends
    PROVE  Settled(q, s) \in SUBSET Jobs
  BY DEF Settled, Jobs

\* A save, failed or not, leaves a set of jobs in the file.
LEMMA SaveType ==
    ASSUME TypeOK, outbox' \in SUBSET Jobs, SaveOutbox
    PROVE  disk' \in SUBSET Jobs /\ saved' \in BOOLEAN /\ saveFails' \in 0..MaxSaveFails
<1>1. disk' = outbox' \/ disk' = disk
  BY DEF SaveOutbox
<1>2. saved' = TRUE \/ saved' = FALSE
  BY Zenon DEF SaveOutbox
<1>3. saveFails' = saveFails \/ (saveFails < MaxSaveFails /\ saveFails' = saveFails + 1)
  BY DEF SaveOutbox
<1>4. saved' \in BOOLEAN
  BY <1>2, Zenon
<1>5. saveFails' \in 0..MaxSaveFails
  BY <1>3, OutboxBounds DEF TypeOK
<1> QED BY <1>1, <1>4, <1>5 DEF TypeOK

\* Turning to a job keeps the types of what it touches.
LEMMA PostType ==
    ASSUME TypeOK, NEW j \in due, NEW got \in BOOLEAN, Post(j, got)
    PROVE  /\ due' \in SUBSET Jobs /\ sent' \in Sends
           /\ tries' \in [Hooks \X Events -> Nat] /\ received' \in [Hooks \X Events -> Nat]
<1>1. j \in Jobs /\ <<j.hook, j.ev>> \in Hooks \X Events
  BY DEF Jobs, TypeOK
<1>2. due' \in SUBSET Jobs /\ sent' \in Sends
  BY <1>1 DEF Post, Jobs, Sends, TypeOK
<1>3. tries' \in [Hooks \X Events -> Nat]
  BY <1>1 DEF Post, TypeOK
<1>4. received' \in [Hooks \X Events -> Nat]
  <2>1. CASE got
    <3>1. received' = [received EXCEPT ![<<j.hook, j.ev>>] = @ + 1]
      BY <2>1 DEF Post
    <3> QED BY <1>1, <3>1 DEF TypeOK
  <2>2. CASE ~got
    BY <2>2 DEF Post, TypeOK
  <2> QED BY <2>1, <2>2
<1> QED BY <1>2, <1>3, <1>4

\* Every reachable state is well typed.
THEOREM TypeCorrect == Spec => []TypeOK
<1>1. ASSUME Init PROVE TypeOK
  <2>1. up \in BOOLEAN /\ stuck \in BOOLEAN /\ saved \in BOOLEAN
    BY <1>1, Zenon DEF Init
  <2> QED BY <1>1, <2>1, OutboxBounds DEF Init, TypeOK, Jobs
<1>2. TypeOK /\ [Next]_vars => TypeOK'
  <2> SUFFICES ASSUME TypeOK, [Next]_vars PROVE TypeOK'
    OBVIOUS
  <2> USE OutboxBounds, WantsType
  <2>1. ASSUME NEW e \in Events, AppendEvent(e) PROVE TypeOK'
    BY <2>1 DEF AppendEvent, counts, TypeOK
  <2>2. ASSUME NEW e \in Events, CollectHooks(e) PROVE TypeOK'
    BY <2>2 DEF CollectHooks, counts, TypeOK
  <2>3. ASSUME NEW e \in Events, QueueJobs(e) PROVE TypeOK'
    <3>1. NewJobs(e) \in SUBSET Jobs
      BY DEF NewJobs, Jobs, TypeOK
    <3>2. outbox' \in SUBSET Jobs
      BY <2>3, <3>1 DEF QueueJobs, TypeOK
    <3>3. disk' \in SUBSET Jobs /\ saved' \in BOOLEAN /\ saveFails' \in 0..MaxSaveFails
      BY <2>3, <3>2, SaveType DEF QueueJobs
    <3> QED BY <2>3, <3>2, <3>3 DEF QueueJobs, TypeOK
  <2>4. CASE TakeDue
    BY <2>4 DEF TakeDue, counts, TypeOK
  <2>5. ASSUME NEW j \in due, NEW ok \in BOOLEAN, Deliver(j, ok) PROVE TypeOK'
    <3>1. Post(j, ok)
      BY <2>5 DEF Deliver
    <3>2. /\ due' \in SUBSET Jobs /\ sent' \in Sends
          /\ tries' \in [Hooks \X Events -> Nat] /\ received' \in [Hooks \X Events -> Nat]
      BY <3>1, PostType
    <3>3. fails' \in 0..MaxFails
      <4>1. CASE ok
        BY <2>5, <4>1 DEF Deliver, TypeOK
      <4>2. CASE ~ok
        <5>1. fails < MaxFails /\ fails' = fails + 1
          BY <2>5, <4>2 DEF Deliver
        <5> QED BY <5>1 DEF TypeOK
      <4> QED BY <4>1, <4>2
    <3>4. UNCHANGED <<stuck, hangs>>
      BY <2>5 DEF Deliver
    <3>5. UNCHANGED <<up, pc, matched, outbox, disk, saved, crashes, saveFails>>
      BY <3>1 DEF Post
    <3> QED BY <3>2, <3>3, <3>4, <3>5 DEF TypeOK
  <2>6. ASSUME NEW j \in due, NEW got \in BOOLEAN, Hang(j, got) PROVE TypeOK'
    <3>1. Post(j, got)
      BY <2>6 DEF Hang
    <3>2. /\ due' \in SUBSET Jobs /\ sent' \in Sends
          /\ tries' \in [Hooks \X Events -> Nat] /\ received' \in [Hooks \X Events -> Nat]
      BY <3>1, PostType
    <3>3. hangs < MaxHangs /\ hangs' = hangs + 1 /\ stuck' = TRUE /\ fails' = fails
      BY <2>6 DEF Hang
    <3>4. hangs' \in 0..MaxHangs /\ stuck' \in BOOLEAN
      BY <3>3 DEF TypeOK
    <3>5. UNCHANGED <<up, pc, matched, outbox, disk, saved, crashes, saveFails>>
      BY <3>1 DEF Post
    <3> QED BY <3>2, <3>3, <3>4, <3>5 DEF TypeOK
  <2>7. CASE AnswerLate
    BY <2>7 DEF AnswerLate, counts, TypeOK
  <2>8. CASE Settle
    <3>1. sent \in Sends
      BY <2>8 DEF Settle, TypeOK
    <3>2. outbox' \in SUBSET Jobs
      BY <2>8, <3>1, SettledType DEF Settle, TypeOK
    <3>3. disk' \in SUBSET Jobs /\ saved' \in BOOLEAN /\ saveFails' \in 0..MaxSaveFails
      BY <2>8, <3>2, SaveType DEF Settle
    <3> QED BY <2>8, <3>2, <3>3 DEF Settle, TypeOK
  <2>9. CASE Crash
    <3>1. up' \in BOOLEAN /\ stuck' \in BOOLEAN
      BY <2>9, Zenon DEF Crash
    <3>2. crashes' \in 0..MaxCrashes
      <4>1. crashes < MaxCrashes /\ crashes' = crashes + 1
        BY <2>9 DEF Crash
      <4> QED BY <4>1 DEF TypeOK
    <3>3. pc' \in [Events -> {"idle", "appended", "collected", "queued", "dead"}]
      BY <2>9 DEF Crash, TypeOK
    <3> QED BY <2>9, <3>1, <3>2, <3>3 DEF Crash, TypeOK
  <2>10. CASE Restart
    <3>1. up' \in BOOLEAN /\ saved' \in BOOLEAN
      BY <2>10, Zenon DEF Restart
    <3> QED BY <2>10, <3>1 DEF Restart, counts, TypeOK
  <2>11. CASE UNCHANGED vars
    BY <2>11 DEF vars, counts, TypeOK
  <2> QED BY <2>1, <2>2, <2>3, <2>4, <2>5, <2>6, <2>7, <2>8, <2>9, <2>10, <2>11
          DEF Next, Handler, Drain, Stall
<1> QED BY <1>1, <1>2, PTL DEF Spec

(***************************************************************************)
(* What is on disk: the two halves carry each other, since the drain loop  *)
(* empties the queue without saving it.  A failed write ends the agreement *)
(* (saved), and the next save that succeeds writes the whole queue again.  *)
(***************************************************************************)

\* A save leaves the queue in the file unless its write failed.
LEMMA SaveAgrees ==
    ASSUME SaveOutbox, saved'
    PROVE  disk' = outbox'
  BY DEF SaveOutbox

\* Turning to a job moves it from the taken ones into the sender.
LEMMA PostMoves ==
    ASSUME TypeOK, NEW j \in due, NEW got \in BOOLEAN, Post(j, got)
    PROVE  /\ disk' = disk /\ outbox' = outbox /\ saved' = saved /\ up' = up
           /\ due' = due \ {j} /\ sent = NoJob /\ SameJob(j, sent') /\ sent' # NoJob
<1>1. /\ disk' = disk /\ outbox' = outbox /\ saved' = saved /\ up' = up /\ sent = NoJob
      /\ due' = due \ {j}
      /\ sent' = [hook |-> j.hook, ev |-> j.ev, attempts |-> j.attempts, ok |-> got]
  BY DEF Post
<1>2. SameJob(j, sent')
  BY <1>1 DEF SameJob
<1>3. sent' \in Sends
  BY PostType
<1>4. sent' # NoJob
  BY <1>3, NoJobFresh DEF Sends
<1> QED BY <1>1, <1>2, <1>4

\* Unless the last write failed, the queue is on disk and the disk holds only
\* jobs whose outcome is not settled.
THEOREM DiskAgrees == Spec => []DiskMatchesQueue
<1>1. Init => DiskMatchesQueue
  BY DEF Init, DiskMatchesQueue, QueueIsSaved, DiskIsPending
<1>2. TypeOK /\ DiskMatchesQueue /\ [Next]_vars => DiskMatchesQueue'
  <2> SUFFICES ASSUME TypeOK, DiskMatchesQueue, [Next]_vars, up', saved'
               PROVE  QueueIsSaved' /\ DiskIsPending'
    BY DEF DiskMatchesQueue
  <2> USE DEF QueueIsSaved, DiskIsPending
  <2>1. ASSUME NEW e \in Events, AppendEvent(e) PROVE QueueIsSaved' /\ DiskIsPending'
    BY <2>1 DEF AppendEvent, DiskMatchesQueue
  <2>2. ASSUME NEW e \in Events, CollectHooks(e) PROVE QueueIsSaved' /\ DiskIsPending'
    BY <2>2 DEF CollectHooks, DiskMatchesQueue
  <2>3. ASSUME NEW e \in Events, QueueJobs(e) PROVE QueueIsSaved' /\ DiskIsPending'
    <3>1. disk' = outbox'
      BY <2>3, SaveAgrees DEF QueueJobs
    <3> QED BY <3>1
  <2>4. CASE TakeDue
    BY <2>4 DEF TakeDue, DiskMatchesQueue
  <2>5. ASSUME NEW j \in due, NEW got \in BOOLEAN, Post(j, got)
        PROVE  QueueIsSaved' /\ DiskIsPending'
    BY <2>5, PostMoves DEF DiskMatchesQueue
  <2>6. CASE AnswerLate
    BY <2>6 DEF AnswerLate, DiskMatchesQueue
  <2>7. CASE Settle
    <3>1. disk' = outbox'
      BY <2>7, SaveAgrees DEF Settle
    <3> QED BY <3>1
  <2>8. CASE Crash
    <3>1. ~up'
      BY <2>8 DEF Crash
    <3> QED BY <3>1
  <2>9. CASE Restart
    BY <2>9 DEF Restart
  <2>10. CASE UNCHANGED vars
    BY <2>10 DEF vars, SameJob, DiskMatchesQueue
  <2> QED BY <2>1, <2>2, <2>3, <2>4, <2>5, <2>6, <2>7, <2>8, <2>9, <2>10
          DEF Next, Handler, Drain, Stall, Deliver, Hang
<1> QED BY <1>1, <1>2, TypeCorrect, PTL DEF Spec

(***************************************************************************)
(* At most one delivery per incarnation.  A job is in one place at a time  *)
(* (queued, taken or in flight), no place holds it before its event was    *)
(* queued, and while it is still to be delivered its endpoint has seen it  *)
(* at most once per crash so far.                                          *)
(***************************************************************************)

JobId(j) == <<j.hook, j.ev>>

Held == outbox \cup due

\* One entry per job, in memory and on disk; taken jobs left the queue, and a
\* gateway that is down has taken none.
Unique ==
    /\ \A j, k \in Held : SameJob(j, k) => j = k
    /\ \A j, k \in disk : SameJob(j, k) => j = k
    /\ outbox \cap due = {}
    /\ sent # NoJob => \A j \in Held : ~SameJob(j, sent)
    /\ ~up => due = {} /\ sent = NoJob

\* Jobs exist only for events that FireWebhooks has queued.
FromQueued ==
    /\ \A j \in Held \cup disk : pc[j.ev] = "queued"
    /\ sent # NoJob => pc[sent.ev] = "queued"
    /\ \A x \in Hooks \X Events : pc[x[2]] # "queued" => received[x] = 0

\* What is still to be delivered was delivered at most once per crash.
Fresh ==
    /\ \A j \in Held : received[JobId(j)] <= crashes
    /\ ~up => \A j \in disk : received[JobId(j)] <= crashes

OnceInv == Unique /\ FromQueued /\ Fresh /\ OncePerIncarnation

\* A result whose job is not queued changes nothing in the queue.
LEMMA SettledMisses ==
    ASSUME NEW q, NEW s, \A j \in q : ~SameJob(j, s)
    PROVE  Settled(q, s) = q
  BY DEF Settled

\* The invariant holds initially.
LEMMA OnceInit == Init => OnceInv
  BY OutboxBounds DEF Init, OnceInv, Unique, FromQueued, Fresh, OncePerIncarnation, Held

\* Every step preserves it.
LEMMA OnceStep ==
    ASSUME TypeOK, OnceInv, [Next]_vars
    PROVE  OnceInv'
<1> USE DEF OnceInv
<1>1. ASSUME NEW e \in Events, AppendEvent(e) PROVE OnceInv'
  BY <1>1 DEF AppendEvent, counts, Unique, FromQueued, Fresh, OncePerIncarnation, Held, SameJob, JobId, TypeOK, Jobs, Sends
<1>2. ASSUME NEW e \in Events, CollectHooks(e) PROVE OnceInv'
  BY <1>2 DEF CollectHooks, counts, Unique, FromQueued, Fresh, OncePerIncarnation, Held, SameJob, JobId, TypeOK, Jobs, Sends
<1>3. ASSUME NEW e \in Events, QueueJobs(e) PROVE OnceInv'
  <2>0. disk' \subseteq disk \cup outbox' /\ (disk' = outbox' \/ disk' = disk)
    BY <1>3 DEF QueueJobs, SaveOutbox
  <2>1. /\ outbox' = outbox \cup NewJobs(e) /\ due' = due
        /\ sent' = sent /\ received' = received /\ crashes' = crashes
        /\ up /\ up' = up /\ pc[e] = "collected" /\ pc' = [pc EXCEPT ![e] = "queued"]
    BY <1>3 DEF QueueJobs
  <2>2. \A j \in NewJobs(e) : j.ev = e /\ j.hook \in Hooks /\ j.attempts = 0 /\ j \in Jobs
    BY DEF NewJobs, TypeOK, Jobs
  <2>3. \A j \in Held \cup disk : j.ev # e
    BY <2>1 DEF FromQueued
  <2>4. sent # NoJob => sent.ev # e
    BY <2>1 DEF FromQueued
  <2>5. \A j, k \in NewJobs(e) : SameJob(j, k) => j = k
    BY <2>2 DEF SameJob, Jobs
  <2>6. Unique'
    <3>1. Held' = Held \cup NewJobs(e)
      BY <2>1 DEF Held
    <3>2. \A j, k \in Held' : SameJob(j, k) => j = k
      BY <3>1, <2>2, <2>3, <2>5 DEF Unique, SameJob
    <3>3. \A j, k \in disk' : SameJob(j, k) => j = k
      BY <2>0, <2>1, <3>2 DEF Unique, Held
    <3>4. outbox' \cap due' = {}
      BY <2>1, <2>2, <2>3 DEF Unique, Held
    <3>5. sent # NoJob => \A j \in Held' : ~SameJob(j, sent)
      BY <3>1, <2>2, <2>4 DEF Unique, SameJob
    <3> QED BY <2>1, <3>2, <3>3, <3>4, <3>5 DEF Unique
  <2>7. FromQueued'
    <3>1. Held' \cup disk' \subseteq Held \cup disk \cup NewJobs(e)
      BY <2>0, <2>1 DEF Held
    <3>2. \A j \in Held' \cup disk' : pc'[j.ev] = "queued"
      BY <2>1, <2>2, <3>1 DEF FromQueued, TypeOK
    <3>3. sent # NoJob => pc'[sent.ev] = "queued"
      BY <2>1 DEF FromQueued, TypeOK
    <3>4. \A x \in Hooks \X Events : pc'[x[2]] # "queued" => received'[x] = 0
      BY <2>1 DEF FromQueued, TypeOK
    <3> QED BY <2>1, <3>2, <3>3, <3>4 DEF FromQueued
  <2>8. Fresh'
    <3>1. \A j \in NewJobs(e) : received[JobId(j)] = 0
      BY <2>1, <2>2 DEF FromQueued, JobId
    <3>2. 0 <= crashes
      BY DEF TypeOK
    <3> QED BY <2>1, <3>1, <3>2 DEF Fresh, Held
  <2>9. OncePerIncarnation'
    BY <2>1 DEF OncePerIncarnation
  <2> QED BY <2>6, <2>7, <2>8, <2>9
<1>4. CASE TakeDue
  <2>1. PICK D \in SUBSET outbox : due' = D /\ outbox' = outbox \ D
    BY <1>4 DEF TakeDue
  <2>2. /\ due = {} /\ disk' = disk /\ sent' = sent /\ sent = NoJob /\ received' = received
        /\ crashes' = crashes /\ up /\ up' = up /\ pc' = pc
    BY <1>4 DEF TakeDue, counts
  <2>3. Held' = Held
    BY <2>1, <2>2 DEF Held
  <2>4. Unique'
    BY <2>1, <2>2, <2>3 DEF Unique
  <2>5. FromQueued' /\ OncePerIncarnation'
    BY <2>2, <2>3 DEF FromQueued, OncePerIncarnation
  <2>6. Fresh'
    BY <2>2, <2>3 DEF Fresh
  <2> QED BY <2>4, <2>5, <2>6
<1>5. ASSUME NEW j \in due, NEW ok \in BOOLEAN, Post(j, ok) PROVE OnceInv'
  <2>1. /\ outbox' = outbox /\ disk' = disk /\ crashes' = crashes /\ up /\ up' = up
        /\ pc' = pc /\ due' = due \ {j} /\ sent = NoJob
        /\ sent' = [hook |-> j.hook, ev |-> j.ev, attempts |-> j.attempts, ok |-> ok]
    BY <1>5 DEF Post
  <2>2. j \in Jobs /\ j \in Held /\ JobId(j) \in Hooks \X Events
    BY DEF TypeOK, Jobs, Held, JobId
  <2>3. \A k \in Held' : k \in Held /\ k # j
    BY <2>1 DEF Held, Unique
  <2>4. \A k \in Held' : ~SameJob(k, j)
    BY <2>2, <2>3 DEF Unique
  <2>5. /\ received' \in [Hooks \X Events -> Nat]
        /\ received'[JobId(j)] <= received[JobId(j)] + 1
        /\ \A x \in Hooks \X Events : x # JobId(j) => received'[x] = received[x]
    <3>1. CASE ok
      BY <1>5, <2>2, <3>1 DEF Post, TypeOK, JobId
    <3>2. CASE ~ok
      BY <1>5, <2>2, <3>2 DEF Post, TypeOK, JobId
    <3> QED BY <3>1, <3>2
  <2>6. Unique'
    <3>1. \A k \in Held' : ~SameJob(k, sent')
      BY <2>1, <2>4 DEF SameJob
    <3> QED BY <2>1, <2>3, <3>1 DEF Unique
  <2>7. FromQueued'
    <3>1. pc[j.ev] = "queued"
      BY <2>2 DEF FromQueued
    <3>2. \A x \in Hooks \X Events : pc[x[2]] # "queued" => received'[x] = 0
      BY <3>1, <2>5 DEF FromQueued, JobId
    <3> QED BY <2>1, <2>3, <3>1, <3>2 DEF FromQueued
  <2>8. Fresh'
    <3>1. \A k \in Held' : JobId(k) # JobId(j) /\ JobId(k) \in Hooks \X Events
      BY <2>3, <2>4 DEF SameJob, JobId, TypeOK, Jobs, Held
    <3> QED BY <2>1, <2>3, <2>5, <3>1 DEF Fresh
  <2>9. OncePerIncarnation'
    <3>1. received[JobId(j)] <= crashes /\ received[JobId(j)] \in Nat /\ crashes \in Nat
      BY <2>2 DEF Fresh, TypeOK
    <3> QED BY <2>1, <2>5, <3>1 DEF OncePerIncarnation, TypeOK
  <2> QED BY <2>6, <2>7, <2>8, <2>9
<1>6. CASE Settle
  <2>1. Settled(outbox, sent) = outbox
    BY <1>6, SettledMisses DEF Settle, Unique, Held
  <2>2. /\ outbox' = outbox /\ disk' \in {outbox, disk} /\ due' = due /\ sent' = NoJob
        /\ received' = received /\ crashes' = crashes /\ up /\ up' = up /\ pc' = pc
    BY <1>6, <2>1 DEF Settle, SaveOutbox
  <2>3. Held' = Held /\ disk' \in {outbox, disk} /\ outbox \subseteq Held
    BY <2>2 DEF Held
  <2>4. Unique' /\ FromQueued' /\ OncePerIncarnation'
    BY <2>2, <2>3 DEF Unique, FromQueued, OncePerIncarnation
  <2>5. Fresh'
    BY <2>2, <2>3 DEF Fresh
  <2> QED BY <2>4, <2>5
<1>7. CASE Crash
  <2>1. /\ outbox' = {} /\ due' = {} /\ disk' = disk /\ sent' = NoJob
        /\ received' = received /\ crashes' = crashes + 1
    BY <1>7 DEF Crash
  <2>2. \A e \in Events : pc'[e] = "queued" <=> pc[e] = "queued"
    BY <1>7 DEF Crash
  <2>3. Held' = {}
    BY <2>1 DEF Held
  <2>4. Unique'
    BY <2>1, <2>3 DEF Unique
  <2>5. FromQueued'
    BY <2>1, <2>2, <2>3 DEF FromQueued, TypeOK, Jobs
  <2>6. \A j \in disk : JobId(j) \in Hooks \X Events
    BY DEF TypeOK, Jobs, JobId
  <2>7. Fresh' /\ OncePerIncarnation'
    BY <2>1, <2>3, <2>6 DEF Fresh, OncePerIncarnation, TypeOK
  <2> QED BY <2>4, <2>5, <2>7
<1>8. CASE Restart
  <2>1. /\ outbox' = disk /\ disk' = disk /\ due' = due /\ sent' = sent
        /\ received' = received /\ crashes' = crashes /\ pc' = pc /\ ~up
    BY <1>8 DEF Restart, counts
  <2> QED BY <2>1 DEF Unique, FromQueued, Fresh, OncePerIncarnation, Held
<1>9. CASE AnswerLate
  BY <1>9 DEF AnswerLate, counts, Unique, FromQueued, Fresh, OncePerIncarnation, Held
<1>10. CASE UNCHANGED vars
  BY <1>10 DEF vars, counts, Unique, FromQueued, Fresh, OncePerIncarnation, Held
<1> QED BY <1>1, <1>2, <1>3, <1>4, <1>5, <1>6, <1>7, <1>8, <1>9, <1>10
        DEF Next, Handler, Drain, Stall, Deliver, Hang

\* An endpoint sees a notification at most once per incarnation of the gateway.
THEOREM DeliveredOnce == Spec => []OncePerIncarnation
<1>1. TypeOK /\ OnceInv /\ [Next]_vars => OnceInv'
  BY OnceStep
<1>2. OnceInv => OncePerIncarnation
  BY DEF OnceInv
<1> QED BY <1>1, <1>2, OnceInit, TypeCorrect, PTL DEF Spec
=============================================================================
