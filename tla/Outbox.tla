------------------------------- MODULE Outbox -------------------------------
(***************************************************************************)
(* Webhook delivery (webhooks.go).  A request handler appends an event to  *)
(* a timeline and then calls FireWebhooks, which queues one job per        *)
(* matching endpoint in Store.outbox and saves outbox.json; one drain loop *)
(* takes the jobs that are due and delivers them one by one, outside the   *)
(* lock.  The gateway may crash between any two of these steps and restart *)
(* from the files.  saveOutboxLocked drops the error of its write, so a    *)
(* save may leave the old file in place; a POST has no deadline, so it may *)
(* keep the drain loop waiting for ever.                                   *)
(*                                                                         *)
(* Endpoints have distinct URLs and every event has its own body, so a job *)
(* is an endpoint and an event.  A fresh job is due at once; one that is   *)
(* backing off may or may not be due when the loop looks.                  *)
(***************************************************************************)
EXTENDS Naturals, FiniteSets

CONSTANTS
    Hooks,          \* registered, active endpoints
    Events,         \* trust events that trigger notifications
    Wants,          \* Wants[e]: endpoints whose filter matches event e
    MaxAttempts,    \* outboxMaxAttempts (5 in the code)
    NoJob,          \* the drain loop is between deliveries
    MaxCrashes,     \* bound on crashes
    MaxFails,       \* bound on failed deliveries
    MaxSaveFails,   \* bound on writes of outbox.json that fail
    MaxHangs        \* bound on POSTs that hang

ASSUME WantsType == Wants \in [Events -> SUBSET Hooks]
ASSUME AttemptsPos == MaxAttempts \in Nat \ {0}
ASSUME OutboxBounds == /\ MaxCrashes \in Nat /\ MaxFails \in Nat
                       /\ MaxSaveFails \in Nat /\ MaxHangs \in Nat
ASSUME NoJobFresh == NoJob \notin [hook : Hooks, ev : Events, attempts : Nat, ok : BOOLEAN]

VARIABLES
    up,         \* the gateway process runs
    pc,         \* pc[e]: how far the handler of event e has come
    matched,    \* matched[e]: endpoints FireWebhooks has collected
    outbox,     \* Store.outbox
    disk,       \* outbox.json
    due,        \* jobs drainOutbox has taken and not yet delivered
    sent,       \* the job in tryDeliver with its result, or NoJob
    stuck,      \* the POST of sent has not returned
    saved,      \* the last save of the queue reached the file (history)
    received,   \* received[<<h, e>>]: deliveries the endpoint has accepted
    tries,      \* tries[<<h, e>>]: deliveries attempted (history)
    crashes, fails, saveFails, hangs

counts == <<received, tries, crashes, fails, saveFails, hangs>>

vars == <<up, pc, matched, outbox, disk, due, sent, stuck, saved, counts>>

Jobs == [hook : Hooks, ev : Events, attempts : Nat]

Sends == [hook : Hooks, ev : Events, attempts : Nat, ok : BOOLEAN]

SameJob(j, k) == j.hook = k.hook /\ j.ev = k.ev

Init ==
    /\ up = TRUE
    /\ pc = [e \in Events |-> "idle"]
    /\ matched = [e \in Events |-> {}]
    /\ outbox = {}
    /\ disk = {}
    /\ due = {}
    /\ sent = NoJob
    /\ received = [x \in Hooks \X Events |-> 0]
    /\ tries = [x \in Hooks \X Events |-> 0]
    /\ stuck = FALSE
    /\ saved = TRUE
    /\ crashes = 0
    /\ fails = 0
    /\ saveFails = 0
    /\ hangs = 0

\* saveOutboxLocked: the whole queue is written, and a failed write is ignored.
SaveOutbox ==
    \/ disk' = outbox' /\ saved' = TRUE /\ UNCHANGED saveFails
    \/ /\ saveFails < MaxSaveFails /\ saveFails' = saveFails + 1
       /\ saved' = FALSE /\ UNCHANGED disk
-----------------------------------------------------------------------------
(* Request handlers and the fleet watcher                                  *)

\* The handler's critical section: append to the timeline, saveTenant.
AppendEvent(e) ==
    /\ up /\ pc[e] = "idle"
    /\ pc' = [pc EXCEPT ![e] = "appended"]
    /\ UNCHANGED <<up, matched, outbox, disk, due, sent, stuck, saved, counts>>

\* FireWebhooks, first critical section.
CollectHooks(e) ==
    /\ up /\ pc[e] = "appended"
    /\ matched' = [matched EXCEPT ![e] = Wants[e]]
    /\ pc' = [pc EXCEPT ![e] = "collected"]
    /\ UNCHANGED <<up, outbox, disk, due, sent, stuck, saved, counts>>

NewJobs(e) == {[hook |-> h, ev |-> e, attempts |-> 0] : h \in matched[e]}

\* Mutant of QueueJobs: the new jobs replace the queue.
QueueOverwrites(e) ==
    /\ up /\ pc[e] = "collected"
    /\ outbox' = NewJobs(e)
    /\ SaveOutbox
    /\ pc' = [pc EXCEPT ![e] = "queued"]
    /\ UNCHANGED <<up, matched, due, sent, stuck, received, tries, crashes, fails, hangs>>

\* FireWebhooks, second critical section.
QueueJobs(e) ==
    /\ up /\ pc[e] = "collected"
    /\ outbox' = outbox \cup NewJobs(e)
    /\ SaveOutbox
    /\ pc' = [pc EXCEPT ![e] = "queued"]
    /\ UNCHANGED <<up, matched, due, sent, stuck, received, tries, crashes, fails, hangs>>
-----------------------------------------------------------------------------
(* The drain loop                                                          *)

\* Mutant of TakeDue: due jobs stay in the queue while they are delivered, and
\* the next pass of the loop does not wait for this one.
TakeDueKeeping ==
    /\ up /\ outbox # {}
    /\ due' = due \cup outbox
    /\ UNCHANGED <<up, pc, matched, outbox, disk, sent, stuck, saved, counts>>

\* drainOutbox under the lock; nothing is saved here.
TakeDue ==
    /\ up /\ due = {} /\ sent = NoJob
    /\ \E D \in SUBSET outbox :
         /\ D # {}
         /\ {j \in outbox : j.attempts = 0} \subseteq D
         /\ due' = D
         /\ outbox' = outbox \ D
    /\ UNCHANGED <<up, pc, matched, disk, sent, stuck, saved, counts>>

\* tryDeliver, before the lock: the loop turns to job j, and its endpoint takes
\* the notification (got) or does not.
Post(j, got) ==
    /\ up /\ sent = NoJob
    /\ j \in due
    /\ due' = due \ {j}
    /\ sent' = [hook |-> j.hook, ev |-> j.ev, attempts |-> j.attempts, ok |-> got]
    /\ tries' = [tries EXCEPT ![<<j.hook, j.ev>>] = @ + 1]
    /\ IF got THEN received' = [received EXCEPT ![<<j.hook, j.ev>>] = @ + 1] ELSE UNCHANGED received
    /\ UNCHANGED <<up, pc, matched, outbox, disk, saved, crashes, saveFails>>

\* The POST succeeds or does not.
Deliver(j, ok) ==
    /\ Post(j, ok)
    /\ ok \/ fails < MaxFails
    /\ fails' = IF ok THEN fails ELSE fails + 1
    /\ UNCHANGED <<stuck, hangs>>

\* The POST does not return: http.DefaultClient has no timeout.
Hang(j, got) ==
    /\ Post(j, got)
    /\ hangs < MaxHangs
    /\ hangs' = hangs + 1
    /\ stuck' = TRUE
    /\ UNCHANGED fails

\* A POST that hung returns after all; nothing says that it must.
AnswerLate ==
    /\ up /\ stuck
    /\ stuck' = FALSE
    /\ UNCHANGED <<up, pc, matched, outbox, disk, due, sent, saved, counts>>

\* The queue after a job's result: it is looked up in the queue as it is now,
\* removed when delivered or out of attempts, else marked for a later retry.
Settled(q, s) ==
    LET hit == {j \in q : SameJob(j, s)}
        again == {[j EXCEPT !.attempts = @ + 1] : j \in hit}
    IN  (q \ hit) \cup
        IF s.ok THEN {} ELSE {j \in again : j.attempts < MaxAttempts}

\* Mutant of Settle: the queue is saved only after a delivery that succeeded.
SettleSavesOk ==
    /\ up /\ sent # NoJob /\ ~stuck
    /\ outbox' = Settled(outbox, sent)
    /\ IF sent.ok THEN SaveOutbox ELSE UNCHANGED <<disk, saved, saveFails>>
    /\ sent' = NoJob
    /\ UNCHANGED <<up, pc, matched, due, stuck, received, tries, crashes, fails, hangs>>

\* tryDeliver, under the lock, once the POST has returned.
Settle ==
    /\ up /\ sent # NoJob /\ ~stuck
    /\ outbox' = Settled(outbox, sent)
    /\ SaveOutbox
    /\ sent' = NoJob
    /\ UNCHANGED <<up, pc, matched, due, stuck, received, tries, crashes, fails, hangs>>
-----------------------------------------------------------------------------
(* Crash and restart                                                       *)

\* Everything in memory goes; a handler that had not queued yet never will.
Crash ==
    /\ up
    /\ crashes < MaxCrashes
    /\ crashes' = crashes + 1
    /\ up' = FALSE
    /\ outbox' = {}
    /\ due' = {}
    /\ sent' = NoJob
    /\ stuck' = FALSE
    /\ pc' = [e \in Events |-> IF pc[e] \in {"appended", "collected"} THEN "dead" ELSE pc[e]]
    /\ UNCHANGED <<matched, disk, saved, received, tries, fails, saveFails, hangs>>

\* NewStore: loadOutbox; the queue is again what the file holds.
Restart ==
    /\ ~up
    /\ up' = TRUE
    /\ outbox' = disk
    /\ saved' = TRUE
    /\ UNCHANGED <<pc, matched, disk, due, sent, stuck, counts>>

Handler(e) == AppendEvent(e) \/ CollectHooks(e) \/ QueueJobs(e)

Drain == TakeDue \/ Settle \/ \E j \in due, ok \in BOOLEAN : Deliver(j, ok)

Stall == AnswerLate \/ \E j \in due, got \in BOOLEAN : Hang(j, got)

Next == (\E e \in Events : Handler(e)) \/ Drain \/ Stall \/ Crash \/ Restart

Spec == Init /\ [][Next]_vars

\* The ticker keeps calling drainOutbox, a handler that started finishes, and
\* a supervisor restarts the gateway; no delivery has to succeed, and a POST
\* that hangs need never return.
FairSpec == /\ Spec
            /\ WF_vars(Drain)
            /\ WF_vars(Restart)
            /\ \A e \in Events : WF_vars(CollectHooks(e) \/ QueueJobs(e))
-----------------------------------------------------------------------------
(* Properties                                                              *)

\* Type correctness.
TypeOK ==
    /\ up \in BOOLEAN
    /\ pc \in [Events -> {"idle", "appended", "collected", "queued", "dead"}]
    /\ matched \in [Events -> SUBSET Hooks]
    /\ outbox \in SUBSET Jobs
    /\ disk \in SUBSET Jobs
    /\ due \in SUBSET Jobs
    /\ sent \in Sends \cup {NoJob}
    /\ received \in [Hooks \X Events -> Nat]
    /\ tries \in [Hooks \X Events -> Nat]
    /\ crashes \in 0..MaxCrashes
    /\ fails \in 0..MaxFails
    /\ saveFails \in 0..MaxSaveFails
    /\ hangs \in 0..MaxHangs
    /\ stuck \in BOOLEAN
    /\ saved \in BOOLEAN

\* Whatever still waits in the queue survives a crash: it is on disk.
QueueIsSaved == outbox \subseteq disk

\* A restart brings back nothing but jobs whose outcome was not yet settled: a
\* job on disk is queued, taken or in flight, so one that was settled and
\* saved is never delivered again.
DiskIsPending ==
    \A j \in disk : \/ j \in outbox \cup due
                    \/ sent # NoJob /\ SameJob(j, sent)

\* What a crash at this moment would replay is what is owed: all that waits in
\* the queue, and nothing whose outcome was settled.  The exception is the
\* error saveOutboxLocked ignores: it lasts from a failed write to the next
\* one that succeeds, or to a restart, and one save mends whatever was missed.
DiskMatchesQueue == (up /\ saved) => (QueueIsSaved /\ DiskIsPending)

\* At most one delivery per incarnation of the gateway: an endpoint sees a
\* notification twice only if a crash fell between the POST and its save.
OncePerIncarnation ==
    \A x \in Hooks \X Events : received[x] <= 1 + crashes

\* Every notification that was triggered is attempted, as long as the gateway
\* does not crash and no POST hangs for ever: the drain loop and the handlers'
\* appends to the queue, however interleaved, with failed saves and with POSTs
\* that return late, lose no job before its first attempt.
EveryJobTried ==
    \/ <>[]stuck
    \/ \A e \in Events : \A h \in Wants[e] :
         pc[e] = "appended" ~> (tries[<<h, e>>] > 0 \/ crashes > 0)
-----------------------------------------------------------------------------
(* Claims of the documentation that the code does not keep                 *)

Pending(h, e) ==
    \/ \E j \in outbox \cup due : j.hook = h /\ j.ev = e
    \/ sent # NoJob /\ sent.hook = h /\ sent.ev = e

\* webhooks.go: "Backoff 5s->15s->1m->5m, dropped after 5 attempts": while the
\* gateway runs, a queued job is gone only once delivered or out of attempts.
DroppedOnlyAfterMax ==
    \A e \in Events : \A h \in Wants[e] :
        (up /\ crashes = 0 /\ pc[e] = "queued" /\ ~Pending(h, e)) =>
            (received[<<h, e>>] > 0 \/ tries[<<h, e>>] >= MaxAttempts)

\* webhooks.go: "a crash between trigger and delivery replays the pending jobs
\* on restart": a queued job that was never attempted is in outbox.json.
PendingIsReplayed ==
    \A e \in Events : \A h \in Wants[e] :
        (pc[e] = "queued" /\ tries[<<h, e>>] = 0) =>
            \E j \in disk : j.hook = h /\ j.ev = e

\* docs/10-gateway.md: "pending jobs survive restarts": the queue is in the
\* file after every save, one whose write failed included.
SurvivesRestarts == up => QueueIsSaved

\* webhooks.go: the loop retries a job until it is "dropped after 5 attempts":
\* every notification is attempted, whatever other endpoints do.
HangDelaysNobody ==
    \A e \in Events : \A h \in Wants[e] :
        pc[e] = "appended" ~> (tries[<<h, e>>] > 0 \/ crashes > 0)
=============================================================================
