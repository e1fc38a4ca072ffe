---------------------------- MODULE WatchedChain ----------------------------
(***************************************************************************)
(* The timeline of ChainLife with its observers: watchdog W2, which checks *)
(* what is new in every cycle and everything in every FullEvery-th one, W4, *)
(* which compares the heads of timeline and mirror (watchdogs.go), and the *)
(* auditor's mirror itself (AuditorLog of audit.go).                       *)
(*                                                                         *)
(* Besides the damage of ChainLife the stored tail may be cut off, and new *)
(* events may be kept from the mirror: the chain then verifies, and only   *)
(* the observers together can tell.  A watchdog lives in memory and starts *)
(* afresh when the timeline is reloaded; the mirror is the auditor's own.  *)
(***************************************************************************)
EXTENDS ChainLife

CONSTANT FullEvery      \* cycles between W2's full scans (10)

ASSUME WatchParams == FullEvery \in Nat \ {0}

VARIABLES
    mirror,     \* AuditorLog.events
    w2,         \* W2: events checked so far; cycles modulo FullEvery
    late,       \* cycles in a row with damage and no alarm of W2 (history)
    spurious    \* cycles in a row with an alarm of W2 and no damage, since
                \* the last rotation (history)

watch == <<mirror, w2, late, spurious>>
allVars == <<vars, watch>>

\* NewWatchdog.
FreshW2 == [checked |-> 0, cycles |-> 0]

WatchedInit ==
    /\ Init
    /\ mirror = <<>>
    /\ w2 = FreshW2
    /\ late = 0
    /\ spurious = 0

\* AuditorLog: the head is the event's own hash, the links are checked under
\* the algorithm of the timeline.
MirrorHead == IF mirror = <<>> THEN None ELSE Hash(Last(mirror))

\* Mutant of MirrorVerifies: a first event with a parent is taken as a start.
MirrorVerifiesTail ==
    \A i \in DOMAIN mirror :
        i > 1 => mirror[i].parent = Digest(tl.algo, mirror[i - 1])

MirrorVerifies ==
    \A i \in DOMAIN mirror :
        mirror[i].parent = IF i = 1 THEN None ELSE Digest(tl.algo, mirror[i - 1])

\* W4: the heads differ.
ProbeAlarm == HeadOf(tl) # MirrorHead
-----------------------------------------------------------------------------
(* One cycle of W2                                                         *)

\* Mutant of DeltaBad: the signature is not looked at.
DeltaBadLink(i) == i > 0 /\ tl.events[i + 1].parent # Digest(tl.algo, tl.events[i])

\* The check of new events: the link, and a signature by the current key.
DeltaBad(i) ==
    \/ i > 0 /\ tl.events[i + 1].parent # Digest(tl.algo, tl.events[i])
    \/ tl.events[i + 1].sig # tl.pub

DeltaCheck ==
    LET bad == {i \in w2.checked..Len(tl.events) - 1 : DeltaBad(i)}
    IN  IF bad = {} THEN -1 ELSE Min(bad)

\* cycles counts the cycle that is being scored.
FullScanDue == (w2.cycles + 1) % FullEvery = 0

\* computeScore of W2: the evidence's bad_index, -1 for no alarm.
Integrity == IF FullScanDue THEN LocateBadEvent(tl) ELSE DeltaCheck

\* Mutant of ScoreW2: the cadence starts over with an alarm.
ScoreW2Restarting ==
    [checked |-> IF Integrity = -1 THEN Len(tl.events) ELSE w2.checked,
     cycles |-> IF Integrity = -1 THEN (w2.cycles + 1) % FullEvery ELSE 0]

\* The cursor moves only when nothing is wrong.
ScoreW2 ==
    [checked |-> IF Integrity = -1 THEN Len(tl.events) ELSE w2.checked,
     cycles |-> (w2.cycles + 1) % FullEvery]

\* ObserveBatch drops the cached score, Score computes the next one.
Cycle ==
    /\ w2' = ScoreW2
    /\ late' = IF first # -1 /\ Integrity = -1 THEN late + 1 ELSE 0
    /\ spurious' = IF first = -1 /\ Integrity # -1 THEN spurious + 1 ELSE 0
    /\ UNCHANGED <<vars, mirror>>
-----------------------------------------------------------------------------
(* What happens to the chain                                               *)

Grow ==
    /\ \/ Add /\ UNCHANGED spurious
       \/ Rotate /\ spurious' = 0
    /\ mirror' = Append(mirror, Last(tl'.events))
    /\ UNCHANGED <<w2, late>>

\* An event is kept from the mirror.
GrowUnmirrored ==
    /\ Writable
    /\ hits < MaxDamage
    /\ \E c \in Certs : tl' = AppendEv(tl, IssueEv(c, Owner, None))
    /\ hits' = hits + 1
    /\ UNCHANGED <<keys, first, watch>>

Reload(includeKey) ==
    /\ SaveAndLoad(includeKey)
    /\ w2' = FreshW2
    /\ late' = 0
    /\ spurious' = 0
    /\ UNCHANGED mirror

Corrupt ==
    /\ \E i \in 0..Len(tl.events) - 1 : Alter(i) \/ Drop(i)
    /\ UNCHANGED watch

\* The stored events from index n on are cut off (when no rotation is lost: the
\* next event is signed with the key in memory, which would give it away).
Cut(n) ==
    /\ hits < MaxDamage
    /\ PubForPrefix(tl, n - 1) = tl.pub
    /\ tl' = [tl EXCEPT !.events = SubSeq(@, 1, n)]
    /\ hits' = hits + 1
    /\ first' = IF first >= n THEN -1 ELSE first
    /\ UNCHANGED <<keys, watch>>

WatchedNext ==
    \/ Grow
    \/ GrowUnmirrored
    \/ \E k \in BOOLEAN : Reload(k)
    \/ Corrupt
    \/ \E n \in 0..Len(tl.events) - 1 : Cut(n)
    \/ Cycle

WatchedSpec == WatchedInit /\ [][WatchedNext]_allVars
-----------------------------------------------------------------------------
(* Properties                                                              *)

\* Damage to an event that W2 has not passed yet is flagged in the very cycle,
\* no later than at that event, and damage behind its cursor (or the loss of
\* the genesis, whose parent only the full scan looks at) within FullEvery
\* cycles, whatever else happens: rotations, cuts, appends and alarms about
\* other events never make the cursor and the cadence miss it.
DamageFlagged ==
    /\ first > 0 /\ first >= w2.checked => Integrity \in 0..first
    /\ late < FullEvery

\* W2 raises no alarm without a reason: without damage it names an event that
\* a later rotation made look wrong, because new events are checked against
\* the current key; and the next full scan puts an end to it.
AlarmHasCause ==
    /\ first = -1 /\ Integrity # -1 =>
         \E i \in Integrity + 1..Len(tl.events) : tl.events[i].type \in Switches
    /\ spurious < FullEvery

\* W2's full scan, W4's probe and the auditor's own check are each blind to
\* something (a cut tail, an altered event, events never mirrored); when all
\* three are content, the timeline holds exactly the events that were mirrored.
QuietMeansIntact ==
    Verify(tl) /\ ~ProbeAlarm /\ MirrorVerifies => tl.events = mirror
-----------------------------------------------------------------------------
(* Claims of the documentation that the code does not keep                 *)

\* core_test.go: the probe "must see a clean mirror (no alarm)".  Under the
\* dual digest the head of the mirror is not a link digest.
CleanMirrorQuiet == tl.events = mirror => ~ProbeAlarm

\* watchdogs.go: "O(1) delta-verify of new events": W2 is quiet on a chain
\* that nobody touched.
IntactIsQuiet == first = -1 => Integrity = -1
=============================================================================
