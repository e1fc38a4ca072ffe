----------------------------- MODULE ChainLife ------------------------------
(***************************************************************************)
(* The life of one Timeline object: appends, key rotations, a save and     *)
(* reload, and damage done to the stored events behind its back.  It asks  *)
(* what LocateBadEvent (the core of watchdog W2) finds, and what a fork    *)
(* taken anywhere along the chain is good for.                             *)
(***************************************************************************)
EXTENDS TimelineObject

CONSTANTS
    Owner,      \* the one identity
    MaxLen,     \* bound on the chain's length
    MaxKeys,    \* bound on the number of signing keys
    MaxDamage   \* bound on damaged events

ASSUME ChainBounds == MaxLen \in Nat /\ MaxKeys \in Nat /\ MaxDamage \in Nat
ASSUME ChainNames == None \notin Certs \cup Nat /\ Forged \notin Nat /\ Council # None

VARIABLES
    keys,       \* signing keys generated so far, named 0, 1, ...
    first,      \* lowest index damaged since, -1 when none (history)
    hits        \* number of times the storage was damaged

vars == <<tl, keys, first, hits>>

Init ==
    /\ \E algo \in {"sha256", "dual"} :
          tl = [NewTimeline(0, algo) EXCEPT !.council = Council]
    /\ keys = 1
    /\ first = -1
    /\ hits = 0

Writable == tl.key # None /\ Len(tl.events) < MaxLen

Add ==
    /\ Writable
    /\ \E c \in Certs : tl' = AppendEv(tl, IssueEv(c, Owner, None))
    /\ UNCHANGED <<keys, first, hits>>

Rotate ==
    /\ Writable
    /\ keys < MaxKeys
    /\ tl' = RotateKey(tl, keys)
    /\ keys' = keys + 1
    /\ UNCHANGED <<first, hits>>

SaveAndLoad(includeKey) ==
    /\ tl' = Reloaded(tl, includeKey)
    /\ UNCHANGED <<keys, first, hits>>

Damaged(i) ==
    /\ hits < MaxDamage
    /\ hits' = hits + 1
    /\ first' = IF first = -1 THEN i ELSE Min({first, i})
    /\ UNCHANGED keys

\* A stored payload is altered: its signature is no longer one of any key.
Alter(i) ==
    /\ tl.events[i + 1].type = "ISSUE"
    /\ \E c \in Certs \ {tl.events[i + 1].cert} :
          tl' = [tl EXCEPT !.events[i + 1].cert = c, !.events[i + 1].sig = Forged]
    /\ Damaged(i)

\* A stored event in front of others is dropped: its successor takes its index.
Drop(i) ==
    /\ i < Len(tl.events) - 1
    /\ tl' = [tl EXCEPT !.events = RemoveAt(@, i + 1)]
    /\ Damaged(i)

Next ==
    \/ Add
    \/ Rotate
    \/ \E k \in BOOLEAN : SaveAndLoad(k)
    \/ \E i \in 0..Len(tl.events) - 1 : Alter(i) \/ Drop(i)

Spec == Init /\ [][Next]_vars
-----------------------------------------------------------------------------
(* Properties                                                              *)

\* LocateBadEvent is exact, under either link digest and across any number of
\* rotations and reloads: it names the lowest damaged event, whatever was
\* damaged after it and whatever was appended since.
FindsFirstDamage == LocateBadEvent(tl) = first

\* Checkpoints of the undamaged chain that no key switch precedes.
PlainCheckpoints ==
    {i \in 0..Len(tl.events) - 1 :
        /\ VerifyPrefix(tl, i + 1)
        /\ \A j \in 1..i + 1 : tl.events[j].type \notin Switches}

ForkAt(i) == Fork(tl, Hash(tl.events[i + 1]))
-----------------------------------------------------------------------------
(* Claims of the documentation that the code does not keep                 *)

\* timeline.go, rotations: kept "so forks can continue under the key that was
\* current at their branch point".
ForkContinues ==
    \A i \in 0..Len(tl.events) - 1 :
        (VerifyPrefix(tl, i + 1) /\ ForkAt(i).key # None) =>
            Verify(AppendEv(ForkAt(i), CommitEv(1)))

\* hash.go: "dual mode changes only the link (ParentHash) digest": a recovery
\* of a verified chain verifies in either mode.
RecoveryVerifies ==
    \A i \in PlainCheckpoints :
        Verify(RecoveryFork(tl, i + 1, MaxKeys, 0))
=============================================================================
