---------------------------- MODULE VaultProofs -----------------------------
(***************************************************************************)
(* Proofs about the vault: no answered event is lost; a rotation leaves    *)
(* under an old data key, and the shares cannot reopen, only what a        *)
(* rotation that was cut short did not reach, for any tenants, KEKs,       *)
(* epochs, timelines, crashes and failing writes.                          *)
(***************************************************************************)
EXTENDS Vault, TLAPS

(***************************************************************************)
(* The inductive invariant.                                                *)
(***************************************************************************)

\* A timeline in memory holds what is in the tenant's file, and the events whose
\* save failed.
MemHoldsFile == \A g \in Orgs : mem[g] # Nil => file[g] # Nil /\ file[g].events <= mem[g]

\* EventsKept, and no answer for a tenant that was never created.
AnswersKept == \A g \in Orgs : acked[g] <= IF file[g] = Nil THEN 0 ELSE file[g].events

\* Which parts of the state a boot has reached; gateway.keys is written before
\* the vault it describes is used.
Phases ==
    /\ pc \in {"down", "unlock"} => vault = 0
    /\ pc \in {"load", "reseal"} => vault # 0
    /\ pc = "unlock" => session # Nil
    /\ vault # 0 => keys # Nil /\ keys.epoch = vault
    /\ lock # "free" => pc = "serve"

\* Files still to be re-sealed exist only while somebody is at it.
LeftIsPending ==
    /\ left \subseteq Existing
    /\ left # {} => pc = "reseal" \/ (pc = "serve" /\ lock = "held")
    /\ lock = "held" => vault # 0

\* Past the load, a gateway with a vault has every timeline in memory, which is
\* what makes a re-seal from memory safe, and has the files it is through with
\* under its newest data key, unless a rotation stopped before them.
VaultedLoaded ==
    pc \in {"reseal", "serve"} /\ vault # 0 =>
        \A g \in Existing : mem[g] # Nil /\ (g \notin left \cup missed => file[g].seal = vault)

IInv ==
    /\ TypeOK
    /\ MemHoldsFile
    /\ AnswersKept
    /\ Phases
    /\ LeftIsPending
    /\ VaultedLoaded

\* Unless a rotation is at work, what is sealed is sealed under the data key
\* in gateway.keys: SharesReopen, wherever the process is.
SealedUnderKeys ==
    lock # "held" =>
        \A g \in Existing \ missed :
            file[g].seal # 0 => keys # Nil /\ file[g].seal = keys.epoch

(***************************************************************************)
(* Every step preserves the invariant.                                     *)
(***************************************************************************)

\* The end of the process keeps what is on disk.
LEMMA ExitKeeps == IInv /\ Exit => IInv'
  BY VaultBounds, NilIsFresh, NilIsNoFile
  DEF IInv, TypeOK, MemHoldsFile, AnswersKept, Phases, LeftIsPending, VaultedLoaded,
      Existing, Exit, Missed

\* So does every step: a file is only ever written from a timeline that holds
\* all that was answered.
LEMMA StepKeeps == IInv /\ [Next]_vars => IInv'
<1> SUFFICES ASSUME IInv, [Next]_vars PROVE IInv'
  OBVIOUS
<1> USE VaultBounds, NilIsFresh, NilIsNoFile
    DEF IInv, TypeOK, MemHoldsFile, AnswersKept, Phases, LeftIsPending, VaultedLoaded, Existing
<1>1. ASSUME NEW s \in Keks \cup {Nil}, Boot(s) PROVE IInv'
  <2>1. \A g \in Orgs : mem'[g] \in 0..MaxEvents \cup {Nil}
    BY <1>1 DEF Boot
  <2>2. TypeOK'
    BY <1>1, <2>1 DEF Boot
  <2>3. MemHoldsFile'
    BY <1>1 DEF Boot
  <2>4. (AnswersKept /\ Phases /\ LeftIsPending /\ VaultedLoaded)'
    BY <1>1 DEF Boot
  <2> QED BY <2>2, <2>3, <2>4
<1>2. CASE MintKeys
  BY <1>2 DEF MintKeys, KeyFile, NewVault
<1>3. CASE OpenKeys
  BY <1>3, ExitKeeps DEF OpenKeys
<1>4. CASE LoadDeferred
  BY <1>4, ExitKeeps DEF LoadDeferred, Deferred, Opens
<1>5. CASE Serve
  BY <1>5 DEF Serve
<1>6. ASSUME NEW g \in Orgs, Reseal(g) PROVE IInv'
  <2>1. file[g] # Nil /\ vault # 0 /\ pc \in {"reseal", "serve"} /\ mem[g] # Nil
    BY <1>6 DEF Reseal
  <2>2. /\ file' = [file EXCEPT ![g] = [seal |-> vault, events |-> mem[g]]]
        /\ missed' = missed \ {g}
    BY <1>6, <2>1 DEF Reseal, Save, Sealed
  <2>3. TypeOK'
    BY <1>6, <2>1, <2>2 DEF Reseal
  <2>4. MemHoldsFile' /\ AnswersKept'
    BY <1>6, <2>1, <2>2 DEF Reseal
  <2>5. Phases' /\ LeftIsPending'
    BY <1>6, <2>1, <2>2 DEF Reseal
  <2>6. VaultedLoaded'
    BY <1>6, <2>1, <2>2 DEF Reseal
  <2> QED BY <2>3, <2>4, <2>5, <2>6
<1>7. ASSUME NEW g \in Orgs, CreateTenant(g) PROVE IInv'
  <2>1. file[g] = Nil /\ pc = "serve" /\ lock = "free" /\ left = {}
    BY <1>7 DEF CreateTenant, Free
  <2>2. /\ file' = [file EXCEPT ![g] = [seal |-> vault, events |-> 0]]
        /\ mem' = [mem EXCEPT ![g] = 0]
        /\ missed' = missed \ {g}
    BY <1>7 DEF CreateTenant, Save, Sealed
  <2>3. TypeOK'
    BY <1>7, <2>1, <2>2 DEF CreateTenant
  <2>4. MemHoldsFile' /\ AnswersKept'
    BY <1>7, <2>1, <2>2 DEF CreateTenant
  <2>5. Phases' /\ LeftIsPending'
    BY <1>7, <2>1, <2>2 DEF CreateTenant
  <2>6. VaultedLoaded'
    BY <1>7, <2>1, <2>2 DEF CreateTenant
  <2> QED BY <2>3, <2>4, <2>5, <2>6
<1>8. ASSUME NEW g \in Orgs, Issue(g) PROVE IInv'
  <2>1. /\ file[g] # Nil /\ pc = "serve" /\ lock = "free" /\ left = {}
        /\ mem[g] # Nil /\ file[g].events <= mem[g] /\ mem[g] < MaxEvents
        /\ mem[g] \in Nat /\ acked[g] \in Nat /\ acked[g] <= file[g].events
        /\ file[g].events \in Nat
    BY <1>8 DEF Issue, Free, Deferred
  <2>2. /\ file' = [file EXCEPT ![g] = [seal |-> vault, events |-> mem[g] + 1]]
        /\ mem' = [mem EXCEPT ![g] = mem[g] + 1]
        /\ acked' = [acked EXCEPT ![g] = acked[g] + 1]
        /\ missed' = missed \ {g}
    BY <1>8 DEF Issue, Save, Sealed
  <2>3. TypeOK'
    BY <1>8, <2>1, <2>2 DEF Issue
  <2>4. MemHoldsFile' /\ AnswersKept'
    BY <1>8, <2>1, <2>2 DEF Issue
  <2>5. Phases' /\ LeftIsPending'
    BY <1>8, <2>1, <2>2 DEF Issue
  <2>6. VaultedLoaded'
    BY <1>8, <2>1, <2>2 DEF Issue
  <2> QED BY <2>3, <2>4, <2>5, <2>6
<1>9. ASSUME NEW g \in Orgs, IssueDeferred(g) PROVE IInv'
  BY <1>9 DEF IssueDeferred, Free
<1>10. ASSUME NEW g \in Orgs, DetectDeferred(g) PROVE IInv'
  BY <1>10, ExitKeeps DEF DetectDeferred
<1>11. ASSUME NEW k \in Keks, RotateVault(k) PROVE IInv'
  <2>1. TypeOK'
    BY <1>11 DEF RotateVault, Free, KeyFile
  <2>2. MemHoldsFile' /\ AnswersKept' /\ Phases'
    BY <1>11 DEF RotateVault, Free, KeyFile
  <2>3. LeftIsPending' /\ VaultedLoaded'
    BY <1>11 DEF RotateVault, Free
  <2> QED BY <2>1, <2>2, <2>3
<1>12. CASE RotateDone
  BY <1>12 DEF RotateDone
<1>13. CASE Crash
  BY <1>13, ExitKeeps DEF Crash
<1>14. ASSUME NEW g \in Orgs, IssueUnsaved(g) PROVE IInv'
  <2>1. /\ file[g] # Nil /\ mem[g] # Nil /\ mem[g] \in Nat /\ mem[g] < MaxEvents
        /\ file[g].events \in Nat /\ file[g].events <= mem[g]
        /\ mem' = [mem EXCEPT ![g] = mem[g] + 1]
    BY <1>14 DEF IssueUnsaved, Deferred
  <2>2. TypeOK' /\ MemHoldsFile'
    BY <1>14, <2>1 DEF IssueUnsaved
  <2>3. AnswersKept' /\ Phases' /\ LeftIsPending' /\ VaultedLoaded'
    BY <1>14, <2>1 DEF IssueUnsaved
  <2> QED BY <2>2, <2>3
<1>15. CASE RotateFails
  BY <1>15 DEF RotateFails, Missed
<1>16. CASE UNCHANGED vars
  BY <1>16 DEF vars
<1> QED BY <1>1, <1>2, <1>3, <1>4, <1>5, <1>6, <1>7, <1>8, <1>9, <1>10, <1>11,
           <1>12, <1>13, <1>14, <1>15, <1>16 DEF Next

\* The invariant holds at every moment, with crashes and errors in rotations.
LEMMA Invariance == Spec => []IInv
<1>1. Init => IInv
  BY VaultBounds, NilIsFresh, NilIsNoFile
  DEF Init, IInv, TypeOK, MemHoldsFile, AnswersKept, Phases, LeftIsPending, VaultedLoaded,
      Existing
<1> QED BY <1>1, StepKeeps, PTL DEF Spec

(***************************************************************************)
(* What follows from it.                                                   *)
(***************************************************************************)

\* No event answered by handleIssue or handleRevoke is missing from the
\* tenant's file: not after boots with and without shares, an upgrade of old
\* files, rotations, or a process that dies anywhere, in a rotation too.
THEOREM AnswersDurable == Spec => []EventsKept
<1>1. IInv => EventsKept
  BY DEF IInv, AnswersKept, EventsKept, Existing
<1> QED BY <1>1, Invariance, PTL

\* Once RotateVault has returned, and whenever a gateway with a vault serves, a
\* tenant file opens with an older data key only if a refused rotation had not
\* reached it, and it has not been written since.
THEOREM RotationRetiresKeys == Spec => []OldKeyUseless
<1>1. IInv => OldKeyUseless
  BY DEF IInv, LeftIsPending, VaultedLoaded, OldKeyUseless, Existing
<1> QED BY <1>1, Invariance, PTL

\* Wherever the process dies, the data key in gateway.keys opens every sealed file
\* except those that a rotation, ended by the crash or by a failing write, had not
\* reached.
THEOREM CrashReopens == Spec => []SharesReopen
<1>1. Init => SealedUnderKeys
  BY DEF Init, SealedUnderKeys, Existing
<1>2. IInv /\ SealedUnderKeys /\ [Next]_vars => SealedUnderKeys'
  <2> SUFFICES ASSUME IInv, SealedUnderKeys, [Next]_vars PROVE SealedUnderKeys'
    OBVIOUS
  <2> USE VaultBounds, NilIsFresh, NilIsNoFile DEF IInv, TypeOK, SealedUnderKeys, Existing
  <2>1. ASSUME Exit PROVE SealedUnderKeys'
    <3>1. CASE lock = "held"
      BY <2>1, <3>1 DEF Exit, Missed, Phases, LeftIsPending, VaultedLoaded
    <3>2. CASE lock # "held"
      BY <2>1, <3>2 DEF Exit, Missed
    <3> QED BY <3>1, <3>2
  <2>2. ASSUME NEW s \in Keks \cup {Nil}, Boot(s) PROVE SealedUnderKeys'
    BY <2>2 DEF Boot
  <2>3. CASE MintKeys
    BY <2>3 DEF MintKeys
  <2>4. CASE OpenKeys
    BY <2>1, <2>4 DEF OpenKeys, Phases
  <2>5. CASE LoadDeferred
    BY <2>1, <2>5 DEF LoadDeferred, Phases
  <2>6. CASE Serve
    BY <2>6 DEF Serve
  <2>7. ASSUME NEW g \in Orgs, Reseal(g) PROVE SealedUnderKeys'
    BY <2>7 DEF Reseal, Save, Sealed, Phases, LeftIsPending
  <2>8. ASSUME NEW g \in Orgs, CreateTenant(g) \/ Issue(g) PROVE SealedUnderKeys'
    <3>1. /\ \E n : file' = [file EXCEPT ![g] = [seal |-> vault, events |-> n]]
          /\ missed' = missed \ {g}
      BY <2>8 DEF CreateTenant, Issue, Save, Sealed
    <3>2. keys' = keys /\ lock' = lock
      BY <2>8 DEF CreateTenant, Issue
    <3> QED BY <3>1, <3>2 DEF Phases
  <2>9. ASSUME NEW g \in Orgs, IssueDeferred(g) PROVE SealedUnderKeys'
    BY <2>9 DEF IssueDeferred, Free
  <2>10. ASSUME NEW g \in Orgs, DetectDeferred(g) PROVE SealedUnderKeys'
    BY <2>1, <2>10 DEF DetectDeferred, Free
  <2>11. ASSUME NEW k \in Keks, RotateVault(k) PROVE SealedUnderKeys'
    BY <2>11 DEF RotateVault
  <2>12. CASE RotateDone
    BY <2>12 DEF RotateDone, Phases, LeftIsPending, VaultedLoaded
  <2>13. CASE Crash
    BY <2>1, <2>13 DEF Crash
  <2>14. ASSUME NEW g \in Orgs, IssueUnsaved(g) PROVE SealedUnderKeys'
    BY <2>14 DEF IssueUnsaved
  <2>15. CASE RotateFails
    BY <2>15 DEF RotateFails, Missed, Phases, LeftIsPending, VaultedLoaded
  <2>16. CASE UNCHANGED vars
    BY <2>16 DEF vars
  <2> QED BY <2>2, <2>3, <2>4, <2>5, <2>6, <2>7, <2>8, <2>9, <2>10, <2>11, <2>12,
             <2>13, <2>14, <2>15, <2>16 DEF Next
<1>3. IInv /\ SealedUnderKeys => SharesReopen
  BY DEF IInv, Phases, SealedUnderKeys, SharesReopen
<1> QED BY <1>1, <1>2, <1>3, Invariance, PTL DEF Spec
=============================================================================
