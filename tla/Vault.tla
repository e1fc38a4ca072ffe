------------------------------- MODULE Vault --------------------------------
(***************************************************************************)
(* Envelope encryption of the tenant files (vault.go, UnlockVault and      *)
(* RotateVault of store.go, the boot sequence of cmd/gateway).             *)
(*                                                                         *)
(* gateway.keys holds the data key (DEK) sealed under the council's KEK; a *)
(* tenant file is sealed under the DEK of one epoch, or in the old form    *)
(* (epoch 0: the gateway's own key or plain text).  Every DEK is fresh, so *)
(* its epoch names it.  A boot with KEK shares unlocks the vault, loads    *)
(* the tenants that could not be read before, and re-seals every file; a   *)
(* rotation writes a new DEK first and then re-seals.  The process may die *)
(* between any two file writes, a tenant file may fail to be written       *)
(* (the write goes aside and is renamed, so the old file stays), and a     *)
(* rotation stops at the first that does.  While unlocking, such an error  *)
(* is fatal, which Crash covers.  (A failing CreateTenant, DeleteTenant or *)
(* meta.json is the subject of module Tenants.)  ShamirJoin gives a key for any shares:    *)
(* too few of them, or those of another split, make a KEK that is not the  *)
(* council's.                                                              *)
(***************************************************************************)
EXTENDS Naturals

CONSTANTS
    Orgs,            \* tenant ids
    Council,         \* the KEK that the council shares
    Keks,            \* KEKs that the shares handed in reconstruct to
    Nil,             \* no file, no timeline, no session
    MaxEvents,       \* bound on events per timeline
    MaxEpoch         \* bound on vault epochs

ASSUME KeksIncludeCouncil == Council \in Keks
ASSUME NilIsFresh == Nil \notin Keks /\ Nil \notin Nat
ASSUME NilIsNoFile ==
    Nil \notin [kek : Keks, epoch : Nat] /\ Nil \notin [seal : Nat, events : Nat]
ASSUME VaultBounds == MaxEvents \in Nat /\ MaxEpoch \in Nat \ {0}

VARIABLES
    pc,         \* "down", "unlock", "load", "reseal" or "serve"
    session,    \* KEK of the boot's unwrap session, or Nil
    lock,       \* Store.mu while serving: "free", "held" (rotation), "leaked"
    vault,      \* epoch of Store.vault, 0 without one
    keys,       \* gateway.keys: [kek, epoch] or Nil
    file,       \* file[g]: the tenant's file [seal, events], or Nil
    mem,        \* mem[g]: events of t.tl, or Nil (no tenant, or t.tl is nil)
    wired,      \* tenants whose fleet is the one watchOrg subscribed to
    left,       \* tenants that reSealAllTenants has still to write
    missed,     \* tenants that a rotation stopped before re-sealing, and
                \* whose file has not been written since (history)
    acked       \* acked[g]: events answered to clients (history)

vars == <<pc, session, lock, vault, keys, file, mem, wired, left, missed, acked>>

Existing == {g \in Orgs : file[g] # Nil}

\* Tenants that NewStore left to UnlockVault.
Deferred == {g \in Existing : mem[g] = Nil}

\* NewVault mints a data key, of epoch 1.
NewVault == 1

\* writeVaultKeyFile: the data key of epoch e under KEK k.
KeyFile(k, e) == [kek |-> k, epoch |-> e]

\* readVaultKeyFile: the session's KEK opens gateway.keys.
KekOpens == keys.kek = session

\* Vault.Seal: n events under the data key of epoch e, named in the envelope.
Sealed(e, n) == [seal |-> e, events |-> n]

\* Vault.Open refuses an envelope of another epoch.
Opens(g) == file[g].seal = vault

\* saveTenantBlob: the tenant's file, under the vault or in the old form.
Save(g, n) ==
    /\ file' = [file EXCEPT ![g] = Sealed(vault, n)]
    /\ missed' = missed \ {g}

Init ==
    /\ pc = "down"
    /\ session = Nil
    /\ lock = "free"
    /\ vault = 0
    /\ keys = Nil
    /\ file = [g \in Orgs |-> Nil]
    /\ mem = [g \in Orgs |-> Nil]
    /\ wired = {}
    /\ left = {}
    /\ missed = {}
    /\ acked = [g \in Orgs |-> 0]

\* The tenants that a rotation which ends here has not re-sealed.
Missed == IF lock = "held" THEN missed \cup left ELSE missed

\* The process exits, and with it everything in memory.
Exit ==
    /\ pc' = "down"
    /\ session' = Nil
    /\ lock' = "free"
    /\ vault' = 0
    /\ mem' = [g \in Orgs |-> Nil]
    /\ wired' = {}
    /\ left' = {}
    /\ missed' = Missed
    /\ UNCHANGED <<keys, file, acked>>
-----------------------------------------------------------------------------
(* Boot                                                                    *)

\* NewStore reads what it can without a vault, NewGateway starts the watchers;
\* main goes on to the unwrap session if it was given share files.
Boot(s) ==
    /\ pc = "down"
    /\ session' = s
    /\ pc' = IF s = Nil THEN "serve" ELSE "unlock"
    /\ mem' = [g \in Orgs |-> IF g \in Existing /\ file[g].seal = 0
                              THEN file[g].events ELSE Nil]
    /\ wired' = Existing
    /\ UNCHANGED <<lock, vault, keys, file, left, missed, acked>>

\* Mutant of MintKeys: gateway.keys is never written.
MintUnsaved ==
    /\ pc = "unlock" /\ keys = Nil
    /\ vault' = 1
    /\ pc' = "load"
    /\ UNCHANGED <<session, lock, keys, file, mem, wired, left, missed, acked>>

\* UnlockVault: the first session mints a vault and writes gateway.keys.
MintKeys ==
    /\ pc = "unlock" /\ keys = Nil
    /\ keys' = KeyFile(session, NewVault)
    /\ vault' = NewVault
    /\ pc' = "load"
    /\ UNCHANGED <<session, lock, file, mem, wired, left, missed, acked>>

\* UnlockVault: later sessions open it; the wrong KEK is fatal.
OpenKeys ==
    /\ pc = "unlock" /\ keys # Nil
    /\ IF KekOpens
         THEN /\ vault' = keys.epoch
              /\ pc' = "load"
              /\ UNCHANGED <<session, lock, keys, file, mem, wired, left, missed, acked>>
         ELSE Exit

\* Mutant of LoadDeferred: deferred tenants start with an empty timeline.
LoadEmpty ==
    /\ pc = "load"
    /\ mem' = [g \in Orgs |-> IF g \in Deferred THEN 0 ELSE mem[g]]
    /\ wired' = wired \ Deferred
    /\ left' = Existing
    /\ pc' = "reseal"
    /\ UNCHANGED <<session, lock, vault, keys, file, missed, acked>>

\* loadVaultedTenants: a file of another epoch is fatal.  The tenants it loads
\* get a new fleet.
LoadDeferred ==
    /\ pc = "load"
    /\ IF \A g \in Deferred : Opens(g)
         THEN /\ mem' = [g \in Orgs |-> IF g \in Deferred THEN file[g].events ELSE mem[g]]
              /\ wired' = wired \ Deferred
              /\ left' = Existing
              /\ pc' = "reseal"
              /\ UNCHANGED <<session, lock, vault, keys, file, missed, acked>>
         ELSE Exit

\* reSealAllTenants, one file, in map order (any).
Reseal(g) ==
    /\ g \in left
    /\ Save(g, mem[g])
    /\ left' = left \ {g}
    /\ UNCHANGED <<pc, session, lock, vault, keys, mem, wired, acked>>

\* The session ends, the server starts.
Serve ==
    /\ pc = "reseal" /\ left = {}
    /\ pc' = "serve"
    /\ session' = Nil
    /\ UNCHANGED <<lock, vault, keys, file, mem, wired, left, missed, acked>>
-----------------------------------------------------------------------------
(* Serving                                                                 *)

Free == pc = "serve" /\ lock = "free"

CreateTenant(g) ==
    /\ Free /\ g \notin Existing
    /\ mem' = [mem EXCEPT ![g] = 0]
    /\ Save(g, 0)
    /\ wired' = wired \cup {g}
    /\ UNCHANGED <<pc, session, lock, vault, keys, left, acked>>

\* handleIssue, handleRevoke: append, saveTenantBlob, answer.
Issue(g) ==
    /\ Free /\ g \in Existing \ Deferred
    /\ mem[g] < MaxEvents
    /\ mem' = [mem EXCEPT ![g] = @ + 1]
    /\ Save(g, mem[g] + 1)
    /\ acked' = [acked EXCEPT ![g] = @ + 1]
    /\ UNCHANGED <<pc, session, lock, vault, keys, wired, left>>

\* The same when the file cannot be written: the event stays in the timeline in
\* memory, and the answer is an error.
IssueUnsaved(g) ==
    /\ Free /\ g \in Existing \ Deferred
    /\ mem[g] < MaxEvents
    /\ mem' = [mem EXCEPT ![g] = @ + 1]
    /\ UNCHANGED <<pc, session, lock, vault, keys, file, wired, left, missed, acked>>

\* The same on a tenant without a timeline: the nil pointer panics inside the
\* critical section, route recovers, and nobody unlocks Store.mu.
IssueDeferred(g) ==
    /\ Free /\ g \in Deferred
    /\ lock' = "leaked"
    /\ UNCHANGED <<pc, session, vault, keys, file, mem, wired, left, missed, acked>>

\* Watchdog scores reach the quorum on such a tenant: watchOrg panics in its
\* own goroutine, which ends the process.
DetectDeferred(g) ==
    /\ Free /\ g \in Deferred \cap wired
    /\ Exit

\* Mutant of RotateVault: files are re-sealed when they are next written.
RotateLazy(k) ==
    /\ Free /\ vault # 0
    /\ vault < MaxEpoch
    /\ keys' = KeyFile(k, vault + 1)
    /\ vault' = vault + 1
    /\ lock' = "held"
    /\ left' = {}
    /\ UNCHANGED <<pc, session, file, mem, wired, missed, acked>>

\* RotateVault up to the new gateway.keys: any KEK will do.
RotateVault(k) ==
    /\ Free /\ vault # 0
    /\ vault < MaxEpoch
    /\ keys' = KeyFile(k, vault + 1)
    /\ vault' = vault + 1
    /\ lock' = "held"
    /\ left' = Existing
    /\ UNCHANGED <<pc, session, file, mem, wired, missed, acked>>

\* reSealAllTenants returns at the first file that it cannot write: the client
\* gets an error, the lock is free again, and the gateway goes on under the new
\* key with the rest of the files under the old one.
RotateFails ==
    /\ pc = "serve" /\ lock = "held" /\ left # {}
    /\ lock' = "free"
    /\ left' = {}
    /\ missed' = Missed
    /\ UNCHANGED <<pc, session, vault, keys, file, mem, wired, acked>>

\* RotateVault returns, and handleRotate answers.
RotateDone ==
    /\ pc = "serve" /\ lock = "held" /\ left = {}
    /\ lock' = "free"
    /\ UNCHANGED <<pc, session, vault, keys, file, mem, wired, left, missed, acked>>

Crash ==
    /\ pc # "down"
    /\ Exit

Next ==
    \/ \E s \in Keks \cup {Nil} : Boot(s)
    \/ MintKeys \/ OpenKeys \/ LoadDeferred \/ Serve
    \/ \E g \in Orgs : \/ Reseal(g) \/ CreateTenant(g) \/ Issue(g) \/ IssueUnsaved(g)
                       \/ IssueDeferred(g) \/ DetectDeferred(g)
    \/ \E k \in Keks : RotateVault(k)
    \/ RotateFails \/ RotateDone
    \/ Crash

Spec == Init /\ [][Next]_vars
-----------------------------------------------------------------------------
(* Properties                                                              *)

\* Type correctness: a tenant in memory has its file, and a vault in memory
\* has its epoch.
TypeOK ==
    /\ pc \in {"down", "unlock", "load", "reseal", "serve"}
    /\ session \in Keks \cup {Nil}
    /\ lock \in {"free", "held", "leaked"}
    /\ vault \in 0..MaxEpoch
    /\ keys \in [kek : Keks, epoch : 1..MaxEpoch] \cup {Nil}
    /\ file \in [Orgs -> [seal : 0..MaxEpoch, events : 0..MaxEvents] \cup {Nil}]
    /\ mem \in [Orgs -> 0..MaxEvents \cup {Nil}]
    /\ wired \in SUBSET Orgs
    /\ left \in SUBSET Orgs
    /\ missed \in SUBSET Orgs
    /\ acked \in [Orgs -> 0..MaxEvents]

\* The key in gateway.keys opens every file that is sealed, so that a boot with
\* the shares it was last sealed under reads it, wherever the process died, in
\* the middle of the first unlock's upgrade of old files included; only the
\* files that a rotation was stopped before re-sealing, by the end of the process
\* or by a failing write, may be under a key that is gone.
SharesReopen ==
    pc = "down" =>
        \A g \in Existing \ missed :
            file[g].seal # 0 => keys # Nil /\ file[g].seal = keys.epoch

\* No answered event is ever missing from the tenant's file: not after boots
\* without shares, during which other tenants are written, nor after an
\* upgrade or a rotation that re-writes all files from memory.
EventsKept == \A g \in Existing : file[g].events >= acked[g]

\* handleRotate: "Old DEK snapshots stop working the moment this returns": a
\* gateway that serves with a vault has its files under its newest key, except
\* those that a refused rotation left, until they are next written.
OldKeyUseless ==
    pc = "serve" /\ vault # 0 /\ lock # "held" =>
        \A g \in Existing \ missed : file[g].seal = vault

-----------------------------------------------------------------------------
(* Claims of the documentation that the code does not keep                 *)

\* handleRotate: the body carries "a 3-of-5 unwrap session as with the
\* -kek-shares boot flag": a gateway.keys that exists is under the council's
\* KEK.
ThresholdEnforced == keys # Nil => keys.kek = Council

\* NewStore: "defer the tenant to UnlockVault ... instead of dying": a gateway
\* without the shares goes on serving.
KeepsServing == lock # "leaked"

\* NewStore: "keep watchOrg wired; feed scores after unlock".
StaysWired == pc = "serve" => Existing \subseteq wired

\* "the moment this returns", with an error included: no file that a gateway
\* serves opens with an older key.
RotationIsTotal ==
    pc = "serve" /\ vault # 0 /\ lock # "held" =>
        \A g \in Existing : file[g].seal = vault

\* Vault: "the sealed form (gateway.keys) is what survives on disk", so the
\* shares reopen every file.  A rotation that ends early has overwritten the only
\* data key that opens the rest.
AllReopen ==
    pc = "down" =>
        \A g \in Existing : file[g].seal # 0 => keys # Nil /\ file[g].seal = keys.epoch
=============================================================================
