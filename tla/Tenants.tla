------------------------------ MODULE Tenants -------------------------------
(***************************************************************************)
(* The gateway's tenants in memory and on disk (store.go, the routing of   *)
(* api.go): create, delete, append, back up, restore, crash and restart.   *)
(*                                                                         *)
(* A request finds its *Tenant under Store.mu and uses it later, under the *)
(* lock again; in between the tenant may be deleted, created anew or       *)
(* replaced by a restore, so tenants are objects with an identity.  The    *)
(* timeline of a tenant is the generation of its root key and the requests *)
(* appended so far.  Store.mu is held across several file writes, and a    *)
(* crash may fall between them; Restore writes its files without the lock. *)
(* Writes of a single file are atomic (temporary file and rename), and any *)
(* of them may fail: the handler then returns, and what it had changed in  *)
(* memory stays changed.                                                   *)
(***************************************************************************)
EXTENDS Naturals, FiniteSets

CONSTANTS
    Orgs,           \* tenant ids
    Requests,       \* requests that append one event (issue, revoke, ...)
    Objs,           \* tenant objects, enough for all that are referenced
    Nil,            \* no object, no file, no bundle, lock free
    MaxGens,        \* bound on created tenants
    MaxDeletes, MaxRestores, MaxCrashes,
    MaxWriteFails   \* bound on writes that fail

\* A timeline: the generation of the root key (0: none) and what was appended.
Chain == [gen : 0..MaxGens, reqs : SUBSET Requests]

NoChain == [gen |-> 0, reqs |-> {}]

\* Who holds Store.mu across several writes.
Locks == [op : {"create", "delete"}, org : Orgs]

\* What a request was routed to; the objects of a restore and what it has left.
Targets == [org : Orgs \cup {Nil}, obj : Objs \cup {Nil}]
RestoreJobs == [objs : [Orgs -> Objs \cup {Nil}], left : SUBSET Orgs]

ASSUME NilFresh == Nil \notin Objs \cup Orgs
ASSUME NilIsNoRecord == Nil \notin Chain \cup Locks
ASSUME TenantBounds ==
    /\ MaxGens \in Nat /\ MaxDeletes \in Nat
    /\ MaxRestores \in Nat /\ MaxCrashes \in Nat
    /\ MaxWriteFails \in Nat

VARIABLES
    up,         \* the process runs
    tenants,    \* Store.Tenants: org -> object or Nil
    heap,       \* heap[o]: the timeline of tenant object o
    watched,    \* objects whose fleet a watchOrg goroutine reads
    meta,       \* orgs listed in gateway.json
    files,      \* files[g]: tenants/g/timeline.json, or Nil
    trashDir,   \* the operator has made <data>/trash by hand
    trash,      \* timelines moved to the trash
    lock,       \* Nil, or the create or delete that holds Store.mu
    pc, target, \* per request: progress and the org and object it was routed to
    bundles,    \* backups taken
    restore,    \* Nil, or the restore in progress
    unmade,     \* tenants with a create that returned an error (history)
    gens, deletes, restores, crashes, writeFails

vars == <<up, tenants, heap, watched, meta, files, trashDir, trash, lock, pc, target,
          bundles, restore, unmade, gens, deletes, restores, crashes, writeFails>>

Routed == {r \in Requests : pc[r] = "routed"}

\* Objects that something still points to; the others can be allocated.
InUse == {tenants[g] : g \in Orgs} \cup {target[r].obj : r \in Routed}
         \cup (IF restore = Nil THEN {} ELSE {restore.objs[g] : g \in Orgs})

Live == {g \in Orgs : tenants[g] # Nil}

\* Objects are alike, so an allocation may take any fixed one of the free ones.
IsPick(x, S) == x = CHOOSE y \in S : TRUE

\* One object out of avail for each tenant of S.
Allocations(S, avail) ==
    {objs \in [Orgs -> avail \cup {Nil}] :
        /\ \A g \in Orgs : objs[g] = Nil <=> g \notin S
        /\ \A g, h \in Orgs : objs[g] = objs[h] /\ objs[g] # Nil => g = h}

Init ==
    /\ up = TRUE
    /\ tenants = [g \in Orgs |-> Nil]
    /\ heap = [o \in Objs |-> NoChain]
    /\ watched = {}
    /\ meta = {}
    /\ files = [g \in Orgs |-> Nil]
    /\ trashDir \in BOOLEAN
    /\ trash = {}
    /\ lock = Nil
    /\ pc = [r \in Requests |-> "idle"]
    /\ target = [r \in Requests |-> [org |-> Nil, obj |-> Nil]]
    /\ bundles = {}
    /\ restore = Nil
    /\ unmade = {}
    /\ gens = 0 /\ deletes = 0 /\ restores = 0 /\ crashes = 0 /\ writeFails = 0

\* writeFileAtomic returns an error and leaves the old file.
WriteFails == writeFails < MaxWriteFails /\ writeFails' = writeFails + 1

LockFree == up /\ lock = Nil
-----------------------------------------------------------------------------
(* Requests on a tenant                                                    *)

\* route: the lookup is one critical section of its own.
Route(r, g) ==
    /\ LockFree /\ pc[r] = "idle"
    /\ tenants[g] # Nil
    /\ target' = [target EXCEPT ![r] = [org |-> g, obj |-> tenants[g]]]
    /\ pc' = [pc EXCEPT ![r] = "routed"]
    /\ UNCHANGED <<up, trashDir, tenants, heap, watched, meta, files, trash, lock, bundles,
                   restore, gens, deletes, restores, crashes, unmade, writeFails>>

\* Mutant of Append: answers before the timeline is saved.
AppendUnsaved(r) ==
    /\ LockFree /\ pc[r] = "routed"
    /\ heap' = [heap EXCEPT ![target[r].obj].reqs = @ \cup {r}]
    /\ pc' = [pc EXCEPT ![r] = "acked"]
    /\ UNCHANGED <<up, trashDir, tenants, watched, meta, files, trash, lock, target, bundles,
                   restore, gens, deletes, restores, crashes, unmade, writeFails>>

\* handleIssue, handleRevoke, watchOrg: append to the object at hand and save
\* it under its id, whatever the map says by now; an event that could not be
\* saved stays in the timeline.
Append(r) ==
    /\ LockFree /\ pc[r] = "routed"
    /\ heap' = [heap EXCEPT ![target[r].obj].reqs = @ \cup {r}]
    /\ \/ /\ files' = [files EXCEPT ![target[r].org] = heap'[target[r].obj]]
          /\ pc' = [pc EXCEPT ![r] = "acked"]
          /\ UNCHANGED writeFails
       \/ /\ WriteFails
          /\ pc' = [pc EXCEPT ![r] = "failed"]
          /\ UNCHANGED files
    /\ UNCHANGED <<up, trashDir, tenants, watched, meta, trash, lock, target, bundles,
                   restore, unmade, gens, deletes, restores, crashes>>
-----------------------------------------------------------------------------
(* Tenant administration, under Store.mu throughout                        *)

\* Mutant of CreateTenant: gateway.json is written first.
CreateMetaFirst(g) ==
    /\ LockFree
    /\ tenants[g] = Nil
    /\ gens < MaxGens
    /\ \E o \in Objs \ InUse :
         /\ IsPick(o, Objs \ InUse)
         /\ tenants' = [tenants EXCEPT ![g] = o]
         /\ heap' = [heap EXCEPT ![o] = [gen |-> gens + 1, reqs |-> {}]]
         /\ watched' = watched \ {o}
    /\ meta' = Live \cup {g}
    /\ gens' = gens + 1
    /\ lock' = [op |-> "create", org |-> g]
    /\ UNCHANGED <<up, trashDir, files, trash, pc, target, bundles, restore, deletes,
                   restores, crashes, unmade, writeFails>>

\* Mutant of CreateTenant: a root key left behind by a delete is used again.
CreateReusingKey(g) ==
    /\ LockFree
    /\ tenants[g] = Nil
    /\ gens < MaxGens
    /\ \E o \in Objs \ InUse :
         /\ IsPick(o, Objs \ InUse)
         /\ tenants' = [tenants EXCEPT ![g] = o]
         /\ heap' = [heap EXCEPT ![o] =
                [gen |-> IF files[g] = Nil THEN gens + 1 ELSE files[g].gen, reqs |-> {}]]
         /\ files' = [files EXCEPT ![g] = heap'[o]]
         /\ watched' = watched \ {o}
    /\ gens' = gens + 1
    /\ lock' = [op |-> "create", org |-> g]
    /\ UNCHANGED <<up, trashDir, meta, trash, pc, target, bundles, restore, deletes,
                   restores, crashes, unmade, writeFails>>

\* CreateTenant up to saveTenant; when that fails it returns, with the tenant in
\* the map.
CreateTenant(g) ==
    /\ LockFree
    /\ tenants[g] = Nil
    /\ gens < MaxGens
    /\ gens' = gens + 1
    /\ \E o \in Objs \ InUse :
         /\ IsPick(o, Objs \ InUse)
         /\ tenants' = [tenants EXCEPT ![g] = o]
         /\ heap' = [heap EXCEPT ![o] = [gen |-> gens + 1, reqs |-> {}]]
         /\ watched' = watched \ {o}
         /\ \/ /\ files' = [files EXCEPT ![g] = heap'[o]]
               /\ lock' = [op |-> "create", org |-> g]
               /\ UNCHANGED <<unmade, writeFails>>
            \/ /\ WriteFails
               /\ unmade' = unmade \cup {g}
               /\ UNCHANGED <<files, lock>>
    /\ UNCHANGED <<up, trashDir, meta, trash, pc, target, bundles, restore, deletes,
                   restores, crashes>>

\* Mutant of CreateSaveMeta: returns with Store.mu held.
CreateKeepsLock ==
    /\ up /\ lock # Nil /\ lock.op = "create"
    /\ meta' = Live
    /\ watched' = watched \cup {tenants[lock.org]}
    /\ UNCHANGED <<up, trashDir, tenants, heap, files, trash, lock, pc, target, bundles,
                   restore, gens, deletes, restores, crashes, unmade, writeFails>>

\* CreateTenant's saveMeta, and the watchOrg of handleCreateOrg unless it fails.
CreateSaveMeta ==
    /\ up /\ lock # Nil /\ lock.op = "create"
    /\ lock' = Nil
    /\ \/ /\ meta' = Live
          /\ watched' = watched \cup {tenants[lock.org]}
          /\ UNCHANGED <<unmade, writeFails>>
       \/ /\ WriteFails
          /\ unmade' = unmade \cup {lock.org}
          /\ UNCHANGED <<meta, watched>>
    /\ UNCHANGED <<up, trashDir, tenants, heap, files, trash, pc, target, bundles, restore,
                   gens, deletes, restores, crashes>>

\* DeleteTenant up to the rename.  No code makes the trash directory; without
\* it the rename fails, the tenant is out of the map and nothing else happens.
\* A create that failed may have left a directory without a file, or none.
DeleteTenant(g) ==
    /\ LockFree
    /\ deletes < MaxDeletes
    /\ tenants[g] # Nil
    /\ deletes' = deletes + 1
    /\ tenants' = [tenants EXCEPT ![g] = Nil]
    /\ \/ /\ trashDir
          /\ trash' = trash \cup ({files[g]} \ {Nil})
          /\ files' = [files EXCEPT ![g] = Nil]
          /\ lock' = [op |-> "delete", org |-> g]
       \/ /\ ~trashDir \/ files[g] = Nil
          /\ UNCHANGED <<trash, files, lock>>
    /\ UNCHANGED <<up, trashDir, heap, watched, meta, pc, target, bundles, restore, unmade,
                   gens, restores, crashes, writeFails>>

DeleteSaveMeta ==
    /\ up /\ lock # Nil /\ lock.op = "delete"
    /\ \/ meta' = Live /\ UNCHANGED writeFails
       \/ WriteFails /\ UNCHANGED meta
    /\ lock' = Nil
    /\ UNCHANGED <<up, trashDir, tenants, heap, watched, files, trash, pc, target, bundles,
                   restore, unmade, gens, deletes, restores, crashes>>

\* saveMeta by the user, token and webhook handlers; it changes nothing here
\* when its write fails.
AdminSave ==
    /\ LockFree
    /\ meta # Live
    /\ meta' = Live
    /\ UNCHANGED <<up, trashDir, tenants, heap, watched, files, trash, lock, pc, target,
                   bundles, restore, gens, deletes, restores, crashes, unmade, writeFails>>
-----------------------------------------------------------------------------
(* Backup and restore                                                      *)

\* The bundle maps each tenant to its timeline; one bundle is kept.
Backup ==
    /\ LockFree
    /\ bundles = {} /\ Live # {}
    /\ MaxRestores > 0
    /\ bundles' = {[g \in Orgs |-> IF g \in Live THEN heap[tenants[g]] ELSE Nil]}
    /\ UNCHANGED <<up, trashDir, tenants, heap, watched, meta, files, trash, lock, pc, target,
                   restore, gens, deletes, restores, crashes, unmade, writeFails>>

\* Restore up to gw.saveMeta: new objects for the bundle, gateway.json first
\* (when that write fails, nothing has changed).
RestoreMeta(b) ==
    /\ up /\ restore = Nil
    /\ restores < MaxRestores
    /\ restores' = restores + 1
    /\ \E objs \in Allocations({g \in Orgs : b[g] # Nil}, Objs \ InUse) :
         /\ IsPick(objs, Allocations({g \in Orgs : b[g] # Nil}, Objs \ InUse))
         /\ heap' = [o \in Objs |->
                       IF \E g \in Orgs : objs[g] = o
                       THEN b[CHOOSE g \in Orgs : objs[g] = o] ELSE heap[o]]
         /\ restore' = [objs |-> objs, left |-> {g \in Orgs : b[g] # Nil}]
         /\ watched' = watched \ {objs[g] : g \in Orgs}
    /\ meta' = {g \in Orgs : b[g] # Nil}
    /\ UNCHANGED <<up, trashDir, tenants, files, trash, lock, pc, target, bundles, gens,
                   deletes, crashes, unmade, writeFails>>

\* Restore, one gw.saveTenant; an error ends the restore where it is.
RestoreTenant(g) ==
    /\ up /\ restore # Nil
    /\ g \in restore.left
    /\ \/ /\ files' = [files EXCEPT ![g] = heap[restore.objs[g]]]
          /\ restore' = [restore EXCEPT !.left = @ \ {g}]
          /\ UNCHANGED writeFails
       \/ /\ WriteFails
          /\ restore' = Nil
          /\ UNCHANGED files
    /\ UNCHANGED <<up, trashDir, tenants, heap, watched, meta, trash, lock, pc, target,
                   bundles, unmade, gens, deletes, restores, crashes>>

\* Restore, the swap.
RestoreSwap ==
    /\ LockFree /\ restore # Nil
    /\ restore.left = {}
    /\ tenants' = restore.objs
    /\ restore' = Nil
    /\ UNCHANGED <<up, trashDir, heap, watched, meta, files, trash, lock, pc, target, bundles,
                   gens, deletes, restores, crashes, unmade, writeFails>>
-----------------------------------------------------------------------------
(* Crash and restart                                                       *)

\* Memory goes.  A tenant that a failed create left in the map and that no
\* saveMeta listed since goes with it, and so do the answers about it.
Crash ==
    /\ up
    /\ crashes < MaxCrashes
    /\ crashes' = crashes + 1
    /\ up' = FALSE
    /\ tenants' = [g \in Orgs |-> Nil]
    /\ heap' = [o \in Objs |-> NoChain]
    /\ watched' = {}
    /\ lock' = Nil
    /\ restore' = Nil
    /\ pc' = [r \in Requests |->
                CASE pc[r] = "routed" -> "dead"
                  [] pc[r] = "acked" /\ target[r].org \in unmade \ meta -> "forgotten"
                  [] OTHER -> pc[r]]
    /\ UNCHANGED <<trashDir, meta, files, trash, target, bundles, gens, deletes, restores,
                   unmade, writeFails>>

\* NewStore gives up when a tenant of gateway.json has no timeline file.
Bootable == \A g \in meta : files[g] # Nil

\* NewGateway: load every tenant, then watch each.
Restart ==
    /\ ~up
    /\ Bootable
    /\ up' = TRUE
    /\ \E objs \in Allocations(meta, Objs) :
         /\ IsPick(objs, Allocations(meta, Objs))
         /\ tenants' = objs
         /\ heap' = [o \in Objs |->
                       IF \E g \in Orgs : objs[g] = o
                       THEN files[CHOOSE g \in Orgs : objs[g] = o] ELSE heap[o]]
         /\ watched' = {objs[g] : g \in meta}
    /\ UNCHANGED <<trashDir, meta, files, trash, lock, pc, target, bundles, restore, gens,
                   deletes, restores, crashes, unmade, writeFails>>

Next ==
    \/ \E r \in Requests : Append(r) \/ \E g \in Orgs : Route(r, g)
    \/ \E g \in Orgs : CreateTenant(g) \/ DeleteTenant(g) \/ RestoreTenant(g)
    \/ CreateSaveMeta
    \/ DeleteSaveMeta
    \/ AdminSave
    \/ Backup
    \/ \E b \in bundles : RestoreMeta(b)
    \/ RestoreSwap
    \/ Crash
    \/ Restart

Spec == Init /\ [][Next]_vars

\* A goroutine that runs goes on: the lock is released, a handler that waits
\* for it gets it, a restore finishes.  Nothing else has to happen.
FairSpec == /\ Spec
            /\ WF_vars(CreateSaveMeta) /\ WF_vars(DeleteSaveMeta)
            /\ \A r \in Requests : SF_vars(Append(r))
            /\ \A g \in Orgs : WF_vars(RestoreTenant(g))
            /\ SF_vars(RestoreSwap)
-----------------------------------------------------------------------------
(* Properties                                                              *)

\* Type correctness; a timeline of any place is a chain of one generation, and
\* a request past routing holds a tenant.
TypeOK ==
    /\ up \in BOOLEAN
    /\ tenants \in [Orgs -> Objs \cup {Nil}]
    /\ heap \in [Objs -> Chain]
    /\ watched \in SUBSET Objs
    /\ meta \in SUBSET Orgs
    /\ files \in [Orgs -> Chain \cup {Nil}]
    /\ trashDir \in BOOLEAN
    /\ trash \in SUBSET Chain
    /\ lock \in Locks \cup {Nil}
    /\ pc \in [Requests -> {"idle", "routed", "acked", "failed", "dead", "forgotten"}]
    /\ target \in [Requests -> Targets]
    /\ \A r \in Routed : target[r].obj # Nil
    /\ bundles \in SUBSET [Orgs -> Chain \cup {Nil}]
    /\ restore \in RestoreJobs \cup {Nil}
    /\ gens \in 0..MaxGens /\ deletes \in 0..MaxDeletes
    /\ restores \in 0..MaxRestores /\ crashes \in 0..MaxCrashes
    /\ unmade \in SUBSET Orgs
    /\ writeFails \in 0..MaxWriteFails

\* Wherever the process dies and whichever writes fail, the next one starts:
\* every tenant that gateway.json lists has its timeline file (NewStore fails
\* otherwise).  It takes that no restore ran, which writes gateway.json first,
\* and that no delete moved a file away, which writes it last; and a tenant may
\* lack its file when a create of it returned an error and nothing was saved
\* for it since: it stayed in the map, and a later saveMeta lists it.
Boots == restores = 0 /\ trash = {} => \A g \in meta : files[g] = Nil => g \in unmade

\* An answered request is in the tenant's timeline file and, while the gateway
\* runs, in the timeline that it serves: crashes at any point between the
\* writes of several requests lose none of them, and no failed write of another
\* request does, short of a delete or restore.  The exception (forgotten) is a
\* tenant that a failed create left unlisted when the process died.
AckedDurable ==
    \A r \in Requests : pc[r] = "acked" /\ deletes = 0 /\ restores = 0 =>
        LET g == target[r].org
        IN  /\ files[g] # Nil /\ r \in files[g].reqs
            /\ up /\ lock = Nil /\ g \in meta =>
                 tenants[g] # Nil /\ r \in heap[tenants[g]].reqs

\* A file is rewritten only with more of the same chain, or with a chain of
\* another generation: two writers that hold different objects never make one
\* generation's history shorter; only a restore goes back.
FilesKeepHistory ==
    [][\A g \in Orgs :
         (restores' = 0 /\ files[g] # Nil /\ files'[g] # Nil /\ files'[g].gen = files[g].gen) =>
             files[g].reqs \subseteq files'[g].reqs]_vars

\* Every request that got past routing is answered, unless the process dies:
\* no order of creates, deletes, restores and appends leaves the lock held.
Answered == \A r \in Requests : pc[r] = "routed" ~> pc[r] # "routed"
-----------------------------------------------------------------------------
(* Claims of the documentation that the code does not keep                 *)

\* store.go on DeleteTenant: files are "moved aside, not deleted (operator can
\* recover from data/trash if it was a mistake)": an answered request is in
\* some file, live or in the trash.
Recoverable ==
    \A r \in Requests : pc[r] = "acked" =>
        \/ \E g \in Orgs : files[g] # Nil /\ r \in files[g].reqs
        \/ \E c \in trash : r \in c.reqs

\* api.go on handleScores: "the watcher goroutine (watchOrg) appends DETECTED
\* and fires webhooks": every tenant that takes scores has its watcher.
ScoresAreWatched ==
    up /\ lock = Nil => \A g \in Live : tenants[g] \in watched

\* store.go on Tenant: "one isolated trust timeline": the file of a tenant is a
\* chain of the tenant that is served.  A request that holds a deleted tenant of
\* the same id saves the old chain.
FileIsServed ==
    up /\ lock = Nil /\ restores = 0 =>
        \A g \in Live : files[g] # Nil => files[g].gen = heap[tenants[g]].gen
=============================================================================
