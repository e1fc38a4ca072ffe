--------------------------- MODULE TenantsProofs ----------------------------
(***************************************************************************)
(* Proofs about the tenant store: a restart fails for nothing but a create *)
(* that was refused, an answered request is durable and no timeline file   *)
(* loses history, for any tenants, requests, objects and numbers of        *)
(* creates, deletes, failed writes and crashes.                            *)
(***************************************************************************)
EXTENDS Tenants, TLAPS

(***************************************************************************)
(* The inductive invariant.                                                *)
(***************************************************************************)

\* A request past routing has an org, a restore has objects for what it has
\* left to write, Store.mu is held by a create only while its tenant is in the
\* map, and a dead process holds nothing.
Underway ==
    /\ \A r \in Requests : pc[r] \in {"routed", "acked"} => target[r].org \in Orgs
    /\ restore # Nil => \A g \in restore.left : restore.objs[g] # Nil
    /\ lock # Nil /\ lock.op = "create" => tenants[lock.org] # Nil
    /\ lock # Nil /\ lock.op = "delete" => deletes # 0
    /\ ~up => lock = Nil /\ restore = Nil /\ Routed = {} /\ Live = {}
    /\ restores = 0 => restore = Nil

\* What is listed or live has its file, unless its create was refused: Boots,
\* closed under saveMeta.
ListedHaveFiles ==
    restores = 0 /\ trash = {} => \A g \in meta \cup Live : files[g] = Nil => g \in unmade

\* Object o serves tenant g: in the map, or at the hands of a routed request.
Serves(o, g) ==
    /\ o # Nil
    /\ \/ tenants[g] = o
       \/ \E r \in Routed : target[r].org = g /\ target[r].obj = o

\* Until a restore makes copies, a generation has one object in the process at
\* most, in the service of one tenant.
OneObject ==
    restores = 0 =>
        \A g, h \in Orgs : \A o, p \in Objs :
            Serves(o, g) /\ Serves(p, h) /\ heap[o].gen = heap[p].gen => o = p /\ g = h

\* The file of a generation holds nothing but what its object does, however
\* stale the pointer to it is, and no two tenants have files of one generation.
FileIsObject ==
    restores = 0 =>
        /\ \A g, h \in Orgs : \A o \in Objs :
             (files[g] # Nil /\ Serves(o, h) /\ files[g].gen = heap[o].gen) =>
                 g = h /\ files[g].reqs \subseteq heap[o].reqs
        /\ \A g, h \in Orgs :
             (files[g] # Nil /\ files[h] # Nil /\ files[g].gen = files[h].gen) => g = h

\* Generations are numbered in the order of the creates.
GensCounted ==
    restores = 0 =>
        /\ \A g \in Orgs : files[g] # Nil => files[g].gen <= gens
        /\ \A g \in Orgs, o \in Objs : Serves(o, g) => heap[o].gen <= gens

\* Before any delete or restore: gateway.json lists the live tenants, but for
\* the one being created and those whose create was refused; a routed request
\* holds the object in the map; what was answered is in the file of a tenant
\* that is served, and of one that is listed once the process is dead.
Calm ==
    /\ trash = {}
    /\ up => meta \subseteq Live
    /\ up => Live \subseteq meta \cup unmade \cup (IF lock = Nil THEN {} ELSE {lock.org})
    /\ \A r \in Routed : target[r].org \in Live /\ target[r].obj = tenants[target[r].org]
    /\ \A r \in Requests : pc[r] \in {"routed", "acked"} => target[r].org \in meta \cup unmade
    /\ \A r \in Requests : pc[r] = "acked" =>
         LET g == target[r].org
         IN  /\ files[g] # Nil /\ r \in files[g].reqs
             /\ up => g \in Live /\ r \in heap[tenants[g]].reqs
             /\ ~up => g \in meta

Undisturbed == deletes = 0 /\ restores = 0 => Calm

IInv ==
    /\ TypeOK
    /\ Underway
    /\ ListedHaveFiles
    /\ OneObject
    /\ FileIsObject
    /\ GensCounted
    /\ Undisturbed
USE NilFresh, NilIsNoRecord, TenantBounds

(***************************************************************************)
(* Type correctness.                                                       *)
(***************************************************************************)

\* The heap after new objects were made for the chains of c, one per tenant.
LEMMA LoadTyped ==
  ASSUME heap \in [Objs -> Chain], NEW c \in [Orgs -> Chain \cup {Nil}],
         NEW objs \in [Orgs -> Objs \cup {Nil}],
         \A g \in Orgs : objs[g] # Nil => c[g] # Nil,
         \A g, h \in Orgs : objs[g] = objs[h] /\ objs[g] # Nil => g = h,
         NEW new,
         new = [o \in Objs |-> IF \E g \in Orgs : objs[g] = o
                               THEN c[CHOOSE g \in Orgs : objs[g] = o] ELSE heap[o]]
  PROVE  /\ new \in [Objs -> Chain]
         /\ \A g \in Orgs : objs[g] # Nil => new[objs[g]] = c[g]
<1>1. ASSUME NEW g \in Orgs, objs[g] # Nil PROVE new[objs[g]] = c[g]
  <2>1. PICK h \in Orgs : h = CHOOSE x \in Orgs : objs[x] = objs[g]
    OBVIOUS
  <2>2. objs[h] = objs[g]
    BY <2>1
  <2>3. h = g
    BY <1>1, <2>2
  <2>4. objs[g] \in Objs
    BY <1>1
  <2> QED BY <2>1, <2>3, <2>4
<1>2. ASSUME NEW o \in Objs PROVE new[o] \in Chain
  <2>1. CASE \E g \in Orgs : objs[g] = o
    <3>1. PICK g \in Orgs : objs[g] = o
      BY <2>1
    <3>2. new[o] = c[g] /\ c[g] # Nil
      BY <1>1, <3>1
    <3> QED BY <3>2
  <2>2. CASE ~ \E g \in Orgs : objs[g] = o
    BY <2>2
  <2> QED BY <2>1, <2>2
<1> QED BY <1>1, <1>2

\* A failed write counts.
LEMMA WriteFailsTyped ==
  ASSUME TypeOK, writeFails' = writeFails \/ WriteFails
  PROVE  writeFails' \in 0..MaxWriteFails
  BY DEF TypeOK, WriteFails

\* Typing and the state of what is under way are kept by every step.
LEMMA StepTyped == TypeOK /\ Underway /\ [Next]_vars => TypeOK' /\ Underway'
<1> SUFFICES ASSUME TypeOK, Underway, [Next]_vars PROVE TypeOK' /\ Underway'
  OBVIOUS
<1> USE DEF TypeOK, Underway, Routed, Live
<1>1. ASSUME NEW r \in Requests, NEW g \in Orgs, Route(r, g) PROVE TypeOK' /\ Underway'
  <2>1. [org |-> g, obj |-> tenants[g]] \in Targets /\ tenants[g] # Nil
    BY <1>1 DEF Route, Targets
  <2>2. TypeOK'
    BY <1>1, <2>1 DEF Route, LockFree
  <2>3. Underway'
    BY <1>1, <2>1 DEF Route, LockFree
  <2> QED BY <2>2, <2>3
<1>2. ASSUME NEW r \in Requests, Append(r) PROVE TypeOK' /\ Underway'
  <2>1. target[r].obj \in Objs /\ target[r].org \in Orgs
    BY <1>2 DEF Append, Targets
  <2>2. heap' \in [Objs -> Chain]
    BY <1>2, <2>1 DEF Append, Chain
  <2>3. files' \in [Orgs -> Chain \cup {Nil}]
    BY <1>2, <2>1, <2>2 DEF Append
  <2>4. TypeOK'
    BY <1>2, <2>2, <2>3, WriteFailsTyped DEF Append
  <2>5. Underway'
    BY <1>2, <2>1 DEF Append, LockFree
  <2> QED BY <2>4, <2>5
<1>3. ASSUME NEW g \in Orgs, CreateTenant(g) PROVE TypeOK' /\ Underway'
  <2>1. PICK o \in Objs \ InUse :
           /\ tenants' = [tenants EXCEPT ![g] = o]
           /\ heap' = [heap EXCEPT ![o] = [gen |-> gens + 1, reqs |-> {}]]
           /\ watched' = watched \ {o}
           /\ \/ /\ files' = [files EXCEPT ![g] = heap'[o]]
                 /\ lock' = [op |-> "create", org |-> g]
                 /\ UNCHANGED <<unmade, writeFails>>
              \/ /\ WriteFails
                 /\ unmade' = unmade \cup {g}
                 /\ UNCHANGED <<files, lock>>
    BY <1>3 DEF CreateTenant
  <2>2. heap' \in [Objs -> Chain]
    BY <1>3, <2>1 DEF CreateTenant, Chain
  <2>3. files' \in [Orgs -> Chain \cup {Nil}]
    BY <2>1, <2>2
  <2>4. lock' \in Locks \cup {Nil} /\ (lock' = Nil \/ (lock'.org = g /\ lock'.op = "create"))
    BY <1>3, <2>1 DEF CreateTenant, Locks, LockFree
  <2>5. tenants' \in [Orgs -> Objs \cup {Nil}] /\ tenants'[g] # Nil
    BY <2>1
  <2>6. unmade' \in SUBSET Orgs /\ writeFails' \in 0..MaxWriteFails
    BY <2>1, WriteFailsTyped
  <2>7. TypeOK'
    BY <1>3, <2>1, <2>2, <2>3, <2>4, <2>5, <2>6 DEF CreateTenant
  <2>8. Underway'
    BY <1>3, <2>4, <2>5 DEF CreateTenant, LockFree
  <2> QED BY <2>7, <2>8
<1>4. ASSUME NEW g \in Orgs, DeleteTenant(g) PROVE TypeOK' /\ Underway'
  <2>1. files' \in [Orgs -> Chain \cup {Nil}] /\ trash' \in SUBSET Chain
    BY <1>4 DEF DeleteTenant
  <2>2. lock' \in Locks \cup {Nil} /\ (lock' # Nil => lock'.op = "delete")
    BY <1>4 DEF DeleteTenant, Locks, LockFree
  <2>3. tenants' \in [Orgs -> Objs \cup {Nil}] /\ deletes' \in 1..MaxDeletes
    BY <1>4 DEF DeleteTenant
  <2>4. TypeOK'
    BY <1>4, <2>1, <2>2, <2>3 DEF DeleteTenant
  <2>5. Underway'
    BY <1>4, <2>2, <2>3 DEF DeleteTenant, LockFree
  <2> QED BY <2>4, <2>5
<1>5. ASSUME NEW g \in Orgs, RestoreTenant(g) PROVE TypeOK' /\ Underway'
  <2>1. restore.objs[g] \in Objs
    BY <1>5 DEF RestoreTenant, RestoreJobs
  <2>2. \/ restore' = Nil
        \/ /\ restore' \in RestoreJobs /\ restore'.objs = restore.objs
           /\ restore'.left \subseteq restore.left
    BY <1>5 DEF RestoreTenant, RestoreJobs
  <2>3. files' \in [Orgs -> Chain \cup {Nil}]
    BY <1>5, <2>1 DEF RestoreTenant
  <2>4. writeFails' \in 0..MaxWriteFails
    BY <1>5, WriteFailsTyped DEF RestoreTenant
  <2>5. TypeOK'
    BY <1>5, <2>2, <2>3, <2>4 DEF RestoreTenant
  <2>6. Underway'
    BY <1>5, <2>2 DEF RestoreTenant
  <2> QED BY <2>5, <2>6
<1>6. CASE CreateSaveMeta
  <2>1. tenants[lock.org] \in Objs /\ lock.org \in Orgs
    BY <1>6 DEF CreateSaveMeta, Locks
  <2>2. writeFails' \in 0..MaxWriteFails
    BY <1>6, WriteFailsTyped DEF CreateSaveMeta
  <2>3. meta' \in SUBSET Orgs /\ watched' \in SUBSET Objs /\ unmade' \in SUBSET Orgs
    BY <1>6, <2>1 DEF CreateSaveMeta
  <2>4. TypeOK'
    BY <1>6, <2>2, <2>3 DEF CreateSaveMeta
  <2>5. Underway'
    BY <1>6 DEF CreateSaveMeta
  <2> QED BY <2>4, <2>5
<1>7. CASE DeleteSaveMeta
  BY <1>7, WriteFailsTyped DEF DeleteSaveMeta
<1>8. CASE AdminSave
  BY <1>8 DEF AdminSave, LockFree
<1>9. CASE Backup
  <2>1. bundles' \in SUBSET [Orgs -> Chain \cup {Nil}]
    BY <1>9 DEF Backup
  <2> QED BY <1>9, <2>1 DEF Backup, LockFree
<1>10. ASSUME NEW b \in bundles, RestoreMeta(b) PROVE TypeOK' /\ Underway'
  <2>0. PICK objs \in Allocations({g \in Orgs : b[g] # Nil}, Objs \ InUse) :
           /\ heap' = [o \in Objs |-> IF \E g \in Orgs : objs[g] = o
                                      THEN b[CHOOSE g \in Orgs : objs[g] = o] ELSE heap[o]]
           /\ restore' = [objs |-> objs, left |-> {g \in Orgs : b[g] # Nil}]
           /\ watched' = watched \ {objs[g] : g \in Orgs}
    BY <1>10 DEF RestoreMeta
  <2>1. /\ objs \in [Orgs -> Objs \cup {Nil}]
        /\ \A g \in Orgs : objs[g] = Nil <=> b[g] = Nil
        /\ \A g, h \in Orgs : objs[g] = objs[h] /\ objs[g] # Nil => g = h
    BY DEF Allocations
  <2>2. heap' \in [Objs -> Chain]
    BY <2>0, <2>1, LoadTyped
  <2>3. restore' \in RestoreJobs /\ \A g \in restore'.left : restore'.objs[g] # Nil
    BY <2>0, <2>1 DEF RestoreJobs
  <2>4. watched' \subseteq watched /\ restores' \in 1..MaxRestores /\ meta' \subseteq Orgs
    BY <1>10, <2>0 DEF RestoreMeta
  <2>5. TypeOK'
    BY <1>10, <2>2, <2>3, <2>4 DEF RestoreMeta
  <2>6. Underway'
    BY <1>10, <2>3, <2>4 DEF RestoreMeta
  <2> QED BY <2>5, <2>6
<1>11. CASE RestoreSwap
  <2>1. restore.objs \in [Orgs -> Objs \cup {Nil}]
    BY <1>11 DEF RestoreSwap, RestoreJobs
  <2> QED BY <1>11, <2>1 DEF RestoreSwap, LockFree
<1>12. CASE Crash
  <2>1. heap' \in [Objs -> Chain] /\ tenants' \in [Orgs -> Objs \cup {Nil}]
    BY <1>12 DEF Crash, Chain, NoChain
  <2>2. pc' \in [Requests -> {"idle", "routed", "acked", "failed", "dead", "forgotten"}]
        /\ \A r \in Requests : pc'[r] # "routed" /\ (pc'[r] = "acked" => pc[r] = "acked")
    BY <1>12 DEF Crash
  <2>3. TypeOK'
    <3>1. crashes' \in 0..MaxCrashes
      BY <1>12 DEF Crash
    <3>2. up' \in BOOLEAN /\ watched' \in SUBSET Objs /\ lock' = Nil /\ restore' = Nil
      BY <1>12 DEF Crash
    <3>3. UNCHANGED <<trashDir, meta, files, trash, target, bundles, unmade, gens,
                     deletes, restores, writeFails>>
      BY <1>12 DEF Crash
    <3> QED BY <2>1, <2>2, <3>1, <3>2, <3>3
  <2>4. Underway'
    BY <1>12, <2>2 DEF Crash
  <2> QED BY <2>3, <2>4
<1>13. CASE Restart
  <2>1. PICK objs \in [Orgs -> Objs \cup {Nil}] :
           /\ \A g \in Orgs : objs[g] = Nil <=> g \notin meta
           /\ \A g, h \in Orgs : objs[g] = objs[h] /\ objs[g] # Nil => g = h
           /\ tenants' = objs
           /\ heap' = [o \in Objs |-> IF \E g \in Orgs : objs[g] = o
                                      THEN files[CHOOSE g \in Orgs : objs[g] = o] ELSE heap[o]]
           /\ watched' = {objs[g] : g \in meta}
    BY <1>13 DEF Restart, Allocations
  <2>2. heap' \in [Objs -> Chain]
    BY <1>13, <2>1, LoadTyped DEF Restart, Bootable
  <2>3. watched' \subseteq Objs
    BY <2>1
  <2>4. TypeOK'
    BY <1>13, <2>1, <2>2, <2>3 DEF Restart
  <2>5. Underway'
    BY <1>13 DEF Restart
  <2> QED BY <2>4, <2>5
<1>14. CASE UNCHANGED vars
  BY <1>14 DEF vars
<1> QED BY <1>1, <1>2, <1>3, <1>4, <1>5, <1>6, <1>7, <1>8, <1>9, <1>10, <1>11, <1>12,
           <1>13, <1>14 DEF Next
(***************************************************************************)
(* One history per generation.                                             *)
(***************************************************************************)

Histories == OneObject /\ FileIsObject /\ GensCounted

\* A step that writes no timeline and hands out no object keeps the histories.
LEMMA HistoriesKept ==
  ASSUME Histories, heap' = heap, gens' = gens, restores' = restores,
         \A g \in Orgs : files'[g] # Nil => files'[g] = files[g],
         \A o \in Objs, g \in Orgs : Serves(o, g)' => Serves(o, g)
  PROVE  Histories'
  BY DEF Histories, OneObject, FileIsObject, GensCounted

\* Every step does: an append updates the one object of its generation and that
\* generation's file together, a create starts a generation, and a restart
\* finds no object in the process.
LEMMA StepHistories ==
  TypeOK /\ Underway /\ Histories /\ TypeOK' /\ [Next]_vars => Histories'
<1> SUFFICES ASSUME TypeOK, Underway, Histories, TypeOK', [Next]_vars PROVE Histories'
  OBVIOUS
<1> USE DEF TypeOK, Underway, Routed
<1>1. ASSUME NEW r \in Requests, NEW g \in Orgs, Route(r, g) PROVE Histories'
  <2>1. ASSUME NEW o \in Objs, NEW h \in Orgs, Serves(o, h)' PROVE Serves(o, h)
    BY <1>1, <2>1 DEF Route, Serves
  <2> QED BY <1>1, <2>1, HistoriesKept DEF Route
<1>2. ASSUME NEW r \in Requests, Append(r) PROVE Histories'
  <2> DEFINE p == target[r].obj
             h == target[r].org
  <2>1. p \in Objs /\ h \in Orgs /\ Serves(p, h)
    BY <1>2 DEF Append, Targets, Serves
  <2>2. /\ heap' \in [Objs -> Chain] /\ heap'[p].gen = heap[p].gen
        /\ \A o \in Objs : o # p => heap'[o] = heap[o]
    BY <1>2, <2>1 DEF Append, Chain
  <2>3. /\ \A g \in Orgs : files'[g] = files[g] \/ (g = h /\ files'[g] = heap'[p])
        /\ heap'[p] # Nil
        /\ gens' = gens /\ restores' = restores
    <3>1. files' = [files EXCEPT ![h] = heap'[p]] \/ files' = files
      BY <1>2 DEF Append
    <3>2. heap'[p] \in Chain
      BY <2>1, <2>2
    <3>3. gens' = gens /\ restores' = restores
      BY <1>2 DEF Append
    <3> QED BY <2>1, <3>1, <3>2, <3>3
  <2>4. ASSUME NEW o \in Objs, NEW g \in Orgs, Serves(o, g)' PROVE Serves(o, g)
    BY <1>2, <2>4 DEF Append, Serves
  <2> HIDE DEF p, h
  <2>5. \A o \in Objs : heap'[o].gen = heap[o].gen /\ heap[o].reqs \subseteq heap'[o].reqs
    <3>1. heap[p].reqs \subseteq heap'[p].reqs
      BY <1>2, <2>1 DEF Append, Chain, p
    <3> QED BY <2>2, <3>1
  <2>6. OneObject'
    BY <2>3, <2>4, <2>5 DEF Histories, OneObject
  <2>7. GensCounted'
    BY <2>1, <2>2, <2>3, <2>4, <2>5 DEF Histories, GensCounted
  <2>8. ASSUME restores = 0, NEW g \in Orgs, NEW k \in Orgs, NEW o \in Objs,
               files'[g] # Nil, Serves(o, k)', files'[g].gen = heap'[o].gen
        PROVE  g = k /\ files'[g].reqs \subseteq heap'[o].reqs
    <3>1. CASE g = h /\ files'[g] = heap'[p]
      <4>1. o = p /\ h = k
        BY <2>1, <2>3, <2>4, <2>5, <2>8, <3>1 DEF Histories, OneObject
      <4> QED BY <2>3, <3>1, <4>1
    <3>2. CASE files'[g] = files[g]
      <4>1. g = k /\ files[g].reqs \subseteq heap[o].reqs
        BY <2>4, <2>5, <2>8, <3>2 DEF Histories, FileIsObject
      <4> QED BY <2>5, <3>2, <4>1
    <3> QED BY <2>3, <3>1, <3>2
  <2>9. ASSUME restores = 0, NEW g \in Orgs, NEW k \in Orgs,
               files'[g] # Nil, files'[k] # Nil, files'[g].gen = files'[k].gen
        PROVE  g = k
    <3>1. CASE files'[g] = files[g] /\ files'[k] = files[k]
      BY <2>9, <3>1 DEF Histories, FileIsObject
    <3>2. CASE files'[g] = files[g] /\ k = h /\ files'[k] = heap'[p]
      BY <2>1, <2>5, <2>9, <3>2 DEF Histories, FileIsObject
    <3>3. CASE g = h /\ files'[g] = heap'[p] /\ files'[k] = files[k]
      BY <2>1, <2>5, <2>9, <3>3 DEF Histories, FileIsObject
    <3> QED BY <2>3, <3>1, <3>2, <3>3
  <2>10. FileIsObject'
    BY <2>3, <2>8, <2>9 DEF FileIsObject
  <2> QED BY <2>6, <2>7, <2>10 DEF Histories
<1>3. ASSUME NEW h \in Orgs, CreateTenant(h) PROVE Histories'
  <2>1. PICK p \in Objs \ InUse :
           /\ tenants' = [tenants EXCEPT ![h] = p]
           /\ heap' = [heap EXCEPT ![p] = [gen |-> gens + 1, reqs |-> {}]]
           /\ files' = [files EXCEPT ![h] = heap'[p]] \/ files' = files
    BY <1>3 DEF CreateTenant
  <2>2. /\ heap'[p].gen = gens + 1 /\ gens' = gens + 1 /\ gens \in Nat
        /\ \A o \in Objs : o # p => heap'[o] = heap[o]
    BY <1>3, <2>1 DEF CreateTenant
  <2>3. /\ \A g \in Orgs : files'[g] = files[g] \/ (g = h /\ files'[g] = heap'[p])
        /\ restores' = restores
    BY <1>3, <2>1 DEF CreateTenant
  <2>4. ASSUME NEW o \in Objs, NEW g \in Orgs, Serves(o, g)'
        PROVE  (o = p /\ g = h) \/ (o # p /\ Serves(o, g))
    <3>1. CASE tenants'[g] = o /\ g = h
      BY <2>1, <3>1
    <3>2. CASE tenants'[g] = o /\ g # h
      BY <2>1, <2>4, <3>2 DEF Serves, InUse
    <3>3. CASE \E r \in Routed : target[r].org = g /\ target[r].obj = o
      BY <2>1, <2>4, <3>3 DEF Serves, InUse
    <3>4. Routed' = Routed /\ target' = target
      BY <1>3 DEF CreateTenant
    <3> QED BY <2>4, <3>1, <3>2, <3>3, <3>4 DEF Serves
  <2>5. restores = 0 =>
          /\ \A g \in Orgs : files[g] # Nil => files[g].gen <= gens /\ files[g].gen \in Nat
          /\ \A g \in Orgs, o \in Objs :
               Serves(o, g) => heap[o].gen <= gens /\ heap[o].gen \in Nat
    BY DEF Histories, GensCounted, Chain
  <2>6. GensCounted'
    BY <2>2, <2>3, <2>4, <2>5 DEF GensCounted
  <2>7. OneObject'
    <3>1. ASSUME restores = 0, NEW g \in Orgs, NEW k \in Orgs, NEW o \in Objs, NEW q \in Objs,
                 Serves(o, g)', Serves(q, k)', heap'[o].gen = heap'[q].gen
          PROVE  o = q /\ g = k
      <4>1. CASE o = p /\ q = p
        BY <2>4, <3>1, <4>1
      <4>2. CASE o = p /\ q # p
        BY <2>2, <2>4, <2>5, <3>1, <4>2
      <4>3. CASE o # p /\ q = p
        BY <2>2, <2>4, <2>5, <3>1, <4>3
      <4>4. CASE o # p /\ q # p
        BY <2>2, <2>4, <3>1, <4>4 DEF Histories, OneObject
      <4> QED BY <4>1, <4>2, <4>3, <4>4
    <3> QED BY <2>3, <3>1 DEF OneObject
  <2>8. FileIsObject'
    <3>1. ASSUME restores = 0, NEW g \in Orgs, NEW k \in Orgs, NEW o \in Objs,
                 files'[g] # Nil, Serves(o, k)', files'[g].gen = heap'[o].gen
          PROVE  g = k /\ files'[g].reqs \subseteq heap'[o].reqs
      <4>1. CASE g = h /\ files'[g] = heap'[p] /\ o = p
        BY <2>4, <3>1, <4>1
      <4>2. CASE g = h /\ files'[g] = heap'[p] /\ o # p
        BY <2>2, <2>4, <2>5, <3>1, <4>2
      <4>3. CASE files'[g] = files[g] /\ o = p
        BY <2>2, <2>5, <3>1, <4>3
      <4>4. CASE files'[g] = files[g] /\ o # p
        BY <2>2, <2>4, <3>1, <4>4 DEF Histories, FileIsObject
      <4> QED BY <2>3, <4>1, <4>2, <4>3, <4>4
    <3>2. ASSUME restores = 0, NEW g \in Orgs, NEW k \in Orgs,
                 files'[g] # Nil, files'[k] # Nil, files'[g].gen = files'[k].gen
          PROVE  g = k
      <4>1. CASE g = h /\ files'[g] = heap'[p] /\ files'[k] = files[k]
        BY <2>2, <2>5, <3>2, <4>1
      <4>2. CASE files'[g] = files[g] /\ k = h /\ files'[k] = heap'[p]
        BY <2>2, <2>5, <3>2, <4>2
      <4>3. CASE files'[g] = files[g] /\ files'[k] = files[k]
        BY <3>2, <4>3 DEF Histories, FileIsObject
      <4> QED BY <2>3, <4>1, <4>2, <4>3
    <3> QED BY <2>3, <3>1, <3>2 DEF FileIsObject
  <2> QED BY <2>6, <2>7, <2>8 DEF Histories
<1>4. ASSUME NEW g \in Orgs, DeleteTenant(g) PROVE Histories'
  <2>1. ASSUME NEW o \in Objs, NEW h \in Orgs, Serves(o, h)' PROVE Serves(o, h)
    BY <1>4, <2>1 DEF DeleteTenant, Serves
  <2>2. \A h \in Orgs : files'[h] # Nil => files'[h] = files[h]
    BY <1>4 DEF DeleteTenant
  <2> QED BY <1>4, <2>1, <2>2, HistoriesKept DEF DeleteTenant
<1>5. ASSUME NEW g \in Orgs, RestoreTenant(g) PROVE Histories'
  BY <1>5 DEF RestoreTenant, Histories, OneObject, FileIsObject, GensCounted
<1>6. CASE CreateSaveMeta
  BY <1>6, HistoriesKept DEF CreateSaveMeta, Serves
<1>7. CASE DeleteSaveMeta
  BY <1>7, HistoriesKept DEF DeleteSaveMeta, Serves
<1>8. CASE AdminSave
  BY <1>8, HistoriesKept DEF AdminSave, Serves
<1>9. CASE Backup
  BY <1>9, HistoriesKept DEF Backup, Serves
<1>10. ASSUME NEW b \in bundles, RestoreMeta(b) PROVE Histories'
  BY <1>10 DEF RestoreMeta, Histories, OneObject, FileIsObject, GensCounted
<1>11. CASE RestoreSwap
  BY <1>11 DEF RestoreSwap, Histories, OneObject, FileIsObject, GensCounted
<1>12. CASE Crash
  <2>1. \A o \in Objs, g \in Orgs : ~ Serves(o, g)'
    BY <1>12 DEF Crash, Serves
  <2>2. files' = files /\ gens' = gens /\ restores' = restores
    BY <1>12 DEF Crash
  <2> QED BY <2>1, <2>2 DEF Histories, OneObject, FileIsObject, GensCounted
<1>13. CASE Restart
  <2>1. PICK objs \in [Orgs -> Objs \cup {Nil}] :
           /\ \A g \in Orgs : objs[g] = Nil <=> g \notin meta
           /\ \A g, h \in Orgs : objs[g] = objs[h] /\ objs[g] # Nil => g = h
           /\ tenants' = objs
           /\ heap' = [o \in Objs |-> IF \E g \in Orgs : objs[g] = o
                                      THEN files[CHOOSE g \in Orgs : objs[g] = o] ELSE heap[o]]
           /\ watched' = {objs[g] : g \in meta}
    BY <1>13 DEF Restart, Allocations
  <2>2. \A g \in Orgs : objs[g] # Nil => files[g] # Nil /\ heap'[objs[g]] = files[g]
    BY <1>13, <2>1, LoadTyped DEF Restart, Bootable
  <2>3. ASSUME NEW o \in Objs, NEW g \in Orgs, Serves(o, g)'
        PROVE  o = objs[g] /\ files[g] # Nil /\ heap'[o] = files[g]
    BY <1>13, <2>1, <2>2, <2>3 DEF Restart, Serves
  <2>4. files' = files /\ gens' = gens /\ restores' = restores
    BY <1>13 DEF Restart
  <2>5. OneObject'
    BY <2>3, <2>4 DEF Histories, OneObject, FileIsObject
  <2>6. FileIsObject'
    BY <2>3, <2>4 DEF Histories, FileIsObject
  <2>7. GensCounted'
    BY <2>3, <2>4 DEF Histories, GensCounted
  <2> QED BY <2>5, <2>6, <2>7 DEF Histories
<1>14. CASE UNCHANGED vars
  BY <1>14, HistoriesKept DEF vars, Serves
<1> QED BY <1>1, <1>2, <1>3, <1>4, <1>5, <1>6, <1>7, <1>8, <1>9, <1>10, <1>11, <1>12,
           <1>13, <1>14 DEF Next
(***************************************************************************)
(* What a restart finds.                                                   *)
(***************************************************************************)

\* Tenant g has its file, or its create was refused.
Excused(g) == files[g] = Nil => g \in unmade

\* A file goes only into the trash, and gateway.json lists a tenant only after
\* its file is written or its create was refused.
LEMMA StepListed ==
  TypeOK /\ Underway /\ ListedHaveFiles /\ TypeOK' /\ [Next]_vars => ListedHaveFiles'
<1> SUFFICES ASSUME TypeOK, Underway, ListedHaveFiles, TypeOK', [Next]_vars,
                    (restores = 0)', (trash = {})', NEW h \in (meta \cup Live)'
             PROVE  Excused(h)'
  BY DEF ListedHaveFiles, Excused
<1> USE DEF TypeOK, Underway, Live
<1>0. h \in Orgs
  OBVIOUS
<1>1. ASSUME NEW r \in Requests, NEW g \in Orgs, Route(r, g) PROVE Excused(h)'
  BY <1>1 DEF Route, ListedHaveFiles, Excused
<1>2. ASSUME NEW r \in Requests, Append(r) PROVE Excused(h)'
  <2>1. target[r].obj \in Objs
    BY <1>2 DEF Append, Targets, Routed
  <2>2. heap'[target[r].obj] # Nil
    BY <2>1
  <2>3. files'[h] = files[h] \/ files'[h] = heap'[target[r].obj]
    BY <1>0, <1>2 DEF Append
  <2> QED BY <1>0, <1>2, <2>2, <2>3 DEF Append, ListedHaveFiles, Excused
<1>3. ASSUME NEW g \in Orgs, CreateTenant(g) PROVE Excused(h)'
  <2>1. PICK o \in Objs \ InUse :
           /\ tenants' = [tenants EXCEPT ![g] = o]
           /\ \/ files' = [files EXCEPT ![g] = heap'[o]] /\ unmade' = unmade
              \/ files' = files /\ unmade' = unmade \cup {g}
    BY <1>3 DEF CreateTenant
  <2>2. heap'[o] # Nil
    OBVIOUS
  <2>3. h = g \/ h \in meta \cup Live
    BY <1>0, <1>3, <2>1 DEF CreateTenant
  <2>4. restores = 0 /\ trash = {}
    BY <1>3 DEF CreateTenant
  <2> QED BY <1>0, <2>1, <2>2, <2>3, <2>4 DEF ListedHaveFiles, Excused
<1>4. ASSUME NEW g \in Orgs, DeleteTenant(g) PROVE Excused(h)'
  <2>1. files' = files /\ trash' = trash
    <3>1. CASE files[g] = Nil
      <4>1. trash' = trash \cup ({files[g]} \ {Nil}) \/ trash' = trash
        BY <1>4 DEF DeleteTenant
      <4>2. files' = [files EXCEPT ![g] = Nil] \/ files' = files
        BY <1>4 DEF DeleteTenant
      <4> QED BY <3>1, <4>1, <4>2
    <3>2. CASE files[g] # Nil
      BY <1>4, <3>2 DEF DeleteTenant
    <3> QED BY <3>1, <3>2
  <2> QED BY <1>0, <1>4, <2>1 DEF DeleteTenant, ListedHaveFiles, Excused
<1>5. ASSUME NEW g \in Orgs, RestoreTenant(g) PROVE Excused(h)'
  BY <1>5 DEF RestoreTenant
<1>6. CASE CreateSaveMeta
  BY <1>6 DEF CreateSaveMeta, ListedHaveFiles, Excused
<1>7. CASE DeleteSaveMeta
  BY <1>7 DEF DeleteSaveMeta, ListedHaveFiles, Excused
<1>8. CASE AdminSave
  BY <1>8 DEF AdminSave, ListedHaveFiles, Excused
<1>9. CASE Backup
  BY <1>9 DEF Backup, ListedHaveFiles, Excused
<1>10. ASSUME NEW b \in bundles, RestoreMeta(b) PROVE Excused(h)'
  BY <1>10 DEF RestoreMeta
<1>11. CASE RestoreSwap
  BY <1>11 DEF RestoreSwap
<1>12. CASE Crash
  BY <1>12 DEF Crash, ListedHaveFiles, Excused
<1>13. CASE Restart
  BY <1>13 DEF Restart, ListedHaveFiles, Excused
<1>14. CASE UNCHANGED vars
  BY <1>14 DEF vars, ListedHaveFiles, Excused
<1> QED BY <1>1, <1>2, <1>3, <1>4, <1>5, <1>6, <1>7, <1>8, <1>9, <1>10, <1>11, <1>12,
           <1>13, <1>14 DEF Next

\* A step that leaves files, timelines, map and listing alone and answers
\* nothing keeps what holds until the first delete or restore.
LEMMA CalmKept ==
  ASSUME Calm, UNCHANGED <<up, tenants, heap, meta, files, trash, lock, target, unmade>>,
         \A r \in Requests : pc'[r] \in {"routed", "acked"} => pc'[r] = pc[r]
  PROVE  Calm'
<1>1. Live' = Live
  BY DEF Live
<1>2. \A r \in Routed' : r \in Routed
  BY DEF Routed
<1> QED BY <1>1, <1>2 DEF Calm

\* Until a delete or a restore, what was answered stays in the file of a listed
\* tenant, and in the timeline that is served.
LEMMA StepUndisturbed == IInv /\ TypeOK' /\ [Next]_vars => Undisturbed'
<1> SUFFICES ASSUME IInv, TypeOK', [Next]_vars, (deletes = 0)', (restores = 0)'
             PROVE  Calm'
  BY DEF Undisturbed
<1> USE DEF IInv, TypeOK, Underway, Routed
<1>1. ASSUME NEW r \in Requests, NEW g \in Orgs, Route(r, g) PROVE Calm'
  <2>1. \A q \in Requests : q # r => target'[q] = target[q] /\ pc'[q] = pc[q]
    BY <1>1 DEF Route
  <2>2. target'[r].org = g /\ target'[r].obj = tenants[g] /\ pc'[r] = "routed" /\ g \in Live
    BY <1>1 DEF Route, Live
  <2>3. Calm /\ lock = Nil /\ up
    BY <1>1 DEF Route, LockFree, Undisturbed
  <2>4. Live' = Live
    BY <1>1 DEF Route, Live
  <2>5. g \in meta \cup unmade
    BY <2>2, <2>3 DEF Calm
  <2>6. UNCHANGED <<up, tenants, heap, meta, files, trash, lock, unmade>>
    BY <1>1 DEF Route
  <2>7. \A q \in Requests : pc'[q] \in {"routed", "acked"} => target'[q].org \in meta \cup unmade
    BY <2>1, <2>2, <2>3, <2>5 DEF Calm
  <2>8. \A q \in Routed' : target'[q].org \in Live /\ target'[q].obj = tenants[target'[q].org]
    BY <2>1, <2>2, <2>3 DEF Calm
  <2>9. \A q \in Requests : pc'[q] = "acked" => pc[q] = "acked" /\ target'[q] = target[q]
    BY <2>1, <2>2
  <2> QED BY <2>3, <2>4, <2>6, <2>7, <2>8, <2>9 DEF Calm
<1>2. ASSUME NEW r \in Requests, Append(r) PROVE Calm'
  <2> DEFINE p == target[r].obj
             h == target[r].org
  <2>1. /\ Calm /\ up /\ lock = Nil /\ r \in Routed
        /\ UNCHANGED <<up, tenants, meta, trash, lock, target, unmade>>
    BY <1>2 DEF Append, LockFree, Undisturbed
  <2>2. p \in Objs /\ h \in Live /\ p = tenants[h] /\ h \in meta \cup unmade
    BY <1>2, <2>1 DEF Append, Targets, Calm
  <2>3. /\ heap'[p].reqs = heap[p].reqs \cup {r}
        /\ \A o \in Objs : heap[o].reqs \subseteq heap'[o].reqs
    <3>1. heap' = [heap EXCEPT ![p] = [heap[p] EXCEPT !.reqs = @ \cup {r}]]
      BY <1>2 DEF Append
    <3>2. heap[p] \in Chain
      BY <2>2
    <3>3. heap'[p].reqs = heap[p].reqs \cup {r}
      BY <2>2, <3>1, <3>2 DEF Chain
    <3>4. \A o \in Objs : o # p => heap'[o] = heap[o]
      BY <3>1
    <3> QED BY <3>3, <3>4
  <2>4. /\ \A g \in Orgs : files'[g] = files[g] \/ (g = h /\ files'[g] = heap'[p])
        /\ heap'[p] # Nil
    <3>1. files' = [files EXCEPT ![h] = heap'[p]] \/ files' = files
      BY <1>2 DEF Append
    <3>2. heap'[p] \in Chain
      BY <2>2
    <3> QED BY <2>2, <3>1, <3>2
  <2>5. /\ \A q \in Requests : q # r => pc'[q] = pc[q]
        /\ \/ pc'[r] = "failed"
           \/ pc'[r] = "acked" /\ files' = [files EXCEPT ![h] = heap'[p]]
    BY <1>2 DEF Append
  <2>6. Live' = Live /\ h \in Orgs
    BY <2>1, <2>2 DEF Live
  <2> HIDE DEF p, h
  <2>7. ASSUME NEW q \in Requests, pc'[q] = "acked", NEW g \in Orgs, g = target[q].org
        PROVE  /\ files'[g] # Nil /\ q \in files'[g].reqs
               /\ g \in Live /\ q \in heap'[tenants[g]].reqs
    <3>1. CASE q = r
      <4>1. g = h /\ files'[g] = heap'[p] /\ tenants[g] = p
        BY <2>2, <2>5, <2>6, <2>7, <3>1 DEF h
      <4> QED BY <2>2, <2>3, <2>4, <3>1, <4>1
    <3>2. CASE q # r
      <4>1. files[g] # Nil /\ q \in files[g].reqs /\ g \in Live /\ q \in heap[tenants[g]].reqs
        BY <2>1, <2>5, <2>7, <3>2 DEF Calm
      <4>2. tenants[g] \in Objs
        BY <4>1 DEF Live
      <4>3. q \in heap'[tenants[g]].reqs
        BY <2>3, <4>1, <4>2
      <4>4. files'[g] # Nil /\ q \in files'[g].reqs
        <5>1. CASE files'[g] = files[g]
          BY <4>1, <5>1
        <5>2. CASE g = h /\ files'[g] = heap'[p]
          BY <2>2, <2>4, <4>3, <5>2
        <5> QED BY <2>4, <5>1, <5>2
      <4> QED BY <4>1, <4>3, <4>4
    <3> QED BY <3>1, <3>2
  <2>8. \A q \in Requests : pc'[q] \in {"routed", "acked"} =>
           target[q].org \in meta \cup unmade /\ target[q].org \in Orgs
    <3>1. ASSUME NEW q \in Requests, pc'[q] \in {"routed", "acked"}
          PROVE  target[q].org \in meta \cup unmade
      <4>1. pc[q] \in {"routed", "acked"}
        BY <2>1, <2>5, <3>1
      <4> QED BY <2>1, <4>1 DEF Calm
    <3> QED BY <3>1
  <2>9. \A q \in Routed' : q \in Routed
    BY <2>5
  <2> QED BY <2>1, <2>6, <2>7, <2>8, <2>9 DEF Calm
<1>3. ASSUME NEW h \in Orgs, CreateTenant(h) PROVE Calm'
  <2>1. PICK p \in Objs \ InUse :
           /\ tenants' = [tenants EXCEPT ![h] = p]
           /\ heap' = [heap EXCEPT ![p] = [gen |-> gens + 1, reqs |-> {}]]
           /\ files' = [files EXCEPT ![h] = heap'[p]] \/ files' = files
           /\ \/ lock' = [op |-> "create", org |-> h] /\ unmade' = unmade
              \/ lock' = lock /\ unmade' = unmade \cup {h}
    BY <1>3 DEF CreateTenant
  <2>2. /\ Calm /\ up /\ lock = Nil /\ tenants[h] = Nil
        /\ trash' = trash /\ up' = up /\ meta' = meta /\ target' = target /\ pc' = pc
    BY <1>3 DEF CreateTenant, LockFree, Undisturbed
  <2>3. Live' = Live \cup {h} /\ h \notin Live /\ Live \subseteq Orgs
    BY <2>1, <2>2 DEF Live
  <2>4. \A g \in Live : g # h /\ tenants'[g] = tenants[g] /\ tenants[g] # p /\ files'[g] = files[g]
                        /\ heap'[tenants[g]] = heap[tenants[g]]
    BY <2>1, <2>2 DEF InUse, Live
  <2>5. Live \subseteq meta \cup unmade
    BY <2>2 DEF Calm
  <2>6. \/ lock' # Nil /\ lock'.org = h
        \/ h \in unmade'
    BY <2>1 DEF Locks
  <2>7. unmade \subseteq unmade'
    BY <2>1
  <2>8. Live' \subseteq meta' \cup unmade' \cup (IF lock' = Nil THEN {} ELSE {lock'.org})
    BY <2>2, <2>3, <2>5, <2>6, <2>7
  <2>9. \A r \in Requests : pc[r] = "acked" => target[r].org \in Live
    BY <2>2 DEF Calm
  <2>10. \A r \in Routed : target[r].org \in Live /\ target[r].obj = tenants[target[r].org]
    BY <2>2 DEF Calm
  <2>11. Calm!1' /\ Calm!2'
    BY <2>2, <2>3 DEF Calm
  <2>12. \A r \in Routed' : target'[r].org \in Live' /\ target'[r].obj = tenants'[target'[r].org]
    BY <2>2, <2>3, <2>4, <2>10
  <2>13. \A r \in Requests : pc'[r] \in {"routed", "acked"} => target'[r].org \in meta' \cup unmade'
    BY <2>2, <2>7 DEF Calm
  <2>14. ASSUME NEW r \in Requests, pc'[r] = "acked", NEW g, g = target'[r].org
         PROVE  /\ files'[g] # Nil /\ r \in files'[g].reqs
                /\ g \in Live' /\ r \in heap'[tenants'[g]].reqs
    <3>1. g \in Live /\ files[g] # Nil /\ r \in files[g].reqs /\ r \in heap[tenants[g]].reqs
      BY <2>2, <2>14 DEF Calm
    <3> QED BY <2>3, <2>4, <3>1
  <2> QED BY <2>2, <2>8, <2>11, <2>12, <2>13, <2>14 DEF Calm
<1>4. ASSUME NEW g \in Orgs, DeleteTenant(g) PROVE Calm'
  BY <1>4 DEF DeleteTenant
<1>5. ASSUME NEW g \in Orgs, RestoreTenant(g) PROVE Calm'
  BY <1>5 DEF RestoreTenant
<1>6. CASE CreateSaveMeta
  <2>1. /\ Calm /\ up /\ lock # Nil /\ lock' = Nil /\ pc' = pc
        /\ UNCHANGED <<up, tenants, heap, files, trash, target>>
        /\ \/ meta' = Live /\ unmade' = unmade
           \/ meta' = meta /\ unmade' = unmade \cup {lock.org}
    BY <1>6 DEF CreateSaveMeta, Undisturbed
  <2>2. Live' = Live
    BY <2>1 DEF Live
  <2>3. Live \subseteq meta' \cup unmade' /\ meta' \subseteq Live /\ unmade \subseteq unmade'
    BY <2>1 DEF Calm
  <2>4. \A r \in Requests : pc[r] \in {"routed", "acked"} => target[r].org \in Live
    BY <2>1 DEF Calm
  <2> QED BY <2>1, <2>2, <2>3, <2>4 DEF Calm
<1>7. CASE DeleteSaveMeta
  BY <1>7 DEF DeleteSaveMeta
<1>8. CASE AdminSave
  <2>1. /\ Calm /\ up /\ lock = Nil /\ meta' = Live /\ pc' = pc
        /\ UNCHANGED <<up, tenants, heap, files, trash, target, lock, unmade>>
    BY <1>8 DEF AdminSave, LockFree, Undisturbed
  <2>2. Live' = Live
    BY <2>1 DEF Live
  <2>3. \A r \in Requests : pc[r] \in {"routed", "acked"} => target[r].org \in Live
    BY <2>1 DEF Calm
  <2> QED BY <2>1, <2>2, <2>3 DEF Calm
<1>9. CASE Backup
  BY <1>9, CalmKept DEF Backup, Undisturbed
<1>10. ASSUME NEW b \in bundles, RestoreMeta(b) PROVE Calm'
  BY <1>10 DEF RestoreMeta
<1>11. CASE RestoreSwap
  BY <1>11 DEF RestoreSwap
<1>12. CASE Crash
  <2>1. \A r \in Requests : /\ pc'[r] # "routed"
                            /\ pc'[r] = "acked" =>
                                 pc[r] = "acked" /\ target[r].org \notin unmade \ meta
    BY <1>12 DEF Crash
  <2>2. Calm /\ up' = FALSE
    BY <1>12 DEF Crash, Undisturbed
  <2>3. trash' = trash /\ meta' = meta /\ files' = files /\ target' = target /\ unmade' = unmade
    BY <1>12 DEF Crash
  <2>4. \A r \in Requests : pc'[r] = "acked" => target[r].org \in meta
    BY <2>1, <2>2 DEF Calm
  <2> QED BY <2>1, <2>2, <2>3, <2>4 DEF Calm
<1>13. CASE Restart
  <2>1. PICK objs \in [Orgs -> Objs \cup {Nil}] :
           /\ \A g \in Orgs : objs[g] = Nil <=> g \notin meta
           /\ \A g, h \in Orgs : objs[g] = objs[h] /\ objs[g] # Nil => g = h
           /\ tenants' = objs
           /\ heap' = [o \in Objs |-> IF \E g \in Orgs : objs[g] = o
                                      THEN files[CHOOSE g \in Orgs : objs[g] = o] ELSE heap[o]]
           /\ watched' = {objs[g] : g \in meta}
    BY <1>13 DEF Restart, Allocations
  <2>2. \A g \in Orgs : objs[g] # Nil => heap'[objs[g]] = files[g]
    BY <1>13, <2>1, LoadTyped DEF Restart, Bootable
  <2>3. /\ Calm /\ ~up /\ up' = TRUE /\ trash' = trash /\ meta' = meta /\ files' = files
        /\ target' = target /\ pc' = pc /\ unmade' = unmade
    BY <1>13 DEF Restart, Undisturbed
  <2>4. Live' = meta
    BY <2>1 DEF Live
  <2>5. Routed' = {}
    BY <2>3
  <2>6. ASSUME NEW r \in Requests, pc'[r] = "acked", NEW g, g = target'[r].org
        PROVE  /\ files'[g] # Nil /\ r \in files'[g].reqs
               /\ g \in Live' /\ r \in heap'[tenants'[g]].reqs
    <3>1. g \in meta /\ files[g] # Nil /\ r \in files[g].reqs
      BY <2>3, <2>6 DEF Calm
    <3> QED BY <2>1, <2>2, <2>3, <2>4, <3>1
  <2> QED BY <2>3, <2>4, <2>5, <2>6 DEF Calm
<1>14. CASE UNCHANGED vars
  BY <1>14, CalmKept DEF vars, Undisturbed
<1> QED BY <1>1, <1>2, <1>3, <1>4, <1>5, <1>6, <1>7, <1>8, <1>9, <1>10, <1>11, <1>12,
           <1>13, <1>14 DEF Next
-----------------------------------------------------------------------------
(***************************************************************************)
(* The theorems.                                                           *)
(***************************************************************************)

\* The invariant holds throughout.
LEMMA Invariance == Spec => []IInv
<1>1. Init => IInv
  <2> SUFFICES ASSUME Init PROVE IInv
    OBVIOUS
  <2>1. TypeOK
    <3>1. NoChain \in Chain /\ [org |-> Nil, obj |-> Nil] \in Targets
      BY DEF Chain, NoChain, Targets
    <3> QED BY <3>1 DEF Init, TypeOK, Routed
  <2>2. Live = {} /\ Routed = {}
    BY DEF Init, Live, Routed
  <2>3. \A o \in Objs, g \in Orgs : ~ Serves(o, g)
    BY <2>2 DEF Init, Serves, Live
  <2>4. \A g \in Orgs : files[g] = Nil
    BY DEF Init
  <2>5. Underway /\ ListedHaveFiles /\ Undisturbed
    BY <2>2 DEF Init, Underway, ListedHaveFiles, Undisturbed, Calm
  <2>6. OneObject /\ FileIsObject /\ GensCounted
    BY <2>3, <2>4 DEF OneObject, FileIsObject, GensCounted
  <2> QED BY <2>1, <2>5, <2>6 DEF IInv
<1>2. IInv /\ [Next]_vars => IInv'
  <2> SUFFICES ASSUME IInv, [Next]_vars PROVE IInv'
    OBVIOUS
  <2>1. TypeOK' /\ Underway'
    BY StepTyped DEF IInv
  <2>2. Histories'
    BY <2>1, StepHistories DEF IInv, Histories
  <2>3. ListedHaveFiles' /\ Undisturbed'
    BY <2>1, StepListed, StepUndisturbed DEF IInv
  <2> QED BY <2>1, <2>2, <2>3 DEF IInv, Histories
<1> QED BY <1>1, <1>2, PTL DEF Spec

\* Type correctness of the tenant store: every file, bundle and object of
\* store.go holds a timeline, and a routed request has its tenant.
THEOREM TypeCorrect == Spec => []TypeOK
<1>1. IInv => TypeOK
  BY DEF IInv
<1> QED BY <1>1, Invariance, PTL

\* Wherever the process dies, NewStore finds a timeline file for every tenant
\* of gateway.json, until a restore or a delete into the trash (CreateTenant
\* writes the file first, DeleteTenant removes it first), but for a tenant whose
\* create was refused and that nothing was saved for since.
THEOREM BootsAlways == Spec => []Boots
<1>1. IInv => Boots
  BY DEF IInv, ListedHaveFiles, Boots
<1> QED BY <1>1, Invariance, PTL

\* An answered request is in the tenant's file and is served again after any
\* crash, until the first delete or restore; it is forgotten only with a tenant
\* that a refused create left unlisted.
THEOREM AckedStays == Spec => []AckedDurable
<1>1. ASSUME IInv PROVE AckedDurable
  <2> SUFFICES ASSUME NEW r \in Requests, pc[r] = "acked", deletes = 0, restores = 0,
                      NEW g \in Orgs, g = target[r].org
               PROVE  /\ files[g] # Nil /\ r \in files[g].reqs
                      /\ up /\ lock = Nil /\ g \in meta =>
                           tenants[g] # Nil /\ r \in heap[tenants[g]].reqs
    BY <1>1 DEF AckedDurable, IInv, Underway
  <2>1. Calm
    BY <1>1 DEF IInv, Undisturbed
  <2>2. /\ files[g] # Nil /\ r \in files[g].reqs
        /\ up => g \in Live /\ r \in heap[tenants[g]].reqs
    BY <2>1 DEF Calm
  <2> QED BY <2>2 DEF Live
<1>2. IInv => AckedDurable
  BY <1>1
<1> QED BY <1>2, Invariance, PTL

\* No step makes the file of a generation shorter before a restore: requests
\* that hold a stale tenant pointer save the one object of their generation.
THEOREM HistoryKept == Spec => FilesKeepHistory
<1> DEFINE Keeps ==
      \A g \in Orgs :
        (restores' = 0 /\ files[g] # Nil /\ files'[g] # Nil /\ files'[g].gen = files[g].gen) =>
            files[g].reqs \subseteq files'[g].reqs
<1>1. ASSUME IInv, [Next]_vars PROVE [Keeps]_vars
  <2> SUFFICES ASSUME NEW h \in Orgs, restores' = 0, files[h] # Nil, files'[h] # Nil,
                      files'[h].gen = files[h].gen, files'[h] # files[h]
               PROVE  files[h].reqs \subseteq files'[h].reqs
    OBVIOUS
  <2> USE <1>1 DEF IInv, TypeOK, Underway, Routed
  <2>1. ASSUME NEW r \in Requests, Append(r) PROVE files[h].reqs \subseteq files'[h].reqs
    <3> DEFINE p == target[r].obj
    <3>1. p \in Objs /\ target[r].org = h /\ Serves(p, h) /\ restores = 0
      BY <2>1 DEF Append, Targets, Serves
    <3>2. heap'[p].gen = heap[p].gen /\ heap'[p].reqs = heap[p].reqs \cup {r}
      BY <2>1, <3>1 DEF Append, Chain
    <3>3. files'[h] = heap'[p]
      BY <2>1, <3>1 DEF Append
    <3>4. files[h].reqs \subseteq heap[p].reqs
      BY <3>1, <3>2, <3>3 DEF FileIsObject
    <3> QED BY <3>2, <3>3, <3>4
  <2>2. ASSUME NEW g \in Orgs, CreateTenant(g) PROVE FALSE
    <3>1. PICK o \in Objs \ InUse :
             /\ heap' = [heap EXCEPT ![o] = [gen |-> gens + 1, reqs |-> {}]]
             /\ files' = [files EXCEPT ![g] = heap'[o]] \/ files' = files
      BY <2>2 DEF CreateTenant
    <3>2. restores = 0 /\ g = h /\ files'[h].gen = gens + 1
      BY <2>2, <3>1 DEF CreateTenant
    <3>3. files[h].gen <= gens /\ files[h].gen \in Nat /\ gens \in Nat
      <4>1. files[h] \in Chain /\ gens \in Nat
        OBVIOUS
      <4>2. files[h].gen <= gens
        BY <3>2 DEF GensCounted
      <4> QED BY <4>1, <4>2 DEF Chain
    <3> QED BY <3>2, <3>3
  <2>3. ASSUME NEW g \in Orgs, DeleteTenant(g) PROVE FALSE
    BY <2>3 DEF DeleteTenant
  <2>4. ASSUME NEW g \in Orgs, RestoreTenant(g) PROVE FALSE
    BY <2>4 DEF RestoreTenant
  <2> QED BY <2>1, <2>2, <2>3, <2>4 DEF Next, vars, Route, CreateSaveMeta, DeleteSaveMeta,
             AdminSave, Backup, RestoreMeta, RestoreSwap, Crash, Restart
<1>2. Spec => [][Next]_vars
  BY DEF Spec
<1>3. Spec => [][Keeps]_vars
  BY <1>1, <1>2, Invariance, PTL
<1> QED BY <1>3 DEF FilesKeepHistory
=============================================================================
