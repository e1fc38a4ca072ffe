--------------------------- MODULE RequestsProofs ---------------------------
(***************************************************************************)
(* Proofs about the request pipeline: a raw token that a client was shown  *)
(* keeps working, a replayed answer is the answer to the same request and  *)
(* a retry after the answer replays it, scopes and roles hold, and the     *)
(* token bucket is exact; for any users, tokens, keys and requests, any    *)
(* window and capacity of the cache, and any limiter.                      *)
(***************************************************************************)
EXTENDS Requests, SequenceTheorems, FiniteSetTheorems, TLAPS

(***************************************************************************)
(* The inductive invariant.                                                *)
(***************************************************************************)

Metas == [users : [Users -> Accounts \cup {Nil}],
          owner : [Tokens -> Users \cup {Nil}],
          scope : [Tokens -> (SUBSET Orgs) \cup {Nil}]]

Records == [pc : {"idle", "routed", "run", "store", "answered", "dead"},
            tok : Tokens \cup {Nil}, op : Operations \cup {Nil}, key : Keys \cup {Nil},
            user : Users \cup {Nil}, status : Nat, by : Reqs \cup {Nil},
            minted : Tokens \cup {Nil}, ran : BOOLEAN, seen : SUBSET Reqs,
            life : Nat, at : Nat]

Typed ==
    /\ meta \in Metas /\ disk \in Metas
    /\ rq \in [Reqs -> Records]
    /\ now \in Nat /\ life \in Nat

\* A request on its way through the handler came in during this life of the
\* process, and only its own execution can have answered it.
Underway ==
    \A r \in Reqs :
        /\ rq[r].pc \in {"routed", "run", "store"} =>
             rq[r].life = life /\ rq[r].op \in Operations
        /\ rq[r].pc # "answered" => rq[r].by \in {Nil, r}
        /\ rq[r].pc = "store" \/ rq[r].by = r => rq[r].ran
        /\ rq[r].ran => rq[r].pc \in {"store", "answered", "dead"}
        /\ rq[r].minted # Nil => rq[r].by # Nil

\* The owner of a token that some request made and answered with is the same in
\* memory and in gateway.json, whatever saves failed in between.
TokensKept ==
    \A r \in Reqs : rq[r].minted # Nil /\ rq[r].ran =>
        /\ rq[r].op.id \in Users
        /\ meta.owner[rq[r].minted] = rq[r].op.id
        /\ disk.owner[rq[r].minted] = rq[r].op.id

\* An entry of the cache is the answer of a finished request of this life with
\* its replay key.
CacheHolds ==
    \A k \in DOMAIN idem :
        /\ idem[k].by \in Reqs
        /\ LET q == rq[idem[k].by]
           IN  /\ q.pc = "answered" /\ q.ran /\ q.life = life
               /\ q.status = idem[k].status
               /\ Keyed(q) /\ IdemKey(q) = k

\* A replayed answer is that of a finished request with the same replay key.
ReplaysHold ==
    \A r \in Reqs :
        rq[r].pc = "answered" /\ rq[r].by \notin {Nil, r} =>
            LET q == rq[rq[r].by]
            IN  /\ q.pc = "answered" /\ q.ran /\ q.status = rq[r].status
                /\ q.life = rq[r].life /\ q.minted = rq[r].minted
                /\ Keyed(q) /\ Keyed(rq[r]) /\ IdemKey(q) = IdemKey(rq[r])

IInv ==
    /\ Typed
    /\ Underway
    /\ TokensKept
    /\ CacheHolds
    /\ ReplaysHold

(***************************************************************************)
(* Every step preserves the invariant.                                     *)
(***************************************************************************)

\* The entry that x, the record of request r, may have in the cache under k.
Entry(x, k) ==
    /\ x.pc = "answered" /\ x.ran /\ x.life = life
    /\ Keyed(x) /\ IdemKey(x) = k

\* What the answer in x may have been copied from.
Source(x, q) ==
    /\ q.pc = "answered" /\ q.ran /\ q.status = x.status
    /\ q.life = x.life /\ q.minted = x.minted
    /\ Keyed(q) /\ Keyed(x) /\ IdemKey(q) = IdemKey(x)

\* One request, not yet answered, goes on; answers given keep their tokens.
LEMMA RequestKeeps ==
    ASSUME IInv, NEW r \in Reqs, rq[r].pc # "answered",
           NEW x \in Records, rq' = [rq EXCEPT ![r] = x],
           x.pc \in {"routed", "run", "store"} => x.life = life /\ x.op \in Operations,
           x.pc # "answered" => x.by \in {Nil, r},
           x.pc = "store" \/ x.by = r => x.ran,
           x.ran => x.pc \in {"store", "answered", "dead"},
           x.minted # Nil => x.by # Nil,
           meta' \in Metas, disk' \in Metas,
           \A q \in Reqs : rq[q].minted # Nil /\ rq[q].ran =>
               /\ meta'.owner[rq[q].minted] = rq[q].op.id
               /\ disk'.owner[rq[q].minted] = rq[q].op.id,
           x.minted # Nil /\ x.ran =>
                             /\ x.op.id \in Users
                             /\ meta'.owner[x.minted] = x.op.id
                             /\ disk'.owner[x.minted] = x.op.id,
           \A k \in DOMAIN idem' :
               \/ k \in DOMAIN idem /\ idem'[k] = idem[k]
               \/ idem'[k].by = r /\ idem'[k].status = x.status /\ Entry(x, k),
           x.pc = "answered" /\ x.by \notin {Nil, r} => Source(x, rq[x.by]),
           UNCHANGED <<now, life>>
    PROVE  IInv'
<1>1. rq'[r] = x /\ \A q \in Reqs \ {r} : rq'[q] = rq[q]
  BY DEF IInv, Typed
<1>2. Typed'
  BY DEF IInv, Typed
<1>3. Underway'
  BY <1>1 DEF IInv, Underway
<1>4. TokensKept'
  BY <1>1 DEF IInv, TokensKept
<1>5. CacheHolds'
  <2> SUFFICES ASSUME NEW k \in DOMAIN idem'
               PROVE  /\ idem'[k].by \in Reqs
                      /\ Entry(rq'[idem'[k].by], k)
                      /\ rq'[idem'[k].by].status = idem'[k].status
    BY DEF CacheHolds, Entry
  <2>1. CASE k \in DOMAIN idem /\ idem'[k] = idem[k]
    <3>1. idem[k].by \in Reqs /\ idem[k].by # r /\ Entry(rq[idem[k].by], k)
          /\ rq[idem[k].by].status = idem[k].status
      BY <2>1 DEF IInv, CacheHolds, Entry
    <3> QED BY <1>1, <2>1, <3>1
  <2>2. CASE idem'[k].by = r /\ idem'[k].status = x.status /\ Entry(x, k)
    BY <1>1, <2>2
  <2> QED BY <2>1, <2>2
<1>6. ReplaysHold'
  <2> SUFFICES ASSUME NEW q \in Reqs, rq'[q].pc = "answered", rq'[q].by \notin {Nil, q}
               PROVE  Source(rq'[q], rq'[rq'[q].by])
    BY DEF ReplaysHold, Source
  <2>1. CASE q = r
    <3>1. x.by \in Reqs \ {r}
      BY <1>1, <2>1 DEF Records
    <3> QED BY <1>1, <2>1, <3>1
  <2>2. CASE q # r
    <3>1. rq[q].by \in Reqs /\ Source(rq[q], rq[rq[q].by])
      BY <1>1, <2>2 DEF IInv, Typed, Records, ReplaysHold, Source
    <3>2. rq[q].by # r
      BY <3>1 DEF Source
    <3> QED BY <1>1, <2>2, <3>1, <3>2
  <2> QED BY <2>1, <2>2
<1> QED BY <1>2, <1>3, <1>4, <1>5, <1>6 DEF IInv

\* A request comes in: it is routed with nothing made yet, or turned away.
LEMMA ReceiveKeeps ==
    ASSUME IInv, NEW r \in Reqs, NEW t \in Tokens \cup {Nil}, NEW c \in Calls,
           Receive(r, t, c.op, c.key)
    PROVE  IInv'
<1>1. c.op \in Operations /\ c.key \in Keys \cup {Nil}
  BY CallsAreOperations
<1>2. Authenticate(t) \in Users \cup {Nil} /\ Ran(Answered) \in SUBSET Reqs
  BY DEF Authenticate, Ran, Answered, In, IInv, Typed, Metas
<1>3. \A n \in Nat \ {0} : Sent(t, c.op, c.key, n) =
        [Unsent EXCEPT !.pc = "answered", !.status = n]
  BY DEF Sent
<1>4. Sent(t, c.op, c.key, 0) =
        [Unsent EXCEPT !.pc = "routed", !.tok = t, !.op = c.op, !.key = c.key,
                       !.user = Authenticate(t), !.seen = Ran(Answered), !.life = life]
  BY DEF Sent
<1>5. PICK n \in Nat : rq' = [rq EXCEPT ![r] = Sent(t, c.op, c.key, n)]
  BY DEF Receive, FrontGate, ScopeGate
<1> DEFINE x == Sent(t, c.op, c.key, n)
<1>6. x \in Records /\ x.by = Nil /\ x.minted = Nil /\ x.pc \in {"routed", "answered"}
      /\ x.ran = FALSE
      /\ (x.pc = "routed" => x.life = life /\ x.op = c.op)
  <2>1. CASE n = 0
    <3>1. x = [Unsent EXCEPT !.pc = "routed", !.tok = t, !.op = c.op, !.key = c.key,
                             !.user = Authenticate(t), !.seen = Ran(Answered), !.life = life]
      BY <1>4, <2>1
    <3>2. x = [pc |-> "routed", tok |-> t, op |-> c.op, key |-> c.key,
               user |-> Authenticate(t), status |-> 0, by |-> Nil, minted |-> Nil,
               ran |-> FALSE, seen |-> Ran(Answered), life |-> life, at |-> 0]
      BY <3>1 DEF Unsent
    <3>3. life \in Nat
      BY DEF IInv, Typed
    <3> HIDE DEF x
    <3> QED BY <1>1, <1>2, <3>2, <3>3 DEF Records
  <2>2. CASE n # 0
    <3>1. x = [Unsent EXCEPT !.pc = "answered", !.status = n]
      BY <1>3, <2>2
    <3>2. x = [pc |-> "answered", tok |-> Nil, op |-> Nil, key |-> Nil, user |-> Nil,
               status |-> n, by |-> Nil, minted |-> Nil, ran |-> FALSE,
               seen |-> {}, life |-> 0, at |-> 0]
      BY <3>1 DEF Unsent
    <3> HIDE DEF x
    <3> QED BY <3>2 DEF Records
  <2> QED BY <2>1, <2>2
<1>7. rq[r].pc = "idle" /\ UNCHANGED <<meta, disk, idem, now, life>>
  BY DEF Receive
<1> HIDE DEF x
<1>8. rq' = [rq EXCEPT ![r] = x]
  BY <1>5 DEF x
<1>9. /\ meta' \in Metas /\ disk' \in Metas
      /\ \A p \in Reqs : rq[p].minted # Nil /\ rq[p].ran =>
           meta'.owner[rq[p].minted] = rq[p].op.id /\ disk'.owner[rq[p].minted] = rq[p].op.id
      /\ \A j \in DOMAIN idem' : j \in DOMAIN idem /\ idem'[j] = idem[j]
  BY <1>7 DEF IInv, Typed, TokensKept
<1> QED BY <1>1, <1>6, <1>7, <1>8, <1>9, RequestNames, RequestKeeps

\* idemLookup: an answer of the cache is copied with the token in it.
LEMMA LookupKeeps ==
    ASSUME IInv, NEW r \in Reqs, Lookup(r)
    PROVE  IInv'
<1> DEFINE q == rq[r]
           k == IdemKey(q)
<1>1. q \in Records /\ q.pc = "routed" /\ q.life = life /\ q.op \in Operations
      /\ q.by \in {Nil, r} /\ (q.by = r => q.ran) /\ (q.minted # Nil => q.by # Nil)
      /\ UNCHANGED <<meta, disk, now, life>> /\ now \in Nat
  BY DEF Lookup, IInv, Typed, Underway
<1>2. CASE Keyed(q) /\ Cached(q) /\ ~Expired(q)
  <2> DEFINE b == idem[k].by
             x == [q EXCEPT !.pc = "answered", !.status = idem[k].status, !.by = b,
                            !.at = now, !.minted = rq[b].minted]
  <2>1. k \in DOMAIN idem
    BY <1>2 DEF Cached
  <2>2. b \in Reqs /\ rq[b].pc = "answered" /\ rq[b].ran /\ rq[b].life = life
        /\ rq[b].status = idem[k].status /\ Keyed(rq[b]) /\ IdemKey(rq[b]) = k
        /\ rq[b] \in Records
    BY <2>1 DEF IInv, CacheHolds, Typed
  <2>3. /\ x \in Records
        /\ x.pc = "answered" /\ x.status = rq[b].status /\ x.by = b
        /\ x.minted = rq[b].minted /\ x.ran = q.ran
        /\ x.op = q.op /\ x.key = q.key /\ x.user = q.user /\ x.life = q.life
    BY <1>1, <2>2 DEF Records
  <2>4. rq' = [rq EXCEPT ![r] = x] /\ idem' = idem
    BY <1>2 DEF Lookup, IInv, Typed
  <2> HIDE DEF x, b
  <2>5. Source(x, rq[b])
    <3>1. IdemKey(x) = IdemKey(q)
      BY <2>3 DEF IdemKey, WhoseKey
    <3>2. Keyed(x)
      BY <1>2, <2>3 DEF Keyed
    <3> QED BY <1>1, <2>2, <2>3, <3>1, <3>2 DEF Source
  <2>6. /\ b # r /\ b # Nil /\ x.ran = FALSE
        /\ x.minted # Nil => x.by # Nil
    <3>1. b # r /\ b # Nil
      BY <1>1, <2>2, RequestNames
    <3>2. q.ran = FALSE
      BY <1>1 DEF IInv, Underway, Records
    <3> QED BY <2>3, <3>1, <3>2, RequestNames
  <2>7. meta' \in Metas /\ disk' \in Metas
    BY <1>1 DEF IInv, Typed
  <2>8. \A p \in Reqs : rq[p].minted # Nil /\ rq[p].ran =>
          meta'.owner[rq[p].minted] = rq[p].op.id /\ disk'.owner[rq[p].minted] = rq[p].op.id
    BY <1>1 DEF IInv, TokensKept
  <2>9. \A j \in DOMAIN idem' : j \in DOMAIN idem /\ idem'[j] = idem[j]
    BY <2>4
  <2> QED BY <1>1, <2>3, <2>4, <2>5, <2>6, <2>7, <2>8, <2>9, RequestKeeps
<1>3. CASE ~(Keyed(q) /\ Cached(q) /\ ~Expired(q))
  <2> DEFINE x == [q EXCEPT !.pc = "run", !.at = now]
  <2>1. x \in Records /\ x.pc = "run" /\ x.life = life /\ x.op = q.op /\ x.by = q.by
        /\ x.minted = q.minted /\ x.ran = q.ran
    BY <1>1 DEF Records
  <2>2. rq' = [rq EXCEPT ![r] = x] /\ (idem' = idem \/ idem' = Without(idem, k))
    BY <1>3 DEF Lookup, IInv, Typed
  <2>3. \A j \in DOMAIN idem' : j \in DOMAIN idem /\ idem'[j] = idem[j]
    BY <2>2 DEF Without
  <2>4. /\ meta' \in Metas /\ disk' \in Metas /\ ~q.ran
        /\ \A p \in Reqs : rq[p].minted # Nil /\ rq[p].ran =>
             meta'.owner[rq[p].minted] = rq[p].op.id /\ disk'.owner[rq[p].minted] = rq[p].op.id
    BY <1>1 DEF IInv, Typed, TokensKept, Underway
  <2> HIDE DEF x
  <2> QED BY <1>1, <2>1, <2>2, <2>3, <2>4, RequestKeeps
<1> QED BY <1>2, <1>3

\* The handler is through: the token it made, if it answers with one, belongs
\* to the user it was asked for, in memory and on disk.
LEMMA FinishKeeps ==
    ASSUME IInv, NEW r \in Reqs, rq[r].pc = "run",
           NEW status \in Nat, NEW tok \in Tokens \cup {Nil}, Finish(r, status, tok),
           meta' \in Metas, disk' \in Metas,
           \A p \in Reqs : rq[p].minted # Nil /\ rq[p].ran =>
               /\ meta'.owner[rq[p].minted] = rq[p].op.id
               /\ disk'.owner[rq[p].minted] = rq[p].op.id,
           status = 201 /\ tok # Nil => /\ rq[r].op.id \in Users
                                       /\ meta'.owner[tok] = rq[r].op.id
                                       /\ disk'.owner[tok] = rq[r].op.id,
           UNCHANGED <<idem, now, life>>
    PROVE  IInv'
<1> DEFINE q == rq[r]
           shown == IF status = 201 THEN tok ELSE Nil
           x == [q EXCEPT !.pc = "store", !.status = status, !.by = r, !.ran = TRUE,
                          !.minted = shown]
<1>0. shown \in Tokens \cup {Nil}
  OBVIOUS
<1>1. q \in Records /\ q.life = life /\ q.op \in Operations
  BY DEF IInv, Typed, Underway
<1>3. rq' = [rq EXCEPT ![r] = x]
  BY DEF Finish, IInv, Typed
<1> HIDE DEF shown
<1>2. x \in Records /\ x.pc = "store" /\ x.by = r /\ x.ran = TRUE /\ x.op = q.op
      /\ x.life = q.life /\ x.minted = shown
  BY <1>0, <1>1 DEF Records
<1>4. \A j \in DOMAIN idem' : j \in DOMAIN idem /\ idem'[j] = idem[j]
  OBVIOUS
<1> HIDE DEF x
<1>5. x.minted # Nil => /\ x.op.id \in Users
                        /\ meta'.owner[x.minted] = x.op.id
                        /\ disk'.owner[x.minted] = x.op.id
  BY <1>2 DEF shown
<1> QED BY <1>1, <1>2, <1>3, <1>4, <1>5, RequestNames, RequestKeeps

\* NewToken: the minted token is nobody's, so no answer carries it yet.
LEMMA FreshFacts ==
    ASSUME IInv, FreshTokens # {}, NEW m \in Metas, m.owner = meta.owner,
           NEW u \in Users, NEW list \in SUBSET Orgs
    PROVE  /\ FreshToken \in Tokens
           /\ NewToken(m, u, list) \in Metas
           /\ NewToken(m, u, list).owner[FreshToken] = u
           /\ \A p \in Reqs : rq[p].minted # Nil /\ rq[p].ran =>
                NewToken(m, u, list).owner[rq[p].minted] = rq[p].op.id
<1> DEFINE f == FreshToken
           new == NewToken(m, u, list)
<1>1. f \in Tokens /\ meta.owner[f] = Nil
  BY DEF FreshToken, FreshTokens
<1> HIDE DEF f
<1>2. new = [m EXCEPT !.owner = [m.owner EXCEPT ![f] = u],
                      !.scope = [m.scope EXCEPT ![f] = IF list = {} THEN Nil ELSE list]]
  BY DEF NewToken, f, Metas
<1>3. new \in Metas /\ new.owner = [m.owner EXCEPT ![f] = u]
  <2> DEFINE o == [m.owner EXCEPT ![f] = u]
             s == [m.scope EXCEPT ![f] = IF list = {} THEN Nil ELSE list]
  <2>1. o \in [Tokens -> Users \cup {Nil}]
    BY <1>1 DEF Metas
  <2>2. s \in [Tokens -> (SUBSET Orgs) \cup {Nil}]
    BY <1>1 DEF Metas
  <2>3. new = [m EXCEPT !.owner = o, !.scope = s]
    BY <1>2
  <2> HIDE DEF o, s, new
  <2>4. new \in Metas /\ new.owner = o
    BY <2>1, <2>2, <2>3 DEF Metas
  <2> QED BY <2>4 DEF o
<1>4. ASSUME NEW p \in Reqs, rq[p].minted # Nil, rq[p].ran
      PROVE  new.owner[rq[p].minted] = rq[p].op.id
  <2>1. rq[p].minted \in Tokens /\ rq[p].op.id \in Users
        /\ meta.owner[rq[p].minted] = rq[p].op.id
    BY <1>4 DEF IInv, Typed, Records, TokensKept
  <2>2. rq[p].minted # f
    BY <1>1, <2>1, RequestNames
  <2> QED BY <1>3, <2>1, <2>2 DEF Metas
<1>5. new.owner[f] = u
  BY <1>1, <1>3 DEF Metas
<1> QED BY <1>1, <1>3, <1>4, <1>5 DEF f

\* saveMeta, whether the write succeeds or fails.
LEMMA SavesKeeps ==
    ASSUME IInv, NEW r \in Reqs, rq[r].pc = "run", rq[r].op.id \in Users,
           FreshTokens # {}, NEW m \in Metas, m.owner = meta.owner,
           NEW list \in SUBSET Orgs,
           Saves(r, NewToken(m, rq[r].op.id, list), FreshToken),
           UNCHANGED <<idem, now, life>>
    PROVE  IInv'
<1> DEFINE f == FreshToken
           new == NewToken(m, rq[r].op.id, list)
<1>1. f \in Tokens /\ new \in Metas /\ new.owner[f] = rq[r].op.id
      /\ \A p \in Reqs : rq[p].minted # Nil /\ rq[p].ran =>
           new.owner[rq[p].minted] = rq[p].op.id
  BY FreshFacts
<1>2. meta' = new /\ ((disk' = new /\ Finish(r, 201, f)) \/ (disk' = disk /\ Finish(r, 500, f)))
  BY DEF Saves
<1>3. disk \in Metas /\ \A p \in Reqs : rq[p].minted # Nil /\ rq[p].ran =>
                            disk.owner[rq[p].minted] = rq[p].op.id
  BY DEF IInv, Typed, TokensKept
<1> HIDE DEF f, new
<1>4. CASE disk' = new /\ Finish(r, 201, f)
  BY <1>1, <1>2, <1>4, FinishKeeps
<1>5. CASE disk' = disk /\ Finish(r, 500, f)
  BY <1>1, <1>2, <1>3, <1>5, FinishKeeps
<1> QED BY <1>2, <1>4, <1>5

\* The handlers.
LEMMA ExecuteKeeps ==
    ASSUME IInv, NEW r \in Reqs, Execute(r)
    PROVE  IInv'
<1> DEFINE op == rq[r].op
<1>1. rq[r].pc = "run" /\ op \in Operations /\ UNCHANGED <<idem, now, life>>
  BY DEF Execute, IInv, Underway
<1>2. meta \in Metas /\ disk \in Metas /\ \A p \in Reqs : rq[p].minted # Nil /\ rq[p].ran =>
        meta.owner[rq[p].minted] = rq[p].op.id /\ disk.owner[rq[p].minted] = rq[p].op.id
  BY DEF IInv, Typed, TokensKept
<1>3. ASSUME NEW n \in Nat, Finish(r, n, Nil), UNCHANGED <<meta, disk>> PROVE IInv'
  BY <1>1, <1>2, <1>3, FinishKeeps
<1>4. CASE Issue(r) \/ DeleteOrg(r, op.org)
  BY <1>3, <1>4 DEF Issue, DeleteOrg
<1>5. CASE op.kind = "user" /\ CreateUser(r, op)
  <2>1. op \in [kind : {"user"}, id : Users, role : Roles, orgs : SUBSET Orgs]
    BY <1>1, <1>5 DEF Operations
  <2>2. CASE meta.users[op.id] # Nil
    BY <1>3, <1>5, <2>2 DEF CreateUser, Refuses
  <2>3. CASE meta.users[op.id] = Nil
    <3> DEFINE m == [meta EXCEPT !.users[op.id] = [role |-> op.role, orgs |-> op.orgs]]
    <3>1. m \in Metas /\ m.owner = meta.owner
      BY <1>2, <2>1 DEF Metas, Accounts
    <3>2. FreshTokens # {} /\ Saves(r, NewToken(m, op.id, {}), FreshToken)
      BY <1>5, <2>3 DEF CreateUser
    <3> HIDE DEF m
    <3>3. op.id \in Users /\ {} \in SUBSET Orgs
      BY <2>1
    <3> QED BY <1>1, <3>1, <3>2, <3>3, SavesKeeps
  <2> QED BY <2>2, <2>3
<1>6. CASE op.kind = "token" /\ UserToken(r, op)
  <2>1. op \in [kind : {"token"}, id : Users, orgs : SUBSET Orgs]
    BY <1>1, <1>6 DEF Operations
  <2>2. CASE meta.users[op.id] = Nil
    BY <1>3, <1>6, <2>2 DEF UserToken, Refuses
  <2>3. CASE meta.users[op.id] # Nil
    <3>1. FreshTokens # {} /\ Saves(r, NewToken(meta, op.id, op.orgs), FreshToken)
      BY <1>6, <2>3 DEF UserToken
    <3>2. op.id \in Users /\ op.orgs \in SUBSET Orgs
      BY <2>1
    <3> QED BY <1>1, <1>2, <3>1, <3>2, SavesKeeps
  <2> QED BY <2>2, <2>3
<1> QED BY <1>4, <1>5, <1>6 DEF Execute

\* idemStore.
LEMMA StoreKeeps ==
    ASSUME IInv, NEW r \in Reqs, Store(r)
    PROVE  IInv'
<1> DEFINE q == rq[r]
           x == [q EXCEPT !.pc = "answered"]
<1>1. q \in Records /\ q.pc = "store" /\ q.life = life /\ q.ran /\ q.by \in {Nil, r}
      /\ (q.minted # Nil => q.by # Nil)
      /\ UNCHANGED <<meta, disk, now, life>>
  BY DEF Store, IInv, Typed, Underway
<1>2. /\ x \in Records /\ x.pc = "answered" /\ x.ran = q.ran /\ x.life = life
      /\ x.op = q.op /\ x.key = q.key /\ x.user = q.user /\ x.status = q.status
      /\ x.by = q.by /\ x.minted = q.minted
  BY <1>1 DEF Records
<1>3. rq' = [rq EXCEPT ![r] = x]
  BY DEF Store, IInv, Typed
<1> HIDE DEF x
<1>4. \A k \in DOMAIN idem' :
        \/ k \in DOMAIN idem /\ idem'[k] = idem[k]
        \/ Keyed(q) /\ k = IdemKey(q) /\ idem'[k] = [status |-> q.status, by |-> r, ts |-> now]
  <2> DEFINE kept == IF Cardinality(DOMAIN idem) > IdemCap THEN <<>> ELSE idem
  <2>1. \A k \in DOMAIN kept : k \in DOMAIN idem /\ kept[k] = idem[k]
    OBVIOUS
  <2>2. idem' = IF Keyed(q)
                THEN [k \in DOMAIN kept \cup {IdemKey(q)} |->
                        IF k = IdemKey(q) THEN [status |-> q.status, by |-> r, ts |-> now]
                        ELSE kept[k]]
                ELSE idem
    BY DEF Store
  <2> HIDE DEF kept
  <2> QED BY <2>1, <2>2
<1>5. Keyed(q) => Entry(x, IdemKey(q))
  BY <1>1, <1>2 DEF Entry, IdemKey, WhoseKey, Keyed
<1>6. \A k \in DOMAIN idem' :
        \/ k \in DOMAIN idem /\ idem'[k] = idem[k]
        \/ idem'[k].by = r /\ idem'[k].status = x.status /\ Entry(x, k)
  BY <1>2, <1>4, <1>5
<1>7. x.minted # Nil => /\ x.op.id \in Users
                        /\ meta'.owner[x.minted] = x.op.id
                        /\ disk'.owner[x.minted] = x.op.id
  BY <1>1, <1>2 DEF IInv, TokensKept
<1>8. meta' \in Metas /\ disk' \in Metas /\ \A p \in Reqs : rq[p].minted # Nil /\ rq[p].ran =>
        meta'.owner[rq[p].minted] = rq[p].op.id /\ disk'.owner[rq[p].minted] = rq[p].op.id
  BY <1>1 DEF IInv, Typed, TokensKept
<1> QED BY <1>1, <1>2, <1>3, <1>6, <1>7, <1>8, RequestKeeps

\* A restart forgets the cache and what was not saved, and no answer needs it.
LEMMA RestartKeeps ==
    ASSUME IInv, Restart
    PROVE  IInv'
<1>1. life' = life + 1 /\ meta' = disk /\ disk' = disk /\ idem' = <<>> /\ now' = now
  BY DEF Restart
<1> DEFINE lost == [Unsent EXCEPT !.pc = "dead"]
<1>2. lost \in Records /\ lost.pc = "dead" /\ lost.by = Nil /\ lost.minted = Nil
  <2>1. Unsent \in Records /\ Unsent.by = Nil /\ Unsent.minted = Nil
    BY DEF Unsent, Records
  <2> QED BY <2>1 DEF Records
<1> HIDE DEF lost
<1>3. ASSUME NEW r \in Reqs
      PROVE  /\ rq'[r] \in Records
             /\ \/ rq[r].pc \in {"idle", "answered"} /\ rq'[r] = rq[r]
                \/ /\ rq[r].pc \notin {"idle", "answered"} /\ rq'[r].pc = "dead"
                   /\ \/ rq'[r].by = Nil /\ rq'[r].minted = Nil
                      \/ /\ rq'[r].minted = rq[r].minted /\ rq'[r].op = rq[r].op
                         /\ rq'[r].by = rq[r].by /\ rq[r].ran /\ rq'[r].ran
  <2>1. rq[r] \in Records
    BY DEF IInv, Typed
  <2>2. CASE rq[r].pc \in {"idle", "answered"}
    <3>1. rq'[r] = rq[r]
      BY <2>2 DEF Restart
    <3> QED BY <2>1, <2>2, <3>1
  <2>3. CASE rq[r].pc \notin {"idle", "answered"} /\ rq[r].ran
    <3>1. rq'[r] = [rq[r] EXCEPT !.pc = "dead"]
      BY <2>3 DEF Restart
    <3> QED BY <2>1, <2>3, <3>1 DEF Records
  <2>4. CASE rq[r].pc \notin {"idle", "answered"} /\ ~rq[r].ran
    <3>1. rq'[r] = lost
      BY <2>4 DEF Restart, lost
    <3> QED BY <1>2, <2>4, <3>1
  <2> QED BY <2>2, <2>3, <2>4
<1>4. Typed'
  <2>1. rq' \in [Reqs -> Records]
    <3>1. rq' = [r \in Reqs |-> rq'[r]]
      BY DEF Restart
    <3> QED BY <1>3, <3>1
  <2> QED BY <1>1, <2>1 DEF IInv, Typed
<1>5. Underway'
  <2> SUFFICES ASSUME NEW p \in Reqs
               PROVE  /\ rq'[p].pc \in {"routed", "run", "store"} =>
                           rq'[p].life = life' /\ rq'[p].op \in Operations
                      /\ rq'[p].pc # "answered" => rq'[p].by \in {Nil, p}
                      /\ rq'[p].pc = "store" \/ rq'[p].by = p => rq'[p].ran
                      /\ rq'[p].ran => rq'[p].pc \in {"store", "answered", "dead"}
                      /\ rq'[p].minted # Nil => rq'[p].by # Nil
    BY DEF Underway
  <2> QED BY <1>3, RequestNames DEF IInv, Underway
<1>6. TokensKept'
  BY <1>1, <1>3 DEF IInv, TokensKept
<1>7. CacheHolds'
  BY <1>1 DEF CacheHolds
<1>8. ReplaysHold'
  <2> SUFFICES ASSUME NEW q \in Reqs, rq'[q].pc = "answered", rq'[q].by \notin {Nil, q}
               PROVE  Source(rq'[q], rq'[rq'[q].by])
    BY DEF ReplaysHold, Source
  <2>1. rq'[q] = rq[q] /\ rq[q].by \in Reqs /\ Source(rq[q], rq[rq[q].by])
    BY <1>3 DEF IInv, Typed, Records, ReplaysHold, Source
  <2>2. rq'[rq[q].by] = rq[rq[q].by]
    BY <1>3, <2>1 DEF Source
  <2> QED BY <2>1, <2>2
<1> QED BY <1>4, <1>5, <1>6, <1>7, <1>8 DEF IInv

\* The invariant holds at every moment.
LEMMA Invariance == Spec => []IInv
<1>1. Init => IInv
  <2> SUFFICES ASSUME Init PROVE IInv
    OBVIOUS
  <2>1. Unsent \in Records
    BY DEF Unsent, Records
  <2>2. meta \in Metas
    BY RequestNames DEF Init, Metas, Accounts, Roles
  <2>3. Typed
    BY <2>1, <2>2 DEF Init, Typed
  <2>4. Underway /\ TokensKept /\ CacheHolds /\ ReplaysHold
    <3>1. \A r \in Reqs : rq[r] = Unsent /\ r # Nil
      BY RequestNames DEF Init
    <3>2. idem = <<>>
      BY DEF Init
    <3> QED BY <3>1, <3>2 DEF Unsent, Underway, TokensKept, CacheHolds, ReplaysHold
  <2> QED BY <2>3, <2>4 DEF IInv
<1>2. IInv /\ [Next]_vars => IInv'
  <2> SUFFICES ASSUME IInv, [Next]_vars PROVE IInv'
    OBVIOUS
  <2>1. ASSUME UNCHANGED <<meta, disk, idem, rq, life>>, now' \in Nat PROVE IInv'
    BY <2>1 DEF IInv, Typed, Underway, TokensKept, CacheHolds, ReplaysHold
  <2>2. CASE Tick
    BY <2>1, <2>2 DEF Tick, IInv, Typed
  <2>3. ASSUME NEW g \in Orgs, CreateOrg(g) PROVE IInv'
    BY <2>1, <2>3 DEF CreateOrg, IInv, Typed
  <2>4. CASE UNCHANGED vars
    BY <2>1, <2>4 DEF vars, IInv, Typed
  <2> QED BY <2>2, <2>3, <2>4, ReceiveKeeps, LookupKeeps, ExecuteKeeps, StoreKeeps,
             RestartKeeps DEF Next
<1> QED BY <1>1, <1>2, PTL DEF Spec

(***************************************************************************)
(* What follows from it.                                                   *)
(***************************************************************************)

\* handleCreateUser and handleUserToken show a raw token once; whoever was
\* shown one, in the first answer or in a replay of it, stays authenticated by
\* it across failed saves, restarts and any number of concurrent requests.
THEOREM TokensDurable == Spec => []ShownTokenWorks
<1>1. ASSUME IInv, NEW r \in Reqs, rq[r].pc = "answered", rq[r].minted # Nil
      PROVE  LET q == rq[rq[r].by]
             IN  q.ran /\ q.minted = rq[r].minted /\ meta.owner[q.minted] = q.op.id
  <2>1. rq[r].by \in Reqs \cup {Nil} /\ rq[r].by # Nil
    BY <1>1 DEF IInv, Typed, Records, Underway
  <2>2. rq[rq[r].by].ran /\ rq[rq[r].by].minted = rq[r].minted
    <3>1. CASE rq[r].by = r
      BY <1>1, <3>1 DEF IInv, Underway
    <3>2. CASE rq[r].by # r
      BY <1>1, <2>1, <3>2 DEF IInv, ReplaysHold
    <3> QED BY <3>1, <3>2
  <2> QED BY <1>1, <2>1, <2>2 DEF IInv, TokensKept
<1>2. IInv => ShownTokenWorks
  BY <1>1 DEF ShownTokenWorks, Answered, In
<1> QED BY <1>2, Invariance, PTL
-----------------------------------------------------------------------------
(***************************************************************************)
(* The rate limiter.                                                       *)
(***************************************************************************)

\* A level is exact at a time, after the admissions a, when no window that ends
\* then leaves less, and one leaves no more.
Left(a, i, at) == Burst + Rate * (at - a[i]) - Cost * (Len(a) - i + 1)

Exact(a, level, at) ==
    /\ a \in Seq(Nat) /\ level \in Nat /\ level <= Burst
    /\ \A i \in 1..Len(a) : a[i] <= at /\ level <= Left(a, i, at)
    /\ level = Burst \/ \E i \in 1..Len(a) : level = Left(a, i, at)

\* Every bucket is, at its last update; a token without one was never admitted.
BucketsExact ==
    \A t \in Tokens :
        IF bucket[t] = Nil THEN admitted[t] = <<>>
        ELSE /\ bucket[t] \in Buckets
             /\ bucket[t].last <= now
             /\ Exact(admitted[t], bucket[t].level, bucket[t].last)

BucketMaps ==
    /\ bucket = [t \in Tokens |-> bucket[t]]
    /\ admitted = [t \in Tokens |-> admitted[t]]

\* A product over a sum, the one fact on multiplication that is needed.
LEMMA Distribute == \A c, x, y \in Int : c * (x + y) = c * x + c * y /\ c * x \in Int
  OBVIOUS

\* Time goes by: every window grows by the same amount.
LEMMA LeftGrows ==
  ASSUME NEW a \in Seq(Nat), NEW i \in 1..Len(a), NEW m \in Nat, NEW n \in Nat
  PROVE  Left(a, i, n) = Left(a, i, m) + Rate * (n - m)
         /\ Left(a, i, n) \in Int /\ Left(a, i, m) \in Int
<1>1. a[i] \in Nat /\ Len(a) \in Nat
  BY LenProperties, ElementOfSeq
<1>2. n - a[i] = (m - a[i]) + (n - m)
  BY <1>1
<1>3. Rate * (n - a[i]) = Rate * (m - a[i]) + Rate * (n - m)
  BY <1>1, <1>2, Distribute, LimiterParams
<1>4. Rate * (m - a[i]) \in Int /\ Rate * (n - a[i]) \in Int /\ Rate * (n - m) \in Int
      /\ Cost * (Len(a) - i + 1) \in Int
  BY <1>1, Distribute, LimiterParams
<1> DEFINE x == Rate * (m - a[i])
           y == Rate * (n - a[i])
           z == Rate * (n - m)
           w == Cost * (Len(a) - i + 1)
<1>5. x \in Int /\ y \in Int /\ z \in Int /\ w \in Int /\ y = x + z
  BY <1>3, <1>4
<1>6. Left(a, i, n) = Burst + y - w /\ Left(a, i, m) = Burst + x - w
  BY DEF Left
<1> HIDE DEF x, y, z, w
<1>7. Left(a, i, n) = Left(a, i, m) + z /\ Left(a, i, n) \in Int /\ Left(a, i, m) \in Int
  BY <1>5, <1>6, LimiterParams
<1> QED BY <1>7 DEF z

\* allow's refill keeps the level exact.
LEMMA RefillExact ==
  ASSUME now \in Nat, BucketsExact, NEW t \in Tokens
  PROVE  Exact(admitted[t], Refilled(t), now)
<1>1. CASE bucket[t] = Nil
  <2>1. admitted[t] = <<>> /\ Refilled(t) = Burst
    BY <1>1 DEF BucketsExact, Refilled
  <2>2. <<>> \in Seq(Nat) /\ \A i \in 1..Len(<<>>) : FALSE
    OBVIOUS
  <2> QED BY <2>1, <2>2, LimiterParams DEF Exact
<1>2. CASE bucket[t] # Nil
  <2> DEFINE a == admitted[t]
             level == bucket[t].level
             last == bucket[t].last
             gain == Rate * (now - last)
  <2>1. level \in Nat /\ last \in Nat /\ last <= now /\ Exact(a, level, last)
    BY <1>2 DEF BucketsExact, Buckets
  <2>2. gain \in Nat
    BY <2>1, LimiterParams
  <2>3. Refilled(t) = Min({Burst, level + gain})
    BY <1>2 DEF Refilled
  <2> HIDE DEF a, level, last, gain
  <2>4. Refilled(t) = IF Burst <= level + gain THEN Burst ELSE level + gain
    BY <2>1, <2>2, <2>3, LimiterParams DEF Min
  <2>5. \A i \in 1..Len(a) :
           /\ Left(a, i, now) = Left(a, i, last) + gain /\ Left(a, i, last) \in Int
           /\ a[i] \in Nat
    BY <2>1, LeftGrows, ElementOfSeq DEF gain, Exact
  <2>6. Exact(a, Refilled(t), now)
    <3>1. Refilled(t) \in Nat /\ Refilled(t) <= Burst /\ Refilled(t) <= level + gain
      BY <2>1, <2>2, <2>4, LimiterParams
    <3>2. \A i \in 1..Len(a) : a[i] <= now /\ Refilled(t) <= Left(a, i, now)
      BY <2>1, <2>2, <2>5, <3>1 DEF Exact
    <3>3. Refilled(t) = Burst \/ \E i \in 1..Len(a) : Refilled(t) = Left(a, i, now)
      BY <2>1, <2>2, <2>4, <2>5, LimiterParams DEF Exact
    <3> QED BY <2>1, <3>1, <3>2, <3>3 DEF Exact
  <2> QED BY <2>6 DEF a
<1> QED BY <1>1, <1>2

\* So does a request that takes its cost.
LEMMA AdmitExact ==
  ASSUME NEW a, NEW level, NEW at \in Nat, Exact(a, level, at), level >= Cost
  PROVE  Exact(Append(a, at), level - Cost, at)
<1> DEFINE b == Append(a, at)
           n == Len(a)
<1>1. b \in Seq(Nat) /\ Len(b) = n + 1 /\ n \in Nat /\ b[n + 1] = at
      /\ \A i \in 1..n : b[i] = a[i] /\ a[i] \in Nat
  BY AppendProperties, LenProperties, ElementOfSeq DEF Exact
<1> HIDE DEF b, n
<1>2. Left(b, n + 1, at) = Burst - Cost
  BY <1>1, LimiterParams DEF Left
<1>3. ASSUME NEW i \in 1..n
      PROVE  Left(b, i, at) = Left(a, i, at) - Cost /\ Left(a, i, at) \in Int
  <2>1. Cost * ((n - i + 1) + 1) = Cost * (n - i + 1) + Cost * 1
    BY <1>1, Distribute, LimiterParams
  <2>2. (n + 1) - i + 1 = (n - i + 1) + 1
    BY <1>1
  <2>3. Rate * (at - a[i]) \in Int /\ Cost * (n - i + 1) \in Int
    BY <1>1, LimiterParams
  <2>4. Left(b, i, at) = Burst + Rate * (at - a[i]) - (Cost * (n - i + 1) + Cost)
    BY <1>1, <2>1, <2>2, LimiterParams DEF Left
  <2>5. Left(a, i, at) = Burst + Rate * (at - a[i]) - Cost * (n - i + 1)
    BY DEF Left, n
  <2> QED BY <2>3, <2>4, <2>5, LimiterParams
<1>4. level - Cost \in Nat /\ level - Cost <= Burst
  BY LimiterParams DEF Exact
<1>5. ASSUME NEW i \in 1..Len(b) PROVE b[i] <= at /\ level - Cost <= Left(b, i, at)
  <2>1. CASE i = n + 1
    BY <1>1, <1>2, <2>1, LimiterParams DEF Exact
  <2>2. CASE i \in 1..n
    <3>1. level \in Nat /\ a[i] <= at /\ level <= Left(a, i, at)
      BY <2>2 DEF Exact, n
    <3>2. b[i] = a[i] /\ Left(b, i, at) = Left(a, i, at) - Cost /\ Left(a, i, at) \in Int
      BY <1>1, <1>3, <2>2
    <3> QED BY <3>1, <3>2, LimiterParams
  <2> QED BY <1>1, <2>1, <2>2
<1>6. \E i \in 1..Len(b) : level - Cost = Left(b, i, at)
  <2>1. CASE level = Burst
    <3>1. n + 1 \in 1..Len(b)
      BY <1>1
    <3> QED BY <1>2, <2>1, <3>1
  <2>2. CASE \E i \in 1..n : level = Left(a, i, at)
    <3>1. PICK i \in 1..n : level = Left(a, i, at)
      BY <2>2
    <3>2. i \in 1..Len(b) /\ level - Cost = Left(b, i, at)
      BY <1>1, <1>3, <3>1
    <3> QED BY <3>2
  <2> QED BY <2>1, <2>2 DEF Exact, n
<1>7. Exact(b, level - Cost, at)
  BY <1>1, <1>4, <1>5, <1>6 DEF Exact
<1> QED BY <1>7 DEF b

\* The limiter's part of every step.
LEMMA StepBuckets ==
  ASSUME IInv, BucketsExact, BucketMaps, [Next]_vars
  PROVE  BucketsExact' /\ BucketMaps'
<1>0. now \in Nat
  BY DEF IInv, Typed
<1>1. ASSUME UNCHANGED <<bucket, admitted>>, now' \in Nat, now <= now'
      PROVE  BucketsExact' /\ BucketMaps'
  BY <1>0, <1>1 DEF BucketsExact, BucketMaps, Buckets, Exact, Left
<1>2. ASSUME NEW r \in Reqs, NEW t \in Tokens \cup {Nil}, NEW c \in Calls,
             Receive(r, t, c.op, c.key)
      PROVE  BucketsExact' /\ BucketMaps'
  <2>0. now' = now
    BY <1>2 DEF Receive
  <2>1. CASE UNCHANGED <<bucket, admitted>>
    BY <1>0, <1>1, <2>0, <2>1
  <2>2. CASE FrontGate(t, c.op) = 0
    <3> DEFINE level == Refilled(t)
               b == [level |-> IF level < Cost THEN level ELSE level - Cost, last |-> now]
               a == IF level < Cost THEN admitted[t] ELSE Append(admitted[t], now)
    <3>1. t \in Tokens
      BY <2>2 DEF FrontGate, Authenticate
    <3>2. Exact(admitted[t], level, now)
      BY <1>0, <3>1, RefillExact
    <3>3. bucket' = [bucket EXCEPT ![t] = b] /\ admitted' = [admitted EXCEPT ![t] = a]
      BY <1>2, <2>2, <3>1 DEF Receive, BucketMaps
    <3>4. b.last = now /\ Exact(a, b.level, now) /\ b \in Buckets
      <4>1. level \in Nat
        BY <3>2 DEF Exact
      <4> HIDE DEF level
      <4>2. CASE level < Cost
        BY <1>0, <3>2, <4>1, <4>2 DEF Buckets
      <4>3. CASE level >= Cost
        <5>1. a = Append(admitted[t], now) /\ b.level = level - Cost
          BY <4>1, <4>3, LimiterParams
        <5>2. level - Cost \in Nat
          BY <4>1, <4>3, LimiterParams
        <5> QED BY <1>0, <3>2, <4>1, <4>3, <5>1, <5>2, AdmitExact DEF Buckets
      <4> QED BY <4>1, <4>2, <4>3, LimiterParams
    <3> HIDE DEF a, b
    <3>5. BucketMaps'
      BY <3>3 DEF BucketMaps
    <3>6. ASSUME NEW s \in Tokens
          PROVE  IF bucket'[s] = Nil THEN admitted'[s] = <<>>
                 ELSE /\ bucket'[s] \in Buckets
                      /\ bucket'[s].last <= now'
                      /\ Exact(admitted'[s], bucket'[s].level, bucket'[s].last)
      <4>1. CASE s = t
        <5>1. bucket'[s] = b /\ admitted'[s] = a
          BY <3>1, <3>3, <4>1 DEF BucketMaps
        <5> QED BY <1>0, <2>0, <3>4, <5>1, NilIsNoValue
      <4>2. CASE s # t
        <5>1. bucket'[s] = bucket[s] /\ admitted'[s] = admitted[s]
          BY <3>3, <4>2 DEF BucketMaps
        <5> QED BY <2>0, <5>1 DEF BucketsExact
      <4> QED BY <4>1, <4>2
    <3> QED BY <3>5, <3>6 DEF BucketsExact, Exact, Left
  <2> QED BY <1>2, <2>1, <2>2 DEF Receive
<1>3. CASE Restart
  BY <1>3 DEF Restart, BucketsExact, BucketMaps
<1>4. CASE Tick
  BY <1>0, <1>1, <1>4 DEF Tick
<1>5. ASSUME NEW g \in Orgs, CreateOrg(g) PROVE UNCHANGED <<bucket, admitted, now>>
  BY <1>5 DEF CreateOrg
<1>6. ASSUME NEW r \in Reqs, Lookup(r) \/ Execute(r) \/ Store(r)
      PROVE  UNCHANGED <<bucket, admitted, now>>
  BY <1>6 DEF Lookup, Execute, Store
<1>7. CASE UNCHANGED vars
  BY <1>0, <1>1, <1>7 DEF vars
<1> QED BY <1>0, <1>1, <1>2, <1>3, <1>4, <1>5, <1>6, <1>7 DEF Next

\* The limiter of ratelimit.go is the sliding bound it claims to be: for every
\* burst, rate and cost, and every schedule of requests and restarts, allow
\* refuses exactly what would exceed the bound over some past window.
THEOREM LimiterIsExact == Spec => []LimiterExact
<1>1. Init => BucketsExact /\ BucketMaps
  BY DEF Init, BucketsExact, BucketMaps
<1>2. IInv /\ BucketsExact /\ BucketMaps /\ [Next]_vars => BucketsExact' /\ BucketMaps'
  BY StepBuckets
<1>3. ASSUME IInv, BucketsExact PROVE LimiterExact
  <2> SUFFICES ASSUME NEW t \in Tokens
               PROVE  Refilled(t) >= Cost <=>
                        /\ Burst >= Cost
                        /\ \A i \in DOMAIN admitted[t] :
                             Cost * (Len(admitted[t]) - i + 2)
                               <= Burst + Rate * (now - admitted[t][i])
    BY DEF LimiterExact
  <2> DEFINE a == admitted[t]
             level == Refilled(t)
  <2>1. now \in Nat
    BY <1>3 DEF IInv, Typed
  <2>2. Exact(a, level, now)
    BY <1>3, <2>1, RefillExact
  <2> HIDE DEF a, level
  <2>3. DOMAIN a = 1..Len(a) /\ Len(a) \in Nat /\ level \in Nat
    BY <2>2, LenProperties DEF Exact
  <2>4. ASSUME NEW i \in 1..Len(a)
        PROVE  /\ Left(a, i, now) \in Int
               /\ Cost * (Len(a) - i + 2) <= Burst + Rate * (now - a[i]) <=>
                    Cost <= Left(a, i, now)
    <3>1. a[i] \in Nat
      BY <2>2, ElementOfSeq DEF Exact
    <3>2. Len(a) - i + 2 = (Len(a) - i + 1) + 1
      BY <2>3
    <3>3. Cost * (Len(a) - i + 2) = Cost * (Len(a) - i + 1) + Cost * 1
      BY <2>3, <3>2, Distribute, LimiterParams
    <3>4. Rate * (now - a[i]) \in Int /\ Cost * (Len(a) - i + 1) \in Int
      BY <2>1, <2>3, <3>1, Distribute, LimiterParams
    <3> QED BY <3>3, <3>4, LimiterParams DEF Left
  <2>5. ASSUME level >= Cost
        PROVE  Burst >= Cost /\ \A i \in 1..Len(a) : Cost <= Left(a, i, now)
    BY <2>2, <2>3, <2>4, <2>5, LimiterParams DEF Exact
  <2>6. ASSUME Burst >= Cost, \A i \in 1..Len(a) : Cost <= Left(a, i, now)
        PROVE  level >= Cost
    BY <2>2, <2>6 DEF Exact
  <2>7. level >= Cost <=>
          /\ Burst >= Cost
          /\ \A i \in DOMAIN a : Cost * (Len(a) - i + 2) <= Burst + Rate * (now - a[i])
    BY <2>3, <2>4, <2>5, <2>6
  <2> QED BY <2>7 DEF a, level
<1>4. IInv /\ BucketsExact => LimiterExact
  BY <1>3
<1> QED BY <1>1, <1>2, <1>4, Invariance, PTL DEF Spec
-----------------------------------------------------------------------------
(***************************************************************************)
(* Roles and scopes.                                                       *)
(***************************************************************************)

\* gateway.json has token t and its user as memory has them.
Agreed(t, m, d) ==
    /\ t \in Tokens /\ m.owner[t] \in Users
    /\ d.owner[t] = m.owner[t] /\ d.scope[t] = m.scope[t]
    /\ m.users[m.owner[t]] # Nil /\ d.users[m.owner[t]] = m.users[m.owner[t]]

\* The token in the answer of q is what q asked for, and so is its user.
Minted(q, m, d) ==
    /\ Agreed(q.minted, m, d)
    /\ m.owner[q.minted] = q.op.id
    /\ q.op.kind = "token" => m.scope[q.minted] = IF q.op.orgs = {} THEN Nil ELSE q.op.orgs
    /\ q.op.kind = "user" => m.users[q.op.id] = [role |-> q.op.role, orgs |-> q.op.orgs]

\* The token that q came with is its user's, and lets it in.
LetIn(q, m, d) ==
    /\ q.op \in Operations
    /\ Agreed(q.tok, m, d)
    /\ m.owner[q.tok] = q.user
    /\ m.users[q.user].role \in RolesOf(q.op)
    /\ q.op.kind = "issue" =>
         /\ m.users[q.user].orgs = {} \/ q.op.org \in m.users[q.user].orgs
         /\ m.scope[q.tok] = Nil \/ q.op.org \in m.scope[q.tok]

Sound(q, m, d) ==
    /\ q.minted # Nil => Agreed(q.minted, m, d)
    /\ q.minted # Nil /\ q.ran => Minted(q, m, d)
    /\ q.tok # Nil => LetIn(q, m, d)
    /\ q.pc \in {"routed", "run", "store"} \/ q.ran \/ q.by # Nil => q.tok # Nil
    /\ q.ran /\ q.op.kind = "user" /\ q.status = 201 => q.minted # Nil
    /\ q.pc = "routed" => ~q.ran

Scopes == Agreed(RootToken, meta, disk) /\ \A r \in Reqs : Sound(rq[r], meta, disk)

\* Users and tokens are only added, in memory first; a restart forgets some
\* that no answer showed.
Grown(m, d, n, e) ==
    /\ e \in {d, n}
    /\ \A t \in Tokens : m.owner[t] # Nil => n.owner[t] = m.owner[t] /\ n.scope[t] = m.scope[t]
    /\ \A u \in Users : m.users[u] # Nil => n.users[u] = m.users[u]

LEMMA AgreedKept ==
  ASSUME NEW m, NEW d, NEW n, NEW e, Grown(m, d, n, e) \/ (n = d /\ e = d),
         NEW t, Agreed(t, m, d)
  PROVE  /\ Agreed(t, n, e)
         /\ n.owner[t] = m.owner[t] /\ n.scope[t] = m.scope[t]
         /\ n.users[m.owner[t]] = m.users[m.owner[t]]
  BY RequestNames DEF Grown, Agreed

LEMMA SoundKept ==
  ASSUME NEW m, NEW d, NEW n, NEW e, Grown(m, d, n, e) \/ (n = d /\ e = d),
         NEW q, Sound(q, m, d)
  PROVE  Sound(q, n, e)
<1>0. q.minted # Nil => Agreed(q.minted, n, e)
  BY AgreedKept DEF Sound
<1>1. ASSUME q.minted # Nil, q.ran PROVE Minted(q, n, e)
  <2>1. Minted(q, m, d)
    BY <1>1 DEF Sound
  <2>2. Agreed(q.minted, m, d)
    BY <2>1 DEF Minted
  <2>3. Agreed(q.minted, n, e) /\ n.owner[q.minted] = m.owner[q.minted]
        /\ n.scope[q.minted] = m.scope[q.minted]
        /\ n.users[m.owner[q.minted]] = m.users[m.owner[q.minted]]
    BY <2>2, AgreedKept
  <2> QED BY <2>1, <2>3 DEF Minted
<1>2. ASSUME q.tok # Nil PROVE LetIn(q, n, e)
  <2>1. LetIn(q, m, d)
    BY <1>2 DEF Sound
  <2>2. Agreed(q.tok, m, d)
    BY <2>1 DEF LetIn
  <2>3. Agreed(q.tok, n, e) /\ n.owner[q.tok] = m.owner[q.tok]
        /\ n.scope[q.tok] = m.scope[q.tok]
        /\ n.users[m.owner[q.tok]] = m.users[m.owner[q.tok]]
    BY <2>2, AgreedKept
  <2> QED BY <2>1, <2>3 DEF LetIn
<1> QED BY <1>0, <1>1, <1>2 DEF Sound

\* One request goes on, to a sound record.
LEMMA ScopesKept ==
  ASSUME IInv, Scopes, NEW r \in Reqs, NEW x, rq' = [rq EXCEPT ![r] = x],
         Grown(meta, disk, meta', disk'), Sound(x, meta', disk')
  PROVE  Scopes'
<1>1. rq'[r] = x /\ \A q \in Reqs \ {r} : rq'[q] = rq[q]
  BY DEF IInv, Typed
<1>2. Agreed(RootToken, meta', disk')
  BY AgreedKept DEF Scopes
<1>3. \A q \in Reqs : Sound(rq[q], meta', disk')
  BY SoundKept DEF Scopes
<1>4. \A q \in Reqs : Sound(rq'[q], meta', disk')
  BY <1>1, <1>3
<1> QED BY <1>2, <1>4 DEF Scopes

\* NewToken adds one token and changes nothing else.
LEMMA NewTokenGrows ==
  ASSUME NEW m \in Metas, m.owner = meta.owner, m.scope = meta.scope,
         NEW u \in Users, NEW list \in SUBSET Orgs, FreshTokens # {},
         NEW new, new = NewToken(m, u, list)
  PROVE  /\ FreshToken \in Tokens /\ new.users = m.users
         /\ new.owner[FreshToken] = u
         /\ new.scope[FreshToken] = IF list = {} THEN Nil ELSE list
         /\ \A t \in Tokens : meta.owner[t] # Nil =>
              new.owner[t] = meta.owner[t] /\ new.scope[t] = meta.scope[t]
<1> DEFINE f == FreshToken
           o == [m.owner EXCEPT ![f] = u]
           s == [m.scope EXCEPT ![f] = IF list = {} THEN Nil ELSE list]
<1>1. f \in Tokens /\ meta.owner[f] = Nil
  BY DEF FreshToken, FreshTokens
<1>2. new = [m EXCEPT !.owner = o, !.scope = s]
  BY DEF NewToken, Metas
<1>3. o[f] = u /\ s[f] = (IF list = {} THEN Nil ELSE list)
      /\ \A t \in Tokens : t # f => o[t] = m.owner[t] /\ s[t] = m.scope[t]
  BY <1>1 DEF Metas
<1> HIDE DEF o, s, f
<1>4. new.owner = o /\ new.scope = s /\ new.users = m.users
  BY <1>2 DEF Metas
<1> QED BY <1>1, <1>3, <1>4 DEF f
\* The gates: only a token that some client was shown gets past them.
LEMMA ReceiveScopes ==
  ASSUME IInv, Scopes, NEW r \in Reqs, NEW t \in Tokens \cup {Nil}, NEW c \in Calls,
         Receive(r, t, c.op, c.key)
  PROVE  Scopes'
<1>1. PICK n \in Nat : /\ rq' = [rq EXCEPT ![r] = Sent(t, c.op, c.key, n)]
                       /\ n = 0 => FrontGate(t, c.op) = 0 /\ ScopeGate(t, c.op) = 0
  BY DEF Receive, FrontGate, ScopeGate
<1> DEFINE x == Sent(t, c.op, c.key, n)
<1>2. UNCHANGED <<meta, disk>> /\ Grown(meta, disk, meta', disk')
  BY DEF Receive, Grown
<1>3. CASE n # 0
  <2>1. x = [pc |-> "answered", tok |-> Nil, op |-> Nil, key |-> Nil, user |-> Nil,
             status |-> n, by |-> Nil, minted |-> Nil, ran |-> FALSE,
             seen |-> {}, life |-> 0, at |-> 0]
    BY <1>3 DEF Sent, Unsent
  <2> HIDE DEF x
  <2>2. x.minted = Nil /\ x.tok = Nil /\ x.pc = "answered" /\ x.ran = FALSE /\ x.by = Nil
    BY <2>1
  <2>3. Sound(x, meta', disk')
    BY <2>2 DEF Sound
  <2> QED BY <1>1, <1>2, <2>3, ScopesKept DEF x
<1>4. CASE n = 0
  <2>1. x = [pc |-> "routed", tok |-> t, op |-> c.op, key |-> c.key,
             user |-> Authenticate(t), status |-> 0, by |-> Nil, minted |-> Nil,
             ran |-> FALSE, seen |-> Ran(Answered), life |-> life, at |-> 0]
    BY <1>4 DEF Sent, Unsent
  <2> HIDE DEF x
  <2>2. x.minted = Nil /\ x.tok = t /\ x.ran = FALSE /\ x.op = c.op
        /\ x.user = Authenticate(t)
    BY <2>1
  <2>3. t \in Tokens /\ t \in Shown /\ t # Nil /\ Authenticate(t) = meta.owner[t]
    BY <1>1, <1>4, RequestNames DEF FrontGate, Authenticate, Receive
  <2>4. Agreed(t, meta, disk)
    <3>1. CASE t = RootToken
      BY <3>1 DEF Scopes
    <3>2. CASE t # RootToken
      <4>1. PICK p \in Reqs : t = rq[p].minted
        BY <2>3, <3>2 DEF Shown, Answered, In
      <4> QED BY <2>3, <4>1 DEF Scopes, Sound
    <3> QED BY <3>1, <3>2
  <2>0. meta.users[meta.owner[t]].role \in RolesOf(c.op)
    BY <1>1, <1>4, <2>3, RequestNames DEF FrontGate
  <2>5. ASSUME c.op.kind = "issue"
        PROVE  /\ \/ meta.users[meta.owner[t]].orgs = {}
                  \/ c.op.org \in meta.users[meta.owner[t]].orgs
               /\ meta.scope[t] = Nil \/ c.op.org \in meta.scope[t]
    <3>2. InOrg(meta.owner[t], c.op.org) /\ TokenInOrg(t, c.op.org)
      BY <1>1, <1>4, <2>3, <2>5 DEF ScopeGate, Scoped
    <3> QED BY <3>2 DEF InOrg, TokenInOrg
  <2>6. LetIn(x, meta', disk')
    BY <1>2, <2>0, <2>2, <2>3, <2>4, <2>5, CallsAreOperations DEF LetIn
  <2>7. Sound(x, meta', disk')
    BY <2>2, <2>3, <2>6 DEF Sound
  <2> QED BY <1>1, <1>2, <2>7, ScopesKept DEF x
<1> QED BY <1>3, <1>4

\* A replay hands on the token that the first request was given.
LEMMA LookupScopes ==
  ASSUME IInv, Scopes, NEW r \in Reqs, Lookup(r)
  PROVE  Scopes'
<1> DEFINE q == rq[r]
           k == IdemKey(q)
<1>1. q \in Records /\ q.pc = "routed" /\ UNCHANGED <<meta, disk>>
      /\ Sound(q, meta, disk) /\ Grown(meta, disk, meta', disk')
  BY DEF Lookup, IInv, Typed, Scopes, Grown
<1>2. CASE Keyed(q) /\ Cached(q) /\ ~Expired(q)
  <2> DEFINE b == idem[k].by
             x == [q EXCEPT !.pc = "answered", !.status = idem[k].status, !.by = b,
                            !.at = now, !.minted = rq[b].minted]
  <2>1. k \in DOMAIN idem
    BY <1>2 DEF Cached
  <2>2. b \in Reqs /\ Sound(rq[b], meta, disk)
    BY <2>1 DEF IInv, CacheHolds, Scopes
  <2>3. rq' = [rq EXCEPT ![r] = x]
    BY <1>2 DEF Lookup, IInv, Typed
  <2>4. x.tok = q.tok /\ x.op = q.op /\ x.user = q.user /\ x.minted = rq[b].minted
        /\ x.ran = q.ran /\ x.pc = "answered"
    BY <1>1 DEF Records
  <2> HIDE DEF x, b
  <2>5. x.minted # Nil => Agreed(x.minted, meta, disk)
    BY <2>2, <2>4 DEF Sound
  <2>6. x.tok # Nil /\ LetIn(x, meta, disk)
    BY <1>1, <2>4 DEF Sound, LetIn
  <2>7. Sound(x, meta', disk')
    BY <1>1, <2>4, <2>5, <2>6 DEF Sound
  <2> QED BY <1>1, <2>3, <2>7, ScopesKept
<1>3. CASE ~(Keyed(q) /\ Cached(q) /\ ~Expired(q))
  <2> DEFINE x == [q EXCEPT !.pc = "run", !.at = now]
  <2>1. rq' = [rq EXCEPT ![r] = x]
    BY <1>3 DEF Lookup, IInv, Typed
  <2>2. x.tok = q.tok /\ x.op = q.op /\ x.user = q.user /\ x.minted = q.minted
        /\ x.ran = q.ran /\ x.pc = "run" /\ x.status = q.status /\ x.by = q.by
    BY <1>1 DEF Records
  <2> HIDE DEF x
  <2>3. Sound(x, meta', disk')
    BY <1>1, <2>2 DEF Sound, Minted, LetIn
  <2> QED BY <1>1, <2>1, <2>3, ScopesKept
<1> QED BY <1>2, <1>3
\* The handler is through, and answers with a token that is as it was asked for.
LEMMA FinishScopes ==
  ASSUME IInv, Scopes, NEW r \in Reqs, rq[r].pc = "run",
         NEW status, NEW tok, Finish(r, status, tok),
         Grown(meta, disk, meta', disk'),
         status = 201 /\ tok # Nil =>
             /\ Agreed(tok, meta', disk') /\ meta'.owner[tok] = rq[r].op.id
             /\ rq[r].op.kind = "token" =>
                  meta'.scope[tok] = IF rq[r].op.orgs = {} THEN Nil ELSE rq[r].op.orgs
             /\ rq[r].op.kind = "user" =>
                  meta'.users[rq[r].op.id] = [role |-> rq[r].op.role, orgs |-> rq[r].op.orgs],
         rq[r].op.kind = "user" /\ status = 201 => tok # Nil
  PROVE  Scopes'
<1> DEFINE q == rq[r]
           shown == IF status = 201 THEN tok ELSE Nil
           x == [q EXCEPT !.pc = "store", !.status = status, !.by = r, !.ran = TRUE,
                          !.minted = shown]
<1>1. q \in Records
  BY DEF IInv, Typed
<1>2. Sound(q, meta', disk')
  BY SoundKept DEF Scopes
<1>3. rq' = [rq EXCEPT ![r] = x]
  BY DEF Finish, IInv, Typed
<1>4. x.tok = q.tok /\ x.op = q.op /\ x.user = q.user /\ x.minted = shown
      /\ x.ran = TRUE /\ x.pc = "store" /\ x.status = status
  BY <1>1 DEF Records
<1>5. shown # Nil => status = 201 /\ tok # Nil /\ shown = tok
  OBVIOUS
<1>6. status = 201 => shown = tok
  OBVIOUS
<1> HIDE DEF x, shown
<1>7. x.minted # Nil => Minted(x, meta', disk') /\ Agreed(x.minted, meta', disk')
  BY <1>4, <1>5 DEF Minted
<1>8. x.tok # Nil /\ LetIn(x, meta', disk')
  BY <1>2, <1>4 DEF Sound, LetIn
<1>9. Sound(x, meta', disk')
  BY <1>4, <1>6, <1>7, <1>8 DEF Sound
<1> QED BY <1>3, <1>9, ScopesKept

\* saveMeta writes all of memory, the users that earlier saves failed to write
\* too, before an answer shows the token.
LEMMA SavesScopes ==
  ASSUME IInv, Scopes, NEW r \in Reqs, rq[r].pc = "run", rq[r].op.id \in Users,
         FreshTokens # {}, NEW m \in Metas, m.owner = meta.owner, m.scope = meta.scope,
         \A u \in Users : meta.users[u] # Nil => m.users[u] = meta.users[u],
         m.users[rq[r].op.id] # Nil,
         NEW list \in SUBSET Orgs,
         Saves(r, NewToken(m, rq[r].op.id, list), FreshToken),
         rq[r].op.kind = "token" => list = rq[r].op.orgs,
         rq[r].op.kind = "user" =>
             m.users[rq[r].op.id] = [role |-> rq[r].op.role, orgs |-> rq[r].op.orgs]
  PROVE  Scopes'
<1> DEFINE f == FreshToken
           new == NewToken(m, rq[r].op.id, list)
<1>1. /\ f \in Tokens /\ new.users = m.users
      /\ new.owner[f] = rq[r].op.id /\ new.scope[f] = IF list = {} THEN Nil ELSE list
      /\ \A t \in Tokens : meta.owner[t] # Nil =>
           new.owner[t] = meta.owner[t] /\ new.scope[t] = meta.scope[t]
  BY NewTokenGrows
<1>2. meta' = new /\ ((disk' = new /\ Finish(r, 201, f)) \/ (disk' = disk /\ Finish(r, 500, f)))
  BY DEF Saves
<1> HIDE DEF f, new
<1>3. Grown(meta, disk, meta', disk') /\ f # Nil
  BY <1>1, <1>2, RequestNames DEF Grown
<1>4. CASE disk' = new /\ Finish(r, 201, f)
  <2>1. Agreed(f, meta', disk')
    BY <1>1, <1>2, <1>4 DEF Agreed
  <2> QED BY <1>1, <1>2, <1>3, <1>4, <2>1, FinishScopes
<1>5. CASE disk' = disk /\ Finish(r, 500, f)
  BY <1>3, <1>5, FinishScopes
<1> QED BY <1>2, <1>4, <1>5

\* The handlers.
LEMMA ExecuteScopes ==
  ASSUME IInv, Scopes, NEW r \in Reqs, Execute(r)
  PROVE  Scopes'
<1> DEFINE op == rq[r].op
<1>1. rq[r].pc = "run" /\ op \in Operations /\ meta \in Metas
  BY DEF Execute, IInv, Underway, Typed
<1>2. ASSUME NEW n \in Nat, Finish(r, n, Nil), UNCHANGED <<meta, disk>>,
             n = 201 => op.kind # "user"
      PROVE  Scopes'
  <2>1. Grown(meta, disk, meta', disk')
    BY <1>2 DEF Grown
  <2> QED BY <1>1, <1>2, <2>1, FinishScopes
<1>3. CASE (op.kind = "issue" /\ Issue(r)) \/ (op.kind = "delete" /\ DeleteOrg(r, op.org))
  BY <1>2, <1>3 DEF Issue, DeleteOrg
<1>4. CASE op.kind = "user" /\ CreateUser(r, op)
  <2>1. op \in [kind : {"user"}, id : Users, role : Roles, orgs : SUBSET Orgs]
    BY <1>1, <1>4 DEF Operations
  <2>2. CASE meta.users[op.id] # Nil
    BY <1>2, <1>4, <2>2 DEF CreateUser, Refuses
  <2>3. CASE meta.users[op.id] = Nil
    <3> DEFINE new == [role |-> op.role, orgs |-> op.orgs]
               m == [meta EXCEPT !.users[op.id] = new]
    <3>1. new \in Accounts /\ new # Nil /\ op.id \in Users
      BY <2>1, NilIsNoValue DEF Accounts
    <3>2. FreshTokens # {} /\ Saves(r, NewToken(m, op.id, {}), FreshToken)
      BY <1>4, <2>3 DEF CreateUser
    <3>3. {} \in SUBSET Orgs /\ op.kind # "token"
      BY <1>4
    <3> HIDE DEF new
    <3>4. m \in Metas /\ m.owner = meta.owner /\ m.scope = meta.scope
          /\ m.users = [meta.users EXCEPT ![op.id] = new]
      BY <1>1, <3>1 DEF Metas
    <3> HIDE DEF m
    <3>5. m.users[op.id] = new /\ \A u \in Users : meta.users[u] # Nil => m.users[u] = meta.users[u]
      BY <1>1, <2>3, <3>1, <3>4 DEF Metas
    <3> QED BY <1>1, <3>1, <3>2, <3>3, <3>4, <3>5, SavesScopes DEF new
  <2> QED BY <2>2, <2>3
<1>5. CASE op.kind = "token" /\ UserToken(r, op)
  <2>1. op \in [kind : {"token"}, id : Users, orgs : SUBSET Orgs]
    BY <1>1, <1>5 DEF Operations
  <2>2. CASE meta.users[op.id] = Nil
    BY <1>2, <1>5, <2>2 DEF UserToken, Refuses
  <2>3. CASE meta.users[op.id] # Nil
    <3>1. FreshTokens # {} /\ Saves(r, NewToken(meta, op.id, op.orgs), FreshToken)
      BY <1>5, <2>3 DEF UserToken
    <3>2. op.id \in Users /\ op.orgs \in SUBSET Orgs /\ op.kind # "user"
      BY <1>5, <2>1
    <3>3. PICK m \in Metas : m = meta
      BY <1>1
    <3>4. Saves(r, NewToken(m, op.id, op.orgs), FreshToken)
      BY <3>1, <3>3
    <3>5. m.owner = meta.owner /\ m.scope = meta.scope /\ m.users[op.id] # Nil
          /\ \A u \in Users : m.users[u] = meta.users[u]
      BY <2>3, <3>3
    <3> QED BY <1>1, <3>1, <3>2, <3>4, <3>5, SavesScopes
  <2> QED BY <2>2, <2>3
<1> QED BY <1>3, <1>4, <1>5 DEF Execute

\* idemStore, and a restart.
LEMMA StoreScopes ==
  ASSUME IInv, Scopes, NEW r \in Reqs, Store(r)
  PROVE  Scopes'
<1> DEFINE q == rq[r]
           x == [q EXCEPT !.pc = "answered"]
<1>1. q \in Records /\ q.pc = "store" /\ Sound(q, meta, disk)
      /\ UNCHANGED <<meta, disk>> /\ Grown(meta, disk, meta', disk')
  BY DEF Store, IInv, Typed, Scopes, Grown
<1>2. rq' = [rq EXCEPT ![r] = x]
  BY DEF Store, IInv, Typed
<1>3. x.tok = q.tok /\ x.op = q.op /\ x.user = q.user /\ x.minted = q.minted
      /\ x.ran = q.ran /\ x.pc = "answered" /\ x.status = q.status /\ x.by = q.by
  BY <1>1 DEF Records
<1> HIDE DEF x
<1>4. Sound(x, meta', disk')
  BY <1>1, <1>3 DEF Sound, Minted, LetIn
<1> QED BY <1>1, <1>2, <1>4, ScopesKept

LEMMA RestartScopes ==
  ASSUME IInv, Scopes, Restart
  PROVE  Scopes'
<1>1. meta' = disk /\ disk' = disk
  BY DEF Restart
<1>2. Agreed(RootToken, meta', disk')
  BY <1>1, AgreedKept DEF Scopes
<1>3. ASSUME NEW r \in Reqs PROVE Sound(rq'[r], meta', disk')
  <2> DEFINE q == rq[r]
  <2>1. q \in Records /\ Sound(q, meta', disk')
    BY <1>1, SoundKept DEF IInv, Typed, Scopes
  <2>2. CASE q.pc \in {"idle", "answered"}
    <3>1. rq'[r] = q
      BY <2>2 DEF Restart
    <3> QED BY <2>1, <3>1
  <2>3. CASE q.pc \notin {"idle", "answered"} /\ q.ran
    <3> DEFINE x == [q EXCEPT !.pc = "dead"]
    <3>1. rq'[r] = x
      BY <2>3 DEF Restart
    <3>2. x.tok = q.tok /\ x.op = q.op /\ x.user = q.user /\ x.minted = q.minted
          /\ x.ran = q.ran /\ x.pc = "dead" /\ x.status = q.status /\ x.by = q.by
      BY <2>1 DEF Records
    <3> HIDE DEF x
    <3> QED BY <2>1, <3>1, <3>2 DEF Sound, Minted, LetIn
  <2>4. CASE q.pc \notin {"idle", "answered"} /\ ~q.ran
    <3> DEFINE x == [Unsent EXCEPT !.pc = "dead"]
    <3>1. rq'[r] = x
      BY <2>4 DEF Restart
    <3>2. x.tok = Nil /\ x.minted = Nil /\ x.ran = FALSE /\ x.pc = "dead" /\ x.by = Nil
      BY DEF Unsent
    <3> HIDE DEF x
    <3> QED BY <3>1, <3>2 DEF Sound
  <2> QED BY <2>2, <2>3, <2>4
<1> QED BY <1>2, <1>3 DEF Scopes

\* Tokens and users are sound at every moment.
LEMMA ScopesAlways == Spec => []Scopes
<1>1. Init => Scopes
  <2> SUFFICES ASSUME Init PROVE Scopes
    OBVIOUS
  <2>1. Agreed(RootToken, meta, disk)
    <3>1. [role |-> "admin", orgs |-> {}] # Nil
      BY NilIsNoValue DEF Accounts, Roles
    <3> QED BY <3>1, RequestNames DEF Init, Agreed
  <2>2. ASSUME NEW r \in Reqs PROVE Sound(rq[r], meta, disk)
    <3>1. rq[r].minted = Nil /\ rq[r].tok = Nil /\ rq[r].ran = FALSE /\ rq[r].pc = "idle"
          /\ rq[r].by = Nil
      BY DEF Init, Unsent
    <3> QED BY <3>1 DEF Sound
  <2> QED BY <2>1, <2>2 DEF Scopes
<1>2. IInv /\ Scopes /\ [Next]_vars => Scopes'
  <2> SUFFICES ASSUME IInv, Scopes, [Next]_vars PROVE Scopes'
    OBVIOUS
  <2>1. ASSUME UNCHANGED <<meta, disk, rq>> PROVE Scopes'
    <3>1. Grown(meta, disk, meta', disk')
      BY <2>1 DEF Grown
    <3>2. Agreed(RootToken, meta', disk')
      BY <3>1, AgreedKept DEF Scopes
    <3>3. \A r \in Reqs : Sound(rq[r], meta', disk')
      BY <3>1, SoundKept DEF Scopes
    <3>4. \A r \in Reqs : Sound(rq'[r], meta', disk')
      BY <2>1, <3>3
    <3> QED BY <3>2, <3>4 DEF Scopes
  <2>2. Tick \/ (\E g \in Orgs : CreateOrg(g)) \/ UNCHANGED vars => UNCHANGED <<meta, disk, rq>>
    BY DEF Tick, CreateOrg, vars
  <2> QED BY <2>1, <2>2, ReceiveScopes, LookupScopes, ExecuteScopes, StoreScopes,
             RestartScopes DEF Next
<1> QED BY <1>1, <1>2, Invariance, PTL DEF Spec

\* auth.go: "both gates apply".  Whoever reaches an organisation's timeline by a
\* route with an org scope has two scopes, the account's and the token's, that
\* allow it, and on every route the account's role does: those asked for when they
\* were made, whatever saves failed and processes died since.
THEOREM ScopesHold == Spec => []ScopeHolds
<1>1. ASSUME Scopes PROVE ScopeHolds
  <2> SUFFICES ASSUME NEW r \in Reqs, rq[r].ran, NEW m \in Reqs, rq[m].ran
      PROVE  /\ (Scoped(rq[r].op) /\ rq[m].op.kind = "token" /\ rq[m].minted = rq[r].tok) =>
                   rq[m].op.orgs = {} \/ rq[r].op.org \in rq[m].op.orgs
             /\ (rq[m].op.kind = "user" /\ rq[m].status = 201 /\ rq[m].op.id = rq[r].user) =>
                   /\ rq[m].op.role \in RolesOf(rq[r].op)
                   /\ Scoped(rq[r].op) =>
                        rq[m].op.orgs = {} \/ rq[r].op.org \in rq[m].op.orgs
    BY DEF ScopeHolds
  <2>1. Sound(rq[r], meta, disk) /\ Sound(rq[m], meta, disk)
    BY <1>1 DEF Scopes
  <2>2. rq[r].tok # Nil /\ LetIn(rq[r], meta, disk)
    BY <2>1 DEF Sound
  <2>3. ASSUME rq[m].op.kind = "token", rq[m].minted = rq[r].tok, rq[m].op.orgs # {},
               rq[r].op.kind = "issue"
        PROVE  rq[r].op.org \in rq[m].op.orgs
    <3>1. Minted(rq[m], meta, disk)
      BY <2>1, <2>2, <2>3 DEF Sound
    <3>2. meta.scope[rq[r].tok] = rq[m].op.orgs
      BY <2>3, <3>1 DEF Minted
    <3>3. rq[m].op.orgs # Nil
      <4>1. rq[m].op \in Operations
        BY <2>1 DEF Sound, LetIn
      <4>2. rq[m].op.orgs \in SUBSET Orgs
        BY <2>3, <4>1 DEF Operations
      <4> QED BY <4>2, NilIsNoValue
    <3> QED BY <2>2, <2>3, <3>2, <3>3 DEF LetIn
  <2>4. ASSUME rq[m].op.kind = "user", rq[m].status = 201, rq[m].op.id = rq[r].user
        PROVE  /\ rq[m].op.role \in RolesOf(rq[r].op)
               /\ rq[r].op.kind = "issue" =>
                    rq[m].op.orgs = {} \/ rq[r].op.org \in rq[m].op.orgs
    <3>1. Minted(rq[m], meta, disk)
      BY <2>1, <2>4 DEF Sound
    <3>2. meta.users[rq[r].user] = [role |-> rq[m].op.role, orgs |-> rq[m].op.orgs]
      BY <2>4, <3>1 DEF Minted
    <3> QED BY <2>2, <3>2 DEF LetIn
  <2> QED BY <2>3, <2>4 DEF Scoped
<1>2. Scopes => ScopeHolds
  BY <1>1
<1> QED BY <1>2, ScopesAlways, PTL
-----------------------------------------------------------------------------
(***************************************************************************)
(* Replay keys.                                                            *)
(***************************************************************************)

\* A part of a replay key, the separator, and the rest.
Bars(a, v) == a \o <<Bar>> \o v

\* The first separator ends the first part.
LEMMA FirstBar ==
  ASSUME NEW a \in Seq(Pieces), NEW b \in Seq(Pieces),
         NEW v \in Seq(Pieces), NEW w \in Seq(Pieces),
         NoBar(a), NoBar(b), Bars(a, v) = Bars(b, w)
  PROVE  a = b /\ v = w
<1> DEFINE one == <<Bar>>
<1>1. one \in Seq(Pieces) /\ Len(one) = 1 /\ one[1] = Bar
  BY BarIsPiece
<1> HIDE DEF one
<1>2. ASSUME NEW c \in Seq(Pieces), NEW u \in Seq(Pieces)
      PROVE  LET s == c \o one \o u
             IN  /\ Len(c) \in Nat /\ Len(u) \in Nat /\ Len(s) = Len(c) + 1 + Len(u)
                 /\ \A i \in 1..Len(c) : s[i] = c[i]
                 /\ s[Len(c) + 1] = Bar
                 /\ \A i \in 1..Len(u) : u[i] = s[Len(c) + 1 + i]
  <2>0. Len(c) \in Nat /\ Len(u) \in Nat
    BY LenProperties
  <2> DEFINE d == c \o one
             s == d \o u
  <2>1. d \in Seq(Pieces) /\ Len(d) = Len(c) + 1
        /\ (\A i \in 1..Len(c) : d[i] = c[i]) /\ d[Len(c) + 1] = Bar
    <3>1. /\ d \in Seq(Pieces) /\ Len(d) = Len(c) + Len(one)
          /\ \A i \in 1..(Len(c) + Len(one)) :
               d[i] = IF i <= Len(c) THEN c[i] ELSE one[i - Len(c)]
      BY <1>1, ConcatProperties
    <3> HIDE DEF d
    <3>2. d \in Seq(Pieces) /\ Len(d) = Len(c) + 1
      BY <1>1, <3>1
    <3>3. ASSUME NEW i \in 1..Len(c) PROVE d[i] = c[i]
      <4>1. i \in 1..(Len(c) + Len(one)) /\ i <= Len(c)
        BY <1>1, <2>0
      <4> QED BY <3>1, <4>1
    <3>4. d[Len(c) + 1] = Bar
      <4>1. /\ Len(c) + 1 \in 1..(Len(c) + Len(one)) /\ ~(Len(c) + 1 <= Len(c))
            /\ (Len(c) + 1) - Len(c) = 1
        BY <1>1, <2>0
      <4>2. PICK i \in 1..(Len(c) + Len(one)) : i = Len(c) + 1
        BY <4>1
      <4>3. d[i] = one[1]
        BY <3>1, <4>1, <4>2
      <4> QED BY <1>1, <4>2, <4>3
    <3> QED BY <3>2, <3>3, <3>4
  <2> HIDE DEF d
  <2>2. /\ Len(s) = Len(d) + Len(u)
        /\ \A i \in 1..Len(d) : s[i] = d[i]
        /\ \A i \in 1..Len(u) : s[Len(d) + i] = u[i]
    <3>1. /\ Len(s) = Len(d) + Len(u)
          /\ \A i \in 1..(Len(d) + Len(u)) :
               s[i] = IF i <= Len(d) THEN d[i] ELSE u[i - Len(d)]
      BY <2>1, ConcatProperties
    <3> HIDE DEF s
    <3>2. Len(d) \in Nat
      BY <2>1
    <3>3. ASSUME NEW i \in 1..Len(u) PROVE s[Len(d) + i] = u[i]
      <4>1. Len(d) + i \in 1..(Len(d) + Len(u)) /\ ~(Len(d) + i <= Len(d))
            /\ (Len(d) + i) - Len(d) = i
        BY <2>0, <3>2
      <4> QED BY <3>1, <4>1
    <3> QED BY <2>0, <3>1, <3>2, <3>3
  <2> HIDE DEF s
  <2>3. \A i \in 1..Len(c) : s[i] = c[i]
    BY <2>1, <2>2
  <2>4. s[Len(c) + 1] = Bar
    BY <2>1, <2>2
  <2> QED BY <2>0, <2>1, <2>2, <2>3, <2>4 DEF s, d
<1> DEFINE s == a \o one \o v
           t == b \o one \o w
<1>3. s = t
  BY DEF Bars, one
<1>4. /\ Len(a) \in Nat /\ Len(v) \in Nat /\ Len(s) = Len(a) + 1 + Len(v)
      /\ \A i \in 1..Len(a) : s[i] = a[i]
      /\ s[Len(a) + 1] = Bar
      /\ \A i \in 1..Len(v) : v[i] = s[Len(a) + 1 + i]
  BY <1>2
<1>5. /\ Len(b) \in Nat /\ Len(w) \in Nat /\ Len(t) = Len(b) + 1 + Len(w)
      /\ \A i \in 1..Len(b) : t[i] = b[i]
      /\ t[Len(b) + 1] = Bar
      /\ \A i \in 1..Len(w) : w[i] = t[Len(b) + 1 + i]
  BY <1>2
<1> HIDE DEF s, t
<1>6. /\ \A i \in 1..Len(a) : a[i] # Bar
      /\ \A i \in 1..Len(b) : b[i] # Bar
  BY DEF NoBar
<1>7. ~(Len(a) < Len(b)) /\ ~(Len(b) < Len(a))
  <2>1. ASSUME Len(a) < Len(b) PROVE FALSE
    <3>1. Len(a) + 1 \in 1..Len(b)
      BY <1>4, <1>5, <2>1
    <3> QED BY <1>3, <1>4, <1>5, <1>6, <3>1
  <2>2. ASSUME Len(b) < Len(a) PROVE FALSE
    <3>1. Len(b) + 1 \in 1..Len(a)
      BY <1>4, <1>5, <2>2
    <3> QED BY <1>3, <1>4, <1>5, <1>6, <3>1
  <2> QED BY <2>1, <2>2
<1>8. Len(a) = Len(b)
  BY <1>4, <1>5, <1>7
<1>9. Len(v) = Len(w)
  BY <1>3, <1>4, <1>5, <1>8
<1>10. \A i \in 1..Len(a) : a[i] = b[i]
  BY <1>3, <1>4, <1>5, <1>8
<1>11. \A i \in 1..Len(v) : v[i] = w[i]
  BY <1>3, <1>4, <1>5, <1>8, <1>9
<1>12. a = b
  BY <1>8, <1>10, SeqEqual
<1>13. v = w
  BY <1>9, <1>11, SeqEqual
<1> QED BY <1>12, <1>13

\* The parts of a replay key, the separator in none of them but the last.
Parts(path, user, key, body) ==
    /\ path \in Seq(Pieces) /\ user \in Seq(Pieces) /\ key \in Seq(Pieces) /\ body \in Seq(Pieces)
    /\ NoBar(path) /\ NoBar(user) /\ NoBar(key)

\* Such parts can be read back from their joined text.
LEMMA JoinTells ==
    ASSUME NEW a, NEW b, NEW c, NEW d, NEW e, NEW f, NEW g, NEW h,
           Parts(a, b, c, d), Parts(e, f, g, h), Join(a, b, c, d) = Join(e, f, g, h)
    PROVE  a = e /\ b = f /\ c = g /\ d = h
<1>0. /\ a \in Seq(Pieces) /\ b \in Seq(Pieces) /\ c \in Seq(Pieces) /\ d \in Seq(Pieces)
      /\ e \in Seq(Pieces) /\ f \in Seq(Pieces) /\ g \in Seq(Pieces) /\ h \in Seq(Pieces)
      /\ NoBar(a) /\ NoBar(b) /\ NoBar(c) /\ NoBar(e) /\ NoBar(f) /\ NoBar(g)
  BY DEF Parts
<1> DEFINE cd == Bars(c, d)
           gh == Bars(g, h)
           bcd == Bars(b, cd)
           fgh == Bars(f, gh)
<1>1. \A t \in Seq(Pieces), u \in Seq(Pieces) : Bars(t, u) \in Seq(Pieces)
  BY BarIsPiece DEF Bars
<1>2. cd \in Seq(Pieces) /\ gh \in Seq(Pieces) /\ bcd \in Seq(Pieces) /\ fgh \in Seq(Pieces)
  BY <1>0, <1>1
<1>3. Bars(a, bcd) = Bars(e, fgh)
  BY DEF Join, Bars
<1>4. cd = gh => c = g /\ d = h
  BY <1>0, FirstBar
<1> HIDE DEF cd, gh
<1>5. bcd = fgh => b = f /\ cd = gh
  BY <1>0, <1>2, FirstBar
<1> HIDE DEF bcd, fgh
<1>6. a = e /\ bcd = fgh
  BY <1>0, <1>2, <1>3, FirstBar
<1> QED BY <1>4, <1>5, <1>6

\* The Idempotency-Key cache never serves an answer of an earlier life of the
\* process, nor, as long as no path, user id or key contains the separator, one
\* of another operation, organisation or key, or, where the answer carries a raw
\* token, of another user.
THEOREM ReplaysAreTheSame == Spec => []ReplayMatches
<1>1. ASSUME IInv, Scopes, NEW r \in Reqs, rq[r].pc = "answered", rq[r].by \notin {Nil, r}
      PROVE  LET q == rq[rq[r].by]
             IN  /\ q.ran /\ q.status = rq[r].status
                 /\ q.life = rq[r].life
                 /\ (Plain(q) /\ Plain(rq[r])) =>
                      /\ q.op = rq[r].op /\ q.key = rq[r].key
                      /\ Scoped(q.op) \/ q.user = rq[r].user
  <2> DEFINE x == rq[r]
             q == rq[rq[r].by]
  <2>1. /\ rq[r].by \in Reqs /\ q.ran /\ q.status = x.status /\ q.life = x.life
        /\ Keyed(q) /\ Keyed(x) /\ IdemKey(q) = IdemKey(x)
    BY <1>1 DEF IInv, Typed, Records, ReplaysHold
  <2>2. q \in Records /\ x \in Records /\ Sound(q, meta, disk) /\ Sound(x, meta, disk)
    BY <1>1, <2>1 DEF IInv, Typed, Scopes
  <2>3. q.tok # Nil /\ x.tok # Nil
    BY <1>1, <2>1, <2>2 DEF Sound
  <2>4. /\ q.op \in Operations /\ x.op \in Operations /\ q.user \in Users /\ x.user \in Users
        /\ q.key \in Keys /\ x.key \in Keys
    BY <2>1, <2>2, <2>3 DEF Sound, LetIn, Agreed, Keyed, Records
  <2> HIDE DEF x, q
  <2>5. ASSUME Plain(q), Plain(x)
        PROVE  q.op = x.op /\ q.key = x.key /\ (Scoped(q.op) \/ q.user = x.user)
    <3>1. /\ WhoseKey(q) \in Seq(Pieces) /\ WhoseKey(x) \in Seq(Pieces)
          /\ Path[q.op] \in Seq(Pieces) /\ Path[x.op] \in Seq(Pieces)
          /\ Body[q.op] \in Seq(Pieces) /\ Body[x.op] \in Seq(Pieces)
          /\ KeyText[q.key] \in Seq(Pieces) /\ KeyText[x.key] \in Seq(Pieces)
      BY <2>4, TextTypes DEF WhoseKey
    <3>2. /\ Path[q.op] = Path[x.op] /\ WhoseKey(q) = WhoseKey(x)
          /\ KeyText[q.key] = KeyText[x.key] /\ Body[q.op] = Body[x.op]
      <4>1. /\ Parts(Path[q.op], WhoseKey(q), KeyText[q.key], Body[q.op])
            /\ Parts(Path[x.op], WhoseKey(x), KeyText[x.key], Body[x.op])
        BY <2>5, <3>1 DEF Parts, Plain
      <4>2. Join(Path[q.op], WhoseKey(q), KeyText[q.key], Body[q.op])
              = Join(Path[x.op], WhoseKey(x), KeyText[x.key], Body[x.op])
        BY <2>1 DEF IdemKey, x, q
      <4> QED BY <4>1, <4>2, JoinTells
    <3>3. q.op = x.op /\ q.key = x.key
      BY <2>4, <3>2, TextsTellApart
    <3>4. Scoped(q.op) \/ q.user = x.user
      BY <2>4, <3>2, <3>3, TextsTellApart DEF WhoseKey
    <3> QED BY <3>3, <3>4
  <2> QED BY <2>1, <2>5 DEF x, q
<1>2. IInv /\ Scopes => ReplayMatches
  BY <1>1 DEF ReplayMatches, Answered, In
<1> QED BY <1>2, Invariance, ScopesAlways, PTL
-----------------------------------------------------------------------------
(***************************************************************************)
(* Retries.                                                                *)
(***************************************************************************)

\* StoredIn, its replay keys and Overflowed, of any state f of the requests.
Stored(f, l) ==
    {r \in Reqs : f[r].pc = "answered" /\ f[r].ran /\ Keyed(f[r]) /\ f[r].life = l}

KeysOf(f, l) == {IdemKey(f[s]) : s \in Stored(f, l)}

Over(f, l) == Cardinality(KeysOf(f, l)) > IdemCap /\ Cardinality(Stored(f, l)) > IdemCap + 1

Begun(f) == {r \in Reqs : f[r].pc # "idle"}

\* Finitely many requests came in, none of them later than now, and what they
\* saw answered when they came stays as it was.
Marks ==
    /\ IsFiniteSet(Begun(rq))
    /\ \A r \in Reqs :
         /\ rq[r].at <= now
         /\ rq[r].ran => rq[r].life <= life
         /\ \A q \in rq[r].seen : rq[q].pc = "answered" /\ rq[q].ran

\* An entry of the cache was stored in this life, under its replay key.
CacheKeys ==
    \A k \in DOMAIN idem :
        /\ idem[k].by \in Stored(rq, life) /\ IdemKey(rq[idem[k].by]) = k
        /\ idem[k].ts \in Nat /\ idem[k].ts <= now

\* What was stored in this life is in the cache, as new as its request or newer,
\* unless its window is over or the cache was emptied.
Remembered ==
    \A q \in Stored(rq, life) :
        \/ IdemKey(rq[q]) \in DOMAIN idem /\ rq[q].at <= idem[IdemKey(rq[q])].ts
        \/ now - rq[q].at > IdemWindow
        \/ Over(rq, life)

\* RetryReplays for record x, from the moment its lookup lets it run.
Excused(x, f) ==
    (x.pc = "run" \/ x.ran) /\ Keyed(x) =>
        \A q \in x.seen :
            Keyed(f[q]) /\ IdemKey(f[q]) = IdemKey(x) /\ f[q].life = x.life =>
                x.at - f[q].at > IdemWindow \/ Over(f, x.life)

Retries ==
    /\ Marks
    /\ CacheKeys
    /\ Remembered
    /\ \A r \in Reqs : Excused(rq[r], rq)

\* The keys of finitely many requests are no more than the requests.
LEMMA KeysFinite ==
  ASSUME NEW f, NEW l, IsFiniteSet(Begun(f))
  PROVE  /\ IsFiniteSet(Stored(f, l)) /\ Cardinality(Stored(f, l)) \in Nat
         /\ IsFiniteSet(KeysOf(f, l)) /\ Cardinality(KeysOf(f, l)) \in Nat
         /\ Cardinality(KeysOf(f, l)) <= Cardinality(Stored(f, l))
<1> DEFINE S == Stored(f, l)
           T == KeysOf(f, l)
           g == [s \in S |-> IdemKey(f[s])]
<1>1. S \in SUBSET Begun(f)
  BY DEF Stored, Begun
<1>2. IsFiniteSet(S)
  BY <1>1, FS_Subset
<1>3. g \in Surjection(S, T)
  <2>1. g \in [S -> T] /\ \A t \in T : \E s \in S : g[s] = t
    BY DEF KeysOf
  <2> HIDE DEF g, S, T
  <2> QED BY <2>1 DEF Surjection
<1> HIDE DEF g, S, T
<1>4. IsFiniteSet(T) /\ Cardinality(T) <= Cardinality(S)
  BY <1>2, <1>3, FS_Surjection
<1>5. Cardinality(S) \in Nat /\ Cardinality(T) \in Nat
  BY <1>2, <1>4, FS_CardinalityType
<1> QED BY <1>2, <1>4, <1>5 DEF S, T

\* An overflow stays one: answered requests do not change.
LEMMA OverKept ==
  ASSUME NEW f, NEW g, NEW l, IsFiniteSet(Begun(g)),
         \A q \in Reqs : f[q].pc = "answered" => g[q] = f[q],
         Over(f, l)
  PROVE  Over(g, l)
<1>1. Stored(f, l) \in SUBSET Stored(g, l)
  BY DEF Stored
<1>2. KeysOf(f, l) \in SUBSET KeysOf(g, l)
  <2>1. \A s \in Stored(f, l) : g[s] = f[s]
    BY DEF Stored
  <2> QED BY <1>1, <2>1 DEF KeysOf
<1>3. IsFiniteSet(Stored(g, l)) /\ IsFiniteSet(KeysOf(g, l))
      /\ Cardinality(Stored(g, l)) \in Nat /\ Cardinality(KeysOf(g, l)) \in Nat
  BY KeysFinite
<1>4. /\ Cardinality(Stored(f, l)) <= Cardinality(Stored(g, l))
      /\ Cardinality(KeysOf(f, l)) <= Cardinality(KeysOf(g, l))
      /\ IsFiniteSet(Stored(f, l)) /\ IsFiniteSet(KeysOf(f, l))
  BY <1>1, <1>2, <1>3, FS_Subset
<1>5. Cardinality(Stored(f, l)) \in Nat /\ Cardinality(KeysOf(f, l)) \in Nat
  BY <1>4, FS_CardinalityType
<1> QED BY <1>3, <1>4, <1>5, IdemParams DEF Over

\* One request, not yet answered, goes on.
LEMMA RequestRetries ==
  ASSUME IInv, Retries, NEW r \in Reqs, rq[r].pc # "answered",
         NEW x \in Records, rq' = [rq EXCEPT ![r] = x], UNCHANGED <<now, life>>,
         x.at <= now, x.ran => x.life <= life,
         \A q \in x.seen : rq[q].pc = "answered" /\ rq[q].ran,
         Excused(x, rq)
  PROVE  /\ rq'[r] = x /\ \A q \in Reqs \ {r} : rq'[q] = rq[q]
         /\ \A q \in Reqs : rq[q].pc = "answered" => rq'[q] = rq[q]
         /\ Marks' /\ \A q \in Reqs : Excused(rq'[q], rq')
<1>1. rq'[r] = x /\ \A q \in Reqs \ {r} : rq'[q] = rq[q]
  BY DEF IInv, Typed
<1>2. \A q \in Reqs : rq[q].pc = "answered" => rq'[q] = rq[q]
  BY <1>1
<1>3. IsFiniteSet(Begun(rq'))
  <2>1. Begun(rq') \in SUBSET (Begun(rq) \cup {r})
    BY <1>1 DEF Begun
  <2>2. IsFiniteSet(Begun(rq) \cup {r})
    BY FS_AddElement DEF Retries, Marks
  <2> QED BY <2>1, <2>2, FS_Subset
<1>4. \A q \in Reqs : \A p \in rq'[q].seen : p \in Reqs /\ rq[p].pc = "answered" /\ rq[p].ran
  BY <1>1 DEF Retries, Marks, Records, IInv, Typed
<1>5. Marks'
  BY <1>1, <1>2, <1>3, <1>4 DEF Retries, Marks
<1>6. ASSUME NEW q \in Reqs PROVE Excused(rq'[q], rq')
  <2>1. Excused(rq'[q], rq)
    BY <1>1 DEF Retries
  <2>2. \A p \in rq'[q].seen : rq'[p] = rq[p]
    BY <1>2, <1>4
  <2>3. \A l : Over(rq, l) => Over(rq', l)
    BY <1>2, <1>3, OverKept
  <2> QED BY <2>1, <2>2, <2>3 DEF Excused
<1> QED BY <1>1, <1>2, <1>5, <1>6

\* And stores nothing: the cache only loses what is out of its window.
LEMMA CacheRetries ==
  ASSUME IInv, Retries, Marks', UNCHANGED <<now, life>>,
         \A q \in Reqs : rq[q].pc = "answered" => rq'[q] = rq[q],
         Stored(rq', life) = Stored(rq, life),
         \A k \in DOMAIN idem' : k \in DOMAIN idem /\ idem'[k] = idem[k],
         \A k \in DOMAIN idem : k \notin DOMAIN idem' => now - idem[k].ts > IdemWindow
  PROVE  CacheKeys' /\ Remembered'
<1>1. \A q \in Stored(rq, life) : rq'[q] = rq[q] /\ rq[q] \in Records
  BY DEF Stored, IInv, Typed
<1>2. CacheKeys'
  BY <1>1 DEF Retries, CacheKeys
<1>3. Over(rq, life) => Over(rq', life)
  BY OverKept DEF Marks
<1>4. ASSUME NEW q \in Stored(rq, life)
      PROVE  \/ IdemKey(rq[q]) \in DOMAIN idem' /\ rq[q].at <= idem'[IdemKey(rq[q])].ts
             \/ now - rq[q].at > IdemWindow
             \/ Over(rq, life)
  <2> DEFINE k == IdemKey(rq[q])
  <2>1. CASE k \in DOMAIN idem /\ rq[q].at <= idem[k].ts /\ k \notin DOMAIN idem'
    <3>1. now - idem[k].ts > IdemWindow /\ idem[k].ts \in Nat /\ now \in Nat
          /\ rq[q].at \in Nat /\ rq[q].at <= idem[k].ts
      BY <1>1, <2>1 DEF Retries, CacheKeys, IInv, Typed, Records
    <3> HIDE DEF k
    <3> QED BY <3>1, IdemParams
  <2>2. CASE k \in DOMAIN idem /\ rq[q].at <= idem[k].ts /\ k \in DOMAIN idem'
    BY <2>2
  <2> QED BY <2>1, <2>2 DEF Retries, Remembered
<1>5. Remembered'
  BY <1>1, <1>3, <1>4 DEF Remembered
<1> QED BY <1>2, <1>5
\* A request comes in: it sees the answers given so far.
LEMMA ReceiveRetries ==
  ASSUME IInv, Retries, NEW r \in Reqs, NEW t \in Tokens \cup {Nil}, NEW c \in Calls,
         Receive(r, t, c.op, c.key)
  PROVE  Retries'
<1>1. PICK n \in Nat : rq' = [rq EXCEPT ![r] = Sent(t, c.op, c.key, n)]
  BY DEF Receive, FrontGate, ScopeGate
<1> DEFINE x == Sent(t, c.op, c.key, n)
<1>2. /\ x \in Records /\ x.pc \in {"routed", "answered"} /\ x.ran = FALSE /\ x.at = 0
      /\ x.seen \subseteq Ran(Answered)
  <2>0. c.op \in Operations /\ c.key \in Keys \cup {Nil} /\ life \in Nat
        /\ Authenticate(t) \in Users \cup {Nil} /\ Ran(Answered) \in SUBSET Reqs
    BY CallsAreOperations DEF Authenticate, Ran, Answered, In, IInv, Typed, Metas
  <2>1. CASE n # 0
    <3>1. x = [pc |-> "answered", tok |-> Nil, op |-> Nil, key |-> Nil, user |-> Nil,
               status |-> n, by |-> Nil, minted |-> Nil, ran |-> FALSE,
               seen |-> {}, life |-> 0, at |-> 0]
      BY <2>1 DEF Sent, Unsent
    <3> HIDE DEF x
    <3> QED BY <3>1 DEF Records
  <2>2. CASE n = 0
    <3>1. x = [pc |-> "routed", tok |-> t, op |-> c.op, key |-> c.key,
               user |-> Authenticate(t), status |-> 0, by |-> Nil, minted |-> Nil,
               ran |-> FALSE, seen |-> Ran(Answered), life |-> life, at |-> 0]
      BY <2>2 DEF Sent, Unsent
    <3> HIDE DEF x
    <3> QED BY <2>0, <3>1 DEF Records
  <2> QED BY <2>1, <2>2
<1>3. rq[r].pc = "idle" /\ UNCHANGED <<idem, now, life>> /\ now \in Nat
  BY DEF Receive, IInv, Typed
<1>4. rq' = [rq EXCEPT ![r] = x]
  BY <1>1
<1> HIDE DEF x
<1>5. \A q \in x.seen : rq[q].pc = "answered" /\ rq[q].ran
  BY <1>2 DEF Ran, Answered, In
<1>6. Excused(x, rq) /\ x.at <= now
  BY <1>2, <1>3 DEF Excused
<1>7. /\ rq'[r] = x /\ \A q \in Reqs \ {r} : rq'[q] = rq[q]
      /\ \A q \in Reqs : rq[q].pc = "answered" => rq'[q] = rq[q]
      /\ Marks' /\ \A q \in Reqs : Excused(rq'[q], rq')
  BY <1>2, <1>3, <1>4, <1>5, <1>6, RequestRetries
<1>8. Stored(rq', life) = Stored(rq, life)
  BY <1>2, <1>3, <1>7 DEF Stored
<1>9. CacheKeys' /\ Remembered'
  BY <1>3, <1>7, <1>8, CacheRetries
<1> QED BY <1>7, <1>9 DEF Retries

\* idemLookup: who goes on finds no entry, or one that is out of its window.
LEMMA LookupRetries ==
  ASSUME IInv, Scopes, Retries, NEW r \in Reqs, Lookup(r)
  PROVE  Retries'
<1> DEFINE q == rq[r]
           k == IdemKey(q)
<1>1. q \in Records /\ q.pc = "routed" /\ ~q.ran /\ q.life = life /\ UNCHANGED <<now, life>>
      /\ now \in Nat /\ \A p \in q.seen : p \in Reqs /\ rq[p].pc = "answered" /\ rq[p].ran
  BY DEF Lookup, IInv, Typed, Underway, Scopes, Sound, Retries, Marks, Records
<1>2. CASE Keyed(q) /\ Cached(q) /\ ~Expired(q)
  <2> DEFINE b == idem[k].by
             x == [q EXCEPT !.pc = "answered", !.status = idem[k].status, !.by = b,
                            !.at = now, !.minted = rq[b].minted]
  <2>1. k \in DOMAIN idem
    BY <1>2 DEF Cached
  <2>2. b \in Reqs /\ rq[b] \in Records /\ rq[b].status = idem[k].status
    BY <2>1 DEF IInv, CacheHolds, Typed
  <2>3. rq' = [rq EXCEPT ![r] = x] /\ idem' = idem
    BY <1>2 DEF Lookup, IInv, Typed
  <2>4. x \in Records /\ x.pc = "answered" /\ x.ran = q.ran /\ x.at = now /\ x.seen = q.seen
    BY <1>1, <2>2 DEF Records
  <2> HIDE DEF x
  <2>5. /\ Excused(x, rq) /\ x.at <= now /\ ~x.ran
        /\ \A p \in x.seen : rq[p].pc = "answered" /\ rq[p].ran
    BY <1>1, <2>4 DEF Excused
  <2>6. /\ rq'[r] = x /\ \A p \in Reqs \ {r} : rq'[p] = rq[p]
        /\ \A p \in Reqs : rq[p].pc = "answered" => rq'[p] = rq[p]
        /\ Marks' /\ \A p \in Reqs : Excused(rq'[p], rq')
    <3>1. rq[r].pc # "answered" /\ UNCHANGED <<now, life>>
      BY <1>1
    <3> QED BY <2>3, <2>4, <2>5, <3>1, RequestRetries
  <2>7. Stored(rq', life) = Stored(rq, life)
    BY <1>1, <2>4, <2>6 DEF Stored
  <2>8. CacheKeys' /\ Remembered'
    BY <1>1, <2>3, <2>6, <2>7, CacheRetries
  <2> QED BY <2>6, <2>8 DEF Retries
<1>3. CASE ~(Keyed(q) /\ Cached(q) /\ ~Expired(q))
  <2> DEFINE x == [q EXCEPT !.pc = "run", !.at = now]
  <2>1. rq' = [rq EXCEPT ![r] = x] /\ idem' = IF Keyed(q) THEN Without(idem, k) ELSE idem
    BY <1>3 DEF Lookup, IInv, Typed
  <2>2. x \in Records /\ x.pc = "run" /\ x.ran = q.ran /\ x.at = now /\ x.seen = q.seen
        /\ x.op = q.op /\ x.key = q.key /\ x.user = q.user /\ x.life = q.life
    BY <1>1 DEF Records
  <2>3. IdemKey(x) = k /\ (Keyed(x) <=> Keyed(q))
    BY <2>2 DEF IdemKey, WhoseKey, Keyed
  <2>4. k \in DOMAIN idem /\ Keyed(q) => now - idem[k].ts > IdemWindow
    BY <1>3 DEF Cached, Expired
  <2> HIDE DEF x, k
  <2>5. ASSUME Keyed(q), NEW p \in q.seen, Keyed(rq[p]), IdemKey(rq[p]) = k,
               rq[p].life = life
        PROVE  now - rq[p].at > IdemWindow \/ Over(rq, life)
    <3>1. p \in Stored(rq, life) /\ rq[p].at \in Nat
      <4>1. p \in Reqs /\ rq[p].pc = "answered" /\ rq[p].ran /\ rq[p] \in Records
        BY <1>1 DEF IInv, Typed
      <4> QED BY <2>5, <4>1 DEF Stored, Records
    <3>2. \/ k \in DOMAIN idem /\ rq[p].at <= idem[k].ts
          \/ now - rq[p].at > IdemWindow
          \/ Over(rq, life)
      BY <2>5, <3>1 DEF Retries, Remembered
    <3>3. ASSUME k \in DOMAIN idem, rq[p].at <= idem[k].ts
          PROVE  now - rq[p].at > IdemWindow
      <4>1. idem[k].ts \in Nat
        BY <3>3 DEF Retries, CacheKeys
      <4> QED BY <1>1, <2>4, <2>5, <3>1, <3>3, <4>1, IdemParams
    <3> QED BY <3>2, <3>3
  <2>6. /\ Excused(x, rq) /\ x.at <= now /\ ~x.ran
        /\ \A p \in x.seen : rq[p].pc = "answered" /\ rq[p].ran
    BY <1>1, <2>2, <2>3, <2>5 DEF Excused
  <2>7. /\ rq'[r] = x /\ \A p \in Reqs \ {r} : rq'[p] = rq[p]
        /\ \A p \in Reqs : rq[p].pc = "answered" => rq'[p] = rq[p]
        /\ Marks' /\ \A p \in Reqs : Excused(rq'[p], rq')
    <3>1. rq[r].pc # "answered" /\ UNCHANGED <<now, life>>
      BY <1>1
    <3> QED BY <2>1, <2>2, <2>6, <3>1, RequestRetries
  <2>8. Stored(rq', life) = Stored(rq, life)
    BY <1>1, <2>2, <2>7 DEF Stored
  <2>9. /\ \A j \in DOMAIN idem' : j \in DOMAIN idem /\ idem'[j] = idem[j]
        /\ \A j \in DOMAIN idem : j \notin DOMAIN idem' => j = k /\ Keyed(q)
    BY <2>1 DEF Without
  <2>10. CacheKeys' /\ Remembered'
    BY <1>1, <2>4, <2>7, <2>8, <2>9, CacheRetries
  <2> QED BY <2>7, <2>10 DEF Retries
<1> QED BY <1>2, <1>3

\* A handler is through.
LEMMA ExecuteRetries ==
  ASSUME IInv, Retries, NEW r \in Reqs, Execute(r)
  PROVE  Retries'
<1>1. PICK status \in Nat, tok \in Tokens \cup {Nil} : Finish(r, status, tok)
  <2>0. \A m, f : Saves(r, m, f) => Finish(r, 201, f) \/ Finish(r, 500, f)
    BY DEF Saves
  <2>1. FreshTokens # {} => FreshToken \in Tokens
    BY DEF FreshToken, FreshTokens
  <2>2. CASE Issue(r) \/ DeleteOrg(r, rq[r].op.org)
    BY <2>2 DEF Issue, DeleteOrg
  <2>3. CASE CreateUser(r, rq[r].op)
    BY <2>0, <2>1, <2>3 DEF CreateUser, Refuses
  <2>4. CASE UserToken(r, rq[r].op)
    BY <2>0, <2>1, <2>4 DEF UserToken, Refuses
  <2> QED BY <2>2, <2>3, <2>4 DEF Execute
<1> DEFINE q == rq[r]
           shown == IF status = 201 THEN tok ELSE Nil
           x == [q EXCEPT !.pc = "store", !.status = status, !.by = r, !.ran = TRUE,
                          !.minted = shown]
<1>2. q \in Records /\ q.pc = "run" /\ q.life = life /\ UNCHANGED <<idem, now, life>>
      /\ life \in Nat /\ q.at <= now /\ Excused(q, rq)
      /\ \A p \in q.seen : rq[p].pc = "answered" /\ rq[p].ran
  BY DEF Execute, IInv, Typed, Underway, Retries, Marks
<1>3. rq' = [rq EXCEPT ![r] = x] /\ shown \in Tokens \cup {Nil}
  BY <1>1 DEF Finish, IInv, Typed
<1> HIDE DEF shown
<1>4. x \in Records /\ x.pc = "store" /\ x.ran = TRUE /\ x.at = q.at /\ x.seen = q.seen
      /\ x.op = q.op /\ x.key = q.key /\ x.user = q.user /\ x.life = q.life
  BY <1>2, <1>3 DEF Records
<1> HIDE DEF x
<1>5. /\ Excused(x, rq) /\ x.at <= now /\ x.life <= life
      /\ \A p \in x.seen : rq[p].pc = "answered" /\ rq[p].ran
  <2>1. Keyed(x) = Keyed(q) /\ IdemKey(x) = IdemKey(q)
    BY <1>4 DEF Keyed, IdemKey, WhoseKey
  <2> QED BY <1>2, <1>4, <2>1 DEF Excused
<1>6. /\ rq'[r] = x /\ \A p \in Reqs \ {r} : rq'[p] = rq[p]
      /\ \A p \in Reqs : rq[p].pc = "answered" => rq'[p] = rq[p]
      /\ Marks' /\ \A p \in Reqs : Excused(rq'[p], rq')
  <2>1. rq[r].pc # "answered" /\ UNCHANGED <<now, life>>
    BY <1>2
  <2> QED BY <1>3, <1>4, <1>5, <2>1, RequestRetries
<1>7. Stored(rq', life) = Stored(rq, life)
  BY <1>2, <1>4, <1>6 DEF Stored
<1>8. CacheKeys' /\ Remembered'
  BY <1>2, <1>6, <1>7, CacheRetries
<1> QED BY <1>6, <1>8 DEF Retries
\* A full cache, at the moment it is emptied for r: its keys are of distinct
\* requests, and r is one more.
LEMMA EmptiedOver ==
  ASSUME IInv, Retries, Marks', NEW r \in Reqs,
         Stored(rq', life) = Stored(rq, life) \cup {r}, r \notin Stored(rq, life),
         \A q \in Reqs : rq[q].pc = "answered" => rq'[q] = rq[q],
         Cardinality(DOMAIN idem) > IdemCap
  PROVE  Over(rq', life)
<1> DEFINE S == Stored(rq, life)
           K == KeysOf(rq, life)
           D == DOMAIN idem
           L == KeysOf(rq', life)
<1>1. IsFiniteSet(S) /\ Cardinality(S) \in Nat /\ IsFiniteSet(K) /\ Cardinality(K) \in Nat
      /\ Cardinality(K) <= Cardinality(S) /\ IsFiniteSet(L) /\ Cardinality(L) \in Nat
  BY KeysFinite DEF Retries, Marks
<1>2. D \in SUBSET K
  BY DEF Retries, CacheKeys, KeysOf
<1>3. K \in SUBSET L
  <2>1. \A s \in S : rq'[s] = rq[s] /\ s \in Stored(rq', life)
    BY DEF Stored
  <2> HIDE DEF S
  <2> QED BY <2>1 DEF KeysOf, S
<1> HIDE DEF S, K, D, L
<1>4. IsFiniteSet(D) /\ Cardinality(D) <= Cardinality(K) /\ Cardinality(K) <= Cardinality(L)
  BY <1>1, <1>2, <1>3, FS_Subset
<1>5. Cardinality(D) \in Nat
  BY <1>4, FS_CardinalityType
<1>6. Cardinality(Stored(rq', life)) = Cardinality(S) + 1
  BY <1>1, FS_AddElement DEF S
<1>7. Cardinality(D) > IdemCap
  BY DEF D
<1>8. Cardinality(L) > IdemCap /\ Cardinality(S) + 1 > IdemCap + 1
  BY <1>1, <1>4, <1>5, <1>7, IdemParams
<1> QED BY <1>6, <1>8 DEF Over, L

\* idemStore.
LEMMA StoreRetries ==
  ASSUME IInv, Retries, NEW r \in Reqs, Store(r)
  PROVE  Retries'
<1> DEFINE q == rq[r]
           k == IdemKey(q)
           x == [q EXCEPT !.pc = "answered"]
           kept == IF Cardinality(DOMAIN idem) > IdemCap THEN <<>> ELSE idem
<1>1. q \in Records /\ q.pc = "store" /\ q.ran /\ q.life = life /\ UNCHANGED <<now, life>>
      /\ now \in Nat /\ life \in Nat /\ q.at <= now /\ Excused(q, rq)
      /\ \A p \in q.seen : rq[p].pc = "answered" /\ rq[p].ran
  BY DEF Store, IInv, Typed, Underway, Retries, Marks
<1>2. /\ rq' = [rq EXCEPT ![r] = x]
      /\ idem' = IF Keyed(q)
                 THEN [j \in DOMAIN kept \cup {k} |->
                         IF j = k THEN [status |-> q.status, by |-> r, ts |-> now] ELSE kept[j]]
                 ELSE idem
  BY DEF Store, IInv, Typed
<1>3. x \in Records /\ x.pc = "answered" /\ x.ran = q.ran /\ x.at = q.at /\ x.seen = q.seen
      /\ x.op = q.op /\ x.key = q.key /\ x.user = q.user /\ x.life = q.life
  BY <1>1 DEF Records
<1> HIDE DEF x
<1>4. IdemKey(x) = k /\ (Keyed(x) <=> Keyed(q))
  BY <1>3 DEF IdemKey, WhoseKey, Keyed
<1>5. /\ Excused(x, rq) /\ x.at <= now /\ x.life <= life
      /\ \A p \in x.seen : rq[p].pc = "answered" /\ rq[p].ran
  BY <1>1, <1>3, <1>4 DEF Excused
<1>6. /\ rq'[r] = x /\ \A p \in Reqs \ {r} : rq'[p] = rq[p]
      /\ \A p \in Reqs : rq[p].pc = "answered" => rq'[p] = rq[p]
      /\ Marks' /\ \A p \in Reqs : Excused(rq'[p], rq')
  <2>1. rq[r].pc # "answered" /\ UNCHANGED <<now, life>>
    BY <1>1
  <2> QED BY <1>2, <1>3, <1>5, <2>1, RequestRetries
<1>7. CASE ~Keyed(q)
  <2>1. Stored(rq', life) = Stored(rq, life)
    BY <1>1, <1>4, <1>6, <1>7 DEF Stored
  <2>2. CacheKeys' /\ Remembered'
    BY <1>1, <1>2, <1>6, <1>7, <2>1, CacheRetries
  <2> QED BY <1>6, <2>2 DEF Retries
<1>8. CASE Keyed(q)
  <2>1. Stored(rq', life) = Stored(rq, life) \cup {r} /\ r \notin Stored(rq, life)
    BY <1>1, <1>3, <1>4, <1>6, <1>8 DEF Stored
  <2>2. \A p \in Stored(rq, life) : p # r /\ rq'[p] = rq[p] /\ rq[p].at \in Nat
    BY <1>6, <2>1 DEF Stored, IInv, Typed, Records
  <2>3. \A j \in DOMAIN kept : j \in DOMAIN idem /\ kept[j] = idem[j]
    OBVIOUS
  <2>4. (\A j \in DOMAIN idem : j \in DOMAIN kept) \/ Over(rq', life)
    BY <1>6, <2>1, EmptiedOver
  <2> HIDE DEF kept, k
  <2>5. /\ DOMAIN idem' = DOMAIN kept \cup {k}
        /\ idem'[k].by = r /\ idem'[k].ts = now
        /\ \A j \in DOMAIN kept : j # k => idem'[j] = idem[j]
    BY <1>2, <1>8, <2>3
  <2>6. CacheKeys'
    <3> SUFFICES ASSUME NEW j \in DOMAIN idem'
                 PROVE  /\ idem'[j].by \in Stored(rq', life) /\ IdemKey(rq'[idem'[j].by]) = j
                        /\ idem'[j].ts \in Nat /\ idem'[j].ts <= now
      BY <1>1 DEF CacheKeys
    <3>1. CASE j = k
      BY <1>1, <1>4, <1>6, <2>1, <2>5, <3>1
    <3>2. CASE j # k
      <4>1. j \in DOMAIN idem /\ idem'[j] = idem[j]
        BY <2>3, <2>5, <3>2
      <4>2. idem[j].by \in Stored(rq, life) /\ IdemKey(rq[idem[j].by]) = j
            /\ idem[j].ts \in Nat /\ idem[j].ts <= now
        BY <4>1 DEF Retries, CacheKeys
      <4> QED BY <2>1, <2>2, <4>1, <4>2
    <3> QED BY <3>1, <3>2
  <2>7. Over(rq, life) => Over(rq', life)
    BY <1>6, OverKept DEF Marks
  <2>8. Remembered'
    <3> SUFFICES ASSUME NEW p \in Stored(rq', life), ~Over(rq', life),
                        ~(now - rq'[p].at > IdemWindow)
                 PROVE  /\ IdemKey(rq'[p]) \in DOMAIN idem'
                        /\ rq'[p].at <= idem'[IdemKey(rq'[p])].ts
      BY <1>1 DEF Remembered
    <3>1. CASE IdemKey(rq'[p]) = k
      <4>1. rq'[p].at <= now
        BY <1>1, <1>6 DEF Marks, Stored
      <4> QED BY <2>5, <3>1, <4>1
    <3>2. CASE IdemKey(rq'[p]) # k
      <4>1. p \in Stored(rq, life) /\ rq'[p] = rq[p]
        BY <1>4, <1>6, <2>1, <2>2, <3>2
      <4>2. IdemKey(rq[p]) \in DOMAIN idem /\ rq[p].at <= idem[IdemKey(rq[p])].ts
        BY <2>7, <4>1 DEF Retries, Remembered
      <4>3. IdemKey(rq[p]) \in DOMAIN kept
        BY <2>4, <4>2
      <4> QED BY <2>5, <3>2, <4>1, <4>2, <4>3
    <3> QED BY <3>1, <3>2
  <2> QED BY <1>6, <2>6, <2>8 DEF Retries
<1> QED BY <1>7, <1>8

\* A restart empties the cache, and no answer is of the new life.
LEMMA RestartRetries ==
  ASSUME IInv, Retries, Restart
  PROVE  Retries'
<1>1. life' = life + 1 /\ idem' = <<>> /\ now' = now /\ life \in Nat /\ now \in Nat
  BY DEF Restart, IInv, Typed
<1>2. ASSUME NEW r \in Reqs
      PROVE  \/ rq[r].pc \in {"idle", "answered"} /\ rq'[r] = rq[r]
             \/ /\ rq[r].pc \notin {"idle", "answered"} /\ rq'[r].pc = "dead"
                /\ \/ /\ rq'[r].ran = FALSE /\ rq'[r].at = 0 /\ rq'[r].seen = {}
                   \/ /\ rq[r].ran /\ rq'[r].ran /\ rq'[r].at = rq[r].at
                      /\ rq'[r].seen = rq[r].seen /\ rq'[r].life = rq[r].life
                      /\ rq'[r].op = rq[r].op /\ rq'[r].key = rq[r].key
                      /\ rq'[r].user = rq[r].user
  <2> DEFINE q == rq[r]
  <2>1. q \in Records
    BY DEF IInv, Typed
  <2>2. CASE q.pc \in {"idle", "answered"}
    BY <2>2 DEF Restart
  <2>3. CASE q.pc \notin {"idle", "answered"} /\ q.ran
    <3> DEFINE x == [q EXCEPT !.pc = "dead"]
    <3>1. rq'[r] = x
      BY <2>3 DEF Restart
    <3>2. x.pc = "dead" /\ x.ran = q.ran /\ x.at = q.at /\ x.seen = q.seen
          /\ x.life = q.life /\ x.op = q.op /\ x.key = q.key /\ x.user = q.user
      BY <2>1 DEF Records
    <3> HIDE DEF x
    <3> QED BY <2>3, <3>1, <3>2
  <2>4. CASE q.pc \notin {"idle", "answered"} /\ ~q.ran
    <3> DEFINE x == [Unsent EXCEPT !.pc = "dead"]
    <3>1. rq'[r] = x
      BY <2>4 DEF Restart
    <3>2. x.pc = "dead" /\ x.ran = FALSE /\ x.at = 0 /\ x.seen = {}
      BY DEF Unsent
    <3> HIDE DEF x
    <3> QED BY <2>4, <3>1, <3>2
  <2> QED BY <2>2, <2>3, <2>4
<1>3. \A q \in Reqs : rq[q].pc = "answered" => rq'[q] = rq[q]
  BY <1>2
<1>4. Begun(rq') = Begun(rq)
  BY <1>2 DEF Begun
<1>5. IsFiniteSet(Begun(rq')) /\ \A l : Over(rq, l) => Over(rq', l)
  BY <1>3, <1>4, OverKept DEF Retries, Marks
<1>6. \A r \in Reqs : \A p \in rq[r].seen : p \in Reqs /\ rq[p].pc = "answered" /\ rq[p].ran
  BY DEF Retries, Marks, IInv, Typed, Records
<1>7. \A r \in Reqs : rq[r].at <= now /\ rq[r].life \in Nat /\ (rq[r].ran => rq[r].life <= life)
  BY DEF Retries, Marks, IInv, Typed, Records
<1>8. Marks'
  <2>1. ASSUME NEW r \in Reqs
        PROVE  /\ rq'[r].at <= now
               /\ rq'[r].ran => rq'[r].life <= life + 1
               /\ \A q \in rq'[r].seen : rq'[q].pc = "answered" /\ rq'[q].ran
    <3>1. CASE rq'[r] = rq[r]
      BY <1>1, <1>3, <1>6, <1>7, <3>1
    <3>2. CASE rq'[r].ran = FALSE /\ rq'[r].at = 0 /\ rq'[r].seen = {}
      BY <1>1, <3>2
    <3>3. CASE /\ rq[r].ran /\ rq'[r].at = rq[r].at
               /\ rq'[r].seen = rq[r].seen /\ rq'[r].life = rq[r].life
      BY <1>1, <1>3, <1>6, <1>7, <3>3
    <3> QED BY <1>2, <3>1, <3>2, <3>3
  <2> QED BY <1>1, <1>5, <2>1 DEF Marks
<1>9. Stored(rq', life') = {}
  <2> SUFFICES ASSUME NEW r \in Reqs, rq'[r].pc = "answered", rq'[r].ran PROVE rq'[r].life # life'
    BY DEF Stored
  <2>1. rq'[r] = rq[r]
    BY <1>2
  <2> QED BY <1>1, <1>7, <2>1
<1>10. CacheKeys' /\ Remembered'
  BY <1>1, <1>9 DEF CacheKeys, Remembered
<1>11. ASSUME NEW r \in Reqs PROVE Excused(rq'[r], rq')
  <2>1. \A p \in rq[r].seen : rq'[p] = rq[p]
    BY <1>3, <1>6
  <2>2. Excused(rq[r], rq)
    BY DEF Retries
  <2>3. CASE rq'[r] = rq[r]
    BY <1>5, <2>1, <2>2, <2>3 DEF Excused
  <2>4. CASE rq'[r].pc = "dead" /\ rq'[r].ran = FALSE
    BY <2>4 DEF Excused
  <2>5. CASE /\ rq[r].ran /\ rq'[r].ran /\ rq'[r].at = rq[r].at
             /\ rq'[r].seen = rq[r].seen /\ rq'[r].life = rq[r].life
             /\ rq'[r].op = rq[r].op /\ rq'[r].key = rq[r].key /\ rq'[r].user = rq[r].user
    <3>1. IdemKey(rq'[r]) = IdemKey(rq[r]) /\ (Keyed(rq'[r]) <=> Keyed(rq[r]))
      BY <2>5 DEF IdemKey, WhoseKey, Keyed
    <3> QED BY <1>5, <2>1, <2>2, <2>5, <3>1 DEF Excused
  <2> QED BY <1>2, <2>3, <2>4, <2>5
<1> QED BY <1>8, <1>10, <1>11 DEF Retries

\* Time goes by.
LEMMA TickRetries ==
  ASSUME IInv, Retries, UNCHANGED <<rq, idem, life>>, now' \in Nat, now <= now'
  PROVE  Retries'
<1>1. now \in Nat /\ \A r \in Reqs : rq[r].at \in Nat
  BY DEF IInv, Typed, Records
<1>2. Marks'
  BY <1>1 DEF Retries, Marks
<1>3. CacheKeys'
  BY <1>1 DEF Retries, CacheKeys
<1>4. Remembered'
  BY <1>1, IdemParams DEF Retries, Remembered, Stored
<1>5. \A r \in Reqs : Excused(rq'[r], rq')
  BY DEF Retries
<1> QED BY <1>2, <1>3, <1>4, <1>5 DEF Retries
\* docs/10-gateway.md on Idempotency-Key: a retry sent after the answer
\* executes nothing, for any number of requests, any window and any capacity,
\* unless the process restarted, the window is over or the cache overflowed.
THEOREM RetriesReplay == Spec => []RetryReplays
<1>1. Init => Retries
  <2> SUFFICES ASSUME Init PROVE Retries
    OBVIOUS
  <2>1. \A r \in Reqs : rq[r].pc = "idle" /\ rq[r].ran = FALSE /\ rq[r].at = 0
                       /\ rq[r].seen = {}
    BY DEF Init, Unsent
  <2>2. Begun(rq) = {} /\ Stored(rq, life) = {}
    BY <2>1 DEF Begun, Stored
  <2>3. Marks
    <3>1. IsFiniteSet(Begun(rq))
      BY <2>2, FS_EmptySet
    <3>2. now = 0
      BY DEF Init
    <3> QED BY <2>1, <3>1, <3>2 DEF Marks
  <2>4. CacheKeys /\ Remembered
    BY <2>2 DEF Init, CacheKeys, Remembered
  <2>5. \A r \in Reqs : Excused(rq[r], rq)
    BY <2>1 DEF Excused
  <2> QED BY <2>3, <2>4, <2>5 DEF Retries
<1>2. IInv /\ Scopes /\ Retries /\ [Next]_vars => Retries'
  <2> SUFFICES ASSUME IInv, Scopes, Retries, [Next]_vars PROVE Retries'
    OBVIOUS
  <2>1. now \in Nat
    BY DEF IInv, Typed
  <2>2. Tick \/ (\E g \in Orgs : CreateOrg(g)) \/ UNCHANGED vars =>
          UNCHANGED <<rq, idem, life>> /\ now' \in Nat /\ now <= now'
    BY <2>1 DEF Tick, CreateOrg, vars
  <2> QED BY <2>2, TickRetries, ReceiveRetries, LookupRetries, ExecuteRetries, StoreRetries,
             RestartRetries DEF Next
<1>3. ASSUME IInv, Retries PROVE RetryReplays
  <2> SUFFICES ASSUME NEW r \in Reqs, NEW q \in Reqs, rq[r].ran, Keyed(rq[r]),
                      Keyed(rq[q]), q \in rq[r].seen,
                      IdemKey(rq[q]) = IdemKey(rq[r]), rq[q].life = rq[r].life
               PROVE  rq[r].at - rq[q].at > IdemWindow \/ Overflowed(rq[r].life)
    BY DEF RetryReplays
  <2>1. rq[r].at - rq[q].at > IdemWindow \/ Over(rq, rq[r].life)
    BY <1>3 DEF Retries, Excused
  <2>2. \A l : StoredIn(l) = Stored(rq, l)
    BY DEF StoredIn, Stored, Answered, In
  <2> QED BY <2>1, <2>2 DEF Over, Overflowed, KeysOf
<1>4. IInv /\ Retries => RetryReplays
  BY <1>3
<1> QED BY <1>1, <1>2, <1>4, Invariance, ScopesAlways, PTL DEF Spec
=============================================================================
