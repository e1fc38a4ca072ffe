------------------------------ MODULE Requests ------------------------------
(***************************************************************************)
(* The gateway's request pipeline (route of api.go, auth.go, ratelimit.go): *)
(* bearer tokens, roles, the two org scopes, the token bucket and the      *)
(* Idempotency-Key cache, around the handlers that mint users and tokens,  *)
(* the one that deletes an organisation, and issue, which stands for the   *)
(* routes that are registered with an org scope.                           *)
(*                                                                         *)
(* A request passes its gates, then looks its replay key up, executes and  *)
(* stores its answer, each in a critical section of its own, so requests   *)
(* with one key interleave between the three.  Cache and buckets live in   *)
(* memory; users and tokens are saved to gateway.json, a write that may    *)
(* fail.  The answer is sent when route returns (it fits the buffer of     *)
(* net/http).  A user map read by a gate while a handler writes it is a    *)
(* data race: the runtime ends the process (Restart) or the read is good.  *)
(*                                                                         *)
(* Bucket levels are integers: a request costs Cost, a tick refills Rate.  *)
(*                                                                         *)
(* Texts matter where the code joins them: the replay key.  They are       *)
(* sequences of pieces, one of which is the separator.                     *)
(***************************************************************************)
EXTENDS Naturals, Sequences, FiniteSets, FiniteSetsExt

CONSTANTS
    Reqs,       \* requests
    Keys,       \* Idempotency-Key values
    Calls,      \* what they ask for, and their key: see Operations
    Users, Root,    \* user ids; the first admin
    Tokens, RootToken,  \* raw tokens; the first admin's
    Orgs,       \* organisation ids
    Nil,        \* no user, no scope list, no key, no bucket
    Bar, Pieces,    \* "|", and what the texts below are made of
    Path, Body,     \* the URL path and the body that ask for an operation
    UserText, KeyText,  \* the text of a user id and of a key
    Cost, Rate, Burst,  \* the token bucket, in units
    IdemWindow, \* ticks an answer may be replayed (24 hours)
    IdemCap,    \* entries beyond which the cache is emptied (4096)
    MaxTime, MaxRestarts, MaxFails    \* bounds

Roles == {"admin", "operator", "viewer"}

\* POST .../issue on an org; DELETE /v1/orgs/{org}; POST /v1/users;
\* POST /v1/users/{id}/tokens.
Operations ==
    [kind : {"issue", "delete"}, org : Orgs]
      \cup [kind : {"user"}, id : Users, role : Roles, orgs : SUBSET Orgs]
      \cup [kind : {"token"}, id : Users, orgs : SUBSET Orgs]

ASSUME CallsAreOperations == Calls \subseteq [op : Operations, key : Keys \cup {Nil}]
ASSUME RequestNames ==
    Root \in Users /\ RootToken \in Tokens /\ Nil \notin Users \cup Tokens \cup Keys \cup Reqs

\* What the user map and the buckets hold.
Accounts == [role : Roles, orgs : SUBSET Orgs]
Buckets == [level : Nat, last : Nat]

ASSUME NilIsNoValue ==
    Nil \notin Accounts \cup Buckets /\ \A list \in SUBSET Orgs : list # Nil
ASSUME BarIsPiece == Bar \in Pieces
ASSUME TextTypes ==
    /\ Path \in [Operations -> Seq(Pieces)] /\ Body \in [Operations -> Seq(Pieces)]
    /\ UserText \in [Users -> Seq(Pieces)] /\ KeyText \in [Keys -> Seq(Pieces)]
ASSUME TextsTellApart ==
    /\ \A o, p \in Operations : Path[o] = Path[p] /\ Body[o] = Body[p] => o = p
    /\ \A u, v \in Users : UserText[u] = UserText[v] => u = v
    /\ \A j, k \in Keys : KeyText[j] = KeyText[k] => j = k
ASSUME LimiterParams == Cost \in Nat \ {0} /\ Rate \in Nat /\ Burst \in Nat
ASSUME IdemParams == IdemWindow \in Nat /\ IdemCap \in Nat

VARIABLES
    meta,       \* Store.Users: [users, owner, scope]
    disk,       \* the same as gateway.json has it
    orgs,       \* Store.Tenants: the organisations there are
    idem,       \* Store.idem: replay key -> [status, by, ts]
    bucket,     \* limiter.buckets: [level, last] or Nil
    rq,         \* rq[r]: the request and how far it is
    now,        \* the clock
    life,       \* restarts so far
    fails,      \* failed writes so far
    admitted    \* admitted[t]: when requests of t passed the limiter (history)

vars == <<meta, disk, orgs, idem, bucket, rq, now, life, fails, admitted>>

\* A request not yet sent.  by is the request whose execution made the answer,
\* seen the requests that were answered when this one came in (history).
Unsent == [pc |-> "idle", tok |-> Nil, op |-> Nil, key |-> Nil, user |-> Nil,
           status |-> 0, by |-> Nil, minted |-> Nil, ran |-> FALSE,
           seen |-> {}, life |-> 0, at |-> 0]

Init ==
    /\ meta = [users |-> [u \in Users |-> IF u = Root
                            THEN [role |-> "admin", orgs |-> {}] ELSE Nil],
               owner |-> [t \in Tokens |-> IF t = RootToken THEN Root ELSE Nil],
               scope |-> [t \in Tokens |-> Nil]]
    /\ disk = meta
    /\ orgs = Orgs
    /\ idem = <<>>
    /\ bucket = [t \in Tokens |-> Nil]
    /\ rq = [r \in Reqs |-> Unsent]
    /\ now = 0
    /\ life = 0
    /\ fails = 0
    /\ admitted = [t \in Tokens |-> <<>>]

In(pc) == {r \in Reqs : rq[r].pc = pc}

Answered == In("answered")

\* Those of R whose handler ran.
Ran(R) == {r \in R : rq[r].ran}
-----------------------------------------------------------------------------
(* The gates                                                               *)

\* Routes registered with scoped = true: not that of DELETE /v1/orgs/{org}.
Scoped(op) == op.kind = "issue"

\* The route table's roles.
RolesOf(op) == IF op.kind = "issue" THEN {"operator", "admin"} ELSE {"admin"}

Authenticate(tok) == IF tok \in Tokens THEN meta.owner[tok] ELSE Nil

InOrg(u, g) == meta.users[u].orgs = {} \/ g \in meta.users[u].orgs

\* Mutant of TokenInOrg: the token's own scope is not looked at.
TokenInAnyOrg(tok, g) == TRUE

TokenInOrg(tok, g) == meta.scope[tok] = Nil \/ g \in meta.scope[tok]

\* Mutant of Refilled: the cap is forgotten.
RefilledUncapped(tok) ==
    IF bucket[tok] = Nil THEN Burst
    ELSE bucket[tok].level + Rate * (now - bucket[tok].last)

\* allow: what the bucket holds when a request comes. The code reads the clock
\* twice and keeps fractions of a token; here time passes in whole units, and
\* one reading serves for the level and for its time stamp.
Refilled(tok) ==
    IF bucket[tok] = Nil THEN Burst
    ELSE Min({Burst, bucket[tok].level + Rate * (now - bucket[tok].last)})

\* The tokens that some client was shown (a bogus one is Nil).
Shown == {RootToken} \cup {rq[r].minted : r \in Answered}

\* What the gates before the limiter answer, 0 to go on.
FrontGate(tok, op) ==
    LET u == Authenticate(tok)
    IN  IF u = Nil THEN 401
        ELSE IF meta.users[u].role \notin RolesOf(op) THEN 403
        ELSE 0

\* And the ones after it.
ScopeGate(tok, op) ==
    LET u == Authenticate(tok)
    IN  IF ~Scoped(op) THEN 0
        ELSE IF op.org \notin orgs THEN 404
        ELSE IF ~InOrg(u, op.org) \/ ~TokenInOrg(tok, op.org) THEN 403
        ELSE 0

\* A request that was turned away left nothing behind.
Sent(tok, op, key, status) ==
    IF status # 0 THEN [Unsent EXCEPT !.pc = "answered", !.status = status]
    ELSE [Unsent EXCEPT !.pc = "routed", !.tok = tok, !.op = op, !.key = key,
                        !.user = Authenticate(tok), !.seen = Ran(Answered), !.life = life]

\* The gates commute with everything other requests do: tokens and users are
\* only ever added, and the bucket is the token's own.
Receive(r, tok, op, key) ==
    /\ rq[r].pc = "idle"
    /\ tok \in Shown \cup {Nil}
    /\ LET front == FrontGate(tok, op)
           level == Refilled(tok)
           limit == IF level < Cost THEN 429 ELSE 0
       IN  IF front # 0
             THEN /\ rq' = [rq EXCEPT ![r] = Sent(tok, op, key, front)]
                  /\ UNCHANGED <<bucket, admitted>>
             ELSE /\ bucket' = [bucket EXCEPT ![tok] =
                        [level |-> IF limit = 0 THEN level - Cost ELSE level, last |-> now]]
                  /\ admitted' = IF limit = 0
                        THEN [admitted EXCEPT ![tok] = Append(@, now)] ELSE admitted
                  /\ rq' = [rq EXCEPT ![r] = Sent(tok, op, key,
                        IF limit # 0 THEN limit ELSE ScopeGate(tok, op))]
    /\ UNCHANGED <<meta, disk, orgs, idem, now, life, fails>>
-----------------------------------------------------------------------------
(* Idempotency                                                             *)

\* method|path|user|key|body, joined as they are.
Join(path, user, key, body) ==
    path \o <<Bar>> \o (user \o <<Bar>> \o (key \o <<Bar>> \o body))

\* The user comes from the request context, where route puts it only if the
\* route has no org scope.
WhoseKey(q) == IF Scoped(q.op) THEN <<>> ELSE UserText[q.user]

\* Mutant of IdemKey: the body is left out.
IdemKeyNoBody(q) == Join(Path[q.op], WhoseKey(q), KeyText[q.key], <<>>)

\* The replay key (the code hashes it): only its text tells requests apart.
IdemKey(q) == Join(Path[q.op], WhoseKey(q), KeyText[q.key], Body[q.op])

\* A header was sent, and the method is not DELETE.
Keyed(q) == q.key # Nil /\ q.op.kind # "delete"

Cached(q) == IdemKey(q) \in DOMAIN idem

\* Mutant of Expired: the last instant of the window is out of it.
ExpiredSoon(q) == now - idem[IdemKey(q)].ts >= IdemWindow

Expired(q) == now - idem[IdemKey(q)].ts > IdemWindow

Without(f, k) == [x \in DOMAIN f \ {k} |-> f[x]]

\* idemLookup: replay the answer, or go on; an old entry is deleted.
Lookup(r) ==
    LET q == rq[r]
        k == IdemKey(q)
    IN  /\ q.pc = "routed"
        /\ IF Keyed(q) /\ Cached(q) /\ ~Expired(q)
             THEN /\ rq' = [rq EXCEPT ![r].pc = "answered", ![r].status = idem[k].status,
                                      ![r].by = idem[k].by, ![r].at = now,
                                      ![r].minted = rq[idem[k].by].minted]
                  /\ UNCHANGED idem
             ELSE /\ rq' = [rq EXCEPT ![r].pc = "run", ![r].at = now]
                  /\ idem' = IF Keyed(q) THEN Without(idem, k) ELSE idem
        /\ UNCHANGED <<meta, disk, orgs, bucket, now, life, fails, admitted>>

\* idemStore, and the answer.
Store(r) ==
    LET q == rq[r]
        kept == IF Cardinality(DOMAIN idem) > IdemCap THEN <<>> ELSE idem
    IN  /\ q.pc = "store"
        /\ idem' = IF Keyed(q)
                   THEN [x \in DOMAIN kept \cup {IdemKey(q)} |->
                            IF x = IdemKey(q) THEN [status |-> q.status, by |-> r, ts |-> now]
                            ELSE kept[x]]
                   ELSE idem
        /\ rq' = [rq EXCEPT ![r].pc = "answered"]
        /\ UNCHANGED <<meta, disk, orgs, bucket, now, life, fails, admitted>>
-----------------------------------------------------------------------------
(* The handlers                                                            *)

Finish(r, status, tok) ==
    rq' = [rq EXCEPT ![r].pc = "store", ![r].status = status, ![r].by = r,
                     ![r].ran = TRUE, ![r].minted = IF status = 201 THEN tok ELSE Nil]

\* Mutant of Saves: the answer does not wait for the write.
SavesUnchecked(r, m, tok) ==
    /\ meta' = m
    /\ \/ disk' = m /\ UNCHANGED fails
       \/ fails < MaxFails /\ fails' = fails + 1 /\ UNCHANGED disk
    /\ Finish(r, 201, tok)

\* saveMeta writes all users and tokens; if it fails the change stays in memory
\* and the answer is a 500.
Saves(r, m, tok) ==
    /\ meta' = m
    /\ \/ /\ disk' = m
          /\ Finish(r, 201, tok)
          /\ UNCHANGED fails
       \/ /\ fails < MaxFails
          /\ fails' = fails + 1
          /\ Finish(r, 500, tok)
          /\ UNCHANGED disk

Refuses(r, status) ==
    /\ Finish(r, status, Nil)
    /\ UNCHANGED <<meta, disk, fails>>

\* NewToken: 32 random bytes, never seen before.
FreshTokens == {t \in Tokens : meta.owner[t] = Nil}

FreshToken == CHOOSE t \in FreshTokens : TRUE

\* NewToken: an empty list of orgs inherits the user's scope.
NewToken(m, u, list) ==
    [m EXCEPT !.owner[FreshToken] = u,
              !.scope[FreshToken] = IF list = {} THEN Nil ELSE list]

\* handleCreateUser, NewUser.
CreateUser(r, op) ==
    IF meta.users[op.id] # Nil THEN Refuses(r, 409)
    ELSE /\ FreshTokens # {}
         /\ Saves(r, NewToken([meta EXCEPT !.users[op.id] =
                                  [role |-> op.role, orgs |-> op.orgs]], op.id, {}),
                  FreshToken)

\* handleUserToken.
UserToken(r, op) ==
    IF meta.users[op.id] = Nil THEN Refuses(r, 404)
    ELSE /\ FreshTokens # {}
         /\ Saves(r, NewToken(meta, op.id, op.orgs), FreshToken)

\* handleIssue: the event is appended to the tenant that route found; when its
\* file cannot be written it stays in memory and the answer is a 500.
Issue(r) ==
    /\ \/ Finish(r, 201, Nil) /\ UNCHANGED fails
       \/ fails < MaxFails /\ fails' = fails + 1 /\ Finish(r, 500, Nil)
    /\ UNCHANGED <<meta, disk, orgs>>

\* handleDeleteOrg, DeleteTenant: the organisation is gone from memory, also when
\* its files cannot be moved or gateway.json cannot be written.
DeleteOrg(r, g) ==
    /\ IF g \in orgs
         THEN \/ Finish(r, 200, Nil) /\ UNCHANGED fails
              \/ fails < MaxFails /\ fails' = fails + 1 /\ Finish(r, 404, Nil)
         ELSE Finish(r, 404, Nil) /\ UNCHANGED fails
    /\ orgs' = orgs \ {g}
    /\ UNCHANGED <<meta, disk>>

Execute(r) ==
    LET op == rq[r].op
    IN  /\ rq[r].pc = "run"
        /\ \/ op.kind = "issue" /\ Issue(r)
           \/ op.kind = "delete" /\ DeleteOrg(r, op.org)
           \/ op.kind = "user" /\ CreateUser(r, op) /\ UNCHANGED orgs
           \/ op.kind = "token" /\ UserToken(r, op) /\ UNCHANGED orgs
        /\ UNCHANGED <<idem, bucket, now, life, admitted>>
-----------------------------------------------------------------------------
(* The environment                                                         *)

Tick ==
    /\ now < MaxTime
    /\ now' = now + 1
    /\ UNCHANGED <<meta, disk, orgs, idem, bucket, rq, life, fails, admitted>>

\* An organisation that was deleted is created again under its old id.
CreateOrg(g) ==
    /\ g \notin orgs
    /\ orgs' = orgs \cup {g}
    /\ UNCHANGED <<meta, disk, idem, bucket, rq, now, life, fails, admitted>>

\* The process dies and starts again: what is in memory only is gone.
Restart ==
    /\ life < MaxRestarts
    /\ life' = life + 1
    /\ meta' = disk
    /\ idem' = <<>>
    /\ bucket' = [t \in Tokens |-> Nil]
    /\ admitted' = [t \in Tokens |-> <<>>]
    /\ rq' = [r \in Reqs |-> IF rq[r].pc \in {"idle", "answered"} THEN rq[r]
                             ELSE IF rq[r].ran THEN [rq[r] EXCEPT !.pc = "dead"]
                             ELSE [Unsent EXCEPT !.pc = "dead"]]
    /\ UNCHANGED <<disk, orgs, now, fails>>

Next ==
    \/ \E r \in Reqs :
         \/ \E t \in Tokens \cup {Nil}, c \in Calls : Receive(r, t, c.op, c.key)
         \/ Lookup(r) \/ Execute(r) \/ Store(r)
    \/ \E g \in Orgs : CreateOrg(g)
    \/ Tick \/ Restart

Spec == Init /\ [][Next]_vars
-----------------------------------------------------------------------------
(* Properties                                                              *)

\* Type correctness.
TypeOK ==
    /\ meta.owner \in [Tokens -> Users \cup {Nil}]
    /\ \A r \in Reqs : rq[r].status \in {0, 200, 201, 401, 403, 404, 409, 429, 500}
    /\ now \in 0..MaxTime /\ life \in 0..MaxRestarts
    /\ orgs \subseteq Orgs

\* Requests whose answer was stored in the cache in process life l.
StoredIn(l) == {r \in Answered : rq[r].ran /\ Keyed(rq[r]) /\ rq[r].life = l}

\* Reason to have emptied the cache in life l: it held more than IdemCap keys
\* when one more answer came, perhaps under a key that it held already.
Overflowed(l) ==
    /\ Cardinality({IdemKey(rq[s]) : s \in StoredIn(l)}) > IdemCap
    /\ Cardinality(StoredIn(l)) > IdemCap + 1

\* docs/10-gateway.md: retries with the same key "replay the cached response
\* instead of applying twice (24h window, in-memory)".  A retry sent after the
\* answer executes nothing, failures included, whatever other requests do in
\* the meantime: only a restart, a day gone by, or a cache that overflowed
\* makes it execute again.  (One sent before the answer may execute as well.)
RetryReplays ==
    \A r, q \in Reqs :
        /\ rq[r].ran /\ rq[q].ran
        /\ Keyed(rq[r]) /\ Keyed(rq[q]) /\ q \in rq[r].seen
        /\ IdemKey(rq[q]) = IdemKey(rq[r])
        => \/ rq[q].life # rq[r].life
           \/ rq[r].at - rq[q].at > IdemWindow
           \/ Overflowed(rq[r].life)

NoBar(text) == \A i \in DOMAIN text : text[i] # Bar

\* No part of the request's replay key, but for the body at its end, contains the
\* separator.
Plain(q) == NoBar(Path[q.op]) /\ NoBar(WhoseKey(q)) /\ NoBar(KeyText[q.key])

\* What is replayed was made in this life of the process, by a request with the
\* same replay key; and unless one of the two has the separator in its path, its
\* user id or its Idempotency-Key, that is a request for the same operation on
\* the same organisation, and on the routes without an org scope, those that
\* answer with a raw token, by the same user.
ReplayMatches ==
    \A r \in Answered :
        rq[r].by \notin {Nil, r} =>
            LET q == rq[rq[r].by]
            IN  /\ q.ran /\ q.status = rq[r].status
                /\ q.life = rq[r].life
                /\ (Plain(q) /\ Plain(rq[r])) =>
                     /\ q.op = rq[r].op /\ q.key = rq[r].key
                     /\ Scoped(q.op) \/ q.user = rq[r].user

\* Whoever reaches an organisation's timeline by a route with an org scope was
\* let in by the requests that made the account and the token: both scopes
\* contain it (auth.go: "both gates apply"); and the role of the account allows
\* that operation and a deletion; also after restarts and failed saves.
ScopeHolds ==
    \A r, m \in Reqs : rq[r].ran /\ rq[m].ran =>
        /\ (Scoped(rq[r].op) /\ rq[m].op.kind = "token" /\ rq[m].minted = rq[r].tok) =>
             rq[m].op.orgs = {} \/ rq[r].op.org \in rq[m].op.orgs
        /\ (rq[m].op.kind = "user" /\ rq[m].status = 201 /\ rq[m].op.id = rq[r].user) =>
             /\ rq[m].op.role \in RolesOf(rq[r].op)
             /\ Scoped(rq[r].op) => rq[m].op.orgs = {} \/ rq[r].op.org \in rq[m].op.orgs

\* A raw token is shown once and cannot be had again, so one that was shown
\* keeps working: across restarts, failed saves and concurrent requests, it
\* authenticates the user it was minted for.
ShownTokenWorks ==
    \A r \in Answered : rq[r].minted # Nil =>
        LET q == rq[rq[r].by]
        IN  q.ran /\ q.minted = rq[r].minted /\ meta.owner[q.minted] = q.op.id

\* allow is exactly the sliding bound that its comment states, the burst for
\* the short term and the rate for the long: a request is denied if and only
\* if granting it would exceed Burst + Rate * elapsed over some past window.
LimiterExact ==
    \A t \in Tokens :
        Refilled(t) >= Cost <=>
            /\ Burst >= Cost
            /\ \A i \in DOMAIN admitted[t] :
                 Cost * (Len(admitted[t]) - i + 2) <= Burst + Rate * (now - admitted[t][i])
-----------------------------------------------------------------------------
(* Claims of the documentation that the code does not keep                 *)

\* api.go on idemKey: "The token identity keeps one client's replay from
\* serving another's result."
OwnReplaysOnly ==
    \A r \in Answered :
        rq[r].by \notin {Nil, r} => rq[rq[r].by].user = rq[r].user

\* The same of the routes that do keep the user in the key: an id or a key with
\* "|" in it makes two users' keys one.
OwnTokensOnly ==
    \A r \in Answered :
        (rq[r].by \notin {Nil, r} /\ ~Scoped(rq[r].op)) => rq[rq[r].by].user = rq[r].user

\* docs/10-gateway.md: "The org-scope check runs on every tenant route (403
\* outside scope)."  The route that deletes an organisation has none.
EveryRouteScoped ==
    \A r, m \in Reqs :
        /\ rq[r].ran /\ rq[r].op.kind \in {"issue", "delete"}
        /\ rq[m].ran /\ rq[m].op.kind = "user"
        /\ rq[m].status = 201 /\ rq[m].op.id = rq[r].user
        => rq[m].op.orgs = {} \/ rq[r].op.org \in rq[m].op.orgs
=============================================================================
