------------------------------- MODULE CTLog --------------------------------
(***************************************************************************)
(* Transparency of one organisation's timeline (ctlog.go, the ct handlers  *)
(* of api.go): the Merkle tree over its events, inclusion and consistency  *)
(* proofs with their verifiers, and the gossip endpoint, which keeps the   *)
(* highest tree head it accepted and raises an alarm on a mismatch.        *)
(*                                                                         *)
(* A reporter fetches a tree head, then a consistency proof from the size  *)
(* that it was last told is trusted, and posts both; the log grows, or is  *)
(* rewritten by the adoption of a recovery fork, in between.  The gossip   *)
(* handler does not take Store.mu, so its reads and writes of the trusted  *)
(* head are separate steps.                                                *)
(*                                                                         *)
(* Hashes are symbolic: a leaf hash is a record of the entry, a node hash  *)
(* the record of its children, so two hashes are equal iff they hash the   *)
(* same; each also names the entries below it, and nil has none.           *)
(* Signatures of tree heads are not shown: reporters post only heads that  *)
(* the log has signed.                                                     *)
(***************************************************************************)
EXTENDS Integers, Sequences, FiniteSets, SequencesExt

CONSTANTS
    Reporters,      \* clients that gossip
    MaxSize,        \* bound on the log's size
    MaxReported,    \* bound on it once reporters have started
    MaxAdoptions,   \* bound on adopted recovery forks
    MaxPosts        \* bound on gossip posts

ASSUME CTBounds ==
    /\ MaxSize \in Nat /\ MaxReported \in 0..MaxSize
    /\ MaxAdoptions \in Nat /\ MaxPosts \in Nat

VARIABLES
    log,        \* the hashes of the org's events, in order
    adoptions,  \* recovery forks adopted so far
    ctSize,     \* Tenant.ctSize
    ctRoot,     \* Tenant.ctRoot
    rep,        \* rep[r]: where reporter r stands and what it holds
    posts       \* gossip posts so far

ctVars == <<log, adoptions, ctSize, ctRoot, rep, posts>>
-----------------------------------------------------------------------------
(* The Merkle tree                                                         *)

Nil == [entries |-> <<>>]
LeafHash(entry) == [leaf |-> entry, entries |-> <<entry>>]
NodeHash(l, r) == [left |-> l, right |-> r, entries |-> l.entries \o r.entries]

\* n shifted right d times, and the d-th power of two.
Shr(n, d) == LET half[e \in 0..d] == IF e = 0 THEN n ELSE half[e - 1] \div 2 IN half[d]
Pow2(d) == LET pow[e \in 0..d] == IF e = 0 THEN 1 ELSE 2 * pow[e - 1] IN pow[d]

\* The number at which a loop that counts up from zero stops.
First(S) == CHOOSE d \in S : \A e \in 0..d - 1 : e \notin S

\* splitPoint doubles k as long as that stays below n.
SplitPoint(n) == Pow2(First({d \in 0..n : 2 * Pow2(d) >= n}))

\* mth: the tree hash of leaves [i, j) of log L.
Mth(L, i, j) ==
    LET mth[p \in (0..Len(L)) \X (0..Len(L))] ==
          LET k == SplitPoint(p[2] - p[1])
          IN  IF p[2] <= p[1] THEN Nil
              ELSE IF p[2] - p[1] = 1 THEN LeafHash(L[p[2]])
              ELSE NodeHash(mth[<<p[1], p[1] + k>>], mth[<<p[1] + k, p[2]>>])
    IN  mth[<<i, j>>]

\* The subtrees [i, j) of a tree of that size that leaf idx lies in.
Around(idx, size) == {p \in (0..size) \X (0..size) : p[1] <= idx /\ idx < p[2]}

\* path: the siblings from leaf idx up to the root.
InclusionProof(L, idx, size) ==
    LET path[p \in Around(idx, size)] ==
          LET k == p[1] + SplitPoint(p[2] - p[1])
          IN  IF p[2] - p[1] = 1 THEN <<>>
              ELSE IF idx < k THEN Append(path[<<p[1], k>>], Mth(L, k, p[2]))
                              ELSE Append(path[<<k, p[2]>>], Mth(L, p[1], k))
    IN  path[<<0, size>>]

\* Mutant of ConsistencyProof: the RFC 6962 base case, which leaves the root out.
ConsistencyProofOld(L, from, to) ==
    LET path[p \in Around(from - 1, to)] ==
          LET k == p[1] + SplitPoint(p[2] - p[1])
          IN  IF p[2] = from THEN <<>>
              ELSE IF from <= k THEN Append(path[<<p[1], k>>], Mth(L, k, p[2]))
                                ELSE Append(path[<<k, p[2]>>], Mth(L, p[1], k))
    IN  path[<<0, to>>]

\* consPath, down to the last leaf of the old tree; the flag b holds until the
\* descent turns right, that is in the subtrees that start at zero.
ConsistencyProof(L, from, to) ==
    LET path[p \in Around(from - 1, to)] ==
          LET k == p[1] + SplitPoint(p[2] - p[1])
          IN  IF p[2] = from THEN (IF p[1] = 0 THEN <<>> ELSE <<Mth(L, p[1], p[2])>>)
              ELSE IF from <= k THEN Append(path[<<p[1], k>>], Mth(L, k, p[2]))
                                ELSE Append(path[<<k, p[2]>>], Mth(L, p[1], k))
    IN  path[<<0, to>>]
-----------------------------------------------------------------------------
(* The verifiers                                                           *)

Odd(n) == n % 2 = 1

\* How often the loops over the bits of fn run.
Evens(n) == IF n = 0 THEN 0 ELSE First({d \in 0..n : Odd(Shr(n, d))})
Odds(n) == First({d \in 0..n : ~Odd(Shr(n, d))})

\* Both frontiers after d shifts; fr recomputes the old root, sr the new one.
Walker(fn, sn, d, fr, sr) == [fn |-> Shr(fn, d), sn |-> Shr(sn, d), fr |-> fr, sr |-> sr]

\* One round of either verifier's loop.
Climb(w, p) ==
    IF Odd(w.fn) \/ w.fn = w.sn
    THEN Walker(w.fn, w.sn, Evens(w.fn) + 1, NodeHash(p, w.fr), NodeHash(p, w.sr))
    ELSE Walker(w.fn, w.sn, 1, w.fr, NodeHash(w.sr, p))

\* The states of the loop over a path.
Walk(start, path) ==
    LET walk[n \in 0..Len(path)] == IF n = 0 THEN start ELSE Climb(walk[n - 1], path[n])
    IN  walk

\* No round finds the root passed, and the last one ends there.
EndsAtRoot(walk, n) == walk[n].sn = 0 /\ \A m \in 0..n - 1 : walk[m].sn # 0

VerifyInclusion(leaf, idx, size, proof) ==
    LET walk == Walk(Walker(idx, size - 1, 0, leaf, leaf), proof)
        n == Len(proof)
    IN  IF 0 <= idx /\ idx < size /\ EndsAtRoot(walk, n) THEN walk[n].sr ELSE Nil

PowerOfTwo(n) == \E d \in 0..n : n = Pow2(d)

VerifyConsistency(oldRoot, newRoot, size1, size2, proof) ==
    IF size1 = 0 THEN proof = <<>>
    ELSE IF size1 > size2 \/ oldRoot = Nil \/ newRoot = Nil THEN FALSE
    ELSE IF size1 = size2 THEN proof = <<>> /\ oldRoot = newRoot
    ELSE /\ proof # <<>>
         /\ LET path == (IF PowerOfTwo(size1) THEN <<oldRoot>> ELSE <<>>) \o proof
                start == Walker(size1 - 1, size2 - 1, Odds(size1 - 1), path[1], path[1])
                walk == Walk(start, Tail(path))
                n == Len(Tail(path))
            IN  EndsAtRoot(walk, n) /\ walk[n].fr = oldRoot /\ walk[n].sr = newRoot
-----------------------------------------------------------------------------
(* The gateway                                                             *)

TreeHead(L) == [size |-> Len(L), root |-> Mth(L, 0, Len(L))]

Idle(known) == [pc |-> "idle", known |-> known, sth |-> TreeHead(<<>>), proof |-> <<>>,
                seen |-> TreeHead(<<>>), verdict |-> "none"]

CTInit ==
    /\ log = <<>>
    /\ adoptions = 0
    /\ ctSize = 0
    /\ ctRoot = Nil
    /\ rep = [r \in Reporters |-> Idle(0)]
    /\ posts = 0

\* Events are hashes over the chain: an entry is named by its place and by
\* the history (the adoption) that it was written in.
Entry(h, n) == <<h, n>>

\* How long the log may grow.
Room == IF posts = 0 THEN MaxSize ELSE MaxReported

\* Any handler that appends an event.
AppendEvent ==
    /\ Len(log) < Room
    /\ log' = Append(log, Entry(adoptions, Len(log)))
    /\ UNCHANGED <<adoptions, ctSize, ctRoot, rep, posts>>

\* handleRecover adopts a fork: a prefix, the handoff and the commit.
AdoptFork(n) ==
    /\ adoptions < MaxAdoptions
    /\ n < Len(log) /\ n + 2 <= Room
    /\ adoptions' = adoptions + 1
    /\ log' = SubSeq(log, 1, n) \o <<Entry(adoptions', n), Entry(adoptions', n + 1)>>
    /\ UNCHANGED <<ctSize, ctRoot, rep, posts>>

\* handleCTSTH.
GetSTH(r) ==
    /\ rep[r].pc = "idle"
    /\ posts < MaxPosts /\ Len(log) <= MaxReported
    /\ posts' = posts + 1
    /\ rep' = [rep EXCEPT ![r].pc = "sth", ![r].sth = TreeHead(log)]
    /\ UNCHANGED <<log, adoptions, ctSize, ctRoot>>

\* handleCTProof, asked for only when the head is newer than the known size;
\* a size beyond the log is answered with an error and the reporter gives up.
GetProof(r) ==
    LET from == rep[r].known
        to   == rep[r].sth.size
    IN  /\ rep[r].pc = "sth"
        /\ rep' = [rep EXCEPT ![r] =
             IF from < 1 \/ from >= to THEN [@ EXCEPT !.pc = "post"]
             ELSE IF to > Len(log) THEN Idle(from)
             ELSE [@ EXCEPT !.pc = "post", !.proof = ConsistencyProof(log, from, to)]]
        /\ UNCHANGED <<log, adoptions, ctSize, ctRoot, posts>>

\* handleCTGossip copies the trusted size and root into a GossipNode, ...
ReadSize(r) ==
    /\ rep[r].pc = "post"
    /\ rep' = [rep EXCEPT ![r].pc = "read", ![r].seen = [size |-> ctSize, root |-> Nil]]
    /\ UNCHANGED <<log, adoptions, ctSize, ctRoot, posts>>

\* Mutant of Accepts: the proof is not checked against where it starts from.
AcceptsUnproved(sth, trusted, proof, from) ==
    \/ trusted.size = 0
    \/ sth.size < trusted.size
    \/ sth.size = trusted.size /\ sth.root = trusted.root
    \/ sth.size > trusted.size /\ from = trusted.size

\* Mutant of Accepts: a head of the trusted size raises an alarm.
AcceptsNewer(sth, trusted, proof, from) ==
    \/ trusted.size = 0
    \/ sth.size < trusted.size
    \/ /\ sth.size > trusted.size
       /\ from = trusted.size
       /\ VerifyConsistency(trusted.root, sth.root, trusted.size, sth.size, proof)

\* Observe on a head the log has signed: accepted, or else an alarm.
Accepts(sth, trusted, proof, from) ==
    \/ trusted.size = 0
    \/ sth.size < trusted.size
    \/ sth.size = trusted.size /\ sth.root = trusted.root
    \/ /\ sth.size > trusted.size
       /\ from = trusted.size
       /\ VerifyConsistency(trusted.root, sth.root, trusted.size, sth.size, proof)

\* ... and observes the reported head against that copy.
Observe(r) ==
    LET trusted == [rep[r].seen EXCEPT !.root = ctRoot]
        ok == Accepts(rep[r].sth, trusted, rep[r].proof, rep[r].known)
    IN  /\ rep[r].pc = "read"
        /\ rep' = [rep EXCEPT ![r].pc = "check", ![r].seen = trusted,
                                  ![r].verdict = IF ok THEN "accepted" ELSE "alarm"]
        /\ UNCHANGED <<log, adoptions, ctSize, ctRoot, posts>>

\* The test against the size as it is now decides whether to store.
Check(r) ==
    /\ rep[r].pc = "check"
    /\ rep' = [rep EXCEPT ![r].pc = IF rep[r].verdict = "accepted" /\ rep[r].sth.size > ctSize
                                    THEN "size" ELSE "answer"]
    /\ UNCHANGED <<log, adoptions, ctSize, ctRoot, posts>>

StoreSize(r) ==
    /\ rep[r].pc = "size"
    /\ ctSize' = rep[r].sth.size
    /\ rep' = [rep EXCEPT ![r].pc = "root"]
    /\ UNCHANGED <<log, adoptions, ctRoot, posts>>

StoreRoot(r) ==
    /\ rep[r].pc = "root"
    /\ ctRoot' = rep[r].sth.root
    /\ rep' = [rep EXCEPT ![r].pc = "answer"]
    /\ UNCHANGED <<log, adoptions, ctSize, posts>>

\* The answer tells the reporter the trusted size.
Answer(r) ==
    /\ rep[r].pc = "answer"
    /\ rep' = [rep EXCEPT ![r] = Idle(ctSize)]
    /\ UNCHANGED <<log, adoptions, ctSize, ctRoot, posts>>

CTNext ==
    \/ AppendEvent
    \/ \E n \in 0..MaxSize : AdoptFork(n)
    \/ \E r \in Reporters :
         \/ GetSTH(r) \/ GetProof(r) \/ ReadSize(r) \/ Observe(r) \/ Check(r)
         \/ StoreSize(r) \/ StoreRoot(r) \/ Answer(r)

CTSpec == CTInit /\ [][CTNext]_ctVars
-----------------------------------------------------------------------------
(* Properties                                                              *)

\* Type correctness.
CTTypeOK ==
    /\ log \in Seq((0..MaxAdoptions) \X (0..MaxSize - 1)) /\ Len(log) <= MaxSize
    /\ ctSize \in 0..MaxSize
    /\ Len(ctRoot.entries) <= MaxSize
    /\ \A r \in Reporters :
         /\ rep[r].pc \in {"idle", "sth", "post", "read", "check", "size", "root", "answer"}
         /\ rep[r].known \in 0..MaxSize
    /\ posts \in 0..MaxPosts /\ adoptions \in 0..MaxAdoptions

\* For every size of the log and every index, the inclusion proof that the
\* handler serves recomputes exactly that size's root, and it does so at no
\* other index: path and VerifyInclusion agree on every shape of tree.
InclusionExact ==
    \A n \in 1..Len(log) : \A i \in 0..n - 1 :
        LET proof == InclusionProof(log, i, n)
        IN  \A k \in 0..n - 1 :
              VerifyInclusion(LeafHash(log[i + 1]), k, n, proof) = Mth(log, 0, n)
                  <=> k = i

\* And for every pair of sizes, the consistency proof that the handler serves
\* convinces VerifyConsistency of the old tree of this very log, and of no
\* older history of the same size.
ConsistencyExact ==
    \A n \in 2..Len(log) : \A m \in 1..n - 1 :
        LET proof == ConsistencyProof(log, m, n)
            other(h) == [i \in 1..m |-> IF i = m THEN Entry(h, i - 1) ELSE log[i]]
        IN  \A h \in 0..MaxAdoptions + 1 :
              VerifyConsistency(Mth(other(h), 0, m), Mth(log, 0, n), m, n, proof)
                  <=> other(h) = SubSeq(log, 1, m)

\* Both kinds of proof verify for what they prove and for nothing else.
ProofsExact == InclusionExact /\ ConsistencyExact

\* The rewrite alarm misses no rewrite: a report of at least the trusted size that
\* is accepted extends, entry by entry, the tree that the endpoint read as trusted,
\* even if a recovery has rewritten the log between the tree head, the proof and
\* the post, or another post was storing its head.  Not so as long as the size
\* read is zero: the first head is taken on trust.
AcceptedExtends ==
    \A r \in Reporters :
        (rep[r].pc \in {"check", "size", "root"} /\ rep[r].verdict = "accepted"
             /\ rep[r].sth.size >= rep[r].seen.size /\ rep[r].seen.size # 0) =>
            IsPrefix(rep[r].seen.root.entries, rep[r].sth.root.entries)

\* A reporter that posts what the log serves sees an alarm for one of three
\* reasons only, however many others post meanwhile: a recovery rewrote the log;
\* the trusted size is no longer the one that the reporter was told, at which its
\* proof starts; or the size and the root that the endpoint read are of two posts.
GossipAlarmHasCause ==
    \A r \in Reporters :
        rep[r].verdict = "alarm" =>
            \/ adoptions > 0
            \/ rep[r].known # rep[r].seen.size
            \/ Len(rep[r].seen.root.entries) # rep[r].seen.size
-----------------------------------------------------------------------------
(* Claims of the documentation that the code does not keep                 *)

\* ctlog.go on Observe: "A false alarm here is impossible".  Another reporter's
\* post is enough, also when the two do not overlap.
NoFalseAlarm ==
    (\E r \in Reporters : rep[r].verdict = "alarm") => adoptions > 0

\* store.go, ctSize and ctRoot: the "highest CT tree head accepted via gossip"
\* "and its root hash": a size together with the root of a tree of that size.
HeadMatchesSize ==
    (\A r \in Reporters : rep[r].pc \notin {"size", "root"}) =>
        Len(ctRoot.entries) = ctSize
=============================================================================
