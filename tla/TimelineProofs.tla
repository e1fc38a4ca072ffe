--------------------------- MODULE TimelineProofs ---------------------------
(***************************************************************************)
(* Proofs about the timeline in the two systems that keep one, for chains  *)
(* of any length, any number of keys, recoveries and acts of damage.       *)
(*                                                                         *)
(* WatchedChain: the walk names the lowest damaged event, W2 flags damage  *)
(* in time and raises no alarm without a cause, and no damage escapes all  *)
(* the observers together.  OrgRecovery: the served chain verifies, and    *)
(* what recoveries promise of certificates and epochs holds.               *)
(***************************************************************************)
EXTENDS WatchedChain, OrgRecovery, SequenceTheorems, FiniteSetTheorems,
        NaturalsInduction, WellFoundedInduction, TLAPS

\* A nil hash is not the hash of anything.
NilIsNoDigest == \A algo, e : Digest(algo, e) # None

\* Two digests are equal iff algorithm and event are.
LEMMA DigestInjective ==
    ASSUME NEW a, NEW b, NEW e, NEW f, Digest(a, e) = Digest(b, f)
    PROVE  a = b /\ e = f
BY DEF Digest
-----------------------------------------------------------------------------
(* Least and greatest numbers.                                             *)

\* A set of naturals has a least element.
LEMMA MinNat ==
    ASSUME NEW S \in SUBSET Nat, S # {}
    PROVE  Min(S) \in S /\ \A y \in S : Min(S) <= y
<1> DEFINE Less == {ss \in Nat \X Nat : ss[1] < ss[2]}
<1>1. IsWellFoundedOn(Less, Nat)
  BY NatLessThanWellFounded, Zenon DEF OpToRel
<1> HIDE DEF Less
<1>2. PICK x \in S : \A y \in S : ~(<<y, x>> \in Less)
  BY <1>1, WFMin
<1>3. ASSUME NEW y \in S PROVE x <= y
  <2>1. y < x => <<y, x>> \in Less
    BY DEF Less
  <2>2. QED
    BY <1>2, <2>1
<1>4. QED
  BY <1>2, <1>3 DEF Min

\* What Min returns, when the least element is known.
LEMMA MinIs ==
    ASSUME NEW S \in SUBSET Int, NEW x \in S, \A y \in S : x <= y
    PROVE  Min(S) = x
<1>1. Min(S) \in S /\ \A y \in S : Min(S) <= y
  BY DEF Min
<1>2. x \in Int /\ Min(S) \in Int /\ Min(S) <= x /\ x <= Min(S)
  BY <1>1
<1> HIDE DEF Min
<1>3. QED
  BY <1>2

\* A set of indices up to n has a greatest element.
LEMMA MaxIndex ==
    ASSUME NEW n \in Int, NEW S \in SUBSET (0..n), S # {}
    PROVE  Max(S) \in S /\ \A y \in S : y <= Max(S)
<1> DEFINE T == {n - x : x \in S}
<1>1. T \in SUBSET Nat /\ T # {}
  <2>1. ASSUME NEW x \in S PROVE n - x \in Nat
    <3>1. x \in 0..n
      OBVIOUS
    <3>2. QED
      BY <3>1
  <2>2. T \in SUBSET Nat
    BY <2>1
  <2>3. PICK x \in S : TRUE
    OBVIOUS
  <2>4. n - x \in T
    OBVIOUS
  <2>5. QED
    BY <2>2, <2>4
<1>2. PICK x \in S : Min(T) = n - x
  BY <1>1, MinNat
<1>3. \A y \in S : y <= x
  <2>1. \A y \in S : n - y \in T
    OBVIOUS
  <2>2. \A y \in S : Min(T) <= n - y
    BY <1>1, <2>1, MinNat
  <2> HIDE DEF T
  <2>3. QED
    BY <1>2, <2>2
<1>4. QED
  BY <1>3 DEF Max

\* What Max returns, when the greatest element is known.
LEMMA MaxIs ==
    ASSUME NEW S \in SUBSET Int, NEW x \in S, \A y \in S : y <= x
    PROVE  Max(S) = x
<1>1. Max(S) \in S /\ \A y \in S : y <= Max(S)
  BY DEF Max
<1>2. x \in Int /\ Max(S) \in Int /\ x <= Max(S) /\ Max(S) <= x
  BY <1>1
<1> HIDE DEF Max
<1>3. QED
  BY <1>2
-----------------------------------------------------------------------------
(* Sequences of events of any kind.                                        *)

IsSeq(s) == s \in Seq(Range(s))

\* Any sequence will do.
LEMMA SeqIsSeq ==
    ASSUME NEW S, NEW s \in Seq(S)
    PROVE  IsSeq(s) /\ Len(s) \in Nat /\ DOMAIN s = 1..Len(s)
<1>1. Len(s) \in Nat /\ DOMAIN s = 1..Len(s) /\ s \in [1..Len(s) -> S]
  BY LenProperties
<1>2. s \in [1..Len(s) -> Range(s)]
  BY <1>1 DEF Range
<1>3. QED
  BY <1>1, <1>2, SeqDef DEF IsSeq

LEMMA SeqShape ==
    ASSUME NEW s, IsSeq(s)
    PROVE  Len(s) \in Nat /\ DOMAIN s = 1..Len(s) /\ (s = <<>> <=> Len(s) = 0)
BY SeqIsSeq, EmptySeq DEF IsSeq

\* An event is appended.
LEMMA AppendSeq ==
    ASSUME NEW s, IsSeq(s), NEW e
    PROVE  /\ IsSeq(Append(s, e))
           /\ Len(Append(s, e)) = Len(s) + 1
           /\ \A i \in 1..Len(s) : Append(s, e)[i] = s[i]
           /\ Append(s, e)[Len(s) + 1] = e
<1> DEFINE S == Range(s) \cup {e}
<1>1. s \in Seq(S)
  BY SeqMonotonic DEF IsSeq
<1>2. e \in S
  OBVIOUS
<1> HIDE DEF S
<1>3. Append(s, e) \in Seq(S)
  BY <1>1, <1>2, AppendProperties
<1>4. IsSeq(Append(s, e))
  BY <1>3, SeqIsSeq
<1>5. QED
  BY <1>1, <1>2, <1>4, AppendProperties

\* The tail is cut off.
LEMMA CutSeq ==
    ASSUME NEW s, IsSeq(s), NEW n \in 0..Len(s)
    PROVE  /\ IsSeq(SubSeq(s, 1, n))
           /\ Len(SubSeq(s, 1, n)) = n
           /\ \A i \in 1..n : SubSeq(s, 1, n)[i] = s[i]
<1>1. \A i \in 1..n : s[i] \in Range(s)
  BY SeqShape DEF Range
<1>2. /\ SubSeq(s, 1, n) \in Seq(Range(s))
      /\ Len(SubSeq(s, 1, n)) = IF 1 <= n THEN n - 1 + 1 ELSE 0
      /\ \A i \in 1..n - 1 + 1 : SubSeq(s, 1, n)[i] = s[1 + i - 1]
  BY <1>1, SubSeqProperties, SeqShape
<1>3. IsSeq(SubSeq(s, 1, n))
  BY <1>2, SeqIsSeq
<1>4. QED
  BY <1>2, <1>3, SeqShape

\* One event is taken out.
LEMMA DropSeq ==
    ASSUME NEW s, IsSeq(s), NEW k \in 1..Len(s)
    PROVE  /\ IsSeq(RemoveAt(s, k))
           /\ Len(RemoveAt(s, k)) = Len(s) - 1
           /\ \A i \in 1..Len(s) - 1 : RemoveAt(s, k)[i] = IF i < k THEN s[i] ELSE s[i + 1]
<1> DEFINE R == Range(s)
           a == SubSeq(s, 1, k - 1)
           b == SubSeq(s, k + 1, Len(s))
<1>0. Len(s) \in Nat /\ \A i \in 1..Len(s) : s[i] \in R
  BY SeqShape DEF Range
<1>1. /\ a \in Seq(R) /\ Len(a) = k - 1
      /\ \A i \in 1..k - 1 : a[i] = s[i]
  <2>1. /\ a \in Seq(R) /\ Len(a) = IF 1 <= k - 1 THEN k - 1 - 1 + 1 ELSE 0
        /\ \A i \in 1..k - 1 - 1 + 1 : a[i] = s[1 + i - 1]
    BY <1>0, SubSeqProperties
  <2>2. QED
    BY <2>1
<1>2. /\ b \in Seq(R) /\ Len(b) = Len(s) - k
      /\ \A i \in 1..Len(s) - k : b[i] = s[k + i]
  <2>1. /\ b \in Seq(R) /\ Len(b) = IF k + 1 <= Len(s) THEN Len(s) - (k + 1) + 1 ELSE 0
        /\ \A i \in 1..Len(s) - (k + 1) + 1 : b[i] = s[k + 1 + i - 1]
    BY <1>0, SubSeqProperties
  <2>2. QED
    BY <1>0, <2>1
<1> HIDE DEF a, b, R
<1>3. /\ a \o b \in Seq(R) /\ Len(a \o b) = Len(s) - 1
      /\ \A i \in 1..Len(s) - 1 : (a \o b)[i] = IF i < k THEN a[i] ELSE b[i - (k - 1)]
  <2>1. /\ a \o b \in Seq(R) /\ Len(a \o b) = Len(a) + Len(b)
        /\ \A i \in 1..Len(a) + Len(b) : (a \o b)[i] = IF i <= Len(a) THEN a[i] ELSE b[i - Len(a)]
    BY <1>1, <1>2, ConcatProperties
  <2>2. Len(a) + Len(b) = Len(s) - 1
    BY <1>0, <1>1, <1>2
  <2>3. QED
    BY <1>0, <1>1, <2>1, <2>2
<1>4. \A i \in 1..Len(s) - 1 : (a \o b)[i] = IF i < k THEN s[i] ELSE s[i + 1]
  <2> TAKE i \in 1..Len(s) - 1
  <2>1. CASE i < k
    BY <1>1, <1>3, <2>1
  <2>2. CASE ~(i < k)
    <3>1. i - (k - 1) \in 1..Len(s) - k /\ k + (i - (k - 1)) = i + 1
      BY <1>0, <2>2
    <3>2. QED
      BY <1>2, <1>3, <2>2, <3>1
  <2>3. QED
    BY <2>1, <2>2
<1>5. QED
  BY <1>3, <1>4, SeqIsSeq DEF RemoveAt, a, b

\* One event is replaced.
LEMMA ReplaceSeq ==
    ASSUME NEW s, IsSeq(s), NEW k \in 1..Len(s), NEW e
    PROVE  /\ IsSeq([s EXCEPT ![k] = e])
           /\ Len([s EXCEPT ![k] = e]) = Len(s)
           /\ \A i \in 1..Len(s) : [s EXCEPT ![k] = e][i] = IF i = k THEN e ELSE s[i]
<1> DEFINE S == Range(s) \cup {e}
<1>1. s \in Seq(S) /\ e \in S
  BY SeqMonotonic DEF IsSeq
<1> HIDE DEF S
<1>2. [s EXCEPT ![k] = e] \in Seq(S) /\ Len([s EXCEPT ![k] = e]) = Len(s)
  BY <1>1, ExceptSeq
<1>3. QED
  BY <1>2, SeqIsSeq, SeqShape
-----------------------------------------------------------------------------
(* The inductive invariant.                                                *)

IsEvent(e) ==
    /\ e \in [type : {"ISSUE", "KEY_ROTATE"}, cert : {e.cert}, id : {e.id},
              via : {e.via}, num : {e.num}, pub : {e.pub}, cp : {e.cp}, by : {e.by},
              parent : {e.parent}, sig : {e.sig}]
    /\ e.type = "KEY_ROTATE" => e.pub \in Nat

\* The timeline is a record of a sequence of events; the key it signs with, if
\* it holds one, is the current one.
Shape ==
    /\ tl \in [events : {tl.events}, key : {None, tl.pub}, pub : Nat, start : Nat,
               council : {tl.council}, rotations : {tl.rotations}, algo : {tl.algo}]
    /\ IsSeq(tl.events)
    /\ \A i \in 1..Len(tl.events) : IsEvent(tl.events[i])
    /\ keys \in Nat

\* How many hashes are nested in an event: h gives the number for a set of
\* events that contains the parent of each of its members.
Heights(h, algo) ==
    \A x \in DOMAIN h :
        /\ h[x] \in Nat
        /\ IF x.parent = None THEN h[x] = 0
           ELSE \E y \in DOMAIN h : x.parent = Digest(algo, y) /\ h[x] = h[y] + 1

Rising(h, events) ==
    /\ \A i \in 1..Len(events) : events[i] \in DOMAIN h
    /\ \A i, j \in 1..Len(events) : i < j => h[events[i]] < h[events[j]]

\* The nesting rises along the chain, whatever was altered, dropped or cut off:
\* an event never chains to one that is not right in front of it.
Nested == \E h : Heights(h, tl.algo) /\ Rising(h, tl.events)

\* Events below the first damage are good; the first damage is a broken link
\* or a forged signature, whatever key is current; and on an undamaged chain
\* the current key is the one that the events lead to.
FirstDamage ==
    /\ first \in -1..Len(tl.events) - 1
    /\ \A i \in 0..Len(tl.events) - 1 : first = -1 \/ i < first => ~BadEvent(tl, i)
    /\ first # -1 => \/ tl.events[first + 1].parent # Expected(tl, first)
                     \/ tl.events[first + 1].sig = Forged
    /\ first = -1 => tl.pub = PubForPrefix(tl, Len(tl.events) - 1)

ChainInv == Shape /\ Nested /\ FirstDamage

\* W2's histories are no longer than the time since its last full scan.
CadenceInv ==
    /\ w2 \in [checked : Nat, cycles : 0..FullEvery - 1]
    /\ late \in 0..w2.cycles
    /\ spurious \in 0..w2.cycles
-----------------------------------------------------------------------------
(* Verification looks at what is in front of an event only.                *)

Agree(t, u, k) ==
    /\ t.start = u.start
    /\ t.algo = u.algo
    /\ t.council = u.council
    /\ \A i \in 1..k : t.events[i] = u.events[i]

\* The latest switch among the first k events is the same.
LEMMA SameKeyAfter ==
    ASSUME NEW t, NEW u, NEW k \in Nat, Agree(t, u, k), NEW S \in SUBSET (0..k - 1)
    PROVE  KeyAfter(t, S) = KeyAfter(u, S)
<1>1. CASE S = {}
  BY <1>1 DEF KeyAfter, Agree
<1>2. CASE S # {}
  <2>1. Max(S) \in S
    BY <1>2, MaxIndex
  <2> DEFINE m == Max(S)
  <2> HIDE DEF m
  <2>2. m + 1 \in 1..k
    <3>1. m \in 0..k - 1
      BY <2>1 DEF m
    <3>2. QED
      BY <3>1
  <2>3. t.events[m + 1] = u.events[m + 1]
    BY <2>2 DEF Agree
  <2>4. QED
    BY <1>2, <2>3 DEF KeyAfter, m
<1>3. QED
  BY <1>1, <1>2

\* So are what an event must chain to, the key in force, and the verdict.
LEMMA SamePrefix ==
    ASSUME NEW t, NEW u, NEW k \in Nat, Agree(t, u, k)
    PROVE  /\ \A i \in 0..k - 1 : BadEvent(t, i) <=> BadEvent(u, i)
           /\ \A i \in 0..k : Expected(t, i) = Expected(u, i)
           /\ \A i \in -1..k - 1 : PubForPrefix(t, i) = PubForPrefix(u, i)
<1>1. ASSUME NEW i \in 0..k PROVE Expected(t, i) = Expected(u, i)
  BY DEF Expected, Agree
<1>2. ASSUME NEW i \in 0..k - 1 PROVE KeyInForce(t, i) = KeyInForce(u, i)
  <2> DEFINE S(v) == {j \in 0..i : \/ v.events[j + 1].type = "RECOVERY"
                                   \/ v.events[j + 1].type = "KEY_ROTATE" /\ j < i}
  <2>1. \A j \in 0..i : t.events[j + 1] = u.events[j + 1]
    BY DEF Agree
  <2>2. S(t) = S(u)
    BY <2>1
  <2>3. S(u) \in SUBSET (0..k - 1)
    OBVIOUS
  <2>4. KeyInForce(t, i) = KeyAfter(t, S(t)) /\ KeyInForce(u, i) = KeyAfter(u, S(u))
    BY DEF KeyInForce
  <2> HIDE DEF S
  <2>5. QED
    BY <2>2, <2>3, <2>4, SameKeyAfter
<1>3. ASSUME NEW i \in -1..k - 1 PROVE PubForPrefix(t, i) = PubForPrefix(u, i)
  <2> DEFINE S(v) == {j \in 0..i : v.events[j + 1].type \in Switches}
  <2>1. \A j \in 0..i : t.events[j + 1] = u.events[j + 1]
    BY DEF Agree
  <2>2. S(t) = S(u)
    BY <2>1
  <2>3. S(u) \in SUBSET (0..k - 1)
    OBVIOUS
  <2>4. PubForPrefix(t, i) = KeyAfter(t, S(t)) /\ PubForPrefix(u, i) = KeyAfter(u, S(u))
    BY DEF PubForPrefix
  <2> HIDE DEF S
  <2>5. QED
    BY <2>2, <2>3, <2>4, SameKeyAfter
<1>4. ASSUME NEW i \in 0..k - 1 PROVE BadEvent(t, i) <=> BadEvent(u, i)
  <2>1. t.events[i + 1] = u.events[i + 1] /\ Expected(t, i) = Expected(u, i)
    BY <1>1 DEF Agree
  <2>2. t.council = u.council
    BY DEF Agree
  <2>3. QED
    BY <1>2, <2>1, <2>2 DEF BadEvent
<1>5. QED
  BY <1>1, <1>3, <1>4

\* The key that must sign event n, unless that is a handoff, is the one that
\* the events in front of it lead to.
LEMMA KeyInForceIs ==
    ASSUME NEW t, NEW n \in Nat, t.events[n + 1].type # "RECOVERY"
    PROVE  KeyInForce(t, n) = PubForPrefix(t, n - 1)
<1> DEFINE A == {j \in 0..n : \/ t.events[j + 1].type = "RECOVERY"
                              \/ t.events[j + 1].type = "KEY_ROTATE" /\ j < n}
           B == {j \in 0..n - 1 : t.events[j + 1].type \in Switches}
<1>1. A = B
  BY DEF Switches
<1>2. QED
  BY <1>1 DEF KeyInForce, PubForPrefix

\* An issuance leaves the current key alone, a rotation sets it.
LEMMA PubAfter ==
    ASSUME NEW t, NEW n \in Nat
    PROVE  /\ t.events[n + 1].type \notin Switches => PubForPrefix(t, n) = PubForPrefix(t, n - 1)
           /\ t.events[n + 1].type \in Switches => PubForPrefix(t, n) = t.events[n + 1].pub
<1> DEFINE A == {j \in 0..n : t.events[j + 1].type \in Switches}
           B == {j \in 0..n - 1 : t.events[j + 1].type \in Switches}
<1>1. ASSUME t.events[n + 1].type \notin Switches PROVE A = B
  BY <1>1
<1>2. ASSUME t.events[n + 1].type \in Switches PROVE Max(A) = n /\ A # {}
  <2>1. A \in SUBSET Int /\ n \in A /\ \A y \in A : y <= n
    BY <1>2
  <2> HIDE DEF A
  <2>2. QED
    BY <2>1, MaxIs
<1>3. PubForPrefix(t, n) = KeyAfter(t, A) /\ PubForPrefix(t, n - 1) = KeyAfter(t, B)
  BY DEF PubForPrefix
<1> HIDE DEF A, B
<1>4. QED
  BY <1>1, <1>2, <1>3 DEF KeyAfter

\* The keys that the events lead to are keys.
LEMMA PubIsKey ==
    ASSUME Shape, NEW i \in -1..Len(tl.events) - 1
    PROVE  PubForPrefix(tl, i) \in Nat
<1> DEFINE A == {j \in 0..i : tl.events[j + 1].type \in Switches}
<1>0. Len(tl.events) \in Nat
  BY SeqShape DEF Shape
<1>1. PubForPrefix(tl, i) = KeyAfter(tl, A)
  BY DEF PubForPrefix
<1>2. CASE A = {}
  BY <1>1, <1>2 DEF KeyAfter, Shape
<1>3. CASE A # {}
  <2>1. A \in SUBSET (0..i) /\ i \in Int
    BY <1>0
  <2>2. Max(A) \in A
    BY <1>3, <2>1, MaxIndex
  <2> DEFINE m == Max(A)
  <2>3. m \in 0..i /\ tl.events[m + 1].type \in Switches
    BY <2>2
  <2>4. PubForPrefix(tl, i) = tl.events[m + 1].pub
    BY <1>1, <1>3 DEF KeyAfter
  <2> HIDE DEF m
  <2>5. m + 1 \in 1..Len(tl.events)
    BY <1>0, <2>3
  <2>6. IsEvent(tl.events[m + 1])
    BY <2>5 DEF Shape
  <2>7. QED
    BY <2>3, <2>4, <2>6 DEF IsEvent, Switches
<1>4. QED
  BY <1>2, <1>3
-----------------------------------------------------------------------------
(* Nesting.                                                                *)

\* The nesting of an event is that of its parent and one more, so that it can
\* be extended to one more event.
LEMMA HeightOfOne ==
    ASSUME NEW algo, NEW h, Heights(h, algo), NEW x, NEW v \in Nat,
           IF x.parent = None THEN v = 0
           ELSE \E y \in DOMAIN h : x.parent = Digest(algo, y) /\ v = h[y] + 1
    PROVE  \E g : /\ Heights(g, algo)
                  /\ x \in DOMAIN g /\ g[x] = v
                  /\ \A z \in DOMAIN h : z \in DOMAIN g /\ g[z] = h[z]
<1>1. CASE x \in DOMAIN h
  <2>1. h[x] = v
    BY <1>1, DigestInjective DEF Heights
  <2>2. QED
    BY <1>1, <2>1
<1>2. CASE x \notin DOMAIN h
  <2> DEFINE g == [z \in DOMAIN h \cup {x} |-> IF z = x THEN v ELSE h[z]]
  <2>1. DOMAIN g = DOMAIN h \cup {x} /\ g[x] = v /\ \A z \in DOMAIN h : g[z] = h[z]
    BY <1>2
  <2> HIDE DEF g
  <2>2. ASSUME NEW z \in DOMAIN g
        PROVE  /\ g[z] \in Nat
               /\ IF z.parent = None THEN g[z] = 0
                  ELSE \E y \in DOMAIN g : z.parent = Digest(algo, y) /\ g[z] = g[y] + 1
    <3>1. CASE z = x
      BY <2>1, <3>1
    <3>2. CASE z \in DOMAIN h
      <4>1. /\ h[z] \in Nat
            /\ IF z.parent = None THEN h[z] = 0
               ELSE \E y \in DOMAIN h : z.parent = Digest(algo, y) /\ h[z] = h[y] + 1
        BY <3>2 DEF Heights
      <4>2. QED
        BY <2>1, <3>2, <4>1
    <3>3. QED
      BY <2>1, <3>1, <3>2
  <2>3. Heights(g, algo)
    BY <2>2 DEF Heights
  <2>4. QED
    BY <2>1, <2>3
<1>3. QED
  BY <1>1, <1>2
-----------------------------------------------------------------------------
(* What the steps do to the chain.                                         *)

\* A timeline with other events, or another signing key.
Retained(t, u) == t.start = u.start /\ t.algo = u.algo /\ t.council = u.council

\* An event signed with the current key is added at the end: an issuance, or a
\* rotation to the next key.
Extends(e) ==
    /\ tl'.events = Append(tl.events, e)
    /\ IsEvent(e)
    /\ e.parent = HeadOf(tl)
    /\ e.sig = tl.pub
    /\ \/ e.type = "ISSUE" /\ tl'.pub = tl.pub
       \/ e.type = "KEY_ROTATE" /\ e.pub = keys /\ tl'.pub = keys
    /\ tl'.key = tl'.pub
    /\ Retained(tl', tl)
    /\ tl' \in [events : {tl'.events}, key : {tl'.pub}, pub : {tl'.pub},
                start : {tl.start}, council : {tl.council}, rotations : {tl'.rotations},
                algo : {tl.algo}]
    /\ keys' \in {keys, keys + 1}
    /\ first' = first

\* Add and its unmirrored variant extend the chain, ...
LEMMA IssueExtends ==
    ASSUME Shape, tl.key # None, NEW c, tl' = AppendEv(tl, IssueEv(c, Owner, None)),
           UNCHANGED <<keys, first>>
    PROVE  \E e : Extends(e)
<1> DEFINE e == [IssueEv(c, Owner, None) EXCEPT !.parent = HeadOf(tl), !.sig = tl.key]
<1>1. tl' = [tl EXCEPT !.events = Append(tl.events, e)]
  BY DEF AppendEv
<1>2. IsEvent(e) /\ e.parent = HeadOf(tl) /\ e.sig = tl.key /\ e.type = "ISSUE"
  BY DEF IsEvent, IssueEv, Blank
<1> HIDE DEF e
<1>3. tl.key = tl.pub
  BY DEF Shape
<1>4. /\ tl'.events = Append(tl.events, e)
      /\ tl'.key = tl.pub /\ tl'.pub = tl.pub /\ tl'.start = tl.start
      /\ tl'.council = tl.council /\ tl'.rotations = tl.rotations /\ tl'.algo = tl.algo
  BY <1>1, <1>3 DEF Shape
<1>5. tl' \in [events : {tl'.events}, key : {tl'.pub}, pub : {tl'.pub},
                start : {tl.start}, council : {tl.council}, rotations : {tl'.rotations},
                algo : {tl.algo}]
  BY <1>1, <1>3, <1>4 DEF Shape
<1>6. Extends(e)
  BY <1>2, <1>3, <1>4, <1>5 DEF Extends, Retained
<1>7. QED
  BY <1>6

\* ... and so does a rotation.
LEMMA RotateExtends ==
    ASSUME Shape, tl.key # None, tl' = RotateKey(tl, keys), keys' = keys + 1,
           UNCHANGED first
    PROVE  \E e : Extends(e)
<1> DEFINE e == [RotateEv(keys) EXCEPT !.parent = HeadOf(tl), !.sig = tl.key]
           t == [tl EXCEPT !.events = Append(tl.events, e)]
<1>1. AppendEv(tl, RotateEv(keys)) = t
  BY DEF AppendEv
<1>2. /\ IsEvent(e) /\ e.parent = HeadOf(tl) /\ e.sig = tl.key /\ e.type = "KEY_ROTATE"
      /\ e.pub = keys
  BY DEF IsEvent, RotateEv, Blank, Shape
<1> HIDE DEF e
<1>3. tl.key = tl.pub
  BY DEF Shape
<1>4. /\ t.events = Append(tl.events, e) /\ t.start = tl.start /\ t.council = tl.council
      /\ t.algo = tl.algo
      /\ t \in [events : {t.events}, key : {tl.pub}, pub : {tl.pub}, start : {tl.start},
                council : {tl.council}, rotations : {tl.rotations}, algo : {tl.algo}]
  BY <1>3 DEF Shape
<1> HIDE DEF t
<1>5. PICK r : tl' = [t EXCEPT !.rotations = r, !.key = keys, !.pub = keys]
  BY <1>1 DEF RotateKey
<1>6. /\ tl'.events = Append(tl.events, e) /\ tl'.start = tl.start
      /\ tl'.council = tl.council /\ tl'.algo = tl.algo /\ tl'.key = keys /\ tl'.pub = keys
  BY <1>4, <1>5
<1>7. tl' \in [events : {tl'.events}, key : {tl'.pub}, pub : {tl'.pub},
                start : {tl.start}, council : {tl.council}, rotations : {tl'.rotations},
                algo : {tl.algo}]
  BY <1>4, <1>5, <1>6
<1>8. Extends(e)
  BY <1>2, <1>3, <1>6, <1>7 DEF Extends, Retained
<1>9. QED
  BY <1>8

\* An event added at the end keeps the invariant: it is good if the chain was,
\* and it is nested once more than the event in front of it.
LEMMA ExtendsKeeps ==
    ASSUME NilIsNoDigest, ChainInv, NEW e, Extends(e)
    PROVE  ChainInv'
<1> DEFINE n == Len(tl.events)
<1>0. n \in Nat /\ DOMAIN tl.events = 1..n /\ (tl.events = <<>> <=> n = 0) /\ IsSeq(tl.events)
  BY SeqShape DEF ChainInv, Shape
<1>1. /\ IsSeq(tl'.events) /\ Len(tl'.events) = n + 1
      /\ \A i \in 1..n : tl'.events[i] = tl.events[i]
      /\ tl'.events[n + 1] = e
  BY <1>0, AppendSeq DEF Extends
<1>2. Shape'
  <2>1. keys' \in Nat /\ tl'.pub \in Nat /\ tl.start \in Nat
    BY DEF Extends, ChainInv, Shape
  <2>2. \A i \in 1..n + 1 : IsEvent(tl'.events[i])
    <3>1. \A i \in 1..n : IsEvent(tl'.events[i])
      BY <1>1 DEF ChainInv, Shape
    <3>2. IsEvent(tl'.events[n + 1])
      BY <1>1 DEF Extends
    <3>3. \A i \in 1..n + 1 : i \in 1..n \/ i = n + 1
      BY <1>0
    <3>4. QED
      BY <3>1, <3>2, <3>3
  <2>3. tl' \in [events : {tl'.events}, key : {None, tl'.pub}, pub : Nat, start : Nat,
                 council : {tl'.council}, rotations : {tl'.rotations}, algo : {tl'.algo}]
    BY <2>1 DEF Extends, Retained
  <2>4. QED
    BY <1>1, <2>1, <2>2, <2>3 DEF Shape
<1>3. e.parent = Expected(tl', n)
  <2>1. CASE n = 0
    BY <1>0, <2>1 DEF Extends, HeadOf, Expected
  <2>2. CASE n # 0
    BY <1>0, <1>1, <2>2 DEF Extends, HeadOf, Expected, Last, Retained
  <2>3. QED
    BY <2>1, <2>2
<1>4. Nested'
  <2>1. PICK h : Heights(h, tl.algo) /\ Rising(h, tl.events)
    BY DEF ChainInv, Nested
  <2> DEFINE v == IF n = 0 THEN 0 ELSE h[tl.events[n]] + 1
  <2>2. n # 0 => tl.events[n] \in DOMAIN h /\ h[tl.events[n]] \in Nat
    BY <1>0, <2>1 DEF Rising, Heights
  <2>3. v \in Nat
    BY <2>2
  <2>4. IF e.parent = None THEN v = 0
        ELSE \E y \in DOMAIN h : e.parent = Digest(tl.algo, y) /\ v = h[y] + 1
    <3>1. CASE n = 0
      BY <1>3, <3>1 DEF Expected
    <3>2. CASE n # 0
      <4>1. e.parent = Digest(tl.algo, tl.events[n])
        BY <1>0, <1>1, <1>3, <3>2 DEF Expected, Extends, Retained
      <4>2. e.parent # None
        BY <4>1 DEF NilIsNoDigest
      <4>3. QED
        BY <2>2, <3>2, <4>1, <4>2
    <3>3. QED
      BY <3>1, <3>2
  <2> HIDE DEF v
  <2>5. PICK g : /\ Heights(g, tl.algo)
                 /\ e \in DOMAIN g /\ g[e] = v
                 /\ \A z \in DOMAIN h : z \in DOMAIN g /\ g[z] = h[z]
    BY <2>1, <2>3, <2>4, HeightOfOne
  <2>6. \A i \in 1..n : /\ tl'.events[i] \in DOMAIN g
                        /\ g[tl'.events[i]] = h[tl.events[i]]
                        /\ h[tl.events[i]] \in Nat
    BY <1>1, <2>1, <2>5 DEF Rising, Heights
  <2>7. \A i \in 1..n : h[tl.events[i]] < v
    <3> TAKE i \in 1..n
    <3>1. i = n \/ h[tl.events[i]] < h[tl.events[n]]
      BY <1>0, <2>1 DEF Rising
    <3>2. QED
      BY <1>0, <2>2, <2>6, <3>1 DEF v
  <2>8. Rising(g, tl'.events)
    <3>1. \A i \in 1..n + 1 : tl'.events[i] \in DOMAIN g
      BY <1>0, <1>1, <2>5, <2>6
    <3>2. ASSUME NEW i \in 1..n + 1, NEW j \in 1..n + 1, i < j
          PROVE  g[tl'.events[i]] < g[tl'.events[j]]
      <4>1. i \in 1..n
        BY <1>0, <3>2
      <4>2. CASE j \in 1..n
        BY <2>1, <2>6, <3>2, <4>1, <4>2 DEF Rising
      <4>3. CASE j = n + 1
        BY <1>1, <2>5, <2>6, <2>7, <4>1, <4>3
      <4>4. QED
        BY <1>0, <4>2, <4>3
    <3>3. QED
      BY <1>1, <3>1, <3>2 DEF Rising
  <2>9. tl'.algo = tl.algo
    BY DEF Extends, Retained
  <2>10. QED
    BY <2>5, <2>8, <2>9 DEF Nested
<1>5. FirstDamage'
  <2>1. Agree(tl', tl, n)
    BY <1>1 DEF Agree, Extends, Retained
  <2>2. /\ \A i \in 0..n - 1 : BadEvent(tl', i) <=> BadEvent(tl, i)
        /\ \A i \in 0..n : Expected(tl', i) = Expected(tl, i)
        /\ \A i \in -1..n - 1 : PubForPrefix(tl', i) = PubForPrefix(tl, i)
    BY <1>0, <2>1, SamePrefix
  <2>3. PubForPrefix(tl', n - 1) = PubForPrefix(tl, n - 1)
    BY <1>0, <2>2
  <2>4. first = -1 => ~BadEvent(tl', n)
    <3> SUFFICES ASSUME first = -1 PROVE ~BadEvent(tl', n)
      OBVIOUS
    <3>1. \A i \in 1..n + 1 : tl'.events[i].type \in {"ISSUE", "KEY_ROTATE"}
      BY <1>1, <1>2 DEF Shape, IsEvent
    <3>2. KeyInForce(tl', n) = PubForPrefix(tl', n - 1)
      BY <1>0, <3>1, KeyInForceIs
    <3>3. e.sig = KeyInForce(tl', n)
      BY <2>3, <3>2 DEF Extends, ChainInv, FirstDamage
    <3>4. e.type # "RECOVERY"
      BY DEF Extends
    <3>5. QED
      BY <1>1, <1>3, <3>3, <3>4 DEF BadEvent
  <2>5. first = -1 => tl'.pub = PubForPrefix(tl', n)
    <3>1. /\ e.type \notin Switches => PubForPrefix(tl', n) = PubForPrefix(tl', n - 1)
          /\ e.type \in Switches => PubForPrefix(tl', n) = e.pub
      BY <1>0, <1>1, PubAfter
    <3>2. QED
      BY <2>3, <3>1 DEF Extends, Switches, ChainInv, FirstDamage
  <2>6. first \in -1..n - 1
    BY DEF ChainInv, FirstDamage
  <2>7. \A i \in 0..n : first = -1 \/ i < first => ~BadEvent(tl', i)
    <3> TAKE i \in 0..n
    <3>1. CASE i = n
      BY <1>0, <2>4, <2>6, <3>1
    <3>2. CASE i \in 0..n - 1
      BY <2>2, <3>2 DEF ChainInv, FirstDamage
    <3>3. QED
      BY <1>0, <3>1, <3>2
  <2>8. first # -1 => \/ tl'.events[first + 1].parent # Expected(tl', first)
                      \/ tl'.events[first + 1].sig = Forged
    <3> SUFFICES ASSUME first # -1
                 PROVE  \/ tl'.events[first + 1].parent # Expected(tl', first)
                        \/ tl'.events[first + 1].sig = Forged
      OBVIOUS
    <3>1. first \in 0..n /\ first + 1 \in 1..n
      BY <1>0, <2>6
    <3>2. tl'.events[first + 1] = tl.events[first + 1] /\ Expected(tl', first) = Expected(tl, first)
      BY <1>1, <2>2, <3>1
    <3>3. QED
      BY <3>2 DEF ChainInv, FirstDamage
  <2>9. first' = first /\ Len(tl'.events) - 1 = n /\ first \in -1..n
    BY <1>0, <1>1, <2>6 DEF Extends
  <2>10. QED
    BY <2>5, <2>7, <2>8, <2>9 DEF FirstDamage
<1>6. QED
  BY <1>2, <1>4, <1>5 DEF ChainInv

\* Damage at index i: what is in front of it is untouched, and the event that
\* is there now has a broken link or a forged signature.
LEMMA DamageShows ==
    ASSUME ChainInv, Shape', NEW i \in Nat, i < Len(tl'.events), i < Len(tl.events),
           Agree(tl', tl, i),
           \/ tl'.events[i + 1].parent # Expected(tl', i)
           \/ tl'.events[i + 1].sig = Forged,
           first' = IF first = -1 THEN i ELSE Min({first, i})
    PROVE  FirstDamage'
<1>0. Len(tl.events) \in Nat /\ Len(tl'.events) \in Nat /\ first \in -1..Len(tl.events) - 1
  BY SeqShape DEF ChainInv, Shape, FirstDamage
<1>1. first' = IF first = -1 \/ i < first THEN i ELSE first
  <2>1. CASE first = -1
    BY <2>1
  <2>2. CASE first # -1 /\ i < first
    <3> DEFINE S == {first, i}
    <3>1. S \in SUBSET Int /\ i \in S /\ \A y \in S : i <= y
      BY <1>0, <2>2
    <3> HIDE DEF S
    <3>2. Min(S) = i
      BY <3>1, MinIs
    <3>3. QED
      BY <2>2, <3>2 DEF S
  <2>3. CASE first # -1 /\ ~(i < first)
    <3> DEFINE S == {first, i}
    <3>1. S \in SUBSET Int /\ first \in S /\ \A y \in S : first <= y
      BY <1>0, <2>3
    <3> HIDE DEF S
    <3>2. Min(S) = first
      BY <3>1, MinIs
    <3>3. QED
      BY <2>3, <3>2 DEF S
  <2>4. QED
    BY <2>1, <2>2, <2>3
<1>2. /\ \A j \in 0..i - 1 : BadEvent(tl', j) <=> BadEvent(tl, j)
      /\ \A j \in 0..i : Expected(tl', j) = Expected(tl, j)
  BY SamePrefix
<1>3. first' \in 0..Len(tl'.events) - 1 /\ first' <= i /\ (first = -1 \/ first' <= first)
  BY <1>0, <1>1
<1>4. \A j \in 0..Len(tl'.events) - 1 : j < first' => ~BadEvent(tl', j)
  <2> TAKE j \in 0..Len(tl'.events) - 1
  <2> HAVE j < first'
  <2>1. j \in 0..i - 1 /\ j \in 0..Len(tl.events) - 1 /\ (first = -1 \/ j < first)
    BY <1>0, <1>3
  <2>2. QED
    BY <1>2, <2>1 DEF ChainInv, FirstDamage
<1>5. \/ tl'.events[first' + 1].parent # Expected(tl', first')
      \/ tl'.events[first' + 1].sig = Forged
  <2>1. CASE first' = i
    BY <2>1
  <2>2. CASE first' # i
    <3>1. first' = first /\ first # -1 /\ first \in 0..i /\ first + 1 \in 1..i
      BY <1>0, <1>1, <2>2
    <3>2. tl'.events[first + 1] = tl.events[first + 1] /\ Expected(tl', first) = Expected(tl, first)
      BY <1>2, <3>1 DEF Agree
    <3>3. QED
      BY <3>1, <3>2 DEF ChainInv, FirstDamage
  <2>3. QED
    BY <2>1, <2>2
<1>6. first' # -1 /\ first' \in -1..Len(tl'.events) - 1
  BY <1>0, <1>3
<1>7. QED
  BY <1>4, <1>5, <1>6 DEF FirstDamage

\* An altered event keeps its place and its parent.
LEMMA AlterKeeps ==
    ASSUME ChainInv, NEW i \in 0..Len(tl.events) - 1, Alter(i)
    PROVE  ChainInv'
<1> DEFINE n == Len(tl.events)
           k == i + 1
           x == tl.events[k]
<1>0. n \in Nat /\ IsSeq(tl.events) /\ k \in 1..n /\ i \in Nat
  BY SeqShape DEF ChainInv, Shape
<1>1. PICK c : tl' = [tl EXCEPT !.events[k].cert = c, !.events[k].sig = Forged]
  BY DEF Alter
<1> DEFINE y == [x EXCEPT !.cert = c]
           z == [y EXCEPT !.sig = Forged]
           s == [tl.events EXCEPT ![k] = y]
           a == [tl EXCEPT !.events = s]
<1>2. tl' = [a EXCEPT !.events = [s EXCEPT ![k] = z]]
  BY <1>0, <1>1, SeqShape DEF ChainInv, Shape
<1>3. IsEvent(x)
  BY <1>0 DEF ChainInv, Shape
<1>4. IsEvent(z) /\ z.parent = x.parent /\ z.sig = Forged
  BY <1>3 DEF IsEvent
<1> HIDE DEF k, z, y
<1>5. IsSeq(s) /\ Len(s) = n /\ \A j \in 1..n : j # k => s[j] = tl.events[j]
  <2> DEFINE q == tl.events
  <2>0. IsSeq(q) /\ k \in 1..Len(q)
    BY <1>0
  <2> HIDE DEF q
  <2>1. IsSeq([q EXCEPT ![k] = y]) /\ Len([q EXCEPT ![k] = y]) = Len(q)
    BY <2>0, ReplaceSeq, Zenon
  <2>2. \A j \in 1..Len(q) : [q EXCEPT ![k] = y][j] = IF j = k THEN y ELSE q[j]
    BY <2>0, ReplaceSeq
  <2>3. QED
    BY <2>1, <2>2 DEF q
<1>6. /\ a.start = tl.start /\ a.algo = tl.algo /\ a.council = tl.council
      /\ a \in [events : {s}, key : {None, tl.pub}, pub : {tl.pub}, start : Nat,
                council : {tl.council}, rotations : {tl.rotations}, algo : {tl.algo}]
  BY DEF ChainInv, Shape
<1> HIDE DEF s, a
<1>7. /\ tl'.events = [s EXCEPT ![k] = z]
      /\ tl'.start = tl.start /\ tl'.algo = tl.algo /\ tl'.council = tl.council
      /\ tl'.pub = tl.pub
      /\ tl' \in [events : {tl'.events}, key : {None, tl.pub}, pub : {tl.pub}, start : Nat,
                  council : {tl'.council}, rotations : {tl'.rotations}, algo : {tl'.algo}]
  BY <1>2, <1>6
<1>8. /\ IsSeq(tl'.events) /\ Len(tl'.events) = n
      /\ \A j \in 1..n : j # k => tl'.events[j] = tl.events[j]
      /\ tl'.events[k] = z
  <2>1. \A j \in 1..n : [s EXCEPT ![k] = z][j] = IF j = k THEN z ELSE s[j]
    BY <1>0, <1>5, ReplaceSeq
  <2>2. IsSeq([s EXCEPT ![k] = z]) /\ Len([s EXCEPT ![k] = z]) = n
    <3>1. k \in 1..Len(s)
      BY <1>0, <1>5
    <3>2. IsSeq([s EXCEPT ![k] = z]) /\ Len([s EXCEPT ![k] = z]) = Len(s)
      BY <1>5, <3>1, ReplaceSeq, Zenon
    <3>3. QED
      BY <1>5, <3>2
  <2>3. QED
    BY <1>0, <1>5, <1>7, <2>1, <2>2
<1>9. UNCHANGED keys /\ first' = IF first = -1 THEN i ELSE Min({first, i})
  BY DEF Alter, Damaged
<1>10. Shape'
  <2>1. \A j \in 1..n : IsEvent(tl'.events[j])
    BY <1>4, <1>8 DEF ChainInv, Shape
  <2>2. tl.pub \in Nat /\ keys' \in Nat
    BY <1>9 DEF ChainInv, Shape
  <2>3. QED
    BY <1>7, <1>8, <2>1, <2>2 DEF Shape
<1>11. Nested'
  <2>1. PICK h : Heights(h, tl.algo) /\ Rising(h, tl.events)
    BY DEF ChainInv, Nested
  <2> DEFINE v == h[x]
  <2>2. x \in DOMAIN h /\ v \in Nat
    BY <1>0, <2>1 DEF Rising, Heights
  <2>3. IF z.parent = None THEN v = 0
        ELSE \E w \in DOMAIN h : z.parent = Digest(tl.algo, w) /\ v = h[w] + 1
    BY <1>4, <2>1, <2>2 DEF Heights
  <2> HIDE DEF v, x
  <2>4. PICK g : /\ Heights(g, tl.algo)
                 /\ z \in DOMAIN g /\ g[z] = v
                 /\ \A w \in DOMAIN h : w \in DOMAIN g /\ g[w] = h[w]
    BY <2>1, <2>2, <2>3, HeightOfOne
  <2>5. \A j \in 1..n : tl'.events[j] \in DOMAIN g /\ g[tl'.events[j]] = h[tl.events[j]]
    BY <1>8, <2>1, <2>4 DEF Rising, v, x
  <2>6. Rising(g, tl'.events)
    BY <1>8, <2>1, <2>5 DEF Rising
  <2>7. QED
    BY <1>7, <2>4, <2>6 DEF Nested
<1>12. FirstDamage'
  <2>1. Agree(tl', tl, i)
    BY <1>0, <1>7, <1>8 DEF Agree, k
  <2>2. tl'.events[i + 1].sig = Forged
    BY <1>4, <1>8 DEF k
  <2>3. i < Len(tl'.events) /\ i < n
    BY <1>0, <1>8 DEF k
  <2>4. QED
    BY <1>0, <1>9, <1>10, <2>1, <2>2, <2>3, DamageShows
<1>13. QED
  BY <1>10, <1>11, <1>12 DEF ChainInv

\* An event that takes the place of a dropped one does not chain to what is in
\* front of it now: it is nested too deeply.
LEMMA DropKeeps ==
    ASSUME NilIsNoDigest, ChainInv, NEW i \in 0..Len(tl.events) - 1, Drop(i)
    PROVE  ChainInv'
<1> DEFINE n == Len(tl.events)
           k == i + 1
           s == RemoveAt(tl.events, k)
<1>0. n \in Nat /\ IsSeq(tl.events) /\ k \in 1..n /\ i \in Nat /\ i < n - 1
  BY SeqShape DEF ChainInv, Shape, Drop
<1>1. /\ tl' = [tl EXCEPT !.events = s] /\ UNCHANGED keys
      /\ first' = IF first = -1 THEN i ELSE Min({first, i})
  BY DEF Drop, Damaged
<1>2. /\ IsSeq(s) /\ Len(s) = n - 1
      /\ \A j \in 1..n - 1 : s[j] = IF j < k THEN tl.events[j] ELSE tl.events[j + 1]
  BY <1>0, DropSeq
<1> HIDE DEF s
<1>3. /\ tl'.events = s
      /\ tl'.start = tl.start /\ tl'.algo = tl.algo /\ tl'.council = tl.council
      /\ tl'.pub = tl.pub
      /\ tl' \in [events : {tl'.events}, key : {None, tl.pub}, pub : {tl.pub}, start : Nat,
                  council : {tl'.council}, rotations : {tl'.rotations}, algo : {tl'.algo}]
  BY <1>1 DEF ChainInv, Shape
<1>4. Shape'
  <2>1. \A j \in 1..n - 1 : IsEvent(s[j])
    <3> TAKE j \in 1..n - 1
    <3> DEFINE m == IF j < k THEN j ELSE j + 1
    <3>1. m \in 1..n /\ s[j] = tl.events[m]
      BY <1>0, <1>2
    <3> HIDE DEF m
    <3>2. QED
      BY <3>1 DEF ChainInv, Shape
  <2>2. tl.pub \in Nat /\ keys' \in Nat
    BY <1>1 DEF ChainInv, Shape
  <2>3. QED
    BY <1>2, <1>3, <2>1, <2>2 DEF Shape
<1>5. PICK h : Heights(h, tl.algo) /\ Rising(h, tl.events)
  BY DEF ChainInv, Nested
<1>6. Nested'
  <2>1. \A j \in 1..n - 1 : s[j] \in DOMAIN h
    BY <1>0, <1>2, <1>5 DEF Rising
  <2>2. ASSUME NEW j \in 1..n - 1, NEW l \in 1..n - 1, j < l PROVE h[s[j]] < h[s[l]]
    <3> DEFINE At(m) == IF m < k THEN m ELSE m + 1
    <3>1. s[j] = tl.events[At(j)] /\ s[l] = tl.events[At(l)]
      BY <1>2
    <3>2. At(j) \in 1..n /\ At(l) \in 1..n /\ At(j) < At(l)
      BY <1>0, <2>2
    <3> HIDE DEF At
    <3>3. QED
      BY <1>5, <3>1, <3>2 DEF Rising
  <2>3. Rising(h, s)
    BY <1>2, <2>1, <2>2 DEF Rising
  <2>4. QED
    BY <1>3, <1>5, <2>3 DEF Nested
<1>7. FirstDamage'
  <2> DEFINE y == tl.events[i + 2]
             x == tl.events[i + 1]
  <2>1. s[i + 1] = y /\ i + 1 \in 1..n /\ i + 2 \in 1..n
    BY <1>0, <1>2
  <2>2. /\ y \in DOMAIN h /\ x \in DOMAIN h /\ h[y] \in Nat /\ h[x] \in Nat
        /\ h[x] < h[y]
    BY <1>0, <1>5, <2>1 DEF Rising, Heights
  <2>3. y.parent # Expected(tl', i)
    <3>1. CASE i = 0
      BY <1>5, <2>2, <3>1 DEF Expected, Heights
    <3>2. CASE i # 0
      <4> DEFINE w == tl.events[i]
      <4>1. i \in 1..n /\ i \in 1..n - 1 /\ i < k
        BY <1>0, <3>2
      <4>2. w \in DOMAIN h /\ h[w] \in Nat /\ h[w] < h[x]
        BY <1>0, <1>5, <2>1, <4>1 DEF Rising, Heights
      <4>3. Expected(tl', i) = Digest(tl.algo, w)
        BY <1>2, <1>3, <3>2, <4>1 DEF Expected
      <4>4. ASSUME y.parent = Digest(tl.algo, w) PROVE FALSE
        <5>1. y.parent # None
          BY <4>4 DEF NilIsNoDigest
        <5>2. PICK v \in DOMAIN h : y.parent = Digest(tl.algo, v) /\ h[y] = h[v] + 1
          BY <1>5, <2>2, <5>1 DEF Heights
        <5>3. v = w
          BY <4>4, <5>2 DEF Digest
        <5> HIDE DEF w, x, y
        <5>4. QED
          BY <2>2, <4>2, <5>2, <5>3
      <4>5. QED
        BY <4>3, <4>4
    <3>3. QED
      BY <3>1, <3>2
  <2>4. Agree(tl', tl, i)
    BY <1>0, <1>2, <1>3 DEF Agree
  <2>5. i < Len(tl'.events) /\ i < n /\ tl'.events[i + 1].parent # Expected(tl', i)
    BY <1>0, <1>2, <1>3, <2>1, <2>3
  <2>6. QED
    BY <1>0, <1>1, <1>4, <2>4, <2>5, DamageShows
<1>8. QED
  BY <1>4, <1>6, <1>7 DEF ChainInv

\* A cut removes damage or leaves the first one; the guard of Cut says that the
\* key in memory still fits.
LEMMA CutKeeps ==
    ASSUME ChainInv, NEW n \in 0..Len(tl.events) - 1, Cut(n)
    PROVE  ChainInv'
<1> DEFINE s == SubSeq(tl.events, 1, n)
<1>0. Len(tl.events) \in Nat /\ IsSeq(tl.events) /\ n \in Nat /\ n < Len(tl.events)
  BY SeqShape DEF ChainInv, Shape
<1>1. /\ tl' = [tl EXCEPT !.events = s] /\ UNCHANGED keys
      /\ first' = IF first >= n THEN -1 ELSE first
      /\ PubForPrefix(tl, n - 1) = tl.pub
  BY DEF Cut
<1>2. IsSeq(s) /\ Len(s) = n /\ \A j \in 1..n : s[j] = tl.events[j]
  BY <1>0, CutSeq
<1> HIDE DEF s
<1>3. /\ tl'.events = s
      /\ tl'.start = tl.start /\ tl'.algo = tl.algo /\ tl'.council = tl.council
      /\ tl'.pub = tl.pub
      /\ tl' \in [events : {tl'.events}, key : {None, tl.pub}, pub : {tl.pub}, start : Nat,
                  council : {tl'.council}, rotations : {tl'.rotations}, algo : {tl'.algo}]
  BY <1>1 DEF ChainInv, Shape
<1>4. Shape'
  <2>1. \A j \in 1..n : IsEvent(s[j])
    BY <1>0, <1>2 DEF ChainInv, Shape
  <2>2. tl.pub \in Nat /\ keys' \in Nat
    BY <1>1 DEF ChainInv, Shape
  <2>3. QED
    BY <1>2, <1>3, <2>1, <2>2 DEF Shape
<1>5. Nested'
  <2>1. PICK h : Heights(h, tl.algo) /\ Rising(h, tl.events)
    BY DEF ChainInv, Nested
  <2>2. Rising(h, s)
    BY <1>0, <1>2, <2>1 DEF Rising
  <2>3. QED
    BY <1>3, <2>1, <2>2 DEF Nested
<1>6. FirstDamage'
  <2>1. Agree(tl', tl, n)
    BY <1>2, <1>3 DEF Agree
  <2>2. /\ \A j \in 0..n - 1 : BadEvent(tl', j) <=> BadEvent(tl, j)
        /\ \A j \in 0..n : Expected(tl', j) = Expected(tl, j)
        /\ \A j \in -1..n - 1 : PubForPrefix(tl', j) = PubForPrefix(tl, j)
    BY <1>0, <2>1, SamePrefix
  <2>3. tl'.pub = PubForPrefix(tl', Len(tl'.events) - 1)
    BY <1>0, <1>1, <1>2, <1>3, <2>2
  <2>4. first \in -1..Len(tl.events) - 1 /\ first' \in -1..n - 1
    BY <1>0, <1>1 DEF ChainInv, FirstDamage
  <2>5. \A j \in 0..n - 1 : first' = -1 \/ j < first' => ~BadEvent(tl', j)
    <3> TAKE j \in 0..n - 1
    <3> HAVE first' = -1 \/ j < first'
    <3>1. j \in 0..Len(tl.events) - 1 /\ (first = -1 \/ j < first)
      BY <1>0, <1>1, <2>4
    <3>2. QED
      BY <2>2, <3>1 DEF ChainInv, FirstDamage
  <2>6. first' # -1 => \/ tl'.events[first' + 1].parent # Expected(tl', first')
                       \/ tl'.events[first' + 1].sig = Forged
    <3> HAVE first' # -1
    <3>1. first' = first /\ first # -1 /\ first \in 0..n /\ first + 1 \in 1..n
      BY <1>0, <1>1, <2>4
    <3>2. tl'.events[first + 1] = tl.events[first + 1] /\ Expected(tl', first) = Expected(tl, first)
      BY <2>1, <2>2, <3>1 DEF Agree
    <3>3. QED
      BY <3>1, <3>2 DEF ChainInv, FirstDamage
  <2>7. QED
    BY <1>2, <1>3, <2>3, <2>4, <2>5, <2>6 DEF FirstDamage
<1>7. QED
  BY <1>4, <1>5, <1>6 DEF ChainInv

\* A reload may lose the signing key, never an event.
LEMMA ReloadKeeps ==
    ASSUME ChainInv, NEW b \in BOOLEAN, SaveAndLoad(b)
    PROVE  ChainInv'
<1>1. /\ tl'.events = tl.events /\ tl'.start = tl.start /\ tl'.algo = tl.algo
      /\ tl'.council = tl.council /\ tl'.pub = tl.pub
      /\ tl' \in [events : {tl'.events}, key : {None, tl.pub}, pub : {tl.pub}, start : Nat,
                  council : {tl'.council}, rotations : {tl'.rotations}, algo : {tl'.algo}]
  BY DEF SaveAndLoad, Reloaded, ChainInv, Shape
<1>2. UNCHANGED <<keys, first>>
  BY DEF SaveAndLoad
<1>3. Shape'
  BY <1>1, <1>2 DEF ChainInv, Shape
<1>4. Nested'
  BY <1>1 DEF ChainInv, Nested
<1>5. FirstDamage'
  <2> DEFINE n == Len(tl.events)
  <2>0. n \in Nat
    BY SeqShape DEF ChainInv, Shape
  <2>1. Agree(tl', tl, n)
    BY <1>1 DEF Agree
  <2>2. /\ \A j \in 0..n - 1 : BadEvent(tl', j) <=> BadEvent(tl, j)
        /\ \A j \in 0..n : Expected(tl', j) = Expected(tl, j)
        /\ \A j \in -1..n - 1 : PubForPrefix(tl', j) = PubForPrefix(tl, j)
    BY <2>0, <2>1, SamePrefix
  <2>3. PubForPrefix(tl', n - 1) = PubForPrefix(tl, n - 1)
    BY <2>0, <2>2
  <2>4. first # -1 => Expected(tl', first) = Expected(tl, first)
    BY <2>0, <2>2 DEF ChainInv, FirstDamage
  <2>5. QED
    BY <1>1, <1>2, <2>2, <2>3, <2>4 DEF ChainInv, FirstDamage
<1>6. QED
  BY <1>3, <1>4, <1>5 DEF ChainInv
-----------------------------------------------------------------------------
(* The walk finds the first damage.                                        *)

\* The walk is content iff no event is bad.
LEMMA VerifiedIsGood ==
    ASSUME NEW t, IsSeq(t.events)
    PROVE  Verify(t) <=> \A i \in 0..Len(t.events) - 1 : ~BadEvent(t, i)
<1> DEFINE bad == {i \in 0..Len(t.events) - 1 : BadEvent(t, i)}
<1>1. Verify(t) <=> (IF bad = {} THEN -1 ELSE Min(bad)) = -1
  BY DEF Verify, LocateBadEvent, WalkVerify
<1>2. bad \in SUBSET Nat
  BY SeqShape
<1>3. bad # {} => Min(bad) # -1
  <2> SUFFICES ASSUME bad # {} PROVE Min(bad) # -1
    OBVIOUS
  <2>1. Min(bad) \in Nat
    BY <1>2, MinNat
  <2> DEFINE m == Min(bad)
  <2> HIDE DEF m
  <2>2. m \in Nat
    BY <2>1 DEF m
  <2>3. m # -1
    BY <2>2
  <2>4. QED
    BY <2>3 DEF m
<1>4. Verify(t) <=> bad = {}
  BY <1>1, <1>3
<1>5. QED
  BY <1>4

\* The invariant says what the walk returns.
LEMMA WalkIsExact ==
    ASSUME ChainInv
    PROVE  LocateBadEvent(tl) = first
<1> DEFINE n == Len(tl.events)
           bad == {i \in 0..n - 1 : BadEvent(tl, i)}
<1>0. n \in Nat /\ first \in -1..n - 1
  BY SeqShape DEF ChainInv, Shape, FirstDamage
<1>1. LocateBadEvent(tl) = IF bad = {} THEN -1 ELSE Min(bad)
  BY DEF LocateBadEvent, WalkVerify
<1>2. CASE first = -1
  <2>1. bad = {}
    BY <1>2 DEF ChainInv, FirstDamage
  <2>2. QED
    BY <1>1, <1>2, <2>1
<1>3. CASE first # -1
  <2>1. first \in 0..n - 1
    BY <1>0, <1>3
  <2>2. BadEvent(tl, first)
    <3>1. CASE tl.events[first + 1].parent # Expected(tl, first)
      BY <3>1 DEF BadEvent
    <3>2. CASE tl.events[first + 1].sig = Forged
      <4>1. \A i \in 1..first + 1 : tl.events[i].type \in {"ISSUE", "KEY_ROTATE"}
        <5> TAKE i \in 1..first + 1
        <5>1. i \in 1..n
          BY <1>0, <2>1
        <5>2. IsEvent(tl.events[i])
          BY <5>1 DEF ChainInv, Shape
        <5>3. QED
          BY <5>2 DEF IsEvent
      <4>2. first \in Nat /\ first - 1 \in -1..n - 1
        BY <1>0, <2>1
      <4>3. KeyInForce(tl, first) = PubForPrefix(tl, first - 1)
        BY <4>1, <4>2, KeyInForceIs
      <4>4. KeyInForce(tl, first) \in Nat
        BY <4>2, <4>3, PubIsKey DEF ChainInv
      <4>5. QED
        BY <3>2, <4>4, ChainNames DEF BadEvent
    <3>3. QED
      BY <1>3, <3>1, <3>2 DEF ChainInv, FirstDamage
  <2>3. \A i \in bad : first <= i
    BY <1>0, <1>3 DEF ChainInv, FirstDamage
  <2>4. bad \in SUBSET Int /\ first \in bad
    BY <2>1, <2>2
  <2> HIDE DEF bad
  <2>5. Min(bad) = first
    BY <2>3, <2>4, MinIs
  <2>6. QED
    BY <1>1, <2>4, <2>5
<1>4. QED
  BY <1>2, <1>3
-----------------------------------------------------------------------------
(* The invariant holds.                                                    *)

WatchedInv == ChainInv /\ CadenceInv /\ IsSeq(mirror)

\* Nobody has touched a new timeline.
LEMMA InitWatchedInv ==
    ASSUME WatchedInit
    PROVE  WatchedInv
<1>1. PICK algo : tl = [NewTimeline(0, algo) EXCEPT !.council = Council]
  BY DEF WatchedInit, Init
<1>2. /\ tl.events = <<>> /\ tl.key = 0 /\ tl.pub = 0 /\ tl.start = 0 /\ tl.algo = algo
      /\ tl \in [events : {<<>>}, key : {0}, pub : {0}, start : {0},
                 council : {tl.council}, rotations : {tl.rotations}, algo : {tl.algo}]
  BY <1>1 DEF NewTimeline
<1>3. IsSeq(<<>>) /\ Len(<<>>) = 0
  BY EmptySeq DEF IsSeq
<1>4. keys = 1 /\ first = -1 /\ mirror = <<>> /\ w2 = FreshW2 /\ late = 0 /\ spurious = 0
  BY DEF WatchedInit, Init
<1>5. Shape
  BY <1>2, <1>3, <1>4 DEF Shape
<1>6. Nested
  <2> DEFINE h == [x \in {} |-> 0]
  <2>1. Heights(h, tl.algo) /\ Rising(h, tl.events)
    BY <1>2, <1>3 DEF Heights, Rising
  <2>2. QED
    BY <2>1 DEF Nested
<1>7. FirstDamage
  <2>1. PubForPrefix(tl, -1) = tl.start
    BY DEF PubForPrefix, KeyAfter
  <2>2. QED
    BY <1>2, <1>3, <1>4, <2>1 DEF FirstDamage
<1>8. CadenceInv
  BY <1>4, WatchParams DEF CadenceInv, FreshW2
<1>9. QED
  BY <1>3, <1>4, <1>5, <1>6, <1>7, <1>8 DEF WatchedInv, ChainInv

\* Every step keeps what is known of the chain.
LEMMA NextChainInv ==
    ASSUME NilIsNoDigest, ChainInv, [WatchedNext]_allVars
    PROVE  ChainInv'
<1>1. CASE Grow
  <2>1. CASE Add
    <3>1. PICK c \in Certs : tl' = AppendEv(tl, IssueEv(c, Owner, None))
      BY <2>1 DEF Add
    <3>2. \E e : Extends(e)
      BY <2>1, <3>1, IssueExtends DEF Add, Writable, ChainInv
    <3>3. QED
      BY <3>2, ExtendsKeeps
  <2>2. CASE Rotate
    <3>1. \E e : Extends(e)
      BY <2>2, RotateExtends DEF Rotate, Writable, ChainInv
    <3>2. QED
      BY <3>1, ExtendsKeeps
  <2>3. QED
    BY <1>1, <2>1, <2>2 DEF Grow
<1>2. CASE GrowUnmirrored
  <2>1. PICK c \in Certs : tl' = AppendEv(tl, IssueEv(c, Owner, None))
    BY <1>2 DEF GrowUnmirrored
  <2>2. \E e : Extends(e)
    BY <1>2, <2>1, IssueExtends DEF GrowUnmirrored, Writable, ChainInv
  <2>3. QED
    BY <2>2, ExtendsKeeps
<1>3. ASSUME NEW k \in BOOLEAN, Reload(k) PROVE ChainInv'
  BY <1>3, ReloadKeeps DEF Reload
<1>4. CASE Corrupt
  <2>1. PICK i \in 0..Len(tl.events) - 1 : Alter(i) \/ Drop(i)
    BY <1>4 DEF Corrupt
  <2>2. QED
    BY <2>1, AlterKeeps, DropKeeps
<1>5. ASSUME NEW n \in 0..Len(tl.events) - 1, Cut(n) PROVE ChainInv'
  BY <1>5, CutKeeps
<1>6. CASE UNCHANGED vars
  <2>1. UNCHANGED <<tl, keys, first>>
    BY <1>6 DEF vars
  <2>2. Shape'
    BY <2>1 DEF ChainInv, Shape
  <2>3. Nested'
    BY <2>1 DEF ChainInv, Nested
  <2>4. FirstDamage'
    BY <2>1 DEF ChainInv, FirstDamage
  <2>5. QED
    BY <2>2, <2>3, <2>4 DEF ChainInv
<1>7. CASE Cycle
  BY <1>6, <1>7 DEF Cycle
<1>8. QED
  BY <1>1, <1>2, <1>3, <1>4, <1>5, <1>6, <1>7 DEF WatchedNext, allVars

\* A full scan ends every streak of wrong verdicts, so that no streak outlasts
\* the cycles counted since.
LEMMA NextCadenceInv ==
    ASSUME ChainInv, CadenceInv, [WatchedNext]_allVars
    PROVE  CadenceInv'
<1> DEFINE c == w2.cycles
           d == (c + 1) % FullEvery
<1>1. CASE Cycle
  <2>0. w2 \in [checked : Nat, cycles : 0..FullEvery - 1] /\ Len(tl.events) \in Nat
    BY SeqShape DEF CadenceInv, ChainInv, Shape
  <2>1. w2' \in [checked : Nat, cycles : {d}] /\ w2'.cycles = d
    BY <1>1, <2>0 DEF Cycle, ScoreW2
  <2>2. c \in 0..FullEvery - 1 /\ late \in 0..c /\ spurious \in 0..c
    BY <2>0 DEF CadenceInv
  <2>3. IF c + 1 = FullEvery THEN d = 0 ELSE d = c + 1
    BY <2>2, WatchParams
  <2>4. d = 0 => Integrity = first
    BY WalkIsExact DEF Integrity, FullScanDue
  <2>5. /\ late' = (IF first # -1 /\ Integrity = -1 THEN late + 1 ELSE 0)
        /\ spurious' = (IF first = -1 /\ Integrity # -1 THEN spurious + 1 ELSE 0)
    BY <1>1 DEF Cycle
  <2> HIDE DEF c, d
  <2>6. d \in 0..FullEvery - 1
    BY <2>2, <2>3, WatchParams
  <2>7. late' \in 0..d /\ spurious' \in 0..d
    <3>1. CASE d = 0
      BY <2>4, <2>5, <3>1
    <3>2. CASE d = c + 1
      BY <2>2, <2>5, <3>2
    <3>3. QED
      BY <2>3, <3>1, <3>2
  <2>8. QED
    BY <2>1, <2>6, <2>7 DEF CadenceInv
<1>2. ASSUME NEW k \in BOOLEAN, Reload(k) PROVE CadenceInv'
  BY <1>2, WatchParams DEF Reload, CadenceInv, FreshW2
<1>3. CASE UNCHANGED <<w2, late>> /\ (UNCHANGED spurious \/ spurious' = 0)
  BY <1>3 DEF CadenceInv
<1>4. QED
  BY <1>1, <1>2, <1>3
     DEF WatchedNext, Grow, GrowUnmirrored, Corrupt, Cut, allVars, watch

\* The auditor's log only grows.
LEMMA NextMirror ==
    ASSUME IsSeq(mirror), [WatchedNext]_allVars
    PROVE  IsSeq(mirror)'
<1>1. CASE Grow
  BY <1>1, AppendSeq DEF Grow
<1>2. CASE UNCHANGED mirror
  BY <1>2 DEF IsSeq
<1>3. QED
  BY <1>1, <1>2
     DEF WatchedNext, GrowUnmirrored, Reload, Corrupt, Cut, Cycle, allVars, watch

\* The inductive invariant holds in every reachable state.
THEOREM WatchedInvariant ==
    ASSUME NilIsNoDigest
    PROVE  WatchedSpec => []WatchedInv
<1>1. WatchedInit => WatchedInv
  BY InitWatchedInv
<1>2. WatchedInv /\ [WatchedNext]_allVars => WatchedInv'
  BY NextChainInv, NextCadenceInv, NextMirror DEF WatchedInv
<1>3. QED
  BY <1>1, <1>2, PTL DEF WatchedSpec
-----------------------------------------------------------------------------
(* What the observers see.                                                 *)

\* LocateBadEvent names the lowest damaged event, for a chain of any length,
\* with any number of rotations and under either link digest.
THEOREM WalkFindsFirst ==
    ASSUME NilIsNoDigest
    PROVE  WatchedSpec => []FindsFirstDamage
<1>1. WatchedInv => FindsFirstDamage
  BY WalkIsExact DEF WatchedInv, FindsFirstDamage
<1>2. QED
  BY <1>1, WatchedInvariant, PTL

\* W2 flags damage in front of its cursor at once and any other damage by its
\* next full scan.
THEOREM DamageIsFlagged ==
    ASSUME NilIsNoDigest
    PROVE  WatchedSpec => []DamageFlagged
<1>1. ASSUME WatchedInv, first > 0, first >= w2.checked
      PROVE  Integrity \in 0..first
  <2> DEFINE n == Len(tl.events)
             bad == {i \in w2.checked..n - 1 : DeltaBad(i)}
  <2>0. n \in Nat /\ first \in 0..n - 1 /\ w2.checked \in Nat /\ first # -1
    BY <1>1, SeqShape DEF WatchedInv, ChainInv, Shape, FirstDamage, CadenceInv
  <2>1. DeltaBad(first)
    <3>1. CASE tl.events[first + 1].parent # Expected(tl, first)
      BY <1>1, <2>0, <3>1 DEF Expected, DeltaBad
    <3>2. CASE tl.events[first + 1].sig = Forged
      BY <1>1, <3>2, ChainNames DEF DeltaBad, WatchedInv, ChainInv, Shape
    <3>3. QED
      BY <1>1, <2>0, <3>1, <3>2 DEF WatchedInv, ChainInv, FirstDamage
  <2>2. bad \in SUBSET Nat /\ first \in bad
    BY <1>1, <2>0, <2>1
  <2>3. DeltaCheck = IF bad = {} THEN -1 ELSE Min(bad)
    BY DEF DeltaCheck
  <2> HIDE DEF bad
  <2>4. Min(bad) \in Nat /\ Min(bad) <= first
    BY <2>2, MinNat
  <2>5. DeltaCheck \in Nat /\ DeltaCheck <= first
    BY <2>2, <2>3, <2>4
  <2>6. LocateBadEvent(tl) = first
    BY <1>1, WalkIsExact DEF WatchedInv
  <2>7. QED
    BY <2>0, <2>5, <2>6 DEF Integrity
<1>2. WatchedInv => late < FullEvery
  BY WatchParams DEF WatchedInv, CadenceInv
<1>3. WatchedInv => DamageFlagged
  BY <1>1, <1>2 DEF DamageFlagged
<1>4. QED
  BY <1>3, WatchedInvariant, PTL

\* An alarm of W2 on an undamaged chain names an event in front of a later
\* rotation, and ends with the next full scan.
THEOREM AlarmsHaveCauses ==
    ASSUME NilIsNoDigest
    PROVE  WatchedSpec => []AlarmHasCause
<1>1. ASSUME WatchedInv, first = -1, Integrity # -1
      PROVE  \E i \in Integrity + 1..Len(tl.events) : tl.events[i].type \in Switches
  <2> DEFINE n == Len(tl.events)
             bad == {i \in w2.checked..n - 1 : DeltaBad(i)}
  <2>0. n \in Nat /\ w2.checked \in Nat
    BY <1>1, SeqShape DEF WatchedInv, ChainInv, Shape, CadenceInv
  <2>1. Integrity = DeltaCheck
    BY <1>1, WalkIsExact DEF WatchedInv, Integrity
  <2>2. DeltaCheck = IF bad = {} THEN -1 ELSE Min(bad)
    BY DEF DeltaCheck
  <2>3. bad \in SUBSET Nat /\ bad # {}
    BY <1>1, <2>0, <2>1, <2>2
  <2>4. Integrity \in bad
    <3> HIDE DEF bad
    <3>1. QED
      BY <2>1, <2>2, <2>3, MinNat
  <2> DEFINE i == Integrity
  <2>5. i \in Nat /\ i \in 0..n - 1 /\ DeltaBad(i)
    BY <2>0, <2>3, <2>4
  <2> HIDE DEF i
  <2>6. ~BadEvent(tl, i)
    BY <1>1, <2>5 DEF WatchedInv, ChainInv, FirstDamage
  <2>7. \A j \in 1..i + 1 : tl.events[j].type \in {"ISSUE", "KEY_ROTATE"}
    <3> TAKE j \in 1..i + 1
    <3>1. j \in 1..n
      BY <2>0, <2>5
    <3>2. IsEvent(tl.events[j])
      BY <1>1, <3>1 DEF WatchedInv, ChainInv, Shape
    <3>3. QED
      BY <3>2 DEF IsEvent
  <2>8. tl.events[i + 1].sig = PubForPrefix(tl, i - 1)
    BY <2>5, <2>6, <2>7, KeyInForceIs DEF BadEvent
  <2>9. tl.events[i + 1].sig # tl.pub
    BY <2>5, <2>6 DEF BadEvent, DeltaBad, Expected
  <2>10. tl.pub = PubForPrefix(tl, n - 1)
    BY <1>1 DEF WatchedInv, ChainInv, FirstDamage
  <2>11. ASSUME \A j \in i + 1..n : tl.events[j].type \notin Switches PROVE FALSE
    <3> DEFINE S(k) == {j \in 0..k : tl.events[j + 1].type \in Switches}
    <3>1. \A j \in 0..n - 1 : tl.events[j + 1].type \in Switches => j \in 0..i - 1
      <4> TAKE j \in 0..n - 1
      <4> HAVE tl.events[j + 1].type \in Switches
      <4>1. ~(j + 1 \in i + 1..n)
        BY <2>11
      <4>2. QED
        BY <2>0, <2>5, <4>1
    <3>2. S(n - 1) = S(i - 1)
      BY <2>0, <2>5, <3>1
    <3>3. PubForPrefix(tl, n - 1) = PubForPrefix(tl, i - 1)
      BY <3>2 DEF PubForPrefix
    <3>4. QED
      BY <2>8, <2>9, <2>10, <3>3
  <2>12. QED
    BY <2>11 DEF i
<1>2. WatchedInv => spurious < FullEvery
  BY WatchParams DEF WatchedInv, CadenceInv
<1>3. WatchedInv => AlarmHasCause
  BY <1>1, <1>2 DEF AlarmHasCause
<1>4. QED
  BY <1>3, WatchedInvariant, PTL
-----------------------------------------------------------------------------
(* The observers together.                                                 *)

Linked(s, algo) ==
    \A i \in 1..Len(s) : s[i].parent = IF i = 1 THEN None ELSE Digest(algo, s[i - 1])

\* Two chains with the same head, whose links hold and that start with an
\* event without a parent, are the same: the links determine an event from the
\* one behind it.
LEMMA SameHeadSameChain ==
    ASSUME NilIsNoDigest, NEW algo, NEW a, NEW b, IsSeq(a), IsSeq(b),
           Len(a) # 0, Len(b) # 0, a[Len(a)] = b[Len(b)], Linked(a, algo), Linked(b, algo)
    PROVE  a = b
<1> DEFINE n == Len(a)
           m == Len(b)
           Differ == {k \in Nat : k < n /\ k < m /\ a[n - k] # b[m - k]}
<1>0. n \in Nat /\ m \in Nat /\ n # 0 /\ m # 0
  BY SeqShape
<1>1. Differ = {}
  <2> SUFFICES ASSUME Differ # {} PROVE FALSE
    OBVIOUS
  <2>1. Min(Differ) \in Differ /\ \A y \in Differ : Min(Differ) <= y
    BY MinNat
  <2> DEFINE k == Min(Differ)
  <2> HIDE DEF k
  <2>2. k \in Nat /\ k < n /\ k < m /\ a[n - k] # b[m - k]
    BY <2>1 DEF k
  <2>3. k # 0
    BY <1>0, <2>2
  <2> DEFINE p == n - k
             q == m - k
  <2>4. /\ p \in 1..n /\ p + 1 \in 1..n /\ p + 1 # 1 /\ p + 1 - 1 = p /\ n - (k - 1) = p + 1
        /\ q \in 1..m /\ q + 1 \in 1..m /\ q + 1 # 1 /\ q + 1 - 1 = q /\ m - (k - 1) = q + 1
    BY <1>0, <2>2, <2>3
  <2>5. a[p + 1] = b[q + 1]
    <3>1. k - 1 \in Nat /\ k - 1 < n /\ k - 1 < m /\ ~(k <= k - 1)
      BY <1>0, <2>2, <2>3
    <3>2. k - 1 \notin Differ
      BY <2>1, <3>1 DEF k
    <3>3. a[n - (k - 1)] = b[m - (k - 1)]
      BY <3>1, <3>2
    <3>4. QED
      BY <2>4, <3>3
  <2>6. a[p] # b[q]
    BY <2>2
  <2> HIDE DEF p, q
  <2>7. a[p + 1].parent = Digest(algo, a[p]) /\ b[q + 1].parent = Digest(algo, b[q])
    BY <2>4 DEF Linked
  <2>8. QED
    BY <2>5, <2>6, <2>7 DEF Digest
<1>2. \A k \in Nat : k < n /\ k < m => a[n - k] = b[m - k]
  BY <1>1
<1>3. n = m
  <2>1. ASSUME n < m PROVE FALSE
    <3> DEFINE q == m - n + 1
    <3>1. n - 1 \in Nat /\ n - 1 < n /\ n - 1 < m /\ n - (n - 1) = 1 /\ m - (n - 1) = q
      BY <1>0, <2>1
    <3>2. a[1] = b[q]
      BY <1>2, <3>1
    <3>3. 1 \in 1..n /\ q \in 1..m /\ q # 1
      BY <1>0, <2>1
    <3> HIDE DEF q
    <3>4. a[1].parent = None /\ b[q].parent = Digest(algo, b[q - 1])
      BY <3>3 DEF Linked
    <3>5. QED
      BY <3>2, <3>4 DEF NilIsNoDigest
  <2>2. ASSUME m < n PROVE FALSE
    <3> DEFINE p == n - m + 1
    <3>1. m - 1 \in Nat /\ m - 1 < m /\ m - 1 < n /\ m - (m - 1) = 1 /\ n - (m - 1) = p
      BY <1>0, <2>2
    <3>2. a[p] = b[1]
      BY <1>2, <3>1
    <3>3. 1 \in 1..m /\ p \in 1..n /\ p # 1
      BY <1>0, <2>2
    <3> HIDE DEF p
    <3>4. b[1].parent = None /\ a[p].parent = Digest(algo, a[p - 1])
      BY <3>3 DEF Linked
    <3>5. QED
      BY <3>2, <3>4 DEF NilIsNoDigest
  <2>3. QED
    BY <1>0, <2>1, <2>2
<1>4. \A i \in 1..n : a[i] = b[i]
  <2> TAKE i \in 1..n
  <2>1. n - i \in Nat /\ n - i < n /\ n - (n - i) = i
    BY <1>0
  <2>2. QED
    BY <1>2, <1>3, <2>1
<1> DEFINE S == Range(a) \cup Range(b)
<1>5. a \in Seq(S) /\ b \in Seq(S)
  BY SeqMonotonic DEF IsSeq
<1> HIDE DEF S
<1>6. QED
  BY <1>3, <1>4, <1>5, SeqEqual

\* When the full scan, the probe and the auditor's check are all content, the
\* timeline is exactly what the auditor was shown: no cut, no alteration, no
\* unmirrored event escapes all three.
THEOREM QuietIsIntact ==
    ASSUME NilIsNoDigest
    PROVE  WatchedSpec => []QuietMeansIntact
<1>1. ASSUME WatchedInv, Verify(tl), ~ProbeAlarm, MirrorVerifies
      PROVE  tl.events = mirror
  <2> DEFINE a == tl.events
  <2>1. IsSeq(a) /\ IsSeq(mirror)
    BY <1>1 DEF WatchedInv, ChainInv, Shape
  <2>2. /\ Len(a) \in Nat /\ (a = <<>> <=> Len(a) = 0)
        /\ Len(mirror) \in Nat /\ DOMAIN mirror = 1..Len(mirror)
        /\ (mirror = <<>> <=> Len(mirror) = 0)
    BY <2>1, SeqShape
  <2>3. HeadOf(tl) = MirrorHead
    BY <1>1 DEF ProbeAlarm
  <2>4. a = <<>> <=> mirror = <<>>
    BY <2>3 DEF HeadOf, MirrorHead, Hash, NilIsNoDigest
  <2>5. CASE a = <<>>
    BY <2>4, <2>5
  <2>6. CASE a # <<>>
    <3>1. Last(a) = Last(mirror)
      BY <2>3, <2>4, <2>6 DEF HeadOf, MirrorHead, Hash, Digest
    <3>2. a[Len(a)] = mirror[Len(mirror)]
      BY <3>1 DEF Last
    <3>3. ASSUME NEW i \in 1..Len(a)
          PROVE  a[i].parent = IF i = 1 THEN None ELSE Digest(tl.algo, a[i - 1])
      <4>1. i - 1 \in 0..Len(a) - 1 /\ i - 1 + 1 = i
        BY <2>2
      <4>2. ~BadEvent(tl, i - 1)
        BY <1>1, <2>1, <4>1, VerifiedIsGood
      <4>3. QED
        BY <4>1, <4>2 DEF BadEvent, Expected
    <3>4. Linked(a, tl.algo) /\ Linked(mirror, tl.algo)
      BY <1>1, <2>2, <3>3 DEF Linked, MirrorVerifies
    <3>5. Len(a) # 0 /\ Len(mirror) # 0
      BY <2>2, <2>4, <2>6
    <3> HIDE DEF a
    <3>6. a = mirror
      BY <2>1, <3>2, <3>4, <3>5, SameHeadSameChain, Zenon
    <3>7. QED
      BY <3>6 DEF a
  <2>7. QED
    BY <2>5, <2>6
<1>2. WatchedInv => QuietMeansIntact
  BY <1>1 DEF QuietMeansIntact
<1>3. QED
  BY <1>2, WatchedInvariant, PTL
-----------------------------------------------------------------------------
(* What the recursive functions of Timeline compute.  Each is unfolded      *)
(* once: the function that its definition chooses exists, because there is  *)
(* no least number of steps for which there is none.                        *)

\* AppendAll appends one event after the other.
LEMMA AppendAllUnfolds ==
    ASSUME NEW t, NEW bodies, Len(bodies) \in Nat
    PROVE  \E f : /\ AppendAll(t, bodies) = f[Len(bodies)]
                  /\ f[0] = t
                  /\ \A n \in 1..Len(bodies) : f[n] = AppendEv(f[n - 1], bodies[n])
<1> DEFINE N == Len(bodies)
           Step(x, n) == AppendEv(x, bodies[n])
           Unfold(g, k) == [n \in 0..k |-> IF n = 0 THEN t ELSE Step(g[n - 1], n)]
<1> HIDE DEF Step
<1>1. \A k \in Nat : \E g : g = Unfold(g, k)
  <2> DEFINE Fails == {k \in Nat : ~\E g : g = Unfold(g, k)}
  <2> SUFFICES ASSUME Fails # {} PROVE FALSE
    OBVIOUS
  <2>1. Min(Fails) \in Fails /\ \A y \in Fails : Min(Fails) <= y
    BY MinNat
  <2> DEFINE k == Min(Fails)
  <2> HIDE DEF k
  <2>2. k \in Nat /\ ~\E g : g = Unfold(g, k)
    BY <2>1 DEF k
  <2>3. CASE k = 0
    <3> DEFINE g == [n \in 0..0 |-> t]
    <3>1. \A n \in 0..0 : g[n] = IF n = 0 THEN t ELSE Step(g[n - 1], n)
      OBVIOUS
    <3>2. g = Unfold(g, 0)
      BY <3>1, Zenon
    <3>3. QED
      BY <2>2, <2>3, <3>2
  <2>4. CASE k # 0
    <3>1. k - 1 \in Nat /\ ~(k <= k - 1)
      BY <2>2, <2>4
    <3>2. k - 1 \notin Fails
      BY <2>1, <3>1 DEF k
    <3>3. PICK g : g = Unfold(g, k - 1)
      BY <3>1, <3>2
    <3> DEFINE h == Unfold(g, k)
    <3>4. \A n \in 0..k : h[n] = IF n = 0 THEN t ELSE Step(g[n - 1], n)
      OBVIOUS
    <3>5. h = [n \in 0..k |-> h[n]]
      OBVIOUS
    <3> HIDE DEF h
    <3>6. \A n \in 0..k - 1 : g[n] = IF n = 0 THEN t ELSE Step(g[n - 1], n)
      BY <3>3
    <3>7. \A n \in 0..k - 1 : n \in 0..k /\ h[n] = g[n]
      BY <2>2, <3>4, <3>6
    <3>8. \A n \in 0..k : n # 0 => n - 1 \in 0..k - 1
      BY <2>2
    <3>9. \A n \in 0..k : h[n] = IF n = 0 THEN t ELSE Step(h[n - 1], n)
      BY <3>4, <3>7, <3>8
    <3>10. h = Unfold(h, k)
      BY <3>5, <3>9
    <3>11. QED
      BY <2>2, <3>10
  <2>5. QED
    BY <2>3, <2>4
<1>2. N \in Nat /\ \E g : g = Unfold(g, N)
  BY <1>1
<1> DEFINE f == CHOOSE g : g = Unfold(g, N)
<1>3. f = Unfold(f, N)
  BY <1>2
<1>4. AppendAll(t, bodies) = f[N]
  BY DEF AppendAll, Step
<1> HIDE DEF f
<1>5. f[0] = t /\ \A n \in 1..N : f[n] = Step(f[n - 1], n)
  <2>1. \A n \in 0..N : f[n] = IF n = 0 THEN t ELSE Step(f[n - 1], n)
    BY <1>3
  <2>2. 0 \in 0..N /\ \A n \in 1..N : n \in 0..N /\ n # 0
    BY <1>2
  <2>3. QED
    BY <2>1, <2>2
<1>6. QED
  BY <1>4, <1>5 DEF Step

\* Fold takes in one event after the other.
LEMMA FoldUnfolds ==
    ASSUME NEW events, Len(events) \in Nat
    PROVE  \E f : /\ Fold(events) = f[Len(events)]
                  /\ f[0] = <<>>
                  /\ \A n \in 1..Len(events) : f[n] = FoldEvent(f[n - 1], events[n])
<1> DEFINE N == Len(events)
           Step(x, n) == FoldEvent(x, events[n])
           Unfold(g, k) == [n \in 0..k |-> IF n = 0 THEN <<>> ELSE Step(g[n - 1], n)]
<1> HIDE DEF Step
<1>1. \A k \in Nat : \E g : g = Unfold(g, k)
  <2> DEFINE Fails == {k \in Nat : ~\E g : g = Unfold(g, k)}
  <2> SUFFICES ASSUME Fails # {} PROVE FALSE
    OBVIOUS
  <2>1. Min(Fails) \in Fails /\ \A y \in Fails : Min(Fails) <= y
    BY MinNat
  <2> DEFINE k == Min(Fails)
  <2> HIDE DEF k
  <2>2. k \in Nat /\ ~\E g : g = Unfold(g, k)
    BY <2>1 DEF k
  <2>3. CASE k = 0
    <3> DEFINE g == [n \in 0..0 |-> <<>>]
    <3>1. \A n \in 0..0 : g[n] = IF n = 0 THEN <<>> ELSE Step(g[n - 1], n)
      OBVIOUS
    <3>2. g = Unfold(g, 0)
      BY <3>1, Zenon
    <3>3. QED
      BY <2>2, <2>3, <3>2
  <2>4. CASE k # 0
    <3>1. k - 1 \in Nat /\ ~(k <= k - 1)
      BY <2>2, <2>4
    <3>2. k - 1 \notin Fails
      BY <2>1, <3>1 DEF k
    <3>3. PICK g : g = Unfold(g, k - 1)
      BY <3>1, <3>2
    <3> DEFINE h == Unfold(g, k)
    <3>4. \A n \in 0..k : h[n] = IF n = 0 THEN <<>> ELSE Step(g[n - 1], n)
      OBVIOUS
    <3>5. h = [n \in 0..k |-> h[n]]
      OBVIOUS
    <3> HIDE DEF h
    <3>6. \A n \in 0..k - 1 : g[n] = IF n = 0 THEN <<>> ELSE Step(g[n - 1], n)
      BY <3>3
    <3>7. \A n \in 0..k - 1 : n \in 0..k /\ h[n] = g[n]
      BY <2>2, <3>4, <3>6
    <3>8. \A n \in 0..k : n # 0 => n - 1 \in 0..k - 1
      BY <2>2
    <3>9. \A n \in 0..k : h[n] = IF n = 0 THEN <<>> ELSE Step(h[n - 1], n)
      BY <3>4, <3>7, <3>8
    <3>10. h = Unfold(h, k)
      BY <3>5, <3>9
    <3>11. QED
      BY <2>2, <3>10
  <2>5. QED
    BY <2>3, <2>4
<1>2. N \in Nat /\ \E g : g = Unfold(g, N)
  BY <1>1
<1> DEFINE f == CHOOSE g : g = Unfold(g, N)
<1>3. f = Unfold(f, N)
  BY <1>2
<1>4. Fold(events) = f[N]
  BY DEF Fold, Step
<1> HIDE DEF f
<1>5. f[0] = <<>> /\ \A n \in 1..N : f[n] = Step(f[n - 1], n)
  <2>1. \A n \in 0..N : f[n] = IF n = 0 THEN <<>> ELSE Step(f[n - 1], n)
    BY <1>3
  <2>2. 0 \in 0..N /\ \A n \in 1..N : n \in 0..N /\ n # 0
    BY <1>2
  <2>3. QED
    BY <2>1, <2>2
<1>6. QED
  BY <1>4, <1>5 DEF Step

\* What was issued via a certificate of S.
Children(events, S) == {e.cert : e \in {x \in Issues(events) : x.via \in S}}

\* The rounds of the search: each takes in the children of the last.
Rounds(f, events, seeds) ==
    /\ Reachable(events, seeds) = f[Cardinality(Issues(events))]
    /\ f[0] = seeds
    /\ \A n \in 1..Cardinality(Issues(events)) :
         f[n] = f[n - 1] \cup Children(events, f[n - 1])

\* Reachable makes as many rounds as there are issuances.
LEMMA ReachableUnfolds ==
    ASSUME NEW events, NEW seeds, Cardinality(Issues(events)) \in Nat
    PROVE  \E f : Rounds(f, events, seeds)
<1> DEFINE N == Cardinality(Issues(events))
           Step(x, n) == x \cup Children(events, x)
           Unfold(g, k) == [n \in 0..k |-> IF n = 0 THEN seeds ELSE Step(g[n - 1], n)]
<1> HIDE DEF Step
<1>1. \A k \in Nat : \E g : g = Unfold(g, k)
  <2> DEFINE Fails == {k \in Nat : ~\E g : g = Unfold(g, k)}
  <2> SUFFICES ASSUME Fails # {} PROVE FALSE
    OBVIOUS
  <2>1. Min(Fails) \in Fails /\ \A y \in Fails : Min(Fails) <= y
    BY MinNat
  <2> DEFINE k == Min(Fails)
  <2> HIDE DEF k
  <2>2. k \in Nat /\ ~\E g : g = Unfold(g, k)
    BY <2>1 DEF k
  <2>3. CASE k = 0
    <3> DEFINE g == [n \in 0..0 |-> seeds]
    <3>1. \A n \in 0..0 : g[n] = IF n = 0 THEN seeds ELSE Step(g[n - 1], n)
      OBVIOUS
    <3>2. g = Unfold(g, 0)
      BY <3>1, Zenon
    <3>3. QED
      BY <2>2, <2>3, <3>2
  <2>4. CASE k # 0
    <3>1. k - 1 \in Nat /\ ~(k <= k - 1)
      BY <2>2, <2>4
    <3>2. k - 1 \notin Fails
      BY <2>1, <3>1 DEF k
    <3>3. PICK g : g = Unfold(g, k - 1)
      BY <3>1, <3>2
    <3> DEFINE h == Unfold(g, k)
    <3>4. \A n \in 0..k : h[n] = IF n = 0 THEN seeds ELSE Step(g[n - 1], n)
      OBVIOUS
    <3>5. h = [n \in 0..k |-> h[n]]
      OBVIOUS
    <3> HIDE DEF h
    <3>6. \A n \in 0..k - 1 : g[n] = IF n = 0 THEN seeds ELSE Step(g[n - 1], n)
      BY <3>3
    <3>7. \A n \in 0..k - 1 : n \in 0..k /\ h[n] = g[n]
      BY <2>2, <3>4, <3>6
    <3>8. \A n \in 0..k : n # 0 => n - 1 \in 0..k - 1
      BY <2>2
    <3>9. \A n \in 0..k : h[n] = IF n = 0 THEN seeds ELSE Step(h[n - 1], n)
      BY <3>4, <3>7, <3>8
    <3>10. h = Unfold(h, k)
      BY <3>5, <3>9
    <3>11. QED
      BY <2>2, <3>10
  <2>5. QED
    BY <2>3, <2>4
<1>2. N \in Nat /\ \E g : g = Unfold(g, N)
  BY <1>1
<1> DEFINE f == CHOOSE g : g = Unfold(g, N)
<1>3. f = Unfold(f, N)
  BY <1>2
<1>4. Reachable(events, seeds) = f[N]
  BY DEF Reachable, Step, Children
<1> HIDE DEF f
<1>5. f[0] = seeds /\ \A n \in 1..N : f[n] = Step(f[n - 1], n)
  <2>1. \A n \in 0..N : f[n] = IF n = 0 THEN seeds ELSE Step(f[n - 1], n)
    BY <1>3
  <2>2. 0 \in 0..N /\ \A n \in 1..N : n \in 0..N /\ n # 0
    BY <1>2
  <2>3. QED
    BY <2>1, <2>2
<1>6. Rounds(f, events, seeds)
  BY <1>4, <1>5 DEF Step, Rounds
<1>7. QED
  BY <1>6
-----------------------------------------------------------------------------
(* Appending.                                                              *)

IsTimeline(t) ==
    t \in [events : {t.events}, key : {t.key}, pub : {t.pub}, start : {t.start},
           council : {t.council}, rotations : {t.rotations}, algo : {t.algo}]

\* Event e is body b, chained to something and signed with key k.
Signed(e, b, k) == \E p : e = [b EXCEPT !.parent = p, !.sig = k]

\* Timeline u is t with n events appended, made of the first n bodies.
Appended(u, t, bodies, n) ==
    /\ IsTimeline(u) /\ u.key = t.key /\ Retained(u, t)
    /\ IsSeq(u.events)
    /\ Len(u.events) = Len(t.events) + n
    /\ \A i \in 1..Len(t.events) : u.events[i] = t.events[i]
    /\ \A j \in 1..n : Signed(u.events[Len(t.events) + j], bodies[j], t.key)

\* Timeline u is t with one event appended, which chains to the head of t.
ExtendedBy(u, t, b) ==
    /\ IsTimeline(u) /\ u.key = t.key /\ Retained(u, t)
    /\ IsSeq(u.events)
    /\ Len(u.events) = Len(t.events) + 1
    /\ \A i \in 1..Len(t.events) : u.events[i] = t.events[i]
    /\ u.events[Len(t.events) + 1] = [b EXCEPT !.parent = HeadOf(t), !.sig = t.key]

\* That is what append() makes.
LEMMA AppendOne ==
    ASSUME NEW t, IsTimeline(t), IsSeq(t.events), NEW b
    PROVE  ExtendedBy(AppendEv(t, b), t, b)
<1> DEFINE e == [b EXCEPT !.parent = HeadOf(t), !.sig = t.key]
           s == Append(t.events, e)
           u == [t EXCEPT !.events = s]
<1>1. AppendEv(t, b) = u
  BY DEF AppendEv
<1> HIDE DEF e
<1>2. /\ IsSeq(s) /\ Len(s) = Len(t.events) + 1
      /\ \A i \in 1..Len(t.events) : s[i] = t.events[i]
      /\ s[Len(t.events) + 1] = e
  BY AppendSeq
<1> HIDE DEF s
<1>3. IsTimeline(u) /\ u.key = t.key /\ Retained(u, t) /\ u.events = s
  BY DEF IsTimeline, Retained
<1> HIDE DEF u
<1>4. QED
  BY <1>1, <1>2, <1>3 DEF e, ExtendedBy

LEMMA AppendAllIs ==
    ASSUME NEW t, IsTimeline(t), IsSeq(t.events), NEW bodies, IsSeq(bodies)
    PROVE  Appended(AppendAll(t, bodies), t, bodies, Len(bodies))
<1> DEFINE N == Len(bodies)
<1>0. N \in Nat /\ Len(t.events) \in Nat
  BY SeqShape
<1>1. PICK f : /\ AppendAll(t, bodies) = f[N]
               /\ f[0] = t
               /\ \A n \in 1..N : f[n] = AppendEv(f[n - 1], bodies[n])
  BY <1>0, AppendAllUnfolds
<1> DEFINE Fails == {n \in Nat : n <= N /\ ~Appended(f[n], t, bodies, n)}
<1>2. Fails = {}
  <2> SUFFICES ASSUME Fails # {} PROVE FALSE
    OBVIOUS
  <2>1. Min(Fails) \in Fails /\ \A y \in Fails : Min(Fails) <= y
    BY MinNat
  <2> DEFINE n == Min(Fails)
  <2> HIDE DEF n
  <2>2. n \in Nat /\ n <= N /\ ~Appended(f[n], t, bodies, n)
    BY <2>1 DEF n
  <2>3. n # 0
    <3>1. Appended(t, t, bodies, 0)
      BY <1>0 DEF Appended, Retained
    <3>2. QED
      BY <1>1, <2>2, <3>1
  <2>4. n - 1 \in Nat /\ n - 1 <= N /\ ~(n <= n - 1) /\ n \in 1..N /\ n - 1 + 1 = n
    BY <1>0, <2>2, <2>3
  <2>5. n - 1 \notin Fails
    BY <2>1, <2>4 DEF n
  <2>6. Appended(f[n - 1], t, bodies, n - 1)
    BY <2>4, <2>5
  <2> DEFINE u == f[n - 1]
             w == f[n]
             L == Len(t.events)
  <2>7. w = AppendEv(u, bodies[n])
    BY <1>1, <2>4
  <2> HIDE DEF u, w
  <2>8. /\ IsTimeline(u) /\ u.key = t.key /\ Retained(u, t)
        /\ IsSeq(u.events) /\ Len(u.events) = L + (n - 1)
        /\ \A i \in 1..L : u.events[i] = t.events[i]
        /\ \A j \in 1..n - 1 : Signed(u.events[L + j], bodies[j], t.key)
    BY <2>6 DEF Appended, u
  <2>9. /\ IsTimeline(w) /\ w.key = u.key /\ Retained(w, u)
        /\ IsSeq(w.events) /\ Len(w.events) = Len(u.events) + 1
        /\ \A i \in 1..Len(u.events) : w.events[i] = u.events[i]
        /\ w.events[Len(u.events) + 1]
             = [bodies[n] EXCEPT !.parent = HeadOf(u), !.sig = u.key]
    <3>1. ExtendedBy(w, u, bodies[n])
      BY <2>7, <2>8, AppendOne
    <3>2. QED
      BY <3>1 DEF ExtendedBy
  <2>10. Len(w.events) = L + n
    BY <1>0, <2>4, <2>8, <2>9
  <2>11. \A i \in 1..L : w.events[i] = t.events[i]
    <3> TAKE i \in 1..L
    <3>1. i \in 1..Len(u.events)
      BY <1>0, <2>4, <2>8
    <3>2. QED
      BY <2>8, <2>9, <3>1
  <2>12. ASSUME NEW j \in 1..n PROVE Signed(w.events[L + j], bodies[j], t.key)
    <3>1. CASE j = n
      <4>1. L + j = Len(u.events) + 1
        BY <1>0, <2>4, <2>8, <3>1
      <4>2. w.events[L + j] = [bodies[j] EXCEPT !.parent = HeadOf(u), !.sig = t.key]
        BY <2>8, <2>9, <3>1, <4>1
      <4>3. QED
        BY <4>2 DEF Signed
    <3>2. CASE j # n
      <4>1. j \in 1..n - 1 /\ L + j \in 1..Len(u.events)
        BY <1>0, <2>4, <2>8, <3>2
      <4>2. QED
        BY <2>8, <2>9, <4>1
    <3>3. QED
      BY <3>1, <3>2
  <2>13. Appended(w, t, bodies, n)
    BY <2>8, <2>9, <2>10, <2>11, <2>12 DEF Appended, Retained
  <2>14. QED
    BY <2>2, <2>13 DEF w
<1>3. Appended(f[N], t, bodies, N)
  BY <1>0, <1>2
<1>4. QED
  BY <1>1, <1>3

\* Events that switch no key leave the current key alone.
LEMMA PubKept ==
    ASSUME NEW t, NEW u, NEW n \in Nat, NEW m \in Nat, n <= m, Agree(u, t, n),
           \A i \in n + 1..m : u.events[i].type \notin Switches
    PROVE  PubForPrefix(u, m - 1) = PubForPrefix(t, n - 1)
<1> DEFINE S(k) == {j \in 0..k : u.events[j + 1].type \in Switches}
<1>1. S(m - 1) = S(n - 1)
  <2>1. \A j \in 0..m - 1 : j \in 0..n - 1 \/ j + 1 \in n + 1..m
    OBVIOUS
  <2>2. \A j \in 0..m - 1 : u.events[j + 1].type \in Switches => j \in 0..n - 1
    BY <2>1
  <2>3. \A j \in 0..n - 1 : j \in 0..m - 1
    OBVIOUS
  <2>4. QED
    BY <2>2, <2>3
<1>2. PubForPrefix(u, m - 1) = PubForPrefix(u, n - 1)
  BY <1>1 DEF PubForPrefix
<1>3. n - 1 \in -1..n - 1
  OBVIOUS
<1>4. PubForPrefix(u, n - 1) = PubForPrefix(t, n - 1)
  BY <1>3, SamePrefix
<1>5. QED
  BY <1>2, <1>4

\* The sequence of a finite set lists its elements.
LEMMA ListsAll ==
    ASSUME NEW S, IsFiniteSet(S)
    PROVE  /\ IsSeq(SetToSeq(S))
           /\ \A j \in 1..Len(SetToSeq(S)) : SetToSeq(S)[j] \in S
           /\ \A x \in S : \E j \in 1..Len(SetToSeq(S)) : SetToSeq(S)[j] = x
<1> DEFINE N == Cardinality(S)
           f == SetToSeq(S)
<1>1. N \in Nat /\ ExistsBijection(1..N, S)
  BY FS_CardinalityType
<1>2. \E g \in [1..N -> S] : IsInjective(g)
  BY <1>1 DEF ExistsBijection, Bijection, Injection, IsInjective
<1>3. f \in [1..N -> S] /\ IsInjective(f)
  BY <1>2 DEF SetToSeq
<1>4. f \in Injection(1..N, S)
  BY <1>3 DEF Injection
<1> HIDE DEF f
<1>5. Cardinality(1..N) = N
  BY <1>1, FS_Interval
<1>6. f \in Surjection(1..N, S)
  BY <1>4, <1>5, FS_Injection
<1>7. f \in Seq(S)
  BY <1>1, <1>3, SeqDef
<1>8. Len(f) = N
  BY <1>1, <1>3, <1>7, LenProperties
<1>9. QED
  BY <1>3, <1>6, <1>7, <1>8, SeqIsSeq DEF f, Surjection
-----------------------------------------------------------------------------
(* Finite sets.                                                            *)

\* The image of a finite set under a function.
LEMMA ImageFinite ==
    ASSUME NEW S, IsFiniteSet(S), NEW f, DOMAIN f = S
    PROVE  IsFiniteSet({f[x] : x \in S})
<1> DEFINE T == {f[x] : x \in S}
           g == [x \in S |-> f[x]]
<1>1. g \in Surjection(S, T)
  BY DEF Surjection
<1> HIDE DEF g, T
<1>2. IsFiniteSet(T)
  BY <1>1, FS_Surjection
<1>3. QED
  BY <1>2 DEF T

LEMMA EventsFinite ==
    ASSUME NEW s, IsSeq(s)
    PROVE  IsFiniteSet(ToSet(s)) /\ IsFiniteSet(Issues(s))
<1>1. DOMAIN s = 1..Len(s) /\ Len(s) \in Nat
  BY SeqShape
<1>2. IsFiniteSet(1..Len(s))
  BY <1>1, FS_Interval
<1>3. IsFiniteSet({s[x] : x \in 1..Len(s)})
  BY <1>1, <1>2, ImageFinite
<1>4. IsFiniteSet(ToSet(s))
  BY <1>1, <1>3 DEF ToSet
<1>5. Issues(s) \in SUBSET ToSet(s)
  BY DEF Issues
<1>6. QED
  BY <1>4, <1>5, FS_Subset

\* The certificates, or the identities, that finitely many events name.
LEMMA NamedFinite ==
    ASSUME NEW S, IsFiniteSet(S)
    PROVE  IsFiniteSet({e.cert : e \in S}) /\ IsFiniteSet({e.id : e \in S})
<1> DEFINE f == [e \in S |-> e.cert]
           g == [e \in S |-> e.id]
<1>1. DOMAIN f = S /\ {f[x] : x \in S} = {e.cert : e \in S}
  OBVIOUS
<1>2. DOMAIN g = S /\ {g[x] : x \in S} = {e.id : e \in S}
  OBVIOUS
<1> HIDE DEF f, g
<1>3. IsFiniteSet({f[x] : x \in S}) /\ IsFiniteSet({g[x] : x \in S})
  BY <1>1, <1>2, ImageFinite
<1>4. QED
  BY <1>1, <1>2, <1>3

\* The bad window holds the events from the bad index on.
LEMMA WindowIs ==
    ASSUME NEW s, IsSeq(s), NEW bad \in 0..Len(s)
    PROVE  /\ IsSeq(BadWindow(s, bad))
           /\ ToSet(BadWindow(s, bad)) = {s[i] : i \in bad + 1..Len(s)}
<1> DEFINE w == SubSeq(s, bad + 1, Len(s))
           R == Range(s)
<1>0. Len(s) \in Nat /\ \A i \in 1..Len(s) : s[i] \in R
  BY SeqShape DEF Range
<1>1. /\ w \in Seq(R) /\ Len(w) = IF bad + 1 <= Len(s) THEN Len(s) - (bad + 1) + 1 ELSE 0
      /\ \A i \in 1..Len(s) - (bad + 1) + 1 : w[i] = s[bad + 1 + i - 1]
  BY <1>0, SubSeqProperties
<1>2. Len(w) = Len(s) - bad /\ \A i \in 1..Len(s) - bad : w[i] = s[bad + i]
  BY <1>0, <1>1
<1> HIDE DEF w, R
<1>3. IsSeq(w) /\ DOMAIN w = 1..Len(s) - bad
  BY <1>1, <1>2, SeqIsSeq
<1>4. ToSet(w) = {s[i] : i \in bad + 1..Len(s)}
  <2>1. ASSUME NEW i \in 1..Len(s) - bad PROVE w[i] \in {s[k] : k \in bad + 1..Len(s)}
    <3>1. bad + i \in bad + 1..Len(s)
      BY <1>0
    <3>2. QED
      BY <1>2, <3>1
  <2>2. ASSUME NEW k \in bad + 1..Len(s) PROVE \E i \in 1..Len(s) - bad : w[i] = s[k]
    <3>1. k - bad \in 1..Len(s) - bad /\ bad + (k - bad) = k
      BY <1>0
    <3>2. QED
      BY <1>2, <3>1
  <2>3. QED
    BY <1>3, <2>1, <2>2 DEF ToSet
<1>5. QED
  BY <1>3, <1>4 DEF w, BadWindow

\* The search stays among the seeds and the certificates that were issued.
LEMMA ReachableBounds ==
    ASSUME NEW events, IsFiniteSet(Issues(events)), NEW seeds
    PROVE  /\ seeds \subseteq Reachable(events, seeds)
           /\ Reachable(events, seeds) \subseteq seeds \cup {e.cert : e \in Issues(events)}
<1> DEFINE N == Cardinality(Issues(events))
           all == seeds \cup {e.cert : e \in Issues(events)}
<1>0. N \in Nat
  BY FS_CardinalityType
<1>0a. PICK f : Rounds(f, events, seeds)
  BY <1>0, ReachableUnfolds
<1>1. /\ Reachable(events, seeds) = f[N]
      /\ f[0] = seeds
      /\ \A n \in 1..N : f[n] = f[n - 1] \cup Children(events, f[n - 1])
  BY <1>0a DEF Rounds
<1> DEFINE Fails == {n \in Nat : n <= N /\ ~(seeds \subseteq f[n] /\ f[n] \subseteq all)}
<1>2. Fails = {}
  <2> SUFFICES ASSUME Fails # {} PROVE FALSE
    OBVIOUS
  <2>1. Min(Fails) \in Fails /\ \A y \in Fails : Min(Fails) <= y
    BY MinNat
  <2> DEFINE n == Min(Fails)
  <2> HIDE DEF n
  <2>2. n \in Nat /\ n <= N /\ ~(seeds \subseteq f[n] /\ f[n] \subseteq all)
    BY <2>1 DEF n
  <2>3. n # 0
    BY <1>1, <2>2
  <2>4. n - 1 \in Nat /\ n - 1 <= N /\ ~(n <= n - 1) /\ n \in 1..N
    BY <1>0, <2>2, <2>3
  <2>5. n - 1 \notin Fails
    BY <2>1, <2>4 DEF n
  <2>6. seeds \subseteq f[n - 1] /\ f[n - 1] \subseteq all
    BY <2>4, <2>5
  <2>7. f[n] = f[n - 1] \cup Children(events, f[n - 1])
    BY <1>1, <2>4
  <2>8. Children(events, f[n - 1]) \subseteq all
    BY DEF Children
  <2>9. QED
    BY <2>2, <2>6, <2>7, <2>8
<1>3. QED
  BY <1>0, <1>1, <1>2

\* A recovery concerns finitely many certificates and identities.
LEMMA AffectedFinite ==
    ASSUME NEW s, IsSeq(s), NEW bad \in 0..Len(s)
    PROVE  IsFiniteSet(AffectedCerts(s, bad)) /\ IsFiniteSet(AffectedIds(s, bad))
<1> DEFINE w == BadWindow(s, bad)
           hit == {x \in ToSet(w) : x.type \in {"ISSUE", "REVOKE"}}
           seeds == {e.cert : e \in hit}
           issued == {e.cert : e \in Issues(s)}
<1>1. IsSeq(w)
  BY WindowIs
<1>2. IsFiniteSet(ToSet(w)) /\ IsFiniteSet(Issues(w)) /\ IsFiniteSet(Issues(s))
  BY <1>1, EventsFinite
<1>3. hit \in SUBSET ToSet(w)
  OBVIOUS
<1>4. AffectedCerts(s, bad) = Reachable(s, seeds) /\ AffectedIds(s, bad) = {e.id : e \in Issues(w)}
  BY DEF AffectedCerts, AffectedIds
<1> HIDE DEF hit, w
<1>5. IsFiniteSet(hit)
  BY <1>2, <1>3, FS_Subset
<1>6. IsFiniteSet(seeds) /\ IsFiniteSet(issued)
  BY <1>2, <1>5, NamedFinite
<1> HIDE DEF seeds, issued
<1>7. IsFiniteSet(seeds \cup issued)
  BY <1>6, FS_Union
<1>8. Reachable(s, seeds) \in SUBSET (seeds \cup issued)
  BY <1>2, ReachableBounds DEF issued
<1>9. IsFiniteSet(Reachable(s, seeds))
  BY <1>7, <1>8, FS_Subset
<1>10. QED
  BY <1>2, <1>4, <1>9, NamedFinite
-----------------------------------------------------------------------------
(* Rolling back.                                                           *)

\* In a chain that verifies every event names the one in front of it.
LEMMA VerifiedIsLinked ==
    ASSUME NEW t, IsSeq(t.events), Verify(t)
    PROVE  Linked(t.events, t.algo)
<1>1. ASSUME NEW i \in 1..Len(t.events)
      PROVE  t.events[i].parent = IF i = 1 THEN None ELSE Digest(t.algo, t.events[i - 1])
  <2>1. i - 1 \in 0..Len(t.events) - 1 /\ i - 1 + 1 = i
    BY SeqShape
  <2>2. ~BadEvent(t, i - 1)
    BY <2>1, VerifiedIsGood
  <2>3. t.events[i].parent = Expected(t, i - 1)
    BY <2>1, <2>2 DEF BadEvent
  <2>4. QED
    BY <2>1, <2>3 DEF Expected
<1>2. QED
  BY <1>1 DEF Linked

\* So no event is in it twice.
LEMMA UniqueEvents ==
    ASSUME NilIsNoDigest, NEW t, IsSeq(t.events), Verify(t),
           NEW i \in 1..Len(t.events), NEW j \in 1..Len(t.events),
           t.events[i] = t.events[j]
    PROVE  i = j
<1> DEFINE a == SubSeq(t.events, 1, i)
           b == SubSeq(t.events, 1, j)
<1>0. Len(t.events) \in Nat /\ i \in 0..Len(t.events) /\ j \in 0..Len(t.events)
  BY SeqShape
<1>1. Linked(t.events, t.algo)
  BY VerifiedIsLinked
<1>2. IsSeq(a) /\ Len(a) = i /\ \A k \in 1..i : a[k] = t.events[k]
  BY <1>0, CutSeq
<1>3. IsSeq(b) /\ Len(b) = j /\ \A k \in 1..j : b[k] = t.events[k]
  BY <1>0, CutSeq
<1> HIDE DEF a, b
<1>4. Linked(a, t.algo)
  <2>1. ASSUME NEW k \in 1..i
        PROVE  a[k].parent = IF k = 1 THEN None ELSE Digest(t.algo, a[k - 1])
    <3>1. k \in 1..Len(t.events) /\ (k # 1 => k - 1 \in 1..i)
      BY <1>0
    <3>2. QED
      BY <1>1, <1>2, <3>1 DEF Linked
  <2>2. QED
    BY <1>2, <2>1 DEF Linked
<1>5. Linked(b, t.algo)
  <2>1. ASSUME NEW k \in 1..j
        PROVE  b[k].parent = IF k = 1 THEN None ELSE Digest(t.algo, b[k - 1])
    <3>1. k \in 1..Len(t.events) /\ (k # 1 => k - 1 \in 1..j)
      BY <1>0
    <3>2. QED
      BY <1>1, <1>3, <3>1 DEF Linked
  <2>2. QED
    BY <1>3, <2>1 DEF Linked
<1>6. Len(a) # 0 /\ Len(b) # 0 /\ a[Len(a)] = b[Len(b)]
  BY <1>0, <1>2, <1>3
<1>7. a = b
  BY <1>2, <1>3, <1>4, <1>5, <1>6, SameHeadSameChain
<1>8. QED
  BY <1>2, <1>3, <1>7

\* Timeline u has the first n events of t.
Kept(u, t, n) ==
    /\ IsTimeline(u) /\ IsSeq(u.events)
    /\ Len(u.events) = n
    /\ \A i \in 1..n : u.events[i] = t.events[i]

\* Fork looks the checkpoint up by its hash, and finds the right event.
LEMMA RollbackIs ==
    ASSUME NilIsNoDigest, NEW t, IsSeq(t.events), Verify(t),
           NEW bad \in 0..Len(t.events)
    PROVE  Kept(Rollback(t, bad), t, bad)
<1>0. Len(t.events) \in Nat
  BY SeqShape
<1>1. CASE bad = 0
  <2>1. Rollback(t, bad) = NewTimeline(t.key, "sha256")
    BY <1>1 DEF Rollback
  <2>2. IsSeq(<<>>) /\ Len(<<>>) = 0
    BY SeqIsSeq, EmptySeq
  <2>3. QED
    BY <1>1, <2>1, <2>2 DEF NewTimeline, Kept, IsTimeline
<1>2. CASE bad # 0
  <2> DEFINE h == Hash(t.events[bad])
             at == {i \in 0..Len(t.events) - 1 : Hash(t.events[i + 1]) = h}
             idx == Max(at)
             start == PubForPrefix(t, idx)
             u == [events |-> SubSeq(t.events, 1, idx + 1), key |-> KeyAt(t, idx),
                   pub |-> start, start |-> start, council |-> t.council,
                   rotations |-> <<>>, algo |-> t.algo]
  <2>1. bad - 1 \in 0..Len(t.events) - 1 /\ bad - 1 + 1 = bad /\ ~(bad <= 0)
    BY <1>0, <1>2
  <2>2. Rollback(t, bad) = Fork(t, h)
    BY <2>1 DEF Rollback, RollbackCheckpoint
  <2>3. \A i \in 0..Len(t.events) - 1 : Hash(t.events[i + 1]) = h => i = bad - 1
    <3> TAKE i \in 0..Len(t.events) - 1
    <3> HAVE Hash(t.events[i + 1]) = h
    <3>1. t.events[i + 1] = t.events[bad] /\ i + 1 \in 1..Len(t.events) /\ bad \in 1..Len(t.events)
      BY <1>0, <2>1, DigestInjective DEF Hash
    <3>2. i + 1 = bad
      BY <3>1, UniqueEvents
    <3>3. QED
      BY <3>2
  <2>4. at = {bad - 1}
    BY <2>1, <2>3
  <2>5. idx = bad - 1
    <3> HIDE DEF at
    <3>1. at \in SUBSET Int /\ bad - 1 \in at /\ \A y \in at : y <= bad - 1
      BY <2>1, <2>4
    <3>2. QED
      BY <3>1, MaxIs
  <2>6. Rollback(t, bad) = u
    BY <2>2, <2>4 DEF Fork
  <2>7. u.events = SubSeq(t.events, 1, bad)
    BY <2>1, <2>5
  <2>8. IsTimeline(u)
    BY DEF IsTimeline
  <2> HIDE DEF u
  <2>9. QED
    BY <2>6, <2>7, <2>8, CutSeq DEF Kept
<1>3. QED
  BY <1>1, <1>2
-----------------------------------------------------------------------------
(* Recovering.                                                             *)

\* Signing leaves what an event says alone.
LEMMA IssueSays ==
    ASSUME NEW e, NEW k, NEW c, NEW i, NEW v, Signed(e, IssueEv(c, i, v), k)
    PROVE  e.type = "ISSUE" /\ e.cert = c /\ e.id = i /\ e.via = v
BY DEF Signed, IssueEv, Blank

LEMMA RevokeSays ==
    ASSUME NEW e, NEW k, NEW c, Signed(e, RevokeEv(c), k)
    PROVE  e.type = "REVOKE" /\ e.cert = c
BY DEF Signed, RevokeEv, Blank

LEMMA DetectedSays ==
    ASSUME NEW e, NEW k, NEW n, Signed(e, DetectedEv(n), k)
    PROVE  e.type = "DETECTED" /\ e.num = n
BY DEF Signed, DetectedEv, Blank

LEMMA CommitSays ==
    ASSUME NEW e, NEW k, NEW n, Signed(e, CommitEv(n), k)
    PROVE  e.type = "COMMIT" /\ e.num = n
BY DEF Signed, CommitEv, Blank

LEMMA RecoverySays ==
    ASSUME NEW e, NEW k, NEW n, NEW h, NEW p, NEW g, Signed(e, RecoveryEv(n, h, p, g), k)
    PROVE  e.type = "RECOVERY" /\ e.pub = p
BY DEF Signed, RecoveryEv, Blank

\* The parts of a recovery fork u of t: the kept events, the handoff, the
\* re-issued certificates up to position m, the revocations, the commit.
Parts(u, t, bad, root, epoch, m) ==
    /\ \A i \in 1..bad : u.events[i] = t.events[i]
    /\ u.events[bad + 1].type = "RECOVERY" /\ u.events[bad + 1].pub = root
    /\ \A j \in bad + 2..m :
         /\ u.events[j].type = "ISSUE"
         /\ u.events[j].id \in AffectedIds(t.events, bad)
         /\ u.events[j].cert = ReissuedName(u.events[j].id, epoch)
    /\ \A j \in m + 1..Len(u.events) - 1 :
         u.events[j].type = "REVOKE" /\ u.events[j].cert \in AffectedCerts(t.events, bad)
    /\ \A c \in AffectedCerts(t.events, bad) :
         \E j \in m + 1..Len(u.events) - 1 : u.events[j].type = "REVOKE" /\ u.events[j].cert = c
    /\ u.events[Len(u.events)].type = "COMMIT" /\ u.events[Len(u.events)].num = epoch + 1

Recovered(u, t, bad, root, epoch) ==
    /\ IsTimeline(u) /\ IsSeq(u.events) /\ u.key = root
    /\ \E m \in bad + 1..Len(u.events) - 1 : Parts(u, t, bad, root, epoch, m)

\* What reissueOnFork makes of t, re-issuances up to position m and revocations
\* from there on.
Halves(u, t, certs, ids, epoch, m) ==
    /\ \A j \in Len(t.events) + 1..m :
         /\ u.events[j].type = "ISSUE" /\ u.events[j].id \in ids
         /\ u.events[j].cert = ReissuedName(u.events[j].id, epoch)
    /\ \A j \in m + 1..Len(u.events) :
         u.events[j].type = "REVOKE" /\ u.events[j].cert \in certs
    /\ \A c \in certs : \E j \in m + 1..Len(u.events) :
         u.events[j].type = "REVOKE" /\ u.events[j].cert = c

Reissued(u, t, certs, ids, epoch) ==
    /\ IsTimeline(u) /\ IsSeq(u.events) /\ u.key = t.key
    /\ \A i \in 1..Len(t.events) : u.events[i] = t.events[i]
    /\ \E m \in Len(t.events)..Len(u.events) : Halves(u, t, certs, ids, epoch, m)

LEMMA ReissuesIs ==
    ASSUME NEW certs, IsFiniteSet(certs), NEW ids, IsFiniteSet(ids), NEW epoch,
           NEW t, IsTimeline(t), IsSeq(t.events)
    PROVE  Reissued(ReissueOnFork(t, certs, ids, epoch), t, certs, ids, epoch)
<1> DEFINE issue(i) == IssueEv(ReissuedName(i, epoch), i, None)
           A == {issue(i) : i \in ids}
           B == {RevokeEv(c) : c \in certs}
           a == SetToSeq(A)
           b == SetToSeq(B)
           u == ReissueOnFork(t, certs, ids, epoch)
           L == Len(t.events)
           n == Len(a)
           k == Len(b)
<1>0. L \in Nat
  BY SeqShape
<1>1. IsFiniteSet(A) /\ IsFiniteSet(B)
  <2> DEFINE f == [i \in ids |-> issue(i)]
             g == [c \in certs |-> RevokeEv(c)]
  <2>1. DOMAIN f = ids /\ {f[x] : x \in ids} = A
    OBVIOUS
  <2>2. DOMAIN g = certs /\ {g[x] : x \in certs} = B
    OBVIOUS
  <2> HIDE DEF f, g, A, B
  <2>3. IsFiniteSet({f[x] : x \in ids}) /\ IsFiniteSet({g[x] : x \in certs})
    BY <2>1, <2>2, ImageFinite
  <2>4. QED
    BY <2>1, <2>2, <2>3
<1>2. u = AppendAll(t, a \o b)
  BY DEF ReissueOnFork
<1>3. /\ \A x \in A : \E i \in ids : x = issue(i)
      /\ \A x \in B : \E c \in certs : x = RevokeEv(c)
      /\ \A c \in certs : RevokeEv(c) \in B
  OBVIOUS
<1> HIDE DEF A, B, u
<1>4. IsSeq(a) /\ \A j \in 1..n : a[j] \in A
  BY <1>1, ListsAll
<1>5. /\ IsSeq(b) /\ \A j \in 1..k : b[j] \in B
      /\ \A x \in B : \E j \in 1..k : b[j] = x
  BY <1>1, ListsAll
<1> HIDE DEF a, b
<1>6. /\ n \in Nat /\ k \in Nat
      /\ IsSeq(a \o b) /\ Len(a \o b) = n + k
      /\ \A j \in 1..n : (a \o b)[j] = a[j]
      /\ \A j \in 1..k : (a \o b)[n + j] = b[j]
  <2> DEFINE S == Range(a) \cup Range(b)
  <2>1. a \in Seq(S) /\ b \in Seq(S)
    BY <1>4, <1>5, SeqMonotonic DEF IsSeq
  <2> HIDE DEF S
  <2>2. n \in Nat /\ k \in Nat
    BY <1>4, <1>5, SeqShape
  <2>3. /\ a \o b \in Seq(S) /\ Len(a \o b) = n + k
        /\ \A j \in 1..n + k : (a \o b)[j] = IF j <= n THEN a[j] ELSE b[j - n]
    BY <2>1, ConcatProperties
  <2>4. IsSeq(a \o b)
    BY <2>3, SeqIsSeq
  <2>5. \A j \in 1..k : n + j \in 1..n + k /\ ~(n + j <= n) /\ n + j - n = j
    BY <2>2
  <2>6. QED
    BY <2>2, <2>3, <2>4, <2>5
<1> DEFINE ab == a \o b
<1> HIDE DEF ab, n, k, L
<1>6a. L \in Nat /\ n \in Nat /\ k \in Nat
  BY <1>0, <1>6
<1>7. Appended(u, t, ab, n + k)
  <2>1. Appended(AppendAll(t, ab), t, ab, Len(ab))
    BY <1>6, AppendAllIs DEF ab
  <2>2. QED
    BY <1>2, <1>6, <2>1 DEF ab
<1>8. /\ IsTimeline(u) /\ u.key = t.key /\ IsSeq(u.events) /\ Len(u.events) = L + (n + k)
      /\ \A i \in 1..L : u.events[i] = t.events[i]
      /\ \A j \in 1..n + k : Signed(u.events[L + j], ab[j], t.key)
  BY <1>7 DEF Appended, L
<1>8a. Len(u.events) = L + (n + k)
  BY <1>8
<1>9. ASSUME NEW j \in L + 1..L + n
      PROVE  /\ u.events[j].type = "ISSUE" /\ u.events[j].id \in ids
             /\ u.events[j].cert = ReissuedName(u.events[j].id, epoch)
  <2>1. j - L \in 1..n /\ j - L \in 1..n + k /\ L + (j - L) = j
    BY <1>6a
  <2>2. PICK i \in ids : a[j - L] = issue(i)
    BY <1>3, <1>4, <2>1 DEF n
  <2>3. Signed(u.events[j], issue(i), t.key)
    BY <1>6, <1>8, <2>1, <2>2 DEF ab
  <2>4. QED
    BY <2>3, IssueSays
<1>10. ASSUME NEW j \in 1..k
       PROVE  /\ L + n + j \in L + n + 1..Len(u.events)
              /\ Signed(u.events[L + n + j], b[j], t.key)
  <2>1. n + j \in 1..n + k /\ L + (n + j) = L + n + j /\ L + n + j \in L + n + 1..L + (n + k)
    BY <1>6a
  <2>2. QED
    BY <1>6, <1>8, <2>1 DEF ab
<1>11. ASSUME NEW j \in L + n + 1..Len(u.events)
       PROVE  u.events[j].type = "REVOKE" /\ u.events[j].cert \in certs
  <2>1. j - (L + n) \in 1..k /\ L + n + (j - (L + n)) = j
    BY <1>6a, <1>8a
  <2>2. PICK c \in certs : b[j - (L + n)] = RevokeEv(c)
    BY <1>3, <1>5, <2>1 DEF k
  <2>3. Signed(u.events[j], RevokeEv(c), t.key)
    BY <1>10, <2>1, <2>2
  <2>4. QED
    BY <2>3, RevokeSays
<1>12. ASSUME NEW c \in certs
       PROVE  \E j \in L + n + 1..Len(u.events) :
                u.events[j].type = "REVOKE" /\ u.events[j].cert = c
  <2>1. PICK j \in 1..k : b[j] = RevokeEv(c)
    BY <1>3, <1>5 DEF k
  <2>2. Signed(u.events[L + n + j], RevokeEv(c), t.key) /\ L + n + j \in L + n + 1..Len(u.events)
    BY <1>10, <2>1
  <2>3. u.events[L + n + j].type = "REVOKE" /\ u.events[L + n + j].cert = c
    BY <2>2, RevokeSays
  <2>4. QED
    BY <2>2, <2>3
<1>13. L + n \in L..Len(u.events)
  BY <1>6a, <1>8a
<1>14. Halves(u, t, certs, ids, epoch, L + n)
  BY <1>9, <1>11, <1>12 DEF Halves, L
<1>15. QED
  BY <1>8, <1>13, <1>14 DEF u, L, Reissued

LEMMA RecoveredIs ==
    ASSUME NilIsNoDigest, NEW t, IsSeq(t.events), Verify(t),
           NEW bad \in 0..Len(t.events), NEW root, NEW epoch
    PROVE  Recovered(RecoveryFork(t, bad, root, epoch), t, bad, root, epoch)
<1> DEFINE rb == Rollback(t, bad)
           base == [rb EXCEPT !.key = root, !.pub = root, !.council = t.council]
           handoff == AppendEv(base, SignCommit(t, bad, root, epoch))
           certs == AffectedCerts(t.events, bad)
           ids == AffectedIds(t.events, bad)
           reissued == ReissueOnFork(handoff, certs, ids, epoch)
           u == AppendEv(reissued, CommitEv(epoch + 1))
           L == bad + 1
<1>0. Len(t.events) \in Nat /\ bad \in Nat /\ L \in Nat
  BY SeqShape
<1>1. RecoveryFork(t, bad, root, epoch) = u
  BY DEF RecoveryFork
<1>2. IsFiniteSet(certs) /\ IsFiniteSet(ids)
  BY AffectedFinite
<1> HIDE DEF certs, ids
<1>3. Kept(rb, t, bad)
  BY RollbackIs
<1> HIDE DEF rb
<1>4. Kept(base, t, bad) /\ base.key = root
  BY <1>3 DEF Kept, IsTimeline
<1> HIDE DEF base
<1>5. ExtendedBy(handoff, base, SignCommit(t, bad, root, epoch))
  BY <1>4, AppendOne DEF Kept
<1> HIDE DEF handoff
<1>6. /\ IsTimeline(handoff) /\ handoff.key = root /\ IsSeq(handoff.events)
      /\ Len(handoff.events) = L
      /\ \A i \in 1..bad : handoff.events[i] = t.events[i]
  BY <1>4, <1>5 DEF Kept, ExtendedBy
<1>7. handoff.events[L].type = "RECOVERY" /\ handoff.events[L].pub = root
  <2>1. Signed(handoff.events[L], SignCommit(t, bad, root, epoch), base.key)
    BY <1>4, <1>5 DEF Kept, ExtendedBy, Signed
  <2>2. Signed(handoff.events[L], RecoveryEv(epoch + 1, RollbackCheckpoint(t, bad), root, t.council),
               base.key)
    BY <2>1 DEF SignCommit
  <2>3. QED
    BY <2>2, RecoverySays
<1> DEFINE w == reissued
<1>8. Reissued(w, handoff, certs, ids, epoch)
  BY <1>2, <1>6, ReissuesIs
<1>8a. /\ IsTimeline(w) /\ IsSeq(w.events) /\ w.key = root
       /\ \A i \in 1..L : w.events[i] = handoff.events[i]
       /\ \E m \in L..Len(w.events) : Halves(w, handoff, certs, ids, epoch, m)
  BY <1>6, <1>8 DEF Reissued
<1>9. ExtendedBy(u, w, CommitEv(epoch + 1))
  BY <1>8a, AppendOne
<1> HIDE DEF u, reissued
<1>10. PICK m \in L..Len(w.events) : Halves(w, handoff, certs, ids, epoch, m)
  BY <1>8a
<1>10a. /\ \A j \in L + 1..m :
             /\ w.events[j].type = "ISSUE" /\ w.events[j].id \in ids
             /\ w.events[j].cert = ReissuedName(w.events[j].id, epoch)
        /\ \A j \in m + 1..Len(w.events) :
             w.events[j].type = "REVOKE" /\ w.events[j].cert \in certs
        /\ \A c \in certs : \E j \in m + 1..Len(w.events) :
             w.events[j].type = "REVOKE" /\ w.events[j].cert = c
  BY <1>6, <1>10 DEF Halves
<1>11. /\ IsTimeline(u) /\ IsSeq(u.events) /\ u.key = root
       /\ Len(u.events) = Len(w.events) + 1 /\ Len(w.events) \in Nat
       /\ \A i \in 1..Len(w.events) : u.events[i] = w.events[i]
       /\ u.events[Len(u.events)].type = "COMMIT" /\ u.events[Len(u.events)].num = epoch + 1
  <2>1. Signed(u.events[Len(u.events)], CommitEv(epoch + 1), w.key)
    BY <1>9 DEF ExtendedBy, Signed
  <2>2. u.events[Len(u.events)].type = "COMMIT" /\ u.events[Len(u.events)].num = epoch + 1
    BY <2>1, CommitSays
  <2>3. Len(w.events) \in Nat
    BY <1>8a, SeqShape
  <2>4. QED
    BY <1>8a, <1>9, <2>2, <2>3 DEF ExtendedBy
<1>12. Len(u.events) - 1 = Len(w.events) /\ m \in L..Len(u.events) - 1 /\ L + 1 = bad + 2
  BY <1>0, <1>10, <1>11
<1>13. \A i \in 1..L : u.events[i] = handoff.events[i]
  <2> TAKE i \in 1..L
  <2>1. i \in 1..Len(w.events)
    BY <1>0, <1>10, <1>11
  <2>2. QED
    BY <1>8a, <1>11, <2>1
<1>14. /\ \A i \in 1..bad : u.events[i] = t.events[i]
       /\ u.events[L].type = "RECOVERY" /\ u.events[L].pub = root
  <2>1. L \in 1..L /\ \A i \in 1..bad : i \in 1..L
    BY <1>0
  <2>2. QED
    BY <1>6, <1>7, <1>13, <2>1
<1>15. \A j \in L + 1..Len(w.events) : u.events[j] = w.events[j]
  <2> TAKE j \in L + 1..Len(w.events)
  <2>1. j \in 1..Len(w.events)
    BY <1>0, <1>11
  <2>2. QED
    BY <1>11, <2>1
<1>16. ASSUME NEW j \in bad + 2..m
       PROVE  /\ u.events[j].type = "ISSUE" /\ u.events[j].id \in ids
              /\ u.events[j].cert = ReissuedName(u.events[j].id, epoch)
  <2>1. j \in L + 1..m /\ j \in L + 1..Len(w.events)
    BY <1>0, <1>10, <1>11
  <2>2. QED
    BY <1>10a, <1>15, <2>1
<1>17. \A j \in m + 1..Len(w.events) : u.events[j] = w.events[j]
  <2> TAKE j \in m + 1..Len(w.events)
  <2>1. j \in L + 1..Len(w.events)
    BY <1>0, <1>10, <1>11
  <2>2. QED
    BY <1>15, <2>1
<1>18. \A j \in m + 1..Len(w.events) :
         u.events[j].type = "REVOKE" /\ u.events[j].cert \in certs
  BY <1>10a, <1>17
<1>19. \A c \in certs : \E j \in m + 1..Len(w.events) :
         u.events[j].type = "REVOKE" /\ u.events[j].cert = c
  BY <1>10a, <1>17
<1>20. Parts(u, t, bad, root, epoch, m)
  BY <1>11, <1>12, <1>14, <1>16, <1>18, <1>19 DEF Parts, certs, ids
<1>21. QED
  BY <1>1, <1>11, <1>12, <1>20 DEF Recovered
-----------------------------------------------------------------------------
(* Epochs and prefixes.                                                    *)

\* Evidence names an index up to its own, commits carry epochs.
Sane(s) ==
    \A p \in 1..Len(s) : /\ s[p].type = "DETECTED" => s[p].num \in 0..p - 1
                         /\ s[p].type = "COMMIT" => s[p].num \in Nat

\* Finitely many numbers have a bound.
LEMMA Bounded ==
    ASSUME NEW N \in Nat, NEW f \in [1..N -> Nat]
    PROVE  \E b \in Nat : \A i \in 1..N : f[i] <= b
<1> DEFINE Fails == {k \in Nat : k <= N /\ ~\E b \in Nat : \A i \in 1..k : f[i] <= b}
<1>1. Fails = {}
  <2> SUFFICES ASSUME Fails # {} PROVE FALSE
    OBVIOUS
  <2>1. Min(Fails) \in Fails /\ \A y \in Fails : Min(Fails) <= y
    BY MinNat
  <2> DEFINE n == Min(Fails)
  <2> HIDE DEF n
  <2>2. n \in Nat /\ n <= N /\ ~\E b \in Nat : \A i \in 1..n : f[i] <= b
    BY <2>1 DEF n
  <2>3. n # 0
    BY <2>2
  <2>4. n - 1 \in Nat /\ n - 1 <= N /\ ~(n <= n - 1) /\ n \in 1..N
    BY <2>2, <2>3
  <2>5. n - 1 \notin Fails
    BY <2>1, <2>4 DEF n
  <2>6. PICK b \in Nat : \A i \in 1..n - 1 : f[i] <= b
    BY <2>4, <2>5
  <2> HIDE DEF Fails
  <2> DEFINE d == b + f[n]
  <2>7. d \in Nat /\ \A i \in 1..n : f[i] <= d
    <3>1. f[n] \in Nat /\ \A i \in 1..n : i = n \/ i \in 1..n - 1
      BY <2>4
    <3>2. \A i \in 1..n - 1 : f[i] \in Nat
      BY <2>4
    <3>3. QED
      BY <2>6, <3>1, <3>2
  <2>8. QED
    BY <2>2, <2>7
<1>2. QED
  <2>1. N \notin Fails
    BY <1>1
  <2>2. QED
    BY <2>1

\* The epoch that event e commits.
Committed(e) == IF e.type = "COMMIT" THEN e.num ELSE 0

\* lastEpoch is the highest epoch committed.
LEMMA LastEpochIs ==
    ASSUME NEW t, IsSeq(t.events), Sane(t.events)
    PROVE  /\ LastEpoch(t) \in Nat
           /\ \A i \in 1..Len(t.events) : /\ Committed(t.events[i]) \in Nat
                                          /\ Committed(t.events[i]) <= LastEpoch(t)
           /\ \/ LastEpoch(t) = 0
              \/ \E i \in 1..Len(t.events) : Committed(t.events[i]) = LastEpoch(t)
<1> DEFINE s == t.events
           N == Len(s)
           f == [i \in 1..N |-> Committed(s[i])]
           E == {0} \cup {e.num : e \in {x \in ToSet(s) : x.type = "COMMIT"}}
<1>0. N \in Nat /\ DOMAIN s = 1..N
  BY SeqShape
<1>1. \A i \in 1..N : Committed(s[i]) \in Nat
  BY DEF Sane, Committed
<1>2. f \in [1..N -> Nat] /\ \A i \in 1..N : f[i] = Committed(s[i])
  BY <1>1
<1>3. LastEpoch(t) = Max(E)
  BY DEF LastEpoch
<1>4. \A x \in E : x = 0 \/ \E i \in 1..N : Committed(s[i]) = x
  BY <1>0 DEF ToSet, Committed
<1>5. 0 \in E /\ \A i \in 1..N : Committed(s[i]) \in E
  BY <1>0 DEF ToSet, Committed
<1> HIDE DEF E, f, N, s
<1>6. PICK b \in Nat : \A i \in 1..N : f[i] <= b
  BY <1>0, <1>2, Bounded
<1>7. E \in SUBSET (0..b) /\ E # {}
  <2>1. ASSUME NEW x \in E PROVE x \in 0..b
    <3>1. CASE x = 0
      BY <3>1
    <3>2. ASSUME NEW i \in 1..N, f[i] = x PROVE x \in 0..b
      BY <1>2, <1>6, <3>2
    <3>3. QED
      BY <1>2, <1>4, <3>1, <3>2
  <2>2. QED
    BY <1>5, <2>1
<1>8. Max(E) \in E /\ \A y \in E : y <= Max(E)
  <2>1. b \in Int
    OBVIOUS
  <2>2. QED
    BY <1>7, <2>1, MaxIndex
<1> DEFINE m == Max(E)
<1> HIDE DEF m
<1>9. m \in E /\ m \in Nat /\ \A y \in E : y <= m
  <2>1. m \in E /\ \A y \in E : y <= m
    BY <1>8 DEF m
  <2>2. m \in 0..b
    BY <1>7, <2>1
  <2>3. QED
    BY <2>1, <2>2
<1>10. \A i \in 1..N : Committed(s[i]) <= m
  BY <1>5, <1>9
<1>11. m = 0 \/ \E i \in 1..N : Committed(s[i]) = m
  BY <1>4, <1>9
<1>12. QED
  BY <1>1, <1>3, <1>9, <1>10, <1>11 DEF m, N, s

\* Sequence a is what b starts with.
Starts(a, b) == Len(a) <= Len(b) /\ \A i \in 1..Len(a) : a[i] = b[i]

LEMMA PrefixIs ==
    ASSUME NEW a, IsSeq(a), NEW b, IsSeq(b)
    PROVE  IsPrefix(a, b) <=> Starts(a, b)
<1> DEFINE n == Len(a)
<1>0. n \in Nat /\ Len(b) \in Nat
  BY SeqShape
<1>1. ASSUME n <= Len(b)
      PROVE  SubSeq(a, 1, n) = SubSeq(b, 1, n) <=> \A i \in 1..n : a[i] = b[i]
  <2> DEFINE x == SubSeq(a, 1, n)
             y == SubSeq(b, 1, n)
  <2>1. IsSeq(x) /\ Len(x) = n /\ \A i \in 1..n : x[i] = a[i]
    <3>1. n \in 0..Len(a)
      BY <1>0
    <3>2. QED
      BY <3>1, CutSeq
  <2>2. IsSeq(y) /\ Len(y) = n /\ \A i \in 1..n : y[i] = b[i]
    <3>1. n \in 0..Len(b)
      BY <1>0, <1>1
    <3>2. QED
      BY <3>1, CutSeq
  <2> HIDE DEF x, y
  <2>3. ASSUME \A i \in 1..n : x[i] = y[i] PROVE x = y
    <3> DEFINE S == Range(x) \cup Range(y)
    <3>1. x \in Seq(S) /\ y \in Seq(S)
      BY <2>1, <2>2, SeqMonotonic DEF IsSeq
    <3> HIDE DEF S
    <3>2. QED
      BY <2>1, <2>2, <2>3, <3>1, SeqEqual
  <2>4. x = y <=> \A i \in 1..n : a[i] = b[i]
    BY <2>1, <2>2, <2>3
  <2>5. QED
    BY <2>4 DEF x, y
<1>2. QED
  BY <1>1 DEF IsPrefix, Starts
-----------------------------------------------------------------------------
(* The invariant of an organisation's timeline and of the forks made of it. *)

\* A timeline that is served, or was when the council got its copy.
Healthy(t) ==
    IsTimeline(t) /\ IsSeq(t.events) /\ Verify(t) /\ Sane(t.events)

\* A recovery artifact is the fork that a recovery of a served timeline makes.
\* That timeline is not ahead of the present one, and what is served was
\* rewritten since only if an epoch was committed since.
ForkInv(r) ==
    /\ Healthy(r.pre) /\ r.bad \in 0..Len(r.pre.events)
    /\ \E root, epoch : /\ epoch \in Nat /\ epoch <= LastEpoch(r.pre)
                        /\ Recovered(r.fork, r.pre, r.bad, root, epoch)
    /\ LastEpoch(r.pre) <= LastEpoch(tl)
    /\ LastEpoch(r.pre) = LastEpoch(tl) => Starts(r.pre.events, tl.events)

OrgInv ==
    /\ Healthy(tl)
    /\ tl.key \in {None, PubForPrefix(tl, Len(tl.events) - 1)}
    /\ \A r \in forks : ForkInv(r)

\* What the parts of a fork are.
LEMMA PartTypes ==
    ASSUME NEW u, IsSeq(u.events), NEW t, NEW bad \in Nat, NEW root, NEW epoch,
           NEW m \in bad + 1..Len(u.events) - 1, Parts(u, t, bad, root, epoch, m)
    PROVE  /\ bad + 1 < Len(u.events)
           /\ \A j \in bad + 2..Len(u.events) - 1 : u.events[j].type \in {"ISSUE", "REVOKE"}
           /\ \A j \in 1..Len(u.events) :
                \/ j \in 1..bad
                \/ j = bad + 1
                \/ j \in bad + 2..Len(u.events) - 1
                \/ j = Len(u.events)
<1>0. Len(u.events) \in Nat
  BY SeqShape
<1>1. bad + 1 < Len(u.events)
  BY <1>0
<1>2. ASSUME NEW j \in bad + 2..Len(u.events) - 1
      PROVE  u.events[j].type \in {"ISSUE", "REVOKE"}
  <2>1. j \in bad + 2..m \/ j \in m + 1..Len(u.events) - 1
    BY <1>0
  <2>2. QED
    BY <2>1 DEF Parts
<1>3. \A j \in 1..Len(u.events) :
                \/ j \in 1..bad
                \/ j = bad + 1
                \/ j \in bad + 2..Len(u.events) - 1
                \/ j = Len(u.events)
  BY <1>0
<1>4. QED
  BY <1>1, <1>2, <1>3

\* The last key switch of a fork is its handoff to the new root.
LEMMA ForkLeadsToRoot ==
    ASSUME NEW u, NEW t, NEW bad \in Nat, NEW root, NEW epoch,
           Recovered(u, t, bad, root, epoch)
    PROVE  PubForPrefix(u, Len(u.events) - 1) = root
<1>0. IsSeq(u.events) /\ Len(u.events) \in Nat
  BY SeqShape DEF Recovered
<1>1. PICK m \in bad + 1..Len(u.events) - 1 : Parts(u, t, bad, root, epoch, m)
  BY DEF Recovered
<1>2. /\ bad + 1 < Len(u.events)
      /\ \A j \in bad + 2..Len(u.events) - 1 : u.events[j].type \in {"ISSUE", "REVOKE"}
  BY <1>0, <1>1, PartTypes
<1>3. /\ u.events[bad + 1].type = "RECOVERY" /\ u.events[bad + 1].pub = root
      /\ u.events[Len(u.events)].type = "COMMIT"
  BY <1>1 DEF Parts
<1>4. \A i \in bad + 1 + 1..Len(u.events) : u.events[i].type \notin Switches
  <2> TAKE i \in bad + 1 + 1..Len(u.events)
  <2>1. i = Len(u.events) \/ i \in bad + 2..Len(u.events) - 1
    BY <1>0
  <2>2. QED
    BY <1>2, <1>3, <2>1 DEF Switches
<1>5. Agree(u, u, bad + 1) /\ bad + 1 \in Nat /\ bad + 1 <= Len(u.events) /\ bad + 1 - 1 = bad
  BY <1>2 DEF Agree
<1>6. PubForPrefix(u, Len(u.events) - 1) = PubForPrefix(u, bad + 1 - 1)
  BY <1>0, <1>4, <1>5, PubKept
<1>7. PubForPrefix(u, bad) = root
  BY <1>3, PubAfter DEF Switches
<1>8. QED
  BY <1>5, <1>6, <1>7

\* A fork's evidence is that of the kept prefix.
LEMMA ForkSane ==
    ASSUME NEW u, NEW t, IsSeq(t.events), Sane(t.events), NEW bad \in 0..Len(t.events),
           NEW root, NEW epoch \in Nat, Recovered(u, t, bad, root, epoch)
    PROVE  Sane(u.events)
<1>0. IsSeq(u.events) /\ Len(u.events) \in Nat /\ Len(t.events) \in Nat /\ bad \in Nat
  BY SeqShape DEF Recovered
<1>1. PICK m \in bad + 1..Len(u.events) - 1 : Parts(u, t, bad, root, epoch, m)
  BY DEF Recovered
<1>2. /\ \A j \in bad + 2..Len(u.events) - 1 : u.events[j].type \in {"ISSUE", "REVOKE"}
      /\ \A j \in 1..Len(u.events) : \/ j \in 1..bad
                                     \/ j = bad + 1
                                     \/ j \in bad + 2..Len(u.events) - 1
                                     \/ j = Len(u.events)
  BY <1>0, <1>1, PartTypes
<1>3. /\ \A i \in 1..bad : u.events[i] = t.events[i]
      /\ u.events[bad + 1].type = "RECOVERY"
      /\ u.events[Len(u.events)].type = "COMMIT" /\ u.events[Len(u.events)].num = epoch + 1
  BY <1>1 DEF Parts
<1>4. ASSUME NEW j \in 1..Len(u.events)
      PROVE  /\ u.events[j].type = "DETECTED" => u.events[j].num \in 0..j - 1
             /\ u.events[j].type = "COMMIT" => u.events[j].num \in Nat
  <2>1. CASE j \in 1..bad
    <3>1. j \in 1..Len(t.events) /\ u.events[j] = t.events[j]
      BY <1>0, <1>3, <2>1
    <3>2. QED
      BY <3>1 DEF Sane
  <2>2. CASE j = bad + 1
    BY <1>3, <2>2
  <2>3. CASE j \in bad + 2..Len(u.events) - 1
    BY <1>2, <2>3
  <2>4. CASE j = Len(u.events)
    BY <1>3, <2>4
  <2>5. QED
    BY <1>2, <2>1, <2>2, <2>3, <2>4
<1>5. QED
  BY <1>4 DEF Sane

\* Verification does not look at the signing key or at the rotations.
LEMMA SameVerdict ==
    ASSUME NEW t, IsSeq(t.events), NEW u, u.events = t.events, Retained(u, t)
    PROVE  /\ Verify(u) <=> Verify(t)
           /\ PubForPrefix(u, Len(u.events) - 1) = PubForPrefix(t, Len(t.events) - 1)
<1> DEFINE n == Len(t.events)
<1>0. n \in Nat
  BY SeqShape
<1>1. Agree(u, t, n)
  BY DEF Agree, Retained
<1>2. /\ \A i \in 0..n - 1 : BadEvent(u, i) <=> BadEvent(t, i)
      /\ \A i \in -1..n - 1 : PubForPrefix(u, i) = PubForPrefix(t, i)
  BY <1>0, <1>1, SamePrefix
<1>3. Verify(u) <=> Verify(t)
  <2>1. Verify(u) <=> \A i \in 0..n - 1 : ~BadEvent(u, i)
    BY VerifiedIsGood
  <2>2. Verify(t) <=> \A i \in 0..n - 1 : ~BadEvent(t, i)
    BY VerifiedIsGood
  <2>3. QED
    BY <1>2, <2>1, <2>2
<1>4. n - 1 \in -1..n - 1
  BY <1>0
<1>5. QED
  BY <1>2, <1>3, <1>4
-----------------------------------------------------------------------------
(* The invariant holds.                                                    *)

\* An event signed with the current key that switches no key and commits
\* nothing.
LEMMA AppendHealthy ==
    ASSUME NEW t, Healthy(t), t.key = PubForPrefix(t, Len(t.events) - 1),
           NEW b, NEW u, u = AppendEv(t, b),
           u.events[Len(t.events) + 1].type \in {"ISSUE", "REVOKE", "DETECTED"},
           u.events[Len(t.events) + 1].type = "DETECTED" =>
               u.events[Len(t.events) + 1].num \in 0..Len(t.events),
           u.events[Len(t.events) + 1].sig = t.key,
           u.events[Len(t.events) + 1].parent = HeadOf(t)
    PROVE  /\ Healthy(u)
           /\ u.key = PubForPrefix(u, Len(u.events) - 1)
           /\ Starts(t.events, u.events)
           /\ LastEpoch(u) = LastEpoch(t)
<1> DEFINE n == Len(t.events)
           e == u.events[n + 1]
<1>0. n \in Nat /\ IsSeq(t.events) /\ IsTimeline(t)
  BY SeqShape DEF Healthy
<1>1. ExtendedBy(u, t, b)
  BY <1>0, AppendOne
<1>2. /\ IsTimeline(u) /\ u.key = t.key /\ Retained(u, t) /\ IsSeq(u.events)
      /\ Len(u.events) = n + 1
      /\ \A i \in 1..n : u.events[i] = t.events[i]
  BY <1>1 DEF ExtendedBy
<1>3. Agree(u, t, n)
  BY <1>2 DEF Agree, Retained
<1>4. /\ \A i \in 0..n - 1 : BadEvent(u, i) <=> BadEvent(t, i)
      /\ \A i \in 0..n : Expected(u, i) = Expected(t, i)
      /\ \A i \in -1..n - 1 : PubForPrefix(u, i) = PubForPrefix(t, i)
  BY <1>0, <1>3, SamePrefix
<1>5. PubForPrefix(u, n - 1) = t.key /\ Expected(u, n) = Expected(t, n)
  BY <1>0, <1>4
<1>6. ~BadEvent(u, n)
  <2>1. KeyInForce(u, n) = PubForPrefix(u, n - 1)
    BY <1>0, KeyInForceIs
  <2>2. HeadOf(t) = Expected(t, n)
    BY <1>0, SeqShape DEF HeadOf, Expected, Last
  <2>3. QED
    BY <1>5, <2>1, <2>2 DEF BadEvent
<1>7. Verify(u)
  <2>1. \A i \in 0..n - 1 : ~BadEvent(t, i)
    BY <1>0, VerifiedIsGood DEF Healthy
  <2>2. \A i \in 0..n + 1 - 1 : i = n \/ i \in 0..n - 1
    BY <1>0
  <2>3. \A i \in 0..Len(u.events) - 1 : ~BadEvent(u, i)
    BY <1>2, <1>4, <1>6, <2>1, <2>2
  <2>4. QED
    BY <1>2, <2>3, VerifiedIsGood
<1>8. Sane(u.events)
  <2>1. ASSUME NEW p \in 1..n + 1
        PROVE  /\ u.events[p].type = "DETECTED" => u.events[p].num \in 0..p - 1
               /\ u.events[p].type = "COMMIT" => u.events[p].num \in Nat
    <3>1. CASE p = n + 1
      <4>1. p - 1 = n
        BY <1>0, <3>1
      <4>2. QED
        BY <3>1, <4>1
    <3>2. CASE p # n + 1
      <4>1. p \in 1..n
        BY <1>0, <3>2
      <4>2. QED
        BY <1>2, <4>1 DEF Healthy, Sane
    <3>3. QED
      BY <3>1, <3>2
  <2>2. QED
    BY <1>2, <2>1 DEF Sane
<1>9. u.key = PubForPrefix(u, Len(u.events) - 1)
  <2>1. u.events[n + 1].type \notin Switches
    BY DEF Switches
  <2>2. PubForPrefix(u, n) = PubForPrefix(u, n - 1)
    BY <1>0, <2>1, PubAfter
  <2>3. Len(u.events) - 1 = n
    BY <1>0, <1>2
  <2>4. QED
    BY <1>2, <1>5, <2>2, <2>3
<1>10. {x \in ToSet(u.events) : x.type = "COMMIT"} = {x \in ToSet(t.events) : x.type = "COMMIT"}
  <2>1. DOMAIN u.events = 1..n + 1 /\ DOMAIN t.events = 1..n
    BY <1>0, <1>2, SeqShape
  <2>2. \A i \in 1..n + 1 : i = n + 1 \/ i \in 1..n
    BY <1>0
  <2>3. \A i \in 1..n : i \in 1..n + 1
    BY <1>0
  <2>4. QED
    BY <1>2, <2>1, <2>2, <2>3 DEF ToSet
<1>11. LastEpoch(u) = LastEpoch(t)
  BY <1>10 DEF LastEpoch
<1>12. Starts(t.events, u.events)
  BY <1>0, <1>2 DEF Starts
<1>13. QED
  BY <1>2, <1>7, <1>8, <1>9, <1>11, <1>12 DEF Healthy

\* The forks stay what they are when the served timeline moves on.
LEMMA ForksStay ==
    ASSUME NEW r, ForkInv(r), Healthy(tl), Healthy(tl'),
           \/ LastEpoch(tl') = LastEpoch(tl) /\ Starts(tl.events, tl'.events)
           \/ LastEpoch(tl') > LastEpoch(tl)
    PROVE  /\ LastEpoch(r.pre) <= LastEpoch(tl')
           /\ LastEpoch(r.pre) = LastEpoch(tl') => Starts(r.pre.events, tl'.events)
<1> DEFINE a == LastEpoch(r.pre)
           b == LastEpoch(tl)
           c == LastEpoch(tl')
<1>1. a \in Nat /\ b \in Nat /\ c \in Nat
  BY LastEpochIs DEF ForkInv, Healthy
<1>2. a <= b /\ (a = b => Starts(r.pre.events, tl.events))
  BY DEF ForkInv
<1> HIDE DEF a, b, c
<1>3. CASE c = b /\ Starts(tl.events, tl'.events)
  <2>1. a = b => Starts(r.pre.events, tl'.events)
    <3>1. Len(r.pre.events) \in Nat /\ Len(tl.events) \in Nat /\ Len(tl'.events) \in Nat
      BY SeqShape DEF ForkInv, Healthy
    <3> HAVE a = b
    <3>2. Starts(r.pre.events, tl.events)
      BY <1>2
    <3>3. QED
      BY <1>3, <3>1, <3>2 DEF Starts
  <2>2. QED
    BY <1>2, <1>3, <2>1 DEF a, c
<1>4. CASE c > b
  <2>1. a <= c /\ a # c
    BY <1>1, <1>2, <1>4
  <2>2. QED
    BY <2>1 DEF a, c
<1>5. QED
  BY <1>3, <1>4 DEF b, c
LEMMA AppendKeeps ==
    ASSUME OrgInv, HoldsKey, NEW b, tl' = AppendEv(tl, b), UNCHANGED forks,
           \/ \E c, i, v : b = IssueEv(c, i, v)
           \/ \E c : b = RevokeEv(c)
           \/ \E bad \in 0..Len(tl.events) : b = DetectedEv(bad)
    PROVE  OrgInv' /\ Starts(tl.events, tl'.events)
<1> DEFINE n == Len(tl.events)
           e == tl'.events[n + 1]
<1>0. Healthy(tl) /\ IsTimeline(tl) /\ IsSeq(tl.events)
  BY DEF OrgInv, Healthy
<1>1. tl.key = PubForPrefix(tl, n - 1)
  BY DEF OrgInv, HoldsKey
<1>2. ExtendedBy(tl', tl, b)
  BY <1>0, AppendOne
<1>3. e = [b EXCEPT !.parent = HeadOf(tl), !.sig = tl.key]
  BY <1>2 DEF ExtendedBy
<1>4. /\ e.type \in {"ISSUE", "REVOKE", "DETECTED"}
      /\ e.type = "DETECTED" => e.num \in 0..n
      /\ e.sig = tl.key
      /\ e.parent = HeadOf(tl)
  <2>1. ASSUME NEW c, NEW i, NEW v, b = IssueEv(c, i, v)
        PROVE  e.type = "ISSUE" /\ e.sig = tl.key /\ e.parent = HeadOf(tl)
    BY <1>3, <2>1 DEF IssueEv, Blank
  <2>2. ASSUME NEW c, b = RevokeEv(c)
        PROVE  e.type = "REVOKE" /\ e.sig = tl.key /\ e.parent = HeadOf(tl)
    BY <1>3, <2>2 DEF RevokeEv, Blank
  <2>3. ASSUME NEW bad \in 0..n, b = DetectedEv(bad)
        PROVE  e.type = "DETECTED" /\ e.num = bad /\ e.sig = tl.key /\ e.parent = HeadOf(tl)
    BY <1>3, <2>3 DEF DetectedEv, Blank
  <2> HIDE DEF e
  <2>4. QED
    BY <2>1, <2>2, <2>3
<1> DEFINE u == tl'
<1>5. /\ Healthy(u)
      /\ u.key = PubForPrefix(u, Len(u.events) - 1)
      /\ Starts(tl.events, u.events)
      /\ LastEpoch(u) = LastEpoch(tl)
  BY <1>0, <1>1, <1>4, AppendHealthy
<1>6. ASSUME NEW r \in forks PROVE ForkInv(r)'
  <2>1. ForkInv(r)
    BY DEF OrgInv
  <2>2. /\ LastEpoch(r.pre) <= LastEpoch(tl')
        /\ LastEpoch(r.pre) = LastEpoch(tl') => Starts(r.pre.events, tl'.events)
    BY <1>0, <1>5, <2>1, ForksStay
  <2>3. QED
    BY <2>1, <2>2 DEF ForkInv
<1>7. QED
  BY <1>5, <1>6 DEF OrgInv

LEMMA RecoverKeeps ==
    ASSUME NilIsNoDigest, OrgInv, NEW net \in BOOLEAN, CouncilRecover(net)
    PROVE  OrgInv'
<1> DEFINE n == Len(tl.events)
           p == Max(Evidence)
           epoch == BaseEpoch(net)
           root == Root(Cardinality(forks) + 1)
           u == RecoveryFork(tl, BadIndex, root, epoch)
           new == [pre |-> tl, bad |-> BadIndex, fork |-> u]
<1>0. Healthy(tl) /\ IsSeq(tl.events) /\ Verify(tl) /\ Sane(tl.events)
  BY DEF OrgInv, Healthy
<1>1. n \in Nat /\ DOMAIN tl.events = 1..n
  BY <1>0, SeqShape
<1>2. Evidence # {} /\ forks' = forks \cup {new} /\ UNCHANGED tl
  BY DEF CouncilRecover
<1>3. Evidence \in SUBSET (0..n) /\ n \in Int
  BY <1>1 DEF Evidence
<1>4. p \in Evidence
  BY <1>2, <1>3, MaxIndex
<1>5. p \in 1..n /\ tl.events[p].type = "DETECTED" /\ BadIndex = tl.events[p].num
  BY <1>1, <1>4 DEF Evidence, BadIndex
<1> HIDE DEF p
<1>6. BadIndex \in 0..n
  <2>1. BadIndex \in 0..p - 1
    BY <1>0, <1>5 DEF Sane
  <2>2. QED
    BY <1>1, <1>5, <2>1
<1>7. epoch \in Nat /\ epoch <= LastEpoch(tl)
  <2>1. LastEpoch(tl) \in Nat
    BY <1>0, LastEpochIs
  <2>2. QED
    BY <2>1 DEF BaseEpoch
<1> HIDE DEF epoch, root
<1>8. Recovered(u, tl, BadIndex, root, epoch)
  BY <1>0, <1>6, RecoveredIs
<1> HIDE DEF u
<1>9. new.pre = tl /\ new.bad = BadIndex /\ new.fork = u
  OBVIOUS
<1> HIDE DEF new
<1>10. LastEpoch(tl) <= LastEpoch(tl) /\ Starts(tl.events, tl.events)
  <2>1. LastEpoch(tl) \in Nat
    BY <1>0, LastEpochIs
  <2>2. QED
    BY <1>1, <2>1 DEF Starts
<1>11. ForkInv(new)
  BY <1>0, <1>6, <1>7, <1>8, <1>9, <1>10 DEF ForkInv
<1>12. \A r \in forks' : ForkInv(r)
  BY <1>2, <1>11 DEF OrgInv
<1>13. QED
  BY <1>2, <1>12 DEF OrgInv, ForkInv

\* An adopted fork verifies and leads to the key that it may bring along.
LEMMA AdoptKeeps ==
    ASSUME OrgInv, NEW r \in forks, NEW k \in BOOLEAN, Adopt(r, k)
    PROVE  OrgInv' /\ LastEpoch(tl') > LastEpoch(tl) /\ tl'.events = r.fork.events
<1> DEFINE u == r.fork
<1>0. /\ ForkInv(r) /\ Healthy(r.pre) /\ r.bad \in 0..Len(r.pre.events)
      /\ Healthy(tl) /\ IsSeq(r.pre.events) /\ Sane(r.pre.events)
  BY DEF OrgInv, ForkInv, Healthy
<1>1. PICK root, epoch : /\ epoch \in Nat
                         /\ Recovered(u, r.pre, r.bad, root, epoch)
  BY <1>0 DEF ForkInv
<1>2. IsTimeline(u) /\ IsSeq(u.events) /\ u.key = root
  BY <1>1 DEF Recovered
<1>3. Sane(u.events)
  BY <1>0, <1>1, ForkSane
<1>4. PubForPrefix(u, Len(u.events) - 1) = root
  <2>1. r.bad \in Nat
    BY <1>0, SeqShape
  <2>2. QED
    BY <1>1, <2>1, ForkLeadsToRoot
<1>5. Verify(u) /\ LastEpoch(u) > LastEpoch(tl) /\ UNCHANGED forks /\ tl' = Reloaded(u, k)
  BY DEF Adopt, Adoptable
<1>6. /\ IsTimeline(tl') /\ tl'.events = u.events /\ Retained(tl', u)
      /\ tl'.key \in {None, u.key}
  BY <1>2, <1>5 DEF Reloaded, IsTimeline, Retained
<1>7. /\ Verify(tl')
      /\ PubForPrefix(tl', Len(tl'.events) - 1) = root
  BY <1>2, <1>4, <1>5, <1>6, SameVerdict
<1>8. Healthy(tl')
  BY <1>2, <1>3, <1>6, <1>7 DEF Healthy
<1>9. LastEpoch(tl') > LastEpoch(tl)
  BY <1>5, <1>6 DEF LastEpoch
<1>10. ASSUME NEW x \in forks PROVE ForkInv(x)'
  <2>1. ForkInv(x)
    BY DEF OrgInv
  <2>2. /\ LastEpoch(x.pre) <= LastEpoch(tl')
        /\ LastEpoch(x.pre) = LastEpoch(tl') => Starts(x.pre.events, tl'.events)
    BY <1>0, <1>8, <1>9, <2>1, ForksStay
  <2>3. QED
    BY <2>1, <2>2 DEF ForkInv
<1>11. tl'.key \in {None, PubForPrefix(tl', Len(tl'.events) - 1)}
  BY <1>2, <1>6, <1>7
<1>12. OrgInv'
  BY <1>5, <1>8, <1>10, <1>11 DEF OrgInv
<1>13. QED
  BY <1>6, <1>9, <1>12

LEMMA InitOrgInv ==
    ASSUME OrgInit
    PROVE  OrgInv
<1>1. /\ tl.events = <<>> /\ tl.key = Root(0) /\ tl.start = Root(0) /\ IsTimeline(tl)
      /\ forks = {}
  BY DEF OrgInit, NewTimeline, IsTimeline
<1>2. IsSeq(<<>>) /\ Len(<<>>) = 0
  BY SeqIsSeq, EmptySeq
<1>3. Verify(tl)
  <2>1. \A i \in 0..Len(tl.events) - 1 : ~BadEvent(tl, i)
    BY <1>1, <1>2
  <2>2. QED
    BY <1>1, <1>2, <2>1, VerifiedIsGood
<1>4. Sane(tl.events)
  BY <1>1, <1>2 DEF Sane
<1>5. PubForPrefix(tl, Len(tl.events) - 1) = Root(0)
  BY <1>1, <1>2 DEF PubForPrefix, KeyAfter
<1>6. QED
  BY <1>1, <1>2, <1>3, <1>4, <1>5 DEF OrgInv, Healthy

\* Every step keeps it.
LEMMA NextOrgInv ==
    ASSUME NilIsNoDigest, OrgInv, [OrgNext]_orgVars
    PROVE  OrgInv'
<1>1. ASSUME NEW c \in Certs, NEW i \in Ids, NEW v \in Certs \cup {None}, Issue(c, i, v)
      PROVE  OrgInv'
  BY <1>1, AppendKeeps DEF Issue, AppendAndSave
<1>2. ASSUME NEW c \in Certs, Revoke(c)
      PROVE  OrgInv'
  BY <1>2, AppendKeeps DEF Revoke, AppendAndSave
<1>3. ASSUME NEW bad \in 0..Len(tl.events), Detect(bad)
      PROVE  OrgInv'
  BY <1>3, AppendKeeps DEF Detect, AppendAndSave
<1>4. ASSUME NEW net \in BOOLEAN, CouncilRecover(net)
      PROVE  OrgInv'
  BY <1>4, RecoverKeeps
<1>5. ASSUME NEW r \in forks, NEW k \in BOOLEAN, Adopt(r, k)
      PROVE  OrgInv'
  BY <1>5, AdoptKeeps
<1>6. CASE UNCHANGED <<tl, forks>>
  BY <1>6 DEF OrgInv, ForkInv
<1>7. QED
  BY <1>1, <1>2, <1>3, <1>4, <1>5, <1>6
     DEF OrgNext, orgVars, DetectReadOnly, AllClear

\* The served chain, the forks, and how they are related, whatever is appended,
\* recovered and adopted.
THEOREM OrgInvariant ==
    ASSUME NilIsNoDigest
    PROVE  OrgSpec => []OrgInv
<1>1. OrgInit => OrgInv
  BY InitOrgInv
<1>2. OrgInv /\ [OrgNext]_orgVars => OrgInv'
  BY NextOrgInv
<1>3. QED
  BY <1>1, <1>2, PTL DEF OrgSpec

\* The chain that the gateway serves verifies after any number of recoveries
\* and adoptions, and the key it signs with is the one verifiers expect next.
THEOREM ServedChainVerifies ==
    ASSUME NilIsNoDigest
    PROVE  OrgSpec => []ChainVerifies
<1>1. OrgInv => ChainVerifies
  BY DEF OrgInv, Healthy, ChainVerifies
<1>2. QED
  BY <1>1, OrgInvariant, PTL
-----------------------------------------------------------------------------
(* Adoption goes forward.                                                  *)

\* A fork raises the epoch of the timeline it was made of by one at most.
LEMMA ForkEpoch ==
    ASSUME NEW u, NEW t, IsSeq(t.events), Sane(t.events), NEW bad \in 0..Len(t.events),
           NEW root, NEW epoch \in Nat, epoch <= LastEpoch(t),
           Recovered(u, t, bad, root, epoch)
    PROVE  LastEpoch(u) <= LastEpoch(t) + 1
<1>0. /\ IsSeq(u.events) /\ Len(u.events) \in Nat /\ Len(t.events) \in Nat /\ bad \in Nat
      /\ Sane(u.events)
  BY SeqShape, ForkSane DEF Recovered
<1>1. PICK m \in bad + 1..Len(u.events) - 1 : Parts(u, t, bad, root, epoch, m)
  BY DEF Recovered
<1>2. /\ \A j \in bad + 2..Len(u.events) - 1 : u.events[j].type \in {"ISSUE", "REVOKE"}
      /\ \A j \in 1..Len(u.events) : \/ j \in 1..bad
                                     \/ j = bad + 1
                                     \/ j \in bad + 2..Len(u.events) - 1
                                     \/ j = Len(u.events)
  BY <1>0, <1>1, PartTypes
<1>3. /\ \A i \in 1..bad : u.events[i] = t.events[i]
      /\ u.events[bad + 1].type = "RECOVERY"
      /\ u.events[Len(u.events)].type = "COMMIT" /\ u.events[Len(u.events)].num = epoch + 1
  BY <1>1 DEF Parts
<1>4. /\ LastEpoch(t) \in Nat
      /\ \A i \in 1..Len(t.events) : /\ Committed(t.events[i]) \in Nat
                                     /\ Committed(t.events[i]) <= LastEpoch(t)
  BY LastEpochIs
<1>5. /\ LastEpoch(u) \in Nat
      /\ \/ LastEpoch(u) = 0
         \/ \E i \in 1..Len(u.events) : Committed(u.events[i]) = LastEpoch(u)
  BY <1>0, LastEpochIs
<1>6. ASSUME NEW j \in 1..Len(u.events)
      PROVE  Committed(u.events[j]) <= LastEpoch(t) + 1
  <2>1. CASE j \in 1..bad
    <3>1. j \in 1..Len(t.events) /\ u.events[j] = t.events[j]
      BY <1>0, <1>3, <2>1
    <3>2. Committed(u.events[j]) \in Nat /\ Committed(u.events[j]) <= LastEpoch(t)
      BY <1>4, <3>1
    <3>3. QED
      BY <1>4, <3>2
  <2>2. CASE j = bad + 1 \/ j \in bad + 2..Len(u.events) - 1
    <3>1. Committed(u.events[j]) = 0
      BY <1>2, <1>3, <2>2 DEF Committed
    <3>2. QED
      BY <1>4, <3>1
  <2>3. CASE j = Len(u.events)
    <3>1. Committed(u.events[j]) = epoch + 1
      BY <1>3, <2>3 DEF Committed
    <3>2. QED
      BY <1>4, <3>1
  <2>4. QED
    BY <1>2, <2>1, <2>2, <2>3
<1>7. QED
  BY <1>4, <1>5, <1>6

\* The newest handoff of a fork is the one that it adds.
LEMMA NewestHandoff ==
    ASSUME NEW u, NEW t, NEW bad \in Nat, NEW root, NEW epoch,
           Recovered(u, t, bad, root, epoch)
    PROVE  Max(Handoffs(u.events)) = bad + 1
<1>0. IsSeq(u.events) /\ Len(u.events) \in Nat /\ DOMAIN u.events = 1..Len(u.events)
  BY SeqShape DEF Recovered
<1>1. PICK m \in bad + 1..Len(u.events) - 1 : Parts(u, t, bad, root, epoch, m)
  BY DEF Recovered
<1>2. /\ bad + 1 < Len(u.events)
      /\ \A j \in bad + 2..Len(u.events) - 1 : u.events[j].type \in {"ISSUE", "REVOKE"}
      /\ \A j \in 1..Len(u.events) : \/ j \in 1..bad
                                     \/ j = bad + 1
                                     \/ j \in bad + 2..Len(u.events) - 1
                                     \/ j = Len(u.events)
  BY <1>0, <1>1, PartTypes
<1>3. /\ u.events[bad + 1].type = "RECOVERY"
      /\ u.events[Len(u.events)].type = "COMMIT"
  BY <1>1 DEF Parts
<1> DEFINE H == Handoffs(u.events)
<1>4. H \in SUBSET Int /\ bad + 1 \in H
  BY <1>0, <1>2, <1>3 DEF Handoffs
<1>5. \A j \in 1..Len(u.events) : u.events[j].type = "RECOVERY" => j <= bad + 1
  BY <1>2, <1>3
<1>6. \A j \in H : j <= bad + 1
  BY <1>0, <1>5 DEF Handoffs
<1> HIDE DEF H
<1>7. Max(H) = bad + 1
  BY <1>4, <1>6, MaxIs
<1>8. QED
  BY <1>7 DEF H

\* A fork that the gateway adopts was made of a timeline that the served one
\* still starts with: a rewrite since would have committed the fork's epoch.
LEMMA AdoptedIsCurrent ==
    ASSUME OrgInv, NEW r \in forks, NEW k \in BOOLEAN, Adopt(r, k)
    PROVE  Starts(r.pre.events, tl.events)
<1>0. /\ ForkInv(r) /\ Healthy(r.pre) /\ r.bad \in 0..Len(r.pre.events)
      /\ Healthy(tl) /\ IsSeq(r.pre.events) /\ Sane(r.pre.events)
  BY DEF OrgInv, ForkInv, Healthy
<1>1. PICK root, epoch : /\ epoch \in Nat /\ epoch <= LastEpoch(r.pre)
                         /\ Recovered(r.fork, r.pre, r.bad, root, epoch)
  BY <1>0 DEF ForkInv
<1> DEFINE a == LastEpoch(r.pre)
           b == LastEpoch(tl)
           c == LastEpoch(r.fork)
<1>2. c <= a + 1
  BY <1>0, <1>1, ForkEpoch
<1>3. c > b
  BY DEF Adopt, Adoptable
<1>4. Sane(r.fork.events) /\ IsSeq(r.fork.events)
  BY <1>0, <1>1, ForkSane DEF Recovered
<1>5. a \in Nat /\ b \in Nat /\ c \in Nat
  BY <1>0, <1>4, LastEpochIs DEF Healthy
<1>6. a <= b /\ (a = b => Starts(r.pre.events, tl.events))
  BY <1>0 DEF ForkInv
<1> HIDE DEF a, b, c
<1>7. a = b
  BY <1>2, <1>3, <1>5, <1>6
<1>8. QED
  BY <1>6, <1>7

\* A rewrite of the served history commits a higher epoch and keeps what it
\* had in front of the newest handoff.
THEOREM AdoptionGoesForward ==
    ASSUME NilIsNoDigest
    PROVE  OrgSpec => AdoptsForward
<1> DEFINE Forward ==
             Rewrites =>
               /\ LastEpoch(tl') > LastEpoch(tl)
               /\ LET h == Max(Handoffs(tl'.events))
                  IN  IsPrefix(SubSeq(tl'.events, 1, h - 1), tl.events)
<1>1. ASSUME OrgInv, OrgInv', Starts(tl.events, tl'.events)
      PROVE  Forward
  BY <1>1, PrefixIs DEF Rewrites, OrgInv, Healthy
<1>2. ASSUME OrgInv, NEW r \in forks, NEW k \in BOOLEAN, Adopt(r, k)
      PROVE  Forward
  <2> DEFINE n == r.bad
             s == SubSeq(tl'.events, 1, n)
  <2>0. /\ ForkInv(r) /\ IsSeq(r.pre.events) /\ n \in 0..Len(r.pre.events)
        /\ IsSeq(tl.events)
    BY <1>2 DEF OrgInv, ForkInv, Healthy
  <2>1. /\ Len(r.pre.events) \in Nat /\ Len(tl.events) \in Nat
        /\ n \in Nat /\ n <= Len(r.pre.events)
    BY <2>0, SeqShape
  <2>2. PICK root, epoch : Recovered(r.fork, r.pre, n, root, epoch)
    BY <2>0 DEF ForkInv
  <2>3. PICK m \in n + 1..Len(r.fork.events) - 1 : Parts(r.fork, r.pre, n, root, epoch, m)
    BY <2>2 DEF Recovered
  <2>4. tl'.events = r.fork.events /\ LastEpoch(tl') > LastEpoch(tl)
    BY <1>2, AdoptKeeps
  <2>5. IsSeq(tl'.events) /\ Len(tl'.events) \in Nat /\ n <= Len(tl'.events)
    BY <2>1, <2>2, <2>3, <2>4, SeqShape DEF Recovered
  <2>6. Max(Handoffs(tl'.events)) - 1 = n
    <3>1. Max(Handoffs(tl'.events)) = n + 1
      BY <2>1, <2>2, <2>4, NewestHandoff
    <3>2. QED
      BY <2>1, <3>1
  <2>7. \A i \in 1..n : tl'.events[i] = r.pre.events[i]
    BY <2>3, <2>4 DEF Parts
  <2>8. Starts(r.pre.events, tl.events)
    BY <1>2, AdoptedIsCurrent
  <2>9. IsSeq(s) /\ Len(s) = n /\ \A i \in 1..n : s[i] = tl'.events[i]
    <3>1. n \in 0..Len(tl'.events)
      BY <2>1, <2>5
    <3>2. QED
      BY <2>5, <3>1, CutSeq
  <2> HIDE DEF s
  <2>10. Starts(s, tl.events)
    <3>1. n <= Len(tl.events) /\ \A i \in 1..n : i \in 1..Len(r.pre.events)
      BY <2>1, <2>8 DEF Starts
    <3>2. QED
      BY <2>7, <2>8, <2>9, <3>1 DEF Starts
  <2>11. IsPrefix(s, tl.events)
    BY <2>0, <2>9, <2>10, PrefixIs
  <2>12. SubSeq(tl'.events, 1, Max(Handoffs(tl'.events)) - 1) = s
    BY <2>6 DEF s
  <2>13. QED
    BY <2>4, <2>11, <2>12
<1>3. ASSUME OrgInv, OrgInv', [OrgNext]_orgVars
      PROVE  [Forward]_orgVars
  <2>1. ASSUME NEW c \in Certs, NEW i \in Ids, NEW v \in Certs \cup {None}, Issue(c, i, v)
        PROVE  Starts(tl.events, tl'.events)
    BY <1>3, <2>1, AppendKeeps DEF Issue, AppendAndSave
  <2>2. ASSUME NEW c \in Certs, Revoke(c)
        PROVE  Starts(tl.events, tl'.events)
    BY <1>3, <2>2, AppendKeeps DEF Revoke, AppendAndSave
  <2>3. ASSUME NEW bad \in 0..Len(tl.events), Detect(bad)
        PROVE  Starts(tl.events, tl'.events)
    BY <1>3, <2>3, AppendKeeps DEF Detect, AppendAndSave
  <2>4. CASE UNCHANGED tl
    <3>1. Len(tl.events) \in Nat
      BY <1>3, SeqShape DEF OrgInv, Healthy
    <3>2. Starts(tl.events, tl'.events)
      BY <2>4, <3>1 DEF Starts
    <3>3. QED
      BY <1>1, <1>3, <3>2
  <2> HIDE DEF Forward
  <2>5. QED
    BY <1>1, <1>2, <1>3, <2>1, <2>2, <2>3, <2>4
       DEF OrgNext, orgVars, DetectReadOnly, AllClear, CouncilRecover
<1>4. OrgInv /\ OrgInv' /\ [OrgNext]_orgVars => [Forward]_orgVars
  BY <1>3
<1>5. QED
  BY <1>4, OrgInvariant, PTL DEF OrgSpec, AdoptsForward
-----------------------------------------------------------------------------
(* Certificate states.                                                     *)

IsEntry(x) == x \in [id : {x.id}, revoked : BOOLEAN]

LEMMA RevokeEntry ==
    ASSUME NEW x, IsEntry(x)
    PROVE  [x EXCEPT !.revoked = TRUE] = [id |-> x.id, revoked |-> TRUE]
<1> DEFINE y == [x EXCEPT !.revoked = TRUE]
<1>1. y \in [id : {x.id}, revoked : {TRUE}]
  BY DEF IsEntry
<1> HIDE DEF y
<1>2. y = [id |-> x.id, revoked |-> TRUE]
  BY <1>1
<1>3. QED
  BY <1>2 DEF y

\* State y is x after event e.
FoldsTo(y, x, e) ==
    /\ DOMAIN y = IF e.type = "ISSUE" THEN DOMAIN x \cup {e.cert} ELSE DOMAIN x
    /\ \A c \in DOMAIN y :
         y[c] = IF c = e.cert /\ e.type = "ISSUE" /\ ~(c \in DOMAIN x /\ x[c].revoked)
                THEN [id |-> e.id, revoked |-> FALSE]
                ELSE IF c = e.cert /\ e.type = "REVOKE"
                THEN [id |-> x[c].id, revoked |-> TRUE] ELSE x[c]

LEMMA FoldEventIs ==
    ASSUME NEW x, NEW e, \A c \in DOMAIN x : IsEntry(x[c])
    PROVE  FoldsTo(FoldEvent(x, e), x, e)
<1> DEFINE y == FoldEvent(x, e)
           new == [id |-> e.id, revoked |-> FALSE]
<1>1. CASE e.type = "ISSUE" /\ ~(e.cert \in DOMAIN x /\ x[e.cert].revoked)
  <2>1. y = [c \in DOMAIN x \cup {e.cert} |-> IF c = e.cert THEN new ELSE x[c]]
    BY <1>1 DEF FoldEvent
  <2> HIDE DEF y, new
  <2>2. QED
    BY <1>1, <2>1 DEF FoldsTo, y, new
<1>2. CASE e.type = "ISSUE" /\ e.cert \in DOMAIN x /\ x[e.cert].revoked
  <2>1. y = x
    BY <1>2 DEF FoldEvent
  <2>2. QED
    BY <1>2, <2>1 DEF FoldsTo
<1>3. CASE e.type = "REVOKE" /\ e.cert \in DOMAIN x
  <2>1. y = [x EXCEPT ![e.cert].revoked = TRUE]
    BY <1>3 DEF FoldEvent
  <2>2. IsEntry(x[e.cert])
    BY <1>3
  <2>3. [x[e.cert] EXCEPT !.revoked = TRUE] = [id |-> x[e.cert].id, revoked |-> TRUE]
    BY <2>2, RevokeEntry
  <2>4. /\ DOMAIN y = DOMAIN x
        /\ \A c \in DOMAIN y : y[c] = IF c = e.cert THEN [x[e.cert] EXCEPT !.revoked = TRUE]
                                      ELSE x[c]
    BY <2>1
  <2> HIDE DEF y
  <2>5. QED
    BY <1>3, <2>3, <2>4 DEF FoldsTo, y
<1>4. CASE e.type # "ISSUE" /\ ~(e.type = "REVOKE" /\ e.cert \in DOMAIN x)
  <2>1. y = x
    BY <1>4 DEF FoldEvent
  <2>2. QED
    BY <1>4, <2>1 DEF FoldsTo
<1>5. QED
  BY <1>1, <1>2, <1>3, <1>4

Issued(s, c, n) == \E i \in 1..n : s[i].type = "ISSUE" /\ s[i].cert = c

RevokedBy(s, c, n) ==
    \E i, j \in 1..n : /\ i < j
                       /\ s[i].type = "ISSUE" /\ s[i].cert = c
                       /\ s[j].type = "REVOKE" /\ s[j].cert = c

OwnedBy(s, c, n, o) == \E i \in 1..n : s[i].type = "ISSUE" /\ s[i].cert = c /\ s[i].id = o

\* State x is what the first n events of s amount to.
Amounts(x, s, n) ==
    /\ \A c \in DOMAIN x : IsEntry(x[c])
    /\ \A c : c \in DOMAIN x <=> Issued(s, c, n)
    /\ \A c \in DOMAIN x : x[c].revoked <=> RevokedBy(s, c, n)
    /\ \A c \in DOMAIN x : OwnedBy(s, c, n, x[c].id)

LEMMA AmountsNext ==
    ASSUME NEW s, NEW n \in Nat, NEW x, Amounts(x, s, n), NEW y, FoldsTo(y, x, s[n + 1])
    PROVE  Amounts(y, s, n + 1)
<1> DEFINE e == s[n + 1]
<1>1. /\ \A c : Issued(s, c, n + 1) <=> Issued(s, c, n) \/ (e.type = "ISSUE" /\ e.cert = c)
      /\ \A c : RevokedBy(s, c, n + 1) <=>
                  \/ RevokedBy(s, c, n)
                  \/ Issued(s, c, n) /\ e.type = "REVOKE" /\ e.cert = c
  <2>1. \A i \in 1..n + 1 : i \in 1..n \/ i = n + 1
    OBVIOUS
  <2>2. n + 1 \in 1..n + 1 /\ \A i \in 1..n : i \in 1..n + 1 /\ i < n + 1 /\ ~(n + 1 < i)
    OBVIOUS
  <2>3. \A c : Issued(s, c, n + 1) <=> Issued(s, c, n) \/ (e.type = "ISSUE" /\ e.cert = c)
    BY <2>1, <2>2 DEF Issued
  <2>4. ASSUME NEW c, RevokedBy(s, c, n + 1)
        PROVE  \/ RevokedBy(s, c, n)
               \/ Issued(s, c, n) /\ e.type = "REVOKE" /\ e.cert = c
    <3>1. PICK i \in 1..n + 1, j \in 1..n + 1 :
              /\ i < j
              /\ s[i].type = "ISSUE" /\ s[i].cert = c
              /\ s[j].type = "REVOKE" /\ s[j].cert = c
      BY <2>4 DEF RevokedBy
    <3>2. i \in 1..n
      BY <3>1
    <3>3. CASE j = n + 1
      BY <3>1, <3>2, <3>3 DEF Issued
    <3>4. CASE j \in 1..n
      BY <3>1, <3>2, <3>4 DEF RevokedBy
    <3>5. QED
      BY <2>1, <3>3, <3>4
  <2>5. ASSUME NEW c, RevokedBy(s, c, n) PROVE RevokedBy(s, c, n + 1)
    BY <2>2, <2>5 DEF RevokedBy
  <2>6. ASSUME NEW c, Issued(s, c, n), e.type = "REVOKE", e.cert = c
        PROVE  RevokedBy(s, c, n + 1)
    BY <2>2, <2>6 DEF RevokedBy, Issued
  <2>7. QED
    BY <2>3, <2>4, <2>5, <2>6
<1>2. ASSUME NEW c PROVE RevokedBy(s, c, n) => Issued(s, c, n)
  BY DEF RevokedBy, Issued
<1>2a. ASSUME NEW c, NEW o
       PROVE  /\ OwnedBy(s, c, n, o) => OwnedBy(s, c, n + 1, o)
              /\ e.type = "ISSUE" /\ e.cert = c /\ e.id = o => OwnedBy(s, c, n + 1, o)
  <2>1. n + 1 \in 1..n + 1 /\ \A i \in 1..n : i \in 1..n + 1
    OBVIOUS
  <2>2. QED
    BY <2>1 DEF OwnedBy
<1> HIDE DEF e
<1>3. FoldsTo(y, x, e)
  BY DEF e
<1>4. DOMAIN y = IF e.type = "ISSUE" THEN DOMAIN x \cup {e.cert} ELSE DOMAIN x
  BY <1>3 DEF FoldsTo
<1>5. \A c : c \in DOMAIN y <=> Issued(s, c, n + 1)
  BY <1>1, <1>4 DEF Amounts
<1>6. ASSUME NEW c \in DOMAIN y
      PROVE  /\ IsEntry(y[c]) /\ (y[c].revoked <=> RevokedBy(s, c, n + 1))
             /\ OwnedBy(s, c, n + 1, y[c].id)
  <2>1. y[c] = IF c = e.cert /\ e.type = "ISSUE" /\ ~(c \in DOMAIN x /\ x[c].revoked)
               THEN [id |-> e.id, revoked |-> FALSE]
               ELSE IF c = e.cert /\ e.type = "REVOKE"
               THEN [id |-> x[c].id, revoked |-> TRUE] ELSE x[c]
    BY <1>3 DEF FoldsTo
  <2>2. /\ c \in DOMAIN x <=> Issued(s, c, n)
        /\ c \in DOMAIN x => /\ IsEntry(x[c]) /\ (x[c].revoked <=> RevokedBy(s, c, n))
                              /\ OwnedBy(s, c, n, x[c].id)
    BY DEF Amounts
  <2>3. CASE c = e.cert /\ e.type = "ISSUE" /\ ~(c \in DOMAIN x /\ x[c].revoked)
    <3>1. y[c] = [id |-> e.id, revoked |-> FALSE]
      BY <2>1, <2>3
    <3>2. IsEntry(y[c]) /\ ~y[c].revoked /\ y[c].id = e.id
      BY <3>1 DEF IsEntry
    <3>3. ~RevokedBy(s, c, n) /\ ~RevokedBy(s, c, n + 1)
      BY <1>1, <1>2, <2>2, <2>3
    <3>4. OwnedBy(s, c, n + 1, y[c].id)
      BY <1>2a, <2>3, <3>2
    <3>5. QED
      BY <3>2, <3>3, <3>4
  <2>4. CASE c = e.cert /\ e.type = "REVOKE"
    <3>1. y[c] = [id |-> x[c].id, revoked |-> TRUE] /\ c \in DOMAIN x
      BY <1>4, <2>1, <2>4
    <3>2. IsEntry(y[c]) /\ y[c].revoked /\ y[c].id = x[c].id
      BY <3>1 DEF IsEntry
    <3>3. RevokedBy(s, c, n + 1)
      BY <1>1, <2>2, <2>4, <3>1
    <3>4. OwnedBy(s, c, n + 1, y[c].id)
      BY <1>2a, <2>2, <3>1, <3>2
    <3>5. QED
      BY <3>2, <3>3, <3>4
  <2>5. CASE /\ ~(c = e.cert /\ e.type = "ISSUE" /\ ~(c \in DOMAIN x /\ x[c].revoked))
             /\ ~(c = e.cert /\ e.type = "REVOKE")
    <3>1. y[c] = x[c] /\ c \in DOMAIN x
      BY <1>4, <2>1, <2>5
    <3>2. RevokedBy(s, c, n + 1) <=> RevokedBy(s, c, n)
      BY <1>1, <2>5
    <3>3. OwnedBy(s, c, n + 1, y[c].id)
      BY <1>2a, <2>2, <3>1
    <3>4. QED
      BY <2>2, <3>1, <3>2, <3>3
  <2>6. QED
    BY <2>3, <2>4, <2>5
<1>7. QED
  BY <1>5, <1>6 DEF Amounts

\* The fold of a sequence, and what it goes through.
Folding(f, s) ==
    /\ Fold(s) = f[Len(s)]
    /\ f[0] = <<>>
    /\ \A n \in 1..Len(s) : f[n] = FoldEvent(f[n - 1], s[n]) /\ FoldsTo(f[n], f[n - 1], s[n])
    /\ \A n \in 0..Len(s) : Amounts(f[n], s, n)

LEMMA FoldIs ==
    ASSUME NEW s, IsSeq(s)
    PROVE  \E f : Folding(f, s)
<1> DEFINE N == Len(s)
<1>0. N \in Nat
  BY SeqShape
<1>1. PICK f : /\ Fold(s) = f[N]
               /\ f[0] = <<>>
               /\ \A n \in 1..N : f[n] = FoldEvent(f[n - 1], s[n])
  BY <1>0, FoldUnfolds
<1>1a. DOMAIN f[0] = {}
  BY <1>1
<1> DEFINE Fails == {n \in Nat : n <= N /\ ~Amounts(f[n], s, n)}
<1>2. Fails = {}
  <2> SUFFICES ASSUME Fails # {} PROVE FALSE
    OBVIOUS
  <2>1. Min(Fails) \in Fails /\ \A y \in Fails : Min(Fails) <= y
    BY MinNat
  <2> DEFINE n == Min(Fails)
  <2> HIDE DEF n
  <2>2. n \in Nat /\ n <= N /\ ~Amounts(f[n], s, n)
    BY <2>1 DEF n
  <2>3. n # 0
    <3>1. Amounts(f[0], s, 0)
      BY <1>1a DEF Amounts, Issued
    <3>2. QED
      BY <2>2, <3>1
  <2>4. n - 1 \in Nat /\ n - 1 <= N /\ ~(n <= n - 1) /\ n \in 1..N /\ n - 1 + 1 = n
    BY <1>0, <2>2, <2>3
  <2>5. n - 1 \notin Fails
    BY <2>1, <2>4 DEF n
  <2>6. Amounts(f[n - 1], s, n - 1)
    BY <2>4, <2>5
  <2>7. FoldsTo(f[n], f[n - 1], s[n])
    <3>1. \A c \in DOMAIN f[n - 1] : IsEntry(f[n - 1][c])
      BY <2>6 DEF Amounts
    <3>2. f[n] = FoldEvent(f[n - 1], s[n])
      BY <1>1, <2>4
    <3>3. QED
      BY <3>1, <3>2, FoldEventIs
  <2>8. Amounts(f[n], s, n)
    <3> DEFINE k == n - 1
    <3>1. k \in Nat /\ n = k + 1
      BY <2>4
    <3> HIDE DEF k
    <3>2. Amounts(f[k + 1], s, k + 1)
      BY <2>6, <2>7, <3>1, AmountsNext DEF k
    <3>3. QED
      BY <3>1, <3>2
  <2>9. QED
    BY <2>2, <2>8
<1>3. \A n \in 0..N : Amounts(f[n], s, n)
  BY <1>0, <1>2
<1>4. ASSUME NEW n \in 1..N PROVE FoldsTo(f[n], f[n - 1], s[n])
  <2>1. n - 1 \in 0..N
    BY <1>0
  <2>2. \A c \in DOMAIN f[n - 1] : IsEntry(f[n - 1][c])
    BY <1>3, <2>1 DEF Amounts
  <2>3. f[n] = FoldEvent(f[n - 1], s[n])
    BY <1>1
  <2>4. QED
    BY <2>2, <2>3, FoldEventIs
<1>5. Folding(f, s)
  BY <1>1, <1>3, <1>4 DEF Folding
<1>6. QED
  BY <1>5

\* The state is the declarative one.
LEMMA FoldAmounts ==
    ASSUME NEW s, IsSeq(s)
    PROVE  Amounts(Fold(s), s, Len(s))
<1>1. PICK f : Folding(f, s)
  BY FoldIs
<1>2. Len(s) \in 0..Len(s)
  BY SeqShape
<1>3. QED
  BY <1>1, <1>2 DEF Folding

\* Revoked is revoked, and the state of any history says so: a certificate is
\* revoked iff some revocation follows an issuance.
THEOREM FoldIsMeant ==
    ASSUME NilIsNoDigest
    PROVE  OrgSpec => []FoldMeaning
<1>1. ASSUME OrgInv PROVE FoldMeaning
  <2> DEFINE s == tl.events
             N == Len(s)
  <2>1. IsSeq(s) /\ DOMAIN s = 1..N
    BY <1>1, SeqShape DEF OrgInv, Healthy
  <2>2. Amounts(Fold(s), s, N)
    BY <2>1, FoldAmounts
  <2> DEFINE x == Fold(s)
  <2> HIDE DEF x
  <2>3. /\ \A c : c \in DOMAIN x <=> Issued(s, c, N)
        /\ \A c \in DOMAIN x : x[c].revoked <=> RevokedBy(s, c, N)
    BY <2>2 DEF Amounts, x
  <2>4. ASSUME NEW c
        PROVE  /\ c \in DOMAIN x <=> \E i \in 1..N : s[i].type = "ISSUE" /\ s[i].cert = c
               /\ c \in RevokedCerts(x) <=>
                    \E i, j \in 1..N : /\ i < j
                                       /\ s[i].type = "ISSUE" /\ s[i].cert = c
                                       /\ s[j].type = "REVOKE" /\ s[j].cert = c
    BY <2>3 DEF Issued, RevokedBy, RevokedCerts
  <2>5. QED
    BY <2>1, <2>4 DEF FoldMeaning, State, x
<1>2. OrgInv => FoldMeaning
  BY <1>1
<1>3. QED
  BY <1>2, OrgInvariant, PTL
-----------------------------------------------------------------------------
(* What a recovery does to certificates.                                   *)

\* A fork revokes every affected certificate behind all its issuances.
LEMMA AffectedIsDead ==
    ASSUME NEW u, NEW t, NEW bad \in Nat, NEW root, NEW epoch,
           Recovered(u, t, bad, root, epoch), NEW c \in AffectedCerts(t.events, bad)
    PROVE  c \notin LiveCerts(Fold(u.events))
<1> DEFINE s == u.events
           N == Len(s)
           x == Fold(s)
<1>0. IsSeq(s) /\ N \in Nat
  BY SeqShape DEF Recovered
<1>1. PICK m \in bad + 1..N - 1 : Parts(u, t, bad, root, epoch, m)
  BY DEF Recovered
<1>2. PICK j \in m + 1..N - 1 : s[j].type = "REVOKE" /\ s[j].cert = c
  BY <1>1 DEF Parts
<1>3. /\ \A k \in m + 1..N - 1 : s[k].type = "REVOKE"
      /\ s[N].type = "COMMIT"
  BY <1>1 DEF Parts
<1>4. Amounts(x, s, N)
  BY <1>0, FoldAmounts
<1> HIDE DEF x
<1>5. SUFFICES ASSUME c \in DOMAIN x PROVE x[c].revoked
  BY DEF LiveCerts, x
<1>6. PICK i \in 1..N : s[i].type = "ISSUE" /\ s[i].cert = c
  BY <1>4, <1>5 DEF Amounts, Issued
<1>7. i < j /\ j \in 1..N
  <2>1. i \notin m + 1..N - 1 /\ i # N
    BY <1>3, <1>6
  <2>2. m \in Nat
    BY <1>0
  <2>3. QED
    BY <1>0, <2>1, <2>2
<1>8. RevokedBy(s, c, N)
  BY <1>2, <1>6, <1>7 DEF RevokedBy
<1>9. QED
  BY <1>4, <1>5, <1>8 DEF Amounts

\* What is revoked in the kept prefix is revoked on the fork.
LEMMA RevokedIsDead ==
    ASSUME NEW u, NEW t, NEW bad \in Nat, NEW root, NEW epoch,
           Recovered(u, t, bad, root, epoch), NEW c, RevokedBy(t.events, c, bad)
    PROVE  c \notin LiveCerts(Fold(u.events))
<1> DEFINE s == u.events
           N == Len(s)
           x == Fold(s)
<1>0. IsSeq(s) /\ N \in Nat
  BY SeqShape DEF Recovered
<1>1. PICK m \in bad + 1..N - 1 : Parts(u, t, bad, root, epoch, m)
  BY DEF Recovered
<1>2. \A i \in 1..bad : s[i] = t.events[i] /\ i \in 1..N
  BY <1>0, <1>1 DEF Parts
<1>3. RevokedBy(s, c, N)
  BY <1>2 DEF RevokedBy
<1>4. Amounts(x, s, N)
  BY <1>0, FoldAmounts
<1> HIDE DEF x
<1>5. c \in DOMAIN x => x[c].revoked
  BY <1>3, <1>4 DEF Amounts
<1>6. QED
  BY <1>5 DEF LiveCerts, x

\* The seeds of the search are affected.
LEMMA SeedsAffected ==
    ASSUME NEW s, IsSeq(s), NEW bad \in 0..Len(s), NEW i \in bad + 1..Len(s),
           s[i].type \in {"ISSUE", "REVOKE"}
    PROVE  s[i].cert \in AffectedCerts(s, bad)
<1> DEFINE w == BadWindow(s, bad)
           hit == {x \in ToSet(w) : x.type \in {"ISSUE", "REVOKE"}}
           seeds == {e.cert : e \in hit}
<1>1. ToSet(w) = {s[k] : k \in bad + 1..Len(s)}
  BY WindowIs
<1> HIDE DEF w
<1>2. s[i].cert \in seeds
  BY <1>1
<1>3. AffectedCerts(s, bad) = Reachable(s, seeds)
  BY DEF AffectedCerts, w
<1> HIDE DEF seeds
<1>4. IsFiniteSet(Issues(s))
  BY EventsFinite
<1>5. seeds \subseteq Reachable(s, seeds)
  BY <1>4, ReachableBounds
<1>6. QED
  BY <1>2, <1>3, <1>5

\* A certificate that the timeline the council was given holds revoked, in the
\* bad window or in front of it, is not valid on the fork.
THEOREM NoneResurrected ==
    ASSUME NilIsNoDigest
    PROVE  OrgSpec => []NoResurrection
<1>1. ASSUME OrgInv, NEW r \in forks, NEW c \in RevokedCerts(Fold(r.pre.events))
      PROVE  c \notin LiveCerts(Fold(r.fork.events))
  <2> DEFINE s == r.pre.events
             N == Len(s)
             x == Fold(s)
  <2>0. /\ ForkInv(r) /\ IsSeq(s) /\ r.bad \in 0..N /\ N \in Nat /\ r.bad \in Nat
    BY <1>1, SeqShape DEF OrgInv, ForkInv, Healthy
  <2>1. PICK root, epoch : Recovered(r.fork, r.pre, r.bad, root, epoch)
    BY <2>0 DEF ForkInv
  <2>2. Amounts(x, s, N)
    BY <2>0, FoldAmounts
  <2>3. c \in DOMAIN x /\ x[c].revoked
    BY <1>1 DEF RevokedCerts
  <2> HIDE DEF x
  <2>4. RevokedBy(s, c, N)
    BY <2>2, <2>3 DEF Amounts
  <2>5. PICK i \in 1..N, j \in 1..N : /\ i < j
                                      /\ s[i].type = "ISSUE" /\ s[i].cert = c
                                      /\ s[j].type = "REVOKE" /\ s[j].cert = c
    BY <2>4 DEF RevokedBy
  <2>6. CASE j \in 1..r.bad
    <3>1. i \in 1..r.bad
      BY <2>0, <2>5, <2>6
    <3>2. RevokedBy(s, c, r.bad)
      BY <2>5, <2>6, <3>1 DEF RevokedBy
    <3>3. QED
      BY <2>0, <2>1, <3>2, RevokedIsDead
  <2>7. CASE j \in r.bad + 1..N
    <3>1. c \in AffectedCerts(s, r.bad)
      BY <2>0, <2>5, <2>7, SeedsAffected
    <3>2. QED
      BY <2>0, <2>1, <3>1, AffectedIsDead
  <2>8. QED
    BY <2>0, <2>6, <2>7
<1>2. OrgInv => NoResurrection
  BY <1>1 DEF NoResurrection
<1>3. QED
  BY <1>2, OrgInvariant, PTL
-----------------------------------------------------------------------------
(* The search reaches everything that was issued via something it reaches. *)

LEMMA ReachableClosed ==
    ASSUME NEW events, IsFiniteSet(Issues(events)), NEW seeds
    PROVE  \A e \in Issues(events) :
              e.via \in Reachable(events, seeds) => e.cert \in Reachable(events, seeds)
<1> DEFINE I == Issues(events)
           N == Cardinality(Issues(events))
<1>0. N \in Nat
  BY FS_CardinalityType
<1>0a. PICK f : Rounds(f, events, seeds)
  BY <1>0, ReachableUnfolds
<1>1. /\ Reachable(events, seeds) = f[N]
      /\ f[0] = seeds
      /\ \A n \in 1..N : f[n] = f[n - 1] \cup Children(events, f[n - 1])
  BY <1>0a DEF Rounds
<1> SUFFICES ASSUME NEW e \in Issues(events), e.via \in f[N], e.cert \notin f[N] PROVE FALSE
  BY <1>1
<1>2. e \in I /\ e.via \in f[N] /\ e.cert \notin f[N]
  BY <1>1
<1> DEFINE Open(n) == \E x \in I : x.via \in f[n] /\ x.cert \notin f[n]
<1> HIDE DEF I
\* Each round takes in all that was issued via what it starts from, ...
<1>3. ASSUME NEW n \in 1..N
      PROVE  /\ f[n - 1] \subseteq f[n]
             /\ \A x \in I : x.via \in f[n - 1] => x.cert \in f[n]
  BY <1>1 DEF Children, I
\* ... the rounds grow, ...
<1>4. \A n, k \in 0..N : n <= k => f[n] \subseteq f[k]
  <2> SUFFICES ASSUME NEW n \in 0..N PROVE \A k \in 0..N : n <= k => f[n] \subseteq f[k]
    OBVIOUS
  <2> DEFINE Fails == {k \in Nat : k <= N /\ n <= k /\ ~(f[n] \subseteq f[k])}
  <2>1. Fails = {}
    <3> SUFFICES ASSUME Fails # {} PROVE FALSE
      OBVIOUS
    <3>1. Min(Fails) \in Fails /\ \A y \in Fails : Min(Fails) <= y
      BY MinNat
    <3> DEFINE k == Min(Fails)
    <3> HIDE DEF k
    <3>2. k \in Nat /\ k <= N /\ n <= k /\ ~(f[n] \subseteq f[k])
      BY <3>1 DEF k
    <3>3. k # n
      BY <3>2
    <3>4. k - 1 \in Nat /\ k - 1 <= N /\ n <= k - 1 /\ ~(k <= k - 1) /\ k \in 1..N
      BY <1>0, <3>2, <3>3
    <3>5. k - 1 \notin Fails
      BY <3>1, <3>4 DEF k
    <3>6. f[n] \subseteq f[k - 1]
      BY <3>4, <3>5
    <3>7. QED
      BY <1>3, <3>2, <3>4, <3>6
  <2>2. QED
    BY <1>0, <2>1
\* ... and none is closed when the last is not, for closed rounds repeat.
<1>5. \A n \in 0..N : Open(n)
  <2> SUFFICES ASSUME NEW n \in 0..N, ~Open(n) PROVE FALSE
    OBVIOUS
  <2> DEFINE Fails == {k \in Nat : k <= N /\ n <= k /\ ~(f[k] = f[n])}
  <2>1. Fails = {}
    <3> SUFFICES ASSUME Fails # {} PROVE FALSE
      OBVIOUS
    <3>1. Min(Fails) \in Fails /\ \A y \in Fails : Min(Fails) <= y
      BY MinNat
    <3> DEFINE k == Min(Fails)
    <3> HIDE DEF k
    <3>2. k \in Nat /\ k <= N /\ n <= k /\ ~(f[k] = f[n])
      BY <3>1 DEF k
    <3>3. k # n
      BY <3>2
    <3>4. k - 1 \in Nat /\ k - 1 <= N /\ n <= k - 1 /\ ~(k <= k - 1) /\ k \in 1..N
      BY <1>0, <3>2, <3>3
    <3>5. k - 1 \notin Fails
      BY <3>1, <3>4 DEF k
    <3>6. f[k - 1] = f[n]
      BY <3>4, <3>5
    <3>7. Children(events, f[n]) \subseteq f[n]
      BY DEF Children, I
    <3>8. f[k] = f[n] \cup Children(events, f[n])
      BY <1>1, <3>4, <3>6
    <3>9. QED
      BY <3>2, <3>7, <3>8
  <2>2. f[N] = f[n]
    BY <1>0, <2>1
  <2>3. QED
    BY <1>2, <2>2
\* So there are more rounds than issuances, each with one of its own.
<1> DEFINE w == [n \in 1..N + 1 |-> CHOOSE x \in I : x.via \in f[n - 1] /\ x.cert \notin f[n - 1]]
<1>6. ASSUME NEW n \in 1..N + 1
      PROVE  w[n] \in I /\ w[n].via \in f[n - 1] /\ w[n].cert \notin f[n - 1]
  <2>1. n - 1 \in 0..N
    BY <1>0
  <2>2. \E x \in I : x.via \in f[n - 1] /\ x.cert \notin f[n - 1]
    BY <1>5, <2>1
  <2>3. QED
    BY <2>2
<1>7. w \in [1..N + 1 -> I]
  BY <1>6
<1> HIDE DEF w
<1>8. ASSUME NEW n \in 1..N + 1, NEW k \in 1..N + 1, n < k
      PROVE  w[n] # w[k]
  <2>1. n \in 1..N /\ n \in 0..N /\ k - 1 \in 0..N /\ n <= k - 1
    BY <1>0, <1>8
  <2>2. w[n].cert \in f[n]
    BY <1>3, <1>6, <2>1
  <2>3. f[n] \subseteq f[k - 1]
    BY <1>4, <2>1
  <2>4. QED
    BY <1>6, <2>2, <2>3
<1>9. IsFiniteSet(1..N + 1) /\ Cardinality(1..N + 1) = N + 1
  <2>1. N + 1 \in Nat
    BY <1>0
  <2>2. QED
    BY <2>1, FS_Interval
<1>10. PICK n \in 1..N + 1, k \in 1..N + 1 : n # k /\ w[n] = w[k]
  <2> DEFINE S == 1..N + 1
  <2>1. IsFiniteSet(I) /\ Cardinality(I) < Cardinality(S) /\ IsFiniteSet(S) /\ w \in [S -> I]
    BY <1>0, <1>7, <1>9 DEF I
  <2> HIDE DEF S
  <2>2. \E n, k \in S : n # k /\ w[n] = w[k]
    BY <2>1, FS_PigeonHole
  <2>3. QED
    BY <2>2 DEF S
<1>11. QED
  BY <1>0, <1>8, <1>10

\* It reaches nothing else: what has the seeds and is closed has it all.
LEMMA ReachableLeast ==
    ASSUME NEW events, IsFiniteSet(Issues(events)), NEW seeds, NEW S, seeds \subseteq S,
           \A e \in Issues(events) : e.via \in S => e.cert \in S
    PROVE  Reachable(events, seeds) \subseteq S
<1> DEFINE N == Cardinality(Issues(events))
<1>0. N \in Nat
  BY FS_CardinalityType
<1>1. PICK f : Rounds(f, events, seeds)
  BY <1>0, ReachableUnfolds
<1>2. /\ Reachable(events, seeds) = f[N]
      /\ f[0] = seeds
      /\ \A n \in 1..N : f[n] = f[n - 1] \cup Children(events, f[n - 1])
  BY <1>1 DEF Rounds
<1> DEFINE Fails == {n \in Nat : n <= N /\ ~(f[n] \subseteq S)}
<1>3. Fails = {}
  <2> SUFFICES ASSUME Fails # {} PROVE FALSE
    OBVIOUS
  <2>1. Min(Fails) \in Fails /\ \A y \in Fails : Min(Fails) <= y
    BY MinNat
  <2> DEFINE n == Min(Fails)
  <2> HIDE DEF n
  <2>2. n \in Nat /\ n <= N /\ ~(f[n] \subseteq S)
    BY <2>1 DEF n
  <2>3. n # 0
    BY <1>2, <2>2
  <2>4. n - 1 \in Nat /\ n - 1 <= N /\ ~(n <= n - 1) /\ n \in 1..N
    BY <1>0, <2>2, <2>3
  <2>5. n - 1 \notin Fails
    BY <2>1, <2>4 DEF n
  <2>6. f[n - 1] \subseteq S
    BY <2>4, <2>5
  <2>7. Children(events, f[n - 1]) \subseteq S
    BY <2>6 DEF Children
  <2>8. f[n] = f[n - 1] \cup Children(events, f[n - 1])
    BY <1>2, <2>4
  <2>9. QED
    BY <2>2, <2>6, <2>7, <2>8
<1>4. QED
  BY <1>0, <1>2, <1>3

\* The search finds exactly the tainted certificates.
LEMMA ReachableIsTainted ==
    ASSUME NEW events, IsFiniteSet(Issues(events)), NEW seeds
    PROVE  Reachable(events, seeds) = Tainted(events, seeds)
<1> DEFINE R == Reachable(events, seeds)
           named == seeds \cup {e.cert : e \in Issues(events)}
           Closed(S) == /\ seeds \subseteq S
                        /\ \A e \in Issues(events) : e.via \in S => e.cert \in S
<1>1. R \subseteq named /\ Closed(R)
  BY ReachableBounds, ReachableClosed
<1>2. ASSUME NEW S, Closed(S) PROVE R \subseteq S
  BY <1>2, ReachableLeast
<1>3. Tainted(events, seeds) = {c \in named : \A S \in {T \in SUBSET named : Closed(T)} : c \in S}
  BY DEF Tainted
<1> HIDE DEF R, named, Closed
<1>4. R = {c \in named : \A S \in {T \in SUBSET named : Closed(T)} : c \in S}
  BY <1>1, <1>2
<1>5. QED
  BY <1>3, <1>4 DEF R

LEMMA ReachableGrows ==
    ASSUME NEW events, IsFiniteSet(Issues(events)), NEW A, NEW B, A \subseteq B
    PROVE  Reachable(events, A) \subseteq Reachable(events, B)
<1> DEFINE R == Reachable(events, B)
<1>1. A \subseteq R /\ \A e \in Issues(events) : e.via \in R => e.cert \in R
  BY ReachableBounds, ReachableClosed
<1> HIDE DEF R
<1>2. Reachable(events, A) \subseteq R
  BY <1>1, ReachableLeast
<1>3. QED
  BY <1>2 DEF R

\* A certificate that was issued in the bad window, or via one that was,
\* however indirectly, is not valid on the fork.
THEOREM DamageIsContained ==
    ASSUME NilIsNoDigest
    PROVE  OrgSpec => []DamageContained
<1>1. ASSUME OrgInv, NEW r \in forks,
             NEW c \in Tainted(r.pre.events, WindowCerts(r, {"ISSUE"}))
      PROVE  c \notin LiveCerts(Fold(r.fork.events))
  <2> DEFINE s == r.pre.events
             A == WindowCerts(r, {"ISSUE"})
             B == WindowCerts(r, {"ISSUE", "REVOKE"})
  <2>0. /\ ForkInv(r) /\ IsSeq(s) /\ r.bad \in Nat
    BY <1>1, SeqShape DEF OrgInv, ForkInv, Healthy
  <2>1. PICK root, epoch : Recovered(r.fork, r.pre, r.bad, root, epoch)
    BY <2>0 DEF ForkInv
  <2>2. IsFiniteSet(Issues(s))
    BY <2>0, EventsFinite
  <2>3. A \subseteq B
    BY DEF WindowCerts
  <2>4. AffectedCerts(s, r.bad) = Reachable(s, B)
    BY DEF AffectedCerts, WindowCerts
  <2> HIDE DEF A, B
  <2>5. Reachable(s, A) \subseteq Reachable(s, B) /\ Reachable(s, A) = Tainted(s, A)
    BY <2>2, <2>3, ReachableGrows, ReachableIsTainted
  <2>6. c \in AffectedCerts(s, r.bad)
    BY <2>4, <2>5 DEF A
  <2>7. QED
    BY <2>0, <2>1, <2>6, AffectedIsDead
<1>2. OrgInv => DamageContained
  BY <1>1 DEF DamageContained
<1>3. QED
  BY <1>2, OrgInvariant, PTL
-----------------------------------------------------------------------------
(* What a recovery leaves alone.                                           *)

\* The fold of a prefix is a state that the fold goes through.
LEMMA FoldPrefix ==
    ASSUME NEW a, IsSeq(a), NEW b, IsSeq(b), Starts(a, b), NEW f, Folding(f, b)
    PROVE  Fold(a) = f[Len(a)]
<1> DEFINE N == Len(a)
<1>0. N \in Nat /\ Len(b) \in Nat /\ N <= Len(b) /\ \A i \in 1..N : a[i] = b[i]
  BY SeqShape DEF Starts
<1>1. PICK g : Folding(g, a)
  BY FoldIs
<1>2. /\ Fold(a) = g[N] /\ g[0] = f[0]
      /\ \A n \in 1..N : g[n] = FoldEvent(g[n - 1], a[n])
  BY <1>1 DEF Folding
<1>3. \A n \in 1..N : f[n] = FoldEvent(f[n - 1], a[n])
  BY <1>0 DEF Folding
<1> DEFINE Fails == {n \in Nat : n <= N /\ g[n] # f[n]}
<1>4. Fails = {}
  <2> SUFFICES ASSUME Fails # {} PROVE FALSE
    OBVIOUS
  <2>1. Min(Fails) \in Fails /\ \A y \in Fails : Min(Fails) <= y
    BY MinNat
  <2> DEFINE n == Min(Fails)
  <2> HIDE DEF n
  <2>2. n \in Nat /\ n <= N /\ g[n] # f[n]
    BY <2>1 DEF n
  <2>3. n # 0
    BY <1>2, <2>2
  <2>4. n - 1 \in Nat /\ n - 1 <= N /\ ~(n <= n - 1) /\ n \in 1..N
    BY <1>0, <2>2, <2>3
  <2>5. n - 1 \notin Fails
    BY <2>1, <2>4 DEF n
  <2>6. g[n - 1] = f[n - 1]
    BY <2>4, <2>5
  <2>7. QED
    BY <1>2, <1>3, <2>2, <2>4, <2>6
<1>5. QED
  BY <1>0, <1>2, <1>4

LEMMA EntryIs ==
    ASSUME NEW x, IsEntry(x)
    PROVE  x = [id |-> x.id, revoked |-> x.revoked] /\ x.revoked \in BOOLEAN
BY DEF IsEntry

\* State y has the entries of x, but for affected certificates that x has
\* valid, and new ones for affected identities only.
Spared(y, x, certs, ids) ==
    /\ \A c \in DOMAIN x : c \notin certs \/ x[c].revoked => c \in DOMAIN y /\ y[c] = x[c]
    /\ \A c \in DOMAIN y : c \notin DOMAIN x => y[c].id \in ids

\* Events that a fork adds.
Sparing(e, x, certs, ids) ==
    \/ e.type \notin {"ISSUE", "REVOKE"}
    \/ e.type = "REVOKE" /\ e.cert \in certs
    \/ e.type = "ISSUE" /\ e.id \in ids /\ (e.cert \in DOMAIN x => x[e.cert].id = e.id)

LEMMA SparedNext ==
    ASSUME NEW x, NEW y, NEW z, NEW certs, NEW ids, NEW e,
           \A c \in DOMAIN x : IsEntry(x[c]),
           Spared(y, x, certs, ids), FoldsTo(z, y, e), Sparing(e, x, certs, ids)
    PROVE  Spared(z, x, certs, ids)
<1>1. /\ DOMAIN z = IF e.type = "ISSUE" THEN DOMAIN y \cup {e.cert} ELSE DOMAIN y
      /\ \A c \in DOMAIN z :
           z[c] = IF c = e.cert /\ e.type = "ISSUE" /\ ~(c \in DOMAIN y /\ y[c].revoked)
                  THEN [id |-> e.id, revoked |-> FALSE]
                  ELSE IF c = e.cert /\ e.type = "REVOKE"
                  THEN [id |-> y[c].id, revoked |-> TRUE] ELSE y[c]
  BY DEF FoldsTo
<1>2. ASSUME NEW c \in DOMAIN x, c \notin certs \/ x[c].revoked
      PROVE  c \in DOMAIN z /\ z[c] = x[c]
  <2>1. c \in DOMAIN y /\ y[c] = x[c] /\ c \in DOMAIN z
    BY <1>1, <1>2 DEF Spared
  <2>2. x[c] = [id |-> x[c].id, revoked |-> x[c].revoked] /\ x[c].revoked \in BOOLEAN
    BY EntryIs
  <2>3. CASE c = e.cert /\ e.type = "ISSUE" /\ ~x[c].revoked
    <3>1. z[c] = [id |-> e.id, revoked |-> FALSE]
      BY <1>1, <2>1, <2>3
    <3>2. x[c].id = e.id /\ x[c].revoked = FALSE
      BY <2>2, <2>3 DEF Sparing
    <3>3. QED
      BY <2>1, <2>2, <3>1, <3>2
  <2>4. CASE c = e.cert /\ e.type = "REVOKE"
    <3>1. z[c] = [id |-> x[c].id, revoked |-> TRUE]
      BY <1>1, <2>1, <2>4
    <3>2. x[c].revoked = TRUE
      BY <1>2, <2>2, <2>4 DEF Sparing
    <3>3. QED
      BY <2>1, <2>2, <3>1, <3>2
  <2>5. CASE ~(c = e.cert /\ e.type = "ISSUE" /\ ~x[c].revoked) /\ ~(c = e.cert /\ e.type = "REVOKE")
    BY <1>1, <2>1, <2>5
  <2>6. QED
    BY <2>3, <2>4, <2>5
<1>3. ASSUME NEW c \in DOMAIN z, c \notin DOMAIN x
      PROVE  z[c].id \in ids
  <2>1. CASE c = e.cert /\ e.type = "ISSUE" /\ ~(c \in DOMAIN y /\ y[c].revoked)
    <3>1. z[c] = [id |-> e.id, revoked |-> FALSE]
      BY <1>1, <2>1
    <3>2. z[c].id = e.id
      BY <3>1
    <3>3. QED
      BY <2>1, <3>2 DEF Sparing
  <2>2. CASE c = e.cert /\ e.type = "REVOKE"
    <3>1. z[c] = [id |-> y[c].id, revoked |-> TRUE] /\ c \in DOMAIN y
      BY <1>1, <2>2
    <3>2. z[c].id = y[c].id
      BY <3>1
    <3>3. QED
      BY <1>3, <3>1, <3>2 DEF Spared
  <2>3. CASE /\ ~(c = e.cert /\ e.type = "ISSUE" /\ ~(c \in DOMAIN y /\ y[c].revoked))
             /\ ~(c = e.cert /\ e.type = "REVOKE")
    <3>1. z[c] = y[c] /\ c \in DOMAIN y
      BY <1>1, <2>3
    <3>2. QED
      BY <1>3, <3>1 DEF Spared
  <2>4. QED
    BY <2>1, <2>2, <2>3
<1>4. QED
  BY <1>2, <1>3 DEF Spared

\* A certificate with the name of a re-issued one belongs to the identity that
\* the name is made of.
OwnNames(s) ==
    \A p \in 1..Len(s) : \A i, n :
        s[p].type = "ISSUE" /\ s[p].cert = ReissuedName(i, n) => s[p].id = i

LEMMA ForkSpares ==
    ASSUME NEW u, NEW t, IsSeq(t.events), OwnNames(t.events), NEW bad \in 0..Len(t.events),
           NEW root, NEW epoch, Recovered(u, t, bad, root, epoch)
    PROVE  Spared(Fold(u.events), Fold(SubSeq(t.events, 1, bad)),
                  AffectedCerts(t.events, bad), AffectedIds(t.events, bad))
<1> DEFINE s == u.events
           N == Len(s)
           a == SubSeq(t.events, 1, bad)
           certs == AffectedCerts(t.events, bad)
           ids == AffectedIds(t.events, bad)
<1>0. IsSeq(s) /\ N \in Nat /\ Len(t.events) \in Nat /\ bad \in Nat
  BY SeqShape DEF Recovered
<1>1. PICK m \in bad + 1..N - 1 : Parts(u, t, bad, root, epoch, m)
  BY DEF Recovered
<1>2. PICK f : Folding(f, s)
  BY <1>0, FoldIs
<1>3. /\ Fold(s) = f[N]
      /\ \A n \in 1..N : FoldsTo(f[n], f[n - 1], s[n])
      /\ \A n \in 0..N : Amounts(f[n], s, n)
  BY <1>2 DEF Folding
<1>4. IsSeq(a) /\ Len(a) = bad /\ Starts(a, s)
  <2>1. IsSeq(a) /\ Len(a) = bad /\ \A i \in 1..bad : a[i] = t.events[i]
    BY CutSeq
  <2>2. \A i \in 1..bad : s[i] = t.events[i]
    BY <1>1 DEF Parts
  <2>3. bad <= N
    BY <1>0, <1>1
  <2> HIDE DEF a
  <2>4. QED
    BY <2>1, <2>2, <2>3 DEF Starts
<1>5. Fold(a) = f[bad]
  BY <1>0, <1>2, <1>4, FoldPrefix
<1> DEFINE x == f[bad]
<1>6. Amounts(x, s, bad)
  <2>1. bad \in 0..N
    BY <1>0, <1>1
  <2>2. QED
    BY <1>3, <2>1
<1>7. \A c \in DOMAIN x : IsEntry(x[c]) /\ OwnedBy(s, c, bad, x[c].id)
  BY <1>6 DEF Amounts
<1> HIDE DEF x
<1>8. ASSUME NEW c \in DOMAIN x, NEW i, NEW n, c = ReissuedName(i, n)
      PROVE  x[c].id = i
  <2>1. PICK p \in 1..bad : s[p].type = "ISSUE" /\ s[p].cert = c /\ s[p].id = x[c].id
    BY <1>7 DEF OwnedBy
  <2>2. s[p] = t.events[p] /\ p \in 1..Len(t.events)
    BY <1>0, <1>1 DEF Parts
  <2>3. QED
    BY <1>8, <2>1, <2>2 DEF OwnNames
<1>9. ASSUME NEW n \in bad + 1..N PROVE Sparing(s[n], x, certs, ids)
  <2>1. CASE n = bad + 1 \/ n = N
    BY <1>1, <2>1 DEF Parts, Sparing
  <2>2. CASE n \in bad + 2..m
    <3>1. s[n].type = "ISSUE" /\ s[n].id \in ids /\ s[n].cert = ReissuedName(s[n].id, epoch)
      BY <1>1, <2>2 DEF Parts
    <3>2. QED
      BY <1>8, <3>1 DEF Sparing
  <2>3. CASE n \in m + 1..N - 1
    BY <1>1, <2>3 DEF Parts, Sparing
  <2>4. QED
    BY <1>0, <1>1, <2>1, <2>2, <2>3
<1> HIDE DEF certs, ids
<1> DEFINE Fails == {n \in Nat : n <= N /\ bad <= n /\ ~Spared(f[n], x, certs, ids)}
<1>10. Fails = {}
  <2> SUFFICES ASSUME Fails # {} PROVE FALSE
    OBVIOUS
  <2>1. Min(Fails) \in Fails /\ \A y \in Fails : Min(Fails) <= y
    BY MinNat
  <2> DEFINE n == Min(Fails)
  <2> HIDE DEF n
  <2>2. n \in Nat /\ n <= N /\ bad <= n /\ ~Spared(f[n], x, certs, ids)
    BY <2>1 DEF n
  <2>3. n # bad
    <3>1. Spared(x, x, certs, ids)
      BY DEF Spared
    <3>2. QED
      BY <2>2, <3>1 DEF x
  <2>4. /\ n - 1 \in Nat /\ n - 1 <= N /\ bad <= n - 1 /\ ~(n <= n - 1)
        /\ n \in 1..N /\ n \in bad + 1..N
    BY <1>0, <2>2, <2>3
  <2>5. n - 1 \notin Fails
    BY <2>1, <2>4 DEF n
  <2>6. Spared(f[n - 1], x, certs, ids)
    BY <2>4, <2>5
  <2>7. FoldsTo(f[n], f[n - 1], s[n]) /\ Sparing(s[n], x, certs, ids)
    BY <1>3, <1>9, <2>4
  <2>8. \A c \in DOMAIN x : IsEntry(x[c])
    BY <1>7
  <2>9. Spared(f[n], x, certs, ids)
    BY <2>6, <2>7, <2>8, SparedNext
  <2>10. QED
    BY <2>2, <2>9
<1>11. Spared(f[N], x, certs, ids)
  <2>1. N \notin Fails /\ bad <= N
    BY <1>0, <1>1, <1>10
  <2>2. QED
    BY <1>0, <2>1
<1>12. QED
  BY <1>3, <1>5, <1>11 DEF x, certs, ids
-----------------------------------------------------------------------------
(* Names.                                                                  *)

\* Operators leave the names that recoveries give to re-issued certificates to
\* the recoveries.
NamesReserved == \A c \in Certs : \A i, n : c # ReissuedName(i, n)

NamesInv == OwnNames(tl.events) /\ \A r \in forks : OwnNames(r.pre.events)

LEMMA ForkNames ==
    ASSUME NEW u, NEW t, OwnNames(t.events), IsSeq(t.events), NEW bad \in 0..Len(t.events),
           NEW root, NEW epoch, Recovered(u, t, bad, root, epoch)
    PROVE  OwnNames(u.events)
<1>0. IsSeq(u.events) /\ Len(u.events) \in Nat /\ Len(t.events) \in Nat /\ bad \in Nat
  BY SeqShape DEF Recovered
<1>1. PICK m \in bad + 1..Len(u.events) - 1 : Parts(u, t, bad, root, epoch, m)
  BY DEF Recovered
<1>2. ASSUME NEW p \in 1..Len(u.events), NEW i, NEW n,
             u.events[p].type = "ISSUE", u.events[p].cert = ReissuedName(i, n)
      PROVE  u.events[p].id = i
  <2>1. CASE p \in 1..bad
    <3>1. u.events[p] = t.events[p] /\ p \in 1..Len(t.events)
      BY <1>0, <1>1, <2>1 DEF Parts
    <3>2. QED
      BY <1>2, <3>1 DEF OwnNames
  <2>2. CASE p \in bad + 2..m
    <3>1. u.events[p].cert = ReissuedName(u.events[p].id, epoch)
      BY <1>1, <2>2 DEF Parts
    <3>2. QED
      BY <1>2, <3>1 DEF ReissuedName
  <2>3. CASE p = bad + 1 \/ p \in m + 1..Len(u.events) - 1 \/ p = Len(u.events)
    BY <1>1, <1>2, <2>3 DEF Parts
  <2>4. QED
    BY <1>0, <1>1, <2>1, <2>2, <2>3
<1>3. QED
  BY <1>2 DEF OwnNames

LEMMA AppendNames ==
    ASSUME OrgInv, NamesInv, NEW b, tl' = AppendEv(tl, b), UNCHANGED forks,
           \/ \E c, i, v : b = IssueEv(c, i, v) /\ \A o, n : c # ReissuedName(o, n)
           \/ \E c : b = RevokeEv(c)
           \/ \E n : b = DetectedEv(n)
    PROVE  NamesInv'
<1> DEFINE n == Len(tl.events)
           e == tl'.events[n + 1]
<1>0. IsTimeline(tl) /\ IsSeq(tl.events) /\ n \in Nat
  BY SeqShape DEF OrgInv, Healthy
<1>1. ExtendedBy(tl', tl, b)
  BY <1>0, AppendOne
<1>2. /\ Len(tl'.events) = n + 1
      /\ \A i \in 1..n : tl'.events[i] = tl.events[i]
      /\ Signed(e, b, tl.key)
  BY <1>1 DEF ExtendedBy, Signed
<1>3. ASSUME NEW o, NEW k, e.type = "ISSUE", e.cert = ReissuedName(o, k) PROVE FALSE
  <2>1. ASSUME NEW c, NEW i, NEW v, b = IssueEv(c, i, v), c # ReissuedName(o, k) PROVE FALSE
    BY <1>2, <1>3, <2>1, IssueSays
  <2>2. ASSUME NEW c, b = RevokeEv(c) PROVE FALSE
    BY <1>2, <1>3, <2>2, RevokeSays
  <2>3. ASSUME NEW d, b = DetectedEv(d) PROVE FALSE
    BY <1>2, <1>3, <2>3, DetectedSays
  <2>4. QED
    BY <2>1, <2>2, <2>3
<1>4. ASSUME NEW p \in 1..n + 1, NEW o, NEW k,
             tl'.events[p].type = "ISSUE", tl'.events[p].cert = ReissuedName(o, k)
      PROVE  tl'.events[p].id = o
  <2>1. p # n + 1
    BY <1>3, <1>4
  <2>2. p \in 1..n
    BY <1>0, <2>1
  <2>3. QED
    BY <1>2, <1>4, <2>2 DEF NamesInv, OwnNames
<1>5. OwnNames(tl'.events)
  BY <1>2, <1>4 DEF OwnNames
<1>6. QED
  BY <1>5 DEF NamesInv

LEMMA NextNamesInv ==
    ASSUME NilIsNoDigest, NamesReserved, OrgInv, NamesInv, [OrgNext]_orgVars
    PROVE  NamesInv'
<1>1. ASSUME NEW c \in Certs, NEW i \in Ids, NEW v \in Certs \cup {None}, Issue(c, i, v)
      PROVE  NamesInv'
  <2>1. \A o, n : c # ReissuedName(o, n)
    BY DEF NamesReserved
  <2>2. tl' = AppendEv(tl, IssueEv(c, i, v)) /\ UNCHANGED forks
    BY <1>1 DEF Issue, AppendAndSave
  <2>3. QED
    BY <2>1, <2>2, AppendNames
<1>2. ASSUME NEW c \in Certs, Revoke(c)
      PROVE  NamesInv'
  BY <1>2, AppendNames DEF Revoke, AppendAndSave
<1>3. ASSUME NEW bad \in 0..Len(tl.events), Detect(bad)
      PROVE  NamesInv'
  BY <1>3, AppendNames DEF Detect, AppendAndSave
<1>4. ASSUME NEW net \in BOOLEAN, CouncilRecover(net)
      PROVE  NamesInv'
  <2>1. PICK u, bad : forks' = forks \cup {[pre |-> tl, bad |-> bad, fork |-> u]}
    BY <1>4 DEF CouncilRecover
  <2> DEFINE new == [pre |-> tl, bad |-> bad, fork |-> u]
  <2>2. new.pre = tl
    OBVIOUS
  <2> HIDE DEF new
  <2>3. \A r \in forks' : r \in forks \/ r = new
    BY <2>1 DEF new
  <2>4. UNCHANGED tl
    BY <1>4 DEF CouncilRecover
  <2>5. QED
    BY <2>2, <2>3, <2>4 DEF NamesInv
<1>5. ASSUME NEW r \in forks, NEW k \in BOOLEAN, Adopt(r, k)
      PROVE  NamesInv'
  <2>1. tl'.events = r.fork.events /\ UNCHANGED forks
    BY <1>5, AdoptKeeps DEF Adopt
  <2>2. ForkInv(r) /\ OwnNames(r.pre.events)
    BY DEF OrgInv, NamesInv
  <2>3. PICK root, epoch : Recovered(r.fork, r.pre, r.bad, root, epoch)
    BY <2>2 DEF ForkInv
  <2>4. OwnNames(r.fork.events)
    BY <2>2, <2>3, ForkNames DEF ForkInv, Healthy
  <2>5. QED
    BY <2>1, <2>4 DEF NamesInv
<1>6. CASE UNCHANGED <<tl, forks>>
  BY <1>6 DEF NamesInv
<1>7. QED
  BY <1>1, <1>2, <1>3, <1>4, <1>5, <1>6
     DEF OrgNext, orgVars, DetectReadOnly, AllClear

\* A recovery changes no certificate of the verified prefix but those that the
\* bad window taints, adds certificates for the window's identities only, and
\* passes the council's own check, provided that operators keep away from the
\* names of re-issued certificates.
THEOREM BlastIsMinimal ==
    ASSUME NilIsNoDigest, NamesReserved
    PROVE  OrgSpec => []MinimalBlast
<1>1. OrgInit => NamesInv
  <2> SUFFICES ASSUME OrgInit PROVE NamesInv
    OBVIOUS
  <2>1. tl.events = <<>> /\ forks = {}
    BY DEF OrgInit, NewTimeline
  <2>2. Len(<<>>) = 0
    BY EmptySeq
  <2>3. QED
    BY <2>1, <2>2 DEF NamesInv, OwnNames
<1>2. OrgInv /\ NamesInv /\ [OrgNext]_orgVars => NamesInv'
  BY NextNamesInv
<1>3. ASSUME OrgInv, NamesInv, NEW r \in forks
      PROVE  LET pre  == Fold(SubSeq(r.pre.events, 1, r.bad))
                 post == Fold(r.fork.events)
                 ids  == AffectedIds(r.pre.events, r.bad)
             IN  /\ P5(pre, post, Tainted(r.pre.events, WindowCerts(r, {"ISSUE", "REVOKE"})), ids)
                 /\ VerifyRecovery(pre, post, AffectedCerts(r.pre.events, r.bad), ids)
  <2> DEFINE s == r.pre.events
             B == WindowCerts(r, {"ISSUE", "REVOKE"})
             certs == AffectedCerts(s, r.bad)
             ids == AffectedIds(s, r.bad)
             pre == Fold(SubSeq(s, 1, r.bad))
             post == Fold(r.fork.events)
  <2>0. /\ ForkInv(r) /\ OwnNames(s) /\ IsSeq(s) /\ r.bad \in 0..Len(s)
    BY <1>3 DEF OrgInv, NamesInv, ForkInv, Healthy
  <2>1. PICK root, epoch : Recovered(r.fork, r.pre, r.bad, root, epoch)
    BY <2>0 DEF ForkInv
  <2>2. Spared(post, pre, certs, ids)
    BY <2>0, <2>1, ForkSpares
  <2>3. Tainted(s, B) = certs
    <3>1. certs = Reachable(s, B)
      BY DEF AffectedCerts, WindowCerts
    <3> HIDE DEF B, certs
    <3>2. IsFiniteSet(Issues(s))
      BY <2>0, EventsFinite
    <3>3. QED
      BY <3>1, <3>2, ReachableIsTainted
  <2> HIDE DEF pre, post, certs, ids, B
  <2>4. P5(pre, post, certs, ids) /\ P3(pre, post)
    BY <2>2 DEF Spared, P5, P3, RevokedCerts
  <2>5. QED
    BY <2>3, <2>4 DEF VerifyRecovery, pre, post, certs, ids, B
<1>4. OrgInv /\ NamesInv => MinimalBlast
  BY <1>3 DEF MinimalBlast
<1>5. QED
  BY <1>1, <1>2, <1>4, OrgInvariant, PTL DEF OrgSpec
=============================================================================
