--------------------------- MODULE ObserverProofs ---------------------------
(***************************************************************************)
(* Those who watch an organisation's timeline: the fleet of watchdogs and  *)
(* the reporters of the transparency log.                                  *)
(*                                                                         *)
(* The organisation's flag is the fleet's verdict once all frames are      *)
(* through, for any watchdogs, quorum and capacity of the subscription.    *)
(*                                                                         *)
(* The proofs that the transparency log serves verify exactly for what     *)
(* they prove, in trees of every size, and a tree head that the gossip     *)
(* endpoint accepts extends the trusted one.                               *)
(***************************************************************************)
EXTENDS Fleet, CTLog, FiniteSetTheorems, SequenceTheorems, NaturalsInduction,
        WellFoundedInduction, TLAPS
-----------------------------------------------------------------------------
(* The fleet                                                               *)

\* A nonempty set of natural numbers has a least element, which Min returns.
LEMMA MinNat ==
    ASSUME NEW S \in SUBSET Nat, S # {}
    PROVE  Min(S) \in S
<1> DEFINE Less == {ss \in Nat \X Nat : ss[1] < ss[2]}
<1>1. IsWellFoundedOn(Less, Nat)
  BY NatLessThanWellFounded, Zenon DEF OpToRel
<1> HIDE DEF Less
<1>2. PICK x \in S : \A y \in S : ~(<<y, x>> \in Less)
  BY <1>1, WFMin
<1>3. ASSUME NEW y \in S PROVE x <= y
  <2> SUFFICES ASSUME ~(x <= y) PROVE FALSE
    OBVIOUS
  <2>1. x \in Nat /\ y \in Nat /\ y < x
    OBVIOUS
  <2>2. <<y, x>> \in Less
    BY <2>1 DEF Less
  <2> QED BY <1>2, <2>2
<1> QED BY <1>2, <1>3 DEF Min

\* minBadIndex names an index of the chain, or none.
LEMMA VerdictType ==
    ASSUME TypeOK
    PROVE  Verdict \in Verdicts
<1> DEFINE named == {scores[n].bad : n \in Low} \ {NoIndex}
<1>1. named \subseteq 0..MaxLen
  BY FleetParams DEF TypeOK, Low, Fresh, NoIndex
<1>2. named # {} => Min(named) \in 0..MaxLen
  BY <1>1, MinNat
<1>3. MinBadIndex = IF named = {} THEN -1 ELSE Min(named)
  BY DEF MinBadIndex
<1> HIDE DEF named
<1>4. MinBadIndex \in -1..MaxLen
  BY <1>2, <1>3, FleetParams
<1>5. Detect \in BOOLEAN
  BY DEF Detect
<1> QED BY <1>4, <1>5 DEF Verdict, Verdicts

\* A length cut off at MaxLen is a length.
LEMMA AtMostType ==
    ASSUME NEW n \in Nat
    PROVE  AtMost(n) \in 0..MaxLen /\ AtMost(n) \in Nat
<1>1. Min({n, MaxLen}) \in {n, MaxLen}
  BY MinNat, FleetParams
<1>2. Min({n, MaxLen}) <= MaxLen
  BY FleetParams DEF Min
<1> QED BY <1>1, <1>2, FleetParams DEF AtMost

\* Every reachable state is well typed.
THEOREM TypeCorrect == Spec => []TypeOK
<1> USE FleetParams DEF NoIndex, NoScore, NoAnchor
<1>1. Init => TypeOK
  <2> SUFFICES ASSUME Init PROVE TypeOK
    OBVIOUS
  <2>1. chan \in Seq(Verdicts) /\ Len(chan) <= Cap
    BY DEF Init
  <2>2. scores \in [Nodes -> [bad : -1..NoIndex, fresh : BOOLEAN]]
    BY DEF Init
  <2>3. detected \in BOOLEAN /\ current \in BOOLEAN
    BY Zenon DEF Init
  <2>4. view \in [Nodes -> -1..NoIndex] /\ anchor \in [at : -1..MaxLen, bad : 0..MaxLen]
    BY DEF Init
  <2> QED BY <2>1, <2>2, <2>3, <2>4 DEF Init, TypeOK
<1>2. TypeOK /\ [Next]_vars => TypeOK'
  <2> SUFFICES ASSUME TypeOK, [Next]_vars PROVE TypeOK'
    OBVIOUS
  <2> USE DEF TypeOK
  <2>1. ASSUME NEW n \in Nodes, Ingest(n) PROVE TypeOK'
    BY <2>1 DEF Ingest
  <2>2. ASSUME NEW n \in Nodes, Emit(n) PROVE TypeOK'
    <3>1. chan' = chan \/ (chan' = Append(chan, Verdict) /\ Len(chan) < Cap)
      BY <2>2 DEF Emit
    <3>2. chan' \in Seq(Verdicts) /\ Len(chan') <= Cap
      <4>1. CASE chan' = chan
        BY <4>1
      <4>2. CASE chan' = Append(chan, Verdict) /\ Len(chan) < Cap
        <5>1. Verdict \in Verdicts
          BY VerdictType
        <5>2. Append(chan, Verdict) \in Seq(Verdicts)
              /\ Len(Append(chan, Verdict)) = Len(chan) + 1 /\ Len(chan) \in Nat
          BY <5>1, AppendProperties, LenProperties
        <5> QED BY <4>2, <5>2
      <4> QED BY <3>1, <4>1, <4>2
    <3> QED BY <2>2, <3>2 DEF Emit
  <2>3. ASSUME NEW n \in Nodes, Expire(n) PROVE TypeOK'
    BY <2>3 DEF Expire
  <2>4. ASSUME NEW n \in Nodes, Toggle(n) PROVE TypeOK'
    BY <2>4 DEF Toggle
  <2>5. ASSUME NEW n \in Nodes, NEW b \in -1..NoIndex, Look(n, b) PROVE TypeOK'
    BY <2>5 DEF Look
  <2>6. CASE Watch
    <3>1. Head(chan) \in Verdicts /\ Len(Tail(chan)) <= Cap /\ Tail(chan) \in Seq(Verdicts)
      BY <2>6 DEF Watch
    <3>2. detected' \in BOOLEAN
      BY <2>6, <3>1 DEF Watch, Verdicts
    <3>3. AtMost(len + 1) \in 0..MaxLen
      <4>1. len + 1 \in Nat
        OBVIOUS
      <4> QED BY <4>1, AtMostType
    <3>4. len' \in 0..MaxLen
      BY <2>6, <3>3 DEF Watch
    <3>5. anchor' \in [at : -1..MaxLen, bad : 0..MaxLen]
      <4>1. Head(chan).bad \in -1..MaxLen
        BY <3>1 DEF Verdicts
      <4> DEFINE bad == IF Head(chan).bad < 0 THEN len ELSE Head(chan).bad
      <4>2. bad \in 0..MaxLen
        BY <4>1
      <4>3. anchor' = anchor \/ anchor' = [at |-> len, bad |-> bad]
        BY <2>6 DEF Watch
      <4> QED BY <4>2, <4>3
    <3> QED BY <2>6, <3>1, <3>2, <3>4, <3>5 DEF Watch
  <2>7. CASE Extend
    BY <2>7 DEF Extend
  <2>8. ASSUME NEW n \in 0..MaxLen, Adopt(n) PROVE TypeOK'
    <3>1. n + 2 \in Nat
      OBVIOUS
    <3>2. AtMost(n + 2) \in 0..MaxLen
      BY <3>1, AtMostType
    <3>3. view' \in [Nodes -> -1..NoIndex] /\ anchor' \in [at : -1..MaxLen, bad : 0..MaxLen]
      BY <2>8 DEF Adopt
    <3> QED BY <2>8, <3>2, <3>3 DEF Adopt
  <2>9. CASE UNCHANGED vars
    BY <2>9 DEF vars
  <2> QED BY <2>1, <2>2, <2>3, <2>4, <2>5, <2>6, <2>7, <2>8, <2>9 DEF Next
<1> QED BY <1>1, <1>2, PTL DEF Spec

(***************************************************************************)
(* The newest verdict on its way to the flag.                              *)
(***************************************************************************)

\* What the flag will be once the watcher has taken all that is queued.
Settled == IF chan = <<>> THEN detected ELSE chan[Len(chan)].det

\* AgreesWhenQuiet, before the watcher has caught up.
NewestIsRight == (inflight = {} /\ current) => Settled = Detect

\* However the two critical sections of Ingest interleave, the flag that
\* watchOrg leaves behind is the verdict over the scores as they are, unless
\* the last verdict was dropped, or silence or an adoption came after it.
THEOREM FlagAgrees == Spec => []AgreesWhenQuiet
<1>1. Init => NewestIsRight
  <2> SUFFICES ASSUME Init PROVE NewestIsRight
    OBVIOUS
  <2>1. Low = {}
    BY DEF Init, Low, Fresh
  <2>2. Cardinality(Low) = 0
    BY <2>1, FS_EmptySet
  <2>3. Detect = FALSE
    BY <2>2, FleetParams DEF Detect
  <2>4. Settled = FALSE
    BY Zenon DEF Init, Settled
  <2> QED BY <2>3, <2>4 DEF NewestIsRight
<1>2. TypeOK /\ NewestIsRight /\ [Next]_vars => NewestIsRight'
  <2> SUFFICES ASSUME TypeOK, NewestIsRight, [Next]_vars PROVE NewestIsRight'
    OBVIOUS
  <2>1. ASSUME UNCHANGED <<scores, enrolled>> PROVE Detect' = Detect
    BY <2>1 DEF Detect, Low, Fresh
  <2>2. ASSUME NEW n \in Nodes, Ingest(n) PROVE NewestIsRight'
    BY <2>2 DEF Ingest, NewestIsRight
  <2>3. ASSUME NEW n \in Nodes, Emit(n) PROVE NewestIsRight'
    <3>1. CASE Len(chan) < Cap
      <4>1. chan' = Append(chan, Verdict) /\ UNCHANGED <<scores, enrolled>>
        BY <2>3, <3>1 DEF Emit
      <4>2. chan' # <<>> /\ chan'[Len(chan')] = Verdict
        BY <4>1 DEF TypeOK
      <4> QED BY <2>1, <4>1, <4>2 DEF NewestIsRight, Settled, Verdict
    <3>2. CASE ~(Len(chan) < Cap)
      BY <2>3, <3>2 DEF Emit, NewestIsRight
    <3> QED BY <3>1, <3>2
  <2>4. ASSUME NEW n \in Nodes, Expire(n) PROVE NewestIsRight'
    BY <2>4 DEF Expire, NewestIsRight
  <2>5. ASSUME NEW n \in Nodes, Toggle(n) \/ \E b \in -1..NoIndex : Look(n, b)
        PROVE  NewestIsRight'
    BY <2>1, <2>5 DEF Toggle, Look, NewestIsRight, Settled
  <2>6. CASE Watch
    <3>1. chan # <<>> /\ chan' = Tail(chan) /\ detected' = Head(chan).det
          /\ UNCHANGED <<scores, enrolled, inflight, current>>
      BY <2>6 DEF Watch
    <3>2. Settled' = Settled
      <4>0. /\ chan \in Seq(Verdicts) /\ Len(chan) \in Nat \ {0}
            /\ Len(chan') = Len(chan) - 1
            /\ \A i \in 1..Len(chan') : chan'[i] = chan[i + 1]
        BY <3>1, HeadTailProperties, EmptySeq DEF TypeOK
      <4>1. CASE Len(chan) = 1
        BY <3>1, <4>1 DEF TypeOK, Settled
      <4>2. CASE Len(chan) > 1
        <5>1. chan' # <<>> /\ chan'[Len(chan')] = chan[Len(chan)]
          BY <4>0, <4>2
        <5> QED BY <3>1, <5>1 DEF Settled
      <4> QED BY <4>0, <4>1, <4>2
    <3> QED BY <2>1, <3>1, <3>2 DEF NewestIsRight
  <2>7. CASE Extend
    BY <2>1, <2>7 DEF Extend, NewestIsRight, Settled
  <2>8. ASSUME NEW n \in 0..MaxLen, Adopt(n) PROVE NewestIsRight'
    BY <2>8 DEF Adopt, NewestIsRight
  <2>9. CASE UNCHANGED vars
    BY <2>1, <2>9 DEF vars, NewestIsRight, Settled
  <2> QED BY <2>2, <2>3, <2>4, <2>5, <2>6, <2>7, <2>8, <2>9 DEF Next
<1>3. NewestIsRight => AgreesWhenQuiet
  BY DEF NewestIsRight, AgreesWhenQuiet, Settled
<1> QED BY <1>1, <1>2, <1>3, TypeCorrect, PTL DEF Spec

-----------------------------------------------------------------------------
(* Induction and recursion over the naturals.                              *)

\* A set of naturals that has zero and successors is all of them.
LEMMA InductiveSet ==
    ASSUME NEW G, 0 \in G, \A n \in Nat : n \in G => n + 1 \in G
    PROVE  \A n \in Nat : n \in G
<1> DEFINE Less == {ss \in Nat \X Nat : ss[1] < ss[2]}
           Fails == {n \in Nat : n \notin G}
<1>1. IsWellFoundedOn(Less, Nat)
  BY NatLessThanWellFounded, Zenon DEF OpToRel
<1> HIDE DEF Less
<1>2. ASSUME Fails # {} PROVE FALSE
  <2>1. PICK x \in Fails : \A y \in Fails : ~(<<y, x>> \in Less)
    BY <1>1, <1>2, WFMin
  <2>2. x \in Nat /\ x # 0 /\ x \notin G
    BY <2>1
  <2>3. x - 1 \in Nat /\ x - 1 < x /\ (x - 1) + 1 = x
    BY <2>2
  <2>4. x - 1 \notin G
    BY <2>2, <2>3
  <2>5. <<x - 1, x>> \in Less
    BY <2>2, <2>3 DEF Less
  <2>6. QED
    BY <2>1, <2>3, <2>4, <2>5
<1>3. QED
  BY <1>2

\* Recursion from b by a function of the last value and the next number.
Steps(g, b, step, n) ==
    /\ g \in [0..n -> Int] /\ g[0] = b
    /\ \A i \in 1..n : g[i] = step[<<g[i - 1], i>>]

\* Such a recursion has a value at every number.
LEMMA RecursionExists ==
    ASSUME NEW b \in Int, NEW step \in [Int \X Nat -> Int]
    PROVE  \A n \in Nat : \E g : Steps(g, b, step, n)
<1> DEFINE G == {n \in Nat : \E g : Steps(g, b, step, n)}
<1>1. 0 \in G
  <2> DEFINE g == [i \in 0..0 |-> b]
  <2>1. Steps(g, b, step, 0)
    BY DEF Steps
  <2>2. QED
    BY <2>1
<1>2. ASSUME NEW n \in Nat, n \in G PROVE n + 1 \in G
  <2>1. PICK g : Steps(g, b, step, n)
    BY <1>2
  <2>1a. g \in [0..n -> Int] /\ g[n] \in Int /\ <<g[n], n + 1>> \in Int \X Nat
    BY <2>1 DEF Steps
  <2> DEFINE h == [i \in 0..n + 1 |-> IF i = n + 1 THEN step[<<g[n], n + 1>>] ELSE g[i]]
  <2>2. h \in [0..n + 1 -> Int]
    <3>1. ASSUME NEW i \in 0..n + 1 PROVE h[i] \in Int
      <4>1. CASE i = n + 1
        BY <2>1a, <4>1
      <4>2. CASE i # n + 1
        <5>1. i \in 0..n
          BY <4>2
        <5>2. QED
          BY <2>1a, <4>2, <5>1
      <4>3. QED
        BY <4>1, <4>2
    <3>2. QED
      BY <3>1
  <2>3. h[0] = b
    BY <2>1 DEF Steps
  <2>4. ASSUME NEW i \in 1..n + 1 PROVE h[i] = step[<<h[i - 1], i>>]
    <3>1. i - 1 \in 0..n + 1 /\ i - 1 # n + 1 /\ i \in 0..n + 1
      OBVIOUS
    <3>2. h[i - 1] = g[i - 1]
      BY <3>1
    <3>3. CASE i = n + 1
      <4>1. h[i] = step[<<g[n], n + 1>>] /\ i - 1 = n
        BY <3>3
      <4>2. QED
        BY <3>2, <3>3, <4>1
    <3>4. CASE i # n + 1
      <4>1. i \in 1..n /\ h[i] = g[i]
        BY <3>1, <3>4
      <4>2. g[i] = step[<<g[i - 1], i>>]
        BY <2>1, <4>1 DEF Steps
      <4>3. QED
        BY <3>2, <4>1, <4>2
    <3>5. QED
      BY <3>3, <3>4
  <2> HIDE DEF h
  <2>5. Steps(h, b, step, n + 1)
    BY <2>2, <2>3, <2>4 DEF Steps
  <2>6. QED
    BY <2>5
<1> HIDE DEF G
<1>3. \A n \in Nat : n \in G
  BY <1>1, <1>2, InductiveSet
<1>4. QED
  BY <1>3 DEF G
-----------------------------------------------------------------------------
(* Shifts and powers of two: what the loops over the bits compute.         *)

\* The powers of two.
LEMMA Pow2Steps ==
    ASSUME NEW n \in Nat
    PROVE  \E h \in [0..n -> Int] :
             /\ h[0] = 1
             /\ \A i \in 1..n : h[i] = 2 * h[i - 1]
             /\ \A m \in 0..n : Pow2(m) = h[m]
<1> DEFINE step == [p \in Int \X Nat |-> 2 * p[1]]
           Unfold(g, m) == [i \in 0..m |-> IF i = 0 THEN 1 ELSE 2 * g[i - 1]]
<1>1. step \in [Int \X Nat -> Int]
  OBVIOUS
<1>2. PICK h : Steps(h, 1, step, n)
  BY <1>1, RecursionExists
<1>3. h \in [0..n -> Int] /\ h[0] = 1
  BY <1>2 DEF Steps
<1>4. ASSUME NEW i \in 1..n PROVE h[i] = 2 * h[i - 1]
  <2>1. i - 1 \in 0..n /\ h[i - 1] \in Int /\ <<h[i - 1], i>> \in Int \X Nat
    BY <1>3
  <2>2. h[i] = step[<<h[i - 1], i>>]
    BY <1>2 DEF Steps
  <2>3. QED
    BY <2>1, <2>2
<1> HIDE DEF step
<1>5. ASSUME NEW m \in 0..n PROVE Pow2(m) = h[m]
  <2> DEFINE k == [i \in 0..m |-> h[i]]
  <2>1. k = Unfold(k, m)
    <3>1. ASSUME NEW i \in 0..m PROVE k[i] = Unfold(k, m)[i]
      <4>1. CASE i = 0
        BY <1>3, <4>1
      <4>2. CASE i # 0
        <5>1. i \in 1..n /\ i - 1 \in 0..m
          BY <4>2
        <5>2. h[i] = 2 * h[i - 1] /\ k[i - 1] = h[i - 1] /\ k[i] = h[i]
          BY <1>4, <5>1
        <5>3. QED
          BY <4>2, <5>2
      <4>3. QED
        BY <4>1, <4>2
    <3>2. k = [i \in 0..m |-> k[i]]
      OBVIOUS
    <3>3. QED
      BY <3>1, <3>2
  <2> DEFINE g == CHOOSE y : y = Unfold(y, m)
  <2>2. g = Unfold(g, m)
    BY <2>1
  <2>3. Pow2(m) = g[m]
    BY Zenon DEF Pow2
  <2> HIDE DEF g
  <2> DEFINE S == {i \in Nat : i <= m => g[i] = h[i]}
  <2>4. 0 \in S
    BY <1>3, <2>2
  <2>5. ASSUME NEW i \in Nat, i \in S PROVE i + 1 \in S
    <3>1. ASSUME i + 1 <= m PROVE g[i + 1] = h[i + 1]
      <4>1. i + 1 \in 1..n /\ i + 1 \in 0..m /\ i + 1 # 0 /\ (i + 1) - 1 = i /\ i <= m
        BY <3>1
      <4>2. g[i] = h[i]
        BY <2>5, <4>1
      <4>3. g[i + 1] = Unfold(g, m)[i + 1]
        BY <2>2
      <4>4. h[i + 1] = 2 * h[(i + 1) - 1]
        BY <1>4, <4>1
      <4>5. QED
        BY <4>1, <4>2, <4>3, <4>4
    <3>2. QED
      BY <3>1
  <2> HIDE DEF S
  <2>6. m \in S
    BY <2>4, <2>5, InductiveSet
  <2>7. QED
    BY <2>3, <2>6 DEF S
<1>6. QED
  BY <1>3, <1>4, <1>5

\* Their equations.
LEMMA Pow2Equations ==
    ASSUME NEW n \in Nat
    PROVE  /\ Pow2(0) = 1
           /\ Pow2(n) \in Int
           /\ Pow2(n + 1) = 2 * Pow2(n)
<1>0. n + 1 \in Nat
  OBVIOUS
<1>1. PICK h \in [0..n + 1 -> Int] : /\ h[0] = 1
                                     /\ \A i \in 1..n + 1 : h[i] = 2 * h[i - 1]
                                     /\ \A m \in 0..n + 1 : Pow2(m) = h[m]
  BY <1>0, Pow2Steps
<1>2. n \in 0..n + 1 /\ n + 1 \in 1..n + 1 /\ (n + 1) - 1 = n /\ n + 1 \in 0..n + 1 /\ 0 \in 0..n + 1
  OBVIOUS
<1>3. h[n + 1] = 2 * h[n]
  BY <1>1, <1>2
<1>4. QED
  BY <1>1, <1>2, <1>3

\* The halves of x.
LEMMA ShrSteps ==
    ASSUME NEW x \in Int, NEW n \in Nat
    PROVE  \E h \in [0..n -> Int] :
             /\ h[0] = x
             /\ \A i \in 1..n : h[i] = h[i - 1] \div 2
             /\ \A m \in 0..n : Shr(x, m) = h[m]
<1> DEFINE step == [p \in Int \X Nat |-> p[1] \div 2]
           Unfold(g, m) == [i \in 0..m |-> IF i = 0 THEN x ELSE g[i - 1] \div 2]
<1>1. step \in [Int \X Nat -> Int]
  OBVIOUS
<1>2. PICK h : Steps(h, x, step, n)
  BY <1>1, RecursionExists
<1>3. h \in [0..n -> Int] /\ h[0] = x
  BY <1>2 DEF Steps
<1>4. ASSUME NEW i \in 1..n PROVE h[i] = h[i - 1] \div 2
  <2>1. i - 1 \in 0..n /\ h[i - 1] \in Int /\ <<h[i - 1], i>> \in Int \X Nat
    BY <1>3
  <2>2. h[i] = step[<<h[i - 1], i>>]
    BY <1>2 DEF Steps
  <2>3. QED
    BY <2>1, <2>2
<1> HIDE DEF step
<1>5. ASSUME NEW m \in 0..n PROVE Shr(x, m) = h[m]
  <2> DEFINE k == [i \in 0..m |-> h[i]]
  <2>1. k = Unfold(k, m)
    <3>1. ASSUME NEW i \in 0..m PROVE k[i] = Unfold(k, m)[i]
      <4>1. CASE i = 0
        BY <1>3, <4>1
      <4>2. CASE i # 0
        <5>1. i \in 1..n /\ i - 1 \in 0..m
          BY <4>2
        <5>2. h[i] = h[i - 1] \div 2 /\ k[i - 1] = h[i - 1] /\ k[i] = h[i]
          BY <1>4, <5>1
        <5>3. QED
          BY <4>2, <5>2
      <4>3. QED
        BY <4>1, <4>2
    <3>2. k = [i \in 0..m |-> k[i]]
      OBVIOUS
    <3>3. QED
      BY <3>1, <3>2
  <2> DEFINE g == CHOOSE y : y = Unfold(y, m)
  <2>2. g = Unfold(g, m)
    BY <2>1
  <2>3. Shr(x, m) = g[m]
    BY Zenon DEF Shr
  <2> HIDE DEF g
  <2> DEFINE S == {i \in Nat : i <= m => g[i] = h[i]}
  <2>4. 0 \in S
    BY <1>3, <2>2
  <2>5. ASSUME NEW i \in Nat, i \in S PROVE i + 1 \in S
    <3>1. ASSUME i + 1 <= m PROVE g[i + 1] = h[i + 1]
      <4>1. i + 1 \in 1..n /\ i + 1 \in 0..m /\ i + 1 # 0 /\ (i + 1) - 1 = i /\ i <= m
        BY <3>1
      <4>2. g[i] = h[i]
        BY <2>5, <4>1
      <4>3. g[i + 1] = Unfold(g, m)[i + 1]
        BY <2>2
      <4>4. h[i + 1] = h[(i + 1) - 1] \div 2
        BY <1>4, <4>1
      <4>5. QED
        BY <4>1, <4>2, <4>3, <4>4
    <3>2. QED
      BY <3>1
  <2> HIDE DEF S
  <2>6. m \in S
    BY <2>4, <2>5, InductiveSet
  <2>7. QED
    BY <2>3, <2>6 DEF S
<1>6. QED
  BY <1>3, <1>4, <1>5

\* Their equations.
LEMMA ShrEquations ==
    ASSUME NEW x \in Int, NEW n \in Nat
    PROVE  /\ Shr(x, 0) = x
           /\ Shr(x, n) \in Int
           /\ Shr(x, n + 1) = Shr(x, n) \div 2
<1>0. n + 1 \in Nat
  OBVIOUS
<1>1. PICK h \in [0..n + 1 -> Int] : /\ h[0] = x
                                     /\ \A i \in 1..n + 1 : h[i] = h[i - 1] \div 2
                                     /\ \A m \in 0..n + 1 : Shr(x, m) = h[m]
  BY <1>0, ShrSteps
<1>2. n \in 0..n + 1 /\ n + 1 \in 1..n + 1 /\ (n + 1) - 1 = n /\ n + 1 \in 0..n + 1 /\ 0 \in 0..n + 1
  OBVIOUS
<1>3. h[n + 1] = h[n] \div 2
  BY <1>1, <1>2
<1>4. QED
  BY <1>1, <1>2, <1>3

\* Complete induction.
LEMMA CompleteInduction ==
    ASSUME NEW G, \A n \in Nat : (\A m \in 0..n - 1 : m \in G) => n \in G
    PROVE  \A n \in Nat : n \in G
<1> DEFINE H == {n \in Nat : \A m \in 0..n : m \in G}
<1>1. 0 \in H
  <2>1. \A m \in 0..0 - 1 : m \in G
    OBVIOUS
  <2>2. 0 \in G
    BY <2>1
  <2>3. QED
    BY <2>2
<1>2. ASSUME NEW n \in Nat, n \in H PROVE n + 1 \in H
  <2>1. \A m \in 0..(n + 1) - 1 : m \in G
    BY <1>2
  <2>2. n + 1 \in G
    BY <2>1
  <2>3. \A m \in 0..n + 1 : m \in 0..n \/ m = n + 1
    OBVIOUS
  <2>4. QED
    BY <1>2, <2>2, <2>3
<1>3. \A n \in Nat : n \in H
  <2> HIDE DEF H
  <2>1. QED
    BY <1>1, <1>2, InductiveSet
<1>4. QED
  BY <1>3

\* A loop that counts up stops at the least number that ends it.
LEMMA FirstIs ==
    ASSUME NEW S \in SUBSET Nat, NEW n \in S
    PROVE  /\ First(S) \in S /\ First(S) <= n
           /\ \A e \in 0..First(S) - 1 : e \notin S
<1> DEFINE Least(d) == \A e \in 0..d - 1 : e \notin S
           G == {m \in Nat : m \in S => \E d \in S : Least(d)}
<1>1. ASSUME NEW m \in Nat, \A e \in 0..m - 1 : e \in G PROVE m \in G
  <2>1. CASE Least(m)
    BY <2>1
  <2>2. CASE ~Least(m)
    <3>1. PICK e \in 0..m - 1 : e \in S
      BY <2>2
    <3>2. e \in G
      BY <1>1
    <3>3. QED
      BY <3>1, <3>2
  <2>3. QED
    BY <2>1, <2>2
<1>2. \A m \in Nat : m \in G
  <2> HIDE DEF G
  <2>1. QED
    BY <1>1, CompleteInduction
<1>3. \E d \in S : \A e \in 0..d - 1 : e \notin S
  BY <1>2
<1>4. First(S) \in S /\ \A e \in 0..First(S) - 1 : e \notin S
  BY <1>3 DEF First
<1>5. First(S) <= n
  <2>1. First(S) \in Nat /\ n \in Nat
    BY <1>4
  <2>2. ASSUME First(S) > n PROVE FALSE
    <3>1. n \in 0..First(S) - 1
      BY <2>1, <2>2
    <3>2. QED
      BY <1>4, <3>1
  <2>3. QED
    BY <2>1, <2>2
<1>6. QED
  BY <1>4, <1>5

\* The number that First names is the one that nothing in the set is below.
LEMMA FirstUnique ==
    ASSUME NEW S \in SUBSET Nat, NEW d \in S, \A e \in 0..d - 1 : e \notin S
    PROVE  First(S) = d
<1>1. /\ First(S) \in S /\ First(S) <= d /\ First(S) \in Nat /\ d \in Nat
  BY FirstIs
<1>2. ASSUME First(S) # d PROVE FALSE
  <2>1. First(S) \in 0..d - 1
    BY <1>1, <1>2
  <2>2. QED
    BY <1>1, <2>1
<1>3. QED
  BY <1>2

\* Powers of two are positive and outgrow their exponents.
LEMMA Pow2Facts ==
    \A n \in Nat : Pow2(n) \in Nat /\ Pow2(n) >= 1 /\ n < Pow2(n)
<1> DEFINE G == {n \in Nat : Pow2(n) \in Nat /\ Pow2(n) >= 1 /\ n < Pow2(n)}
<1>1. 0 \in G
  BY Pow2Equations
<1>2. ASSUME NEW n \in Nat, n \in G PROVE n + 1 \in G
  <2>1. PICK a \in Nat : a = Pow2(n) /\ a >= 1 /\ n < a
    BY <1>2
  <2>2. Pow2(n + 1) = 2 * a
    BY <2>1, Pow2Equations
  <2>3. n + 1 \in Nat
    OBVIOUS
  <2>4. QED
    BY <2>1, <2>2, <2>3
<1>3. \A n \in Nat : n \in G
  <2> HIDE DEF G
  <2>1. QED
    BY <1>1, <1>2, InductiveSet
<1>4. QED
  BY <1>3

\* A power of two above the first is twice the one before.
LEMMA Pow2Half ==
    ASSUME NEW n \in Nat, n # 0
    PROVE  n - 1 \in Nat /\ Pow2(n) = 2 * Pow2(n - 1)
<1>1. n - 1 \in Nat /\ (n - 1) + 1 = n
  OBVIOUS
<1>2. Pow2((n - 1) + 1) = 2 * Pow2(n - 1)
  BY <1>1, Pow2Equations
<1>3. QED
  BY <1>1, <1>2

\* A larger exponent at least doubles the power.
LEMMA Pow2Monotone ==
    ASSUME NEW e \in Nat, NEW d \in Nat, e < d
    PROVE  2 * Pow2(e) <= Pow2(d)
<1> DEFINE G == {n \in Nat : e < n => 2 * Pow2(e) <= Pow2(n)}
<1>1. 0 \in G
  OBVIOUS
<1>2. ASSUME NEW n \in Nat, n \in G PROVE n + 1 \in G
  <2>1. PICK a \in Nat, b \in Nat : a = Pow2(e) /\ b = Pow2(n)
    BY Pow2Facts
  <2>2. Pow2(n + 1) = 2 * b
    BY <2>1, Pow2Equations
  <2>3. ASSUME e < n + 1 PROVE 2 * a <= 2 * b
    <3>1. CASE e < n
      BY <1>2, <2>1, <3>1
    <3>2. CASE e = n
      BY <2>1, <3>2
    <3>3. QED
      BY <2>3, <3>1, <3>2
  <2>4. QED
    BY <2>1, <2>2, <2>3
<1>3. \A n \in Nat : n \in G
  <2> HIDE DEF G
  <2>1. QED
    BY <1>1, <1>2, InductiveSet
<1>4. QED
  BY <1>3

\* splitPoint is the largest power of two strictly below n.
LEMMA SplitUnique ==
    ASSUME NEW n \in Nat, NEW d \in Nat, Pow2(d) < n, n <= 2 * Pow2(d)
    PROVE  SplitPoint(n) = Pow2(d)
<1> DEFINE S == {c \in 0..n : 2 * Pow2(c) >= n}
<1>1. d \in S
  BY Pow2Facts
<1>2. ASSUME NEW e \in 0..d - 1 PROVE e \notin S
  <2>1. e \in Nat /\ e < d
    OBVIOUS
  <2>2. 2 * Pow2(e) <= Pow2(d) /\ Pow2(e) \in Nat /\ Pow2(d) \in Nat
    BY <2>1, Pow2Monotone, Pow2Facts
  <2>3. QED
    BY <2>2
<1>3. SplitPoint(n) = Pow2(First(S))
  BY DEF SplitPoint
<1>4. S \in SUBSET Nat
  OBVIOUS
<1> HIDE DEF S
<1>5. First(S) = d
  BY <1>1, <1>2, <1>4, FirstUnique
<1>6. QED
  BY <1>3, <1>5

\* splitPoint: the largest power of two below n.
LEMMA SplitIs ==
    ASSUME NEW n \in Nat, 2 <= n
    PROVE  \E d \in Nat : /\ SplitPoint(n) = Pow2(d) /\ Pow2(d) \in Nat /\ 1 <= Pow2(d)
                          /\ Pow2(d) < n /\ n <= 2 * Pow2(d)
<1> DEFINE S == {c \in 0..n : 2 * Pow2(c) >= n}
<1>1. n \in S
  <2>1. Pow2(n) \in Nat /\ n < Pow2(n)
    BY Pow2Facts
  <2>2. QED
    BY <2>1
<1>2. S \in SUBSET Nat
  OBVIOUS
<1>3. SplitPoint(n) = Pow2(First(S))
  BY DEF SplitPoint
<1>4. PICK d : d = First(S) /\ d \in S /\ \A e \in 0..d - 1 : e \notin S
  <2> HIDE DEF S
  <2>1. QED
    BY <1>1, <1>2, FirstIs
<1>5. d \in Nat /\ d <= n /\ n <= 2 * Pow2(d) /\ Pow2(d) \in Nat /\ Pow2(d) >= 1
  <2>1. d \in Nat /\ d <= n /\ 2 * Pow2(d) >= n
    BY <1>4
  <2>2. Pow2(d) \in Nat /\ Pow2(d) >= 1
    BY <2>1, Pow2Facts
  <2>3. QED
    BY <2>1, <2>2
<1>6. Pow2(d) < n
  <2>1. CASE d = 0
    BY <2>1, Pow2Equations
  <2>2. CASE d # 0
    <3>1. d - 1 \in Nat /\ Pow2(d) = 2 * Pow2(d - 1) /\ Pow2(d - 1) \in Nat
      BY <1>5, <2>2, Pow2Half, Pow2Facts
    <3>2. d - 1 \in 0..d - 1 /\ d - 1 \in 0..n
      BY <1>5, <3>1
    <3>3. d - 1 \notin S
      BY <1>4, <3>2
    <3>4. QED
      BY <3>1, <3>2, <3>3
  <2>3. QED
    BY <2>1, <2>2
<1>7. QED
  BY <1>3, <1>4, <1>5, <1>6

\* Shifting keeps the naturals ...
LEMMA ShrNat == ASSUME NEW x \in Nat PROVE \A d \in Nat : Shr(x, d) \in Nat
<1> DEFINE G == {d \in Nat : Shr(x, d) \in Nat}
<1>0. x \in Int
  OBVIOUS
<1>1. 0 \in G
  BY <1>0, ShrEquations
<1>2. ASSUME NEW d \in Nat, d \in G PROVE d + 1 \in G
  <2>1. PICK h \in Nat : h = Shr(x, d)
    BY <1>2
  <2>2. Shr(x, d + 1) = h \div 2
    BY <1>0, <2>1, ShrEquations
  <2>3. h \div 2 \in Nat
    OBVIOUS
  <2>4. QED
    BY <2>2, <2>3
<1>3. \A d \in Nat : d \in G
  <2> HIDE DEF G
  <2>1. QED
    BY <1>1, <1>2, InductiveSet
<1>4. QED
  BY <1>3

\* ... and their order.
LEMMA ShrMonotone ==
    ASSUME NEW x \in Nat, NEW y \in Nat, x <= y
    PROVE  \A d \in Nat : Shr(x, d) <= Shr(y, d)
<1> DEFINE G == {d \in Nat : Shr(x, d) <= Shr(y, d)}
<1>0. x \in Int /\ y \in Int
  OBVIOUS
<1>1. 0 \in G
  BY <1>0, ShrEquations
<1>2. ASSUME NEW d \in Nat, d \in G PROVE d + 1 \in G
  <2>1. PICK h \in Nat, k \in Nat : h = Shr(x, d) /\ k = Shr(y, d) /\ h <= k
    BY <1>2, ShrNat
  <2>2. Shr(x, d + 1) = h \div 2 /\ Shr(y, d + 1) = k \div 2
    BY <1>0, <2>1, ShrEquations
  <2>3. h \div 2 <= k \div 2
    BY <2>1
  <2>4. QED
    BY <2>2, <2>3
<1>3. \A d \in Nat : d \in G
  <2> HIDE DEF G
  <2>1. QED
    BY <1>1, <1>2, InductiveSet
<1>4. QED
  BY <1>3

\* Shifts leave a leading bit in front and shift what follows it.
LEMMA ShrAdd ==
    ASSUME NEW c \in Nat, NEW x \in Nat, x < Pow2(c)
    PROVE  \A z \in 0..c : /\ Shr(Pow2(c) + x, z) = Pow2(c - z) + Shr(x, z)
                           /\ Shr(x, z) < Pow2(c - z)
                           /\ c - z \in Nat /\ Pow2(c - z) \in Nat /\ Shr(x, z) \in Nat
<1> DEFINE G == {z \in Nat : z <= c => /\ Shr(Pow2(c) + x, z) = Pow2(c - z) + Shr(x, z)
                                       /\ Shr(x, z) < Pow2(c - z)}
<1>0. Pow2(c) \in Nat /\ x \in Int /\ Pow2(c) + x \in Int /\ c - 0 = c
  BY Pow2Facts
<1>1. 0 \in G
  BY <1>0, ShrEquations
<1>2. ASSUME NEW z \in Nat, z \in G PROVE z + 1 \in G
  <2>1. ASSUME z + 1 <= c
        PROVE  /\ Shr(Pow2(c) + x, z + 1) = Pow2(c - (z + 1)) + Shr(x, z + 1)
               /\ Shr(x, z + 1) < Pow2(c - (z + 1))
    <3>1. c - z \in Nat /\ c - z # 0 /\ (c - z) - 1 = c - (z + 1) /\ z <= c
      BY <2>1
    <3>2. PICK a \in Nat, h \in Nat : a = Pow2(c - (z + 1)) /\ h = Shr(x, z)
      BY <3>1, Pow2Half, Pow2Facts, ShrNat
    <3>3. Pow2(c - z) = 2 * a
      BY <3>1, <3>2, Pow2Half
    <3>4. Shr(Pow2(c) + x, z) = 2 * a + h /\ h < 2 * a
      BY <1>2, <3>1, <3>2, <3>3
    <3>5. Shr(Pow2(c) + x, z + 1) = (2 * a + h) \div 2 /\ Shr(x, z + 1) = h \div 2
      BY <1>0, <3>2, <3>4, ShrEquations
    <3>6. (2 * a + h) \div 2 = a + (h \div 2) /\ h \div 2 < a
      BY <3>4
    <3>7. QED
      BY <3>2, <3>5, <3>6
  <2>2. QED
    BY <2>1
<1>3. \A z \in Nat : z \in G
  <2> HIDE DEF G
  <2>1. QED
    BY <1>1, <1>2, InductiveSet
<1>4. \A z \in 0..c : c - z \in Nat /\ z \in Nat /\ z <= c
  OBVIOUS
<1>5. \A z \in 0..c : Pow2(c - z) \in Nat /\ Shr(x, z) \in Nat
  BY <1>4, Pow2Facts, ShrNat
<1>6. QED
  BY <1>3, <1>4, <1>5

\* A row of ones gets shorter.
LEMMA ShrOnes ==
    ASSUME NEW c \in Nat
    PROVE  \A z \in 0..c : Shr(Pow2(c) - 1, z) = Pow2(c - z) - 1
<1> DEFINE G == {z \in Nat : z <= c => Shr(Pow2(c) - 1, z) = Pow2(c - z) - 1}
<1>0. Pow2(c) - 1 \in Int /\ c - 0 = c
  BY Pow2Facts
<1>1. 0 \in G
  BY <1>0, ShrEquations
<1>2. ASSUME NEW z \in Nat, z \in G PROVE z + 1 \in G
  <2>1. ASSUME z + 1 <= c PROVE Shr(Pow2(c) - 1, z + 1) = Pow2(c - (z + 1)) - 1
    <3>1. c - z \in Nat /\ c - z # 0 /\ (c - z) - 1 = c - (z + 1) /\ z <= c
      BY <2>1
    <3>2. PICK a \in Nat : a = Pow2(c - (z + 1)) /\ a >= 1
      BY <3>1, Pow2Half, Pow2Facts
    <3>3. Pow2(c - z) = 2 * a
      BY <3>1, <3>2, Pow2Half
    <3>4. Shr(Pow2(c) - 1, z) = 2 * a - 1
      BY <1>2, <3>1, <3>3
    <3>5. Shr(Pow2(c) - 1, z + 1) = (2 * a - 1) \div 2
      <4>1. PICK b \in Int : b = Pow2(c) - 1
        BY <1>0
      <4>2. Shr(b, z + 1) = Shr(b, z) \div 2
        BY ShrEquations
      <4>3. QED
        BY <4>1, <4>2, <3>4
    <3>6. (2 * a - 1) \div 2 = a - 1
      BY <3>2
    <3>7. QED
      BY <3>2, <3>5, <3>6
  <2>2. QED
    BY <2>1
<1>3. \A z \in Nat : z \in G
  <2> HIDE DEF G
  <2>1. QED
    BY <1>1, <1>2, InductiveSet
<1>4. QED
  BY <1>3

\* Halving first and shifting then.
LEMMA ShrFront ==
    ASSUME NEW x \in Nat
    PROVE  \A d \in Nat : Shr(x, d + 1) = Shr(x \div 2, d)
<1> DEFINE G == {d \in Nat : Shr(x, d + 1) = Shr(x \div 2, d)}
<1>0. x \in Int /\ x \div 2 \in Int
  OBVIOUS
<1>1. 0 \in G
  <2>1. Shr(x, 0 + 1) = Shr(x, 0) \div 2 /\ Shr(x, 0) = x /\ Shr(x \div 2, 0) = x \div 2
    BY <1>0, ShrEquations
  <2>2. QED
    BY <2>1
<1>2. ASSUME NEW d \in Nat, d \in G PROVE d + 1 \in G
  <2>1. d + 1 \in Nat
    OBVIOUS
  <2>2. Shr(x, (d + 1) + 1) = Shr(x, d + 1) \div 2
    BY <1>0, <2>1, ShrEquations
  <2>3. Shr(x \div 2, d + 1) = Shr(x \div 2, d) \div 2
    BY <1>0, ShrEquations
  <2>4. QED
    BY <1>2, <2>2, <2>3
<1>3. \A d \in Nat : d \in G
  <2> HIDE DEF G
  <2>1. QED
    BY <1>1, <1>2, InductiveSet
<1>4. QED
  BY <1>3

\* The loop over trailing ones.
LEMMA OddsIs ==
    ASSUME NEW x \in Nat
    PROVE  /\ Odds(x) \in Nat /\ Odds(x) <= x /\ ~Odd(Shr(x, Odds(x)))
           /\ \A e \in 0..Odds(x) - 1 : Odd(Shr(x, e))
<1> DEFINE S == {d \in 0..x : ~Odd(Shr(x, d))}
<1>1. x \in S
  <2>1. x < Pow2(x) /\ x \in 0..x /\ x - x = 0
    BY Pow2Facts
  <2>2. Shr(x, x) < Pow2(0) /\ Shr(x, x) \in Nat
    BY <2>1, ShrAdd
  <2>3. Shr(x, x) = 0
    BY <2>2, Pow2Equations
  <2>4. QED
    BY <2>1, <2>3 DEF Odd
<1>2. S \in SUBSET Nat /\ \A e \in 0..x : e \notin S => Odd(Shr(x, e))
  OBVIOUS
<1>3. Odds(x) = First(S)
  BY DEF Odds
<1>4. First(S) \in S /\ \A e \in 0..First(S) - 1 : e \notin S
  <2> HIDE DEF S
  <2>1. QED
    BY <1>1, <1>2, FirstIs
<1>5. First(S) \in Nat /\ First(S) <= x /\ ~Odd(Shr(x, First(S)))
  BY <1>4
<1>6. \A e \in 0..First(S) - 1 : e \in 0..x
  BY <1>5
<1>7. QED
  BY <1>2, <1>3, <1>4, <1>5, <1>6

\* The number of low one bits is the place of the first zero bit.
LEMMA OddsUnique ==
    ASSUME NEW x \in Nat, NEW z \in 0..x, ~Odd(Shr(x, z)), \A e \in 0..z - 1 : Odd(Shr(x, e))
    PROVE  Odds(x) = z
<1> DEFINE S == {d \in 0..x : ~Odd(Shr(x, d))}
<1>1. z \in S /\ S \in SUBSET Nat /\ \A e \in 0..z - 1 : e \notin S
  OBVIOUS
<1>2. Odds(x) = First(S)
  BY DEF Odds
<1> HIDE DEF S
<1>3. QED
  BY <1>1, <1>2, FirstUnique

\* All c bits of the c-th power of two less one are ones.
LEMMA OddsOnes == ASSUME NEW c \in Nat PROVE Odds(Pow2(c) - 1) = c
<1>1. Pow2(c) \in Nat /\ c < Pow2(c)
  BY Pow2Facts
<1>2. Pow2(c) - 1 \in Nat /\ c \in 0..Pow2(c) - 1
  BY <1>1
<1>3. ~Odd(Shr(Pow2(c) - 1, c))
  <2>1. c \in 0..c /\ c - c = 0
    OBVIOUS
  <2>2. Shr(Pow2(c) - 1, c) = Pow2(0) - 1
    BY <2>1, ShrOnes
  <2>3. Shr(Pow2(c) - 1, c) = 0
    BY <2>2, Pow2Equations
  <2>4. QED
    BY <2>3 DEF Odd
<1>4. ASSUME NEW e \in 0..c - 1 PROVE Odd(Shr(Pow2(c) - 1, e))
  <2>1. e \in 0..c /\ c - e \in Nat /\ c - e # 0
    OBVIOUS
  <2>2. Shr(Pow2(c) - 1, e) = Pow2(c - e) - 1
    BY <2>1, ShrOnes
  <2>3. PICK a \in Nat : Pow2(c - e) = 2 * a
    BY <2>1, Pow2Half, Pow2Facts
  <2>4. (2 * a - 1) % 2 = 1
    OBVIOUS
  <2>5. QED
    BY <2>2, <2>3, <2>4 DEF Odd
<1>5. QED
  BY <1>2, <1>3, <1>4, OddsUnique

\* Unless all c bits are ones, the loop stops before the last of them, and a
\* leading bit does not matter to it.
LEMMA OddsSmall ==
    ASSUME NEW c \in Nat, NEW x \in Nat, x < Pow2(c) - 1
    PROVE  Odds(x) < c /\ Odds(Pow2(c) + x) = Odds(x)
<1>0. Pow2(c) \in Nat /\ x < Pow2(c)
  BY Pow2Facts
<1>1. PICK z \in Nat : z = Odds(x) /\ z <= x /\ ~Odd(Shr(x, z)) /\ \A e \in 0..z - 1 : Odd(Shr(x, e))
  BY OddsIs
<1>2. z < c
  <2>1. ASSUME z >= c PROVE FALSE
    <3> DEFINE G == {e \in Nat : e <= c => Shr(x, c - e) = Pow2(e) - 1}
    <3>1. 0 \in G
      <4>1. c \in 0..c /\ c - c = 0 /\ c - 0 = c
        OBVIOUS
      <4>2. Shr(x, c) < Pow2(0) /\ Shr(x, c) \in Nat
        BY <1>0, <4>1, ShrAdd
      <4>3. QED
        BY <4>1, <4>2, Pow2Equations
    <3>2. ASSUME NEW e \in Nat, e \in G PROVE e + 1 \in G
      <4>1. ASSUME e + 1 <= c PROVE Shr(x, c - (e + 1)) = Pow2(e + 1) - 1
        <5>1. c - (e + 1) \in Nat /\ (c - (e + 1)) + 1 = c - e /\ e <= c /\ c - (e + 1) \in 0..z - 1
          BY <2>1, <4>1
        <5>2. PICK a \in Nat, h \in Nat : a = Pow2(e) /\ h = Shr(x, c - (e + 1))
          BY <5>1, Pow2Facts, ShrNat
        <5>3. Shr(x, (c - (e + 1)) + 1) = h \div 2
          BY <5>1, <5>2, ShrEquations
        <5>4. h \div 2 = a - 1
          BY <3>2, <5>1, <5>2, <5>3
        <5>5. h % 2 = 1
          BY <1>1, <5>1, <5>2 DEF Odd
        <5>6. h = 2 * a - 1
          BY <5>4, <5>5
        <5>7. QED
          BY <5>2, <5>6, Pow2Equations
      <4>2. QED
        BY <4>1
    <3>3. \A e \in Nat : e \in G
      <4> HIDE DEF G
      <4>1. QED
        BY <3>1, <3>2, InductiveSet
    <3>4. Shr(x, c - c) = Pow2(c) - 1 /\ c - c = 0
      BY <3>3
    <3>5. Shr(x, 0) = x
      BY ShrEquations
    <3>6. QED
      BY <1>0, <3>4, <3>5
  <2>2. QED
    BY <2>1
<1>3. ASSUME NEW e \in 0..z PROVE Odd(Shr(Pow2(c) + x, e)) <=> Odd(Shr(x, e))
  <2>1. e \in 0..c /\ c - e \in Nat /\ c - e # 0
    BY <1>2
  <2>2. PICK h \in Nat : h = Shr(x, e) /\ Shr(Pow2(c) + x, e) = Pow2(c - e) + h
    BY <1>0, <2>1, ShrAdd
  <2>3. PICK a \in Nat : Pow2(c - e) = 2 * a
    BY <2>1, Pow2Half, Pow2Facts
  <2>4. (2 * a + h) % 2 = h % 2
    OBVIOUS
  <2>5. QED
    BY <2>2, <2>3, <2>4 DEF Odd
<1>4. Pow2(c) + x \in Nat /\ z \in 0..Pow2(c) + x
  BY <1>0, <1>1
<1>5. ~Odd(Shr(Pow2(c) + x, z))
  <2>1. z \in 0..z
    OBVIOUS
  <2>2. QED
    BY <1>1, <1>3, <2>1
<1>6. \A e \in 0..z - 1 : Odd(Shr(Pow2(c) + x, e))
  <2>1. \A e \in 0..z - 1 : e \in 0..z
    OBVIOUS
  <2>2. QED
    BY <1>1, <1>3, <2>1
<1>7. Odds(Pow2(c) + x) = z
  BY <1>4, <1>5, <1>6, OddsUnique
<1>8. QED
  BY <1>1, <1>2, <1>7

\* The loop over trailing zeros.
LEMMA EvensUnique ==
    ASSUME NEW x \in Nat, x # 0, NEW z \in 0..x, Odd(Shr(x, z)),
           \A e \in 0..z - 1 : ~Odd(Shr(x, e))
    PROVE  Evens(x) = z
<1> DEFINE S == {d \in 0..x : Odd(Shr(x, d))}
<1>1. z \in S /\ S \in SUBSET Nat /\ \A e \in 0..z - 1 : e \notin S
  OBVIOUS
<1>2. Evens(x) = First(S)
  BY DEF Evens
<1> HIDE DEF S
<1>3. QED
  BY <1>1, <1>2, FirstUnique

\* A positive number has a one bit.
LEMMA SomeBitSet ==
    ASSUME NEW x \in Nat, x # 0
    PROVE  \E d \in 0..x : Odd(Shr(x, d))
<1> DEFINE Right(n) == \E d \in 0..n : Odd(Shr(n, d))
           G == {n \in Nat : n # 0 => Right(n)}
<1>1. ASSUME NEW n \in Nat, \A m \in 0..n - 1 : m \in G PROVE n \in G
  <2>1. ASSUME n # 0 PROVE Right(n)
    <3>1. CASE n % 2 = 1
      <4>1. Shr(n, 0) = n /\ 0 \in 0..n
        BY ShrEquations
      <4>2. Odd(Shr(n, 0))
        BY <3>1, <4>1 DEF Odd
      <4>3. QED
        BY <4>1, <4>2
    <3>2. CASE n % 2 # 1
      <4>1. PICK h \in Nat : h = n \div 2 /\ h # 0 /\ h \in 0..n - 1
        <5>1. n \div 2 \in Nat /\ n \div 2 # 0 /\ n \div 2 \in 0..n - 1
          BY <2>1, <3>2
        <5>2. QED
          BY <5>1
      <4>2. Right(h)
        BY <1>1, <4>1
      <4>3. PICK d \in 0..h : Odd(Shr(h, d))
        BY <4>2
      <4>4. Shr(n, d + 1) = Shr(h, d)
        BY <4>1, ShrFront
      <4>5. d + 1 \in 0..n
        BY <4>1
      <4>6. QED
        BY <4>3, <4>4, <4>5
    <3>3. QED
      BY <3>1, <3>2
  <2>2. QED
    BY <2>1
<1>2. \A n \in Nat : n \in G
  <2> HIDE DEF G
  <2>1. QED
    BY <1>1, CompleteInduction
<1>3. QED
  BY <1>2

\* The loop over the low zero bits stops at the first one bit, ...
LEMMA EvensIs ==
    ASSUME NEW x \in Nat, x # 0
    PROVE  /\ Evens(x) \in Nat /\ Evens(x) <= x /\ Odd(Shr(x, Evens(x)))
           /\ \A e \in 0..Evens(x) - 1 : ~Odd(Shr(x, e))
<1> DEFINE S == {d \in 0..x : Odd(Shr(x, d))}
<1>1. PICK n \in S : TRUE
  BY SomeBitSet
<1>2. S \in SUBSET Nat /\ \A e \in 0..x : e \notin S => ~Odd(Shr(x, e))
  OBVIOUS
<1>3. Evens(x) = First(S)
  BY DEF Evens
<1>4. First(S) \in S /\ \A e \in 0..First(S) - 1 : e \notin S
  <2> HIDE DEF S
  <2>1. QED
    BY <1>1, <1>2, FirstIs
<1>5. First(S) \in Nat /\ First(S) <= x /\ Odd(Shr(x, First(S)))
  BY <1>4
<1>6. \A e \in 0..First(S) - 1 : e \in 0..x
  BY <1>5
<1>7. QED
  BY <1>2, <1>3, <1>4, <1>5, <1>6

\* ... at once for an odd number, ...
LEMMA EvensOdd == ASSUME NEW x \in Nat, Odd(x) PROVE Evens(x) = 0
<1>1. x # 0 /\ 0 \in 0..x
  BY DEF Odd
<1>2. Shr(x, 0) = x
  BY ShrEquations
<1>3. QED
  BY <1>1, <1>2, EvensUnique

\* A leading bit does not matter to it either, unless it is the only one.
LEMMA EvensAdd ==
    ASSUME NEW c \in Nat, NEW x \in Nat, x # 0, x < Pow2(c)
    PROVE  Evens(x) \in Nat /\ Evens(x) < c /\ Evens(Pow2(c) + x) = Evens(x)
<1>0. Pow2(c) \in Nat
  BY Pow2Facts
<1>1. PICK z \in Nat : z = Evens(x) /\ z <= x /\ Odd(Shr(x, z)) /\ \A e \in 0..z - 1 : ~Odd(Shr(x, e))
  BY EvensIs
<1>2. z < c
  <2>1. ASSUME z >= c PROVE FALSE
    <3>1. CASE z = c
      <4>1. c \in 0..c /\ c - c = 0
        OBVIOUS
      <4>2. Shr(x, c) < Pow2(0) /\ Shr(x, c) \in Nat
        BY <4>1, ShrAdd
      <4>3. Shr(x, z) = 0
        BY <3>1, <4>2, Pow2Equations
      <4>4. QED
        BY <1>1, <4>3 DEF Odd
    <3>2. CASE z # c
      <4>1. \A e \in 0..c : ~Odd(Shr(x, e))
        BY <1>1, <2>1, <3>2
      <4> DEFINE G == {e \in Nat : e <= c => Shr(x, c - e) = 0}
      <4>2. 0 \in G
        <5>1. c \in 0..c /\ c - c = 0 /\ c - 0 = c
          OBVIOUS
        <5>2. Shr(x, c) < Pow2(0) /\ Shr(x, c) \in Nat
          BY <5>1, ShrAdd
        <5>3. QED
          BY <5>1, <5>2, Pow2Equations
      <4>3. ASSUME NEW e \in Nat, e \in G PROVE e + 1 \in G
        <5>1. ASSUME e + 1 <= c PROVE Shr(x, c - (e + 1)) = 0
          <6>1. c - (e + 1) \in Nat /\ (c - (e + 1)) + 1 = c - e /\ e <= c /\ c - (e + 1) \in 0..c
            BY <5>1
          <6>2. PICK h \in Nat : h = Shr(x, c - (e + 1))
            BY <6>1, ShrNat
          <6>3. Shr(x, (c - (e + 1)) + 1) = h \div 2
            BY <6>1, <6>2, ShrEquations
          <6>4. h \div 2 = 0
            BY <4>3, <6>1, <6>3
          <6>5. h % 2 # 1
            BY <4>1, <6>1, <6>2 DEF Odd
          <6>6. QED
            BY <6>2, <6>4, <6>5
        <5>2. QED
          BY <5>1
      <4>4. \A e \in Nat : e \in G
        <5> HIDE DEF G
        <5>1. QED
          BY <4>2, <4>3, InductiveSet
      <4>5. Shr(x, c - c) = 0 /\ c - c = 0
        BY <4>4
      <4>6. QED
        BY <4>5, ShrEquations
    <3>3. QED
      BY <3>1, <3>2
  <2>2. QED
    BY <2>1
<1>3. ASSUME NEW e \in 0..z PROVE Odd(Shr(Pow2(c) + x, e)) <=> Odd(Shr(x, e))
  <2>1. e \in 0..c /\ c - e \in Nat /\ c - e # 0
    BY <1>2
  <2>2. PICK h \in Nat : h = Shr(x, e) /\ Shr(Pow2(c) + x, e) = Pow2(c - e) + h
    BY <2>1, ShrAdd
  <2>3. PICK a \in Nat : Pow2(c - e) = 2 * a
    BY <2>1, Pow2Half, Pow2Facts
  <2>4. (2 * a + h) % 2 = h % 2
    OBVIOUS
  <2>5. QED
    BY <2>2, <2>3, <2>4 DEF Odd
<1>4. Pow2(c) + x \in Nat /\ z \in 0..Pow2(c) + x /\ Pow2(c) + x # 0
  BY <1>0, <1>1
<1>5. Odd(Shr(Pow2(c) + x, z))
  <2>1. z \in 0..z
    OBVIOUS
  <2>2. QED
    BY <1>1, <1>3, <2>1
<1>6. \A e \in 0..z - 1 : ~Odd(Shr(Pow2(c) + x, e))
  <2>1. \A e \in 0..z - 1 : e \in 0..z
    OBVIOUS
  <2>2. QED
    BY <1>1, <1>3, <2>1
<1>7. Evens(Pow2(c) + x) = z
  BY <1>4, <1>5, <1>6, EvensUnique
<1>8. QED
  BY <1>1, <1>2, <1>7

\* ... and after c rounds for the c-th power of two, whose only one it is.
LEMMA EvensPow2 ==
    ASSUME NEW c \in Nat
    PROVE  Evens(Pow2(c)) = c /\ Shr(Pow2(c), c + 1) = 0
<1>1. Pow2(c) \in Nat /\ c < Pow2(c) /\ Pow2(c) # 0 /\ c \in 0..Pow2(c) /\ 0 < Pow2(c)
  BY Pow2Facts
<1>2. \A e \in 0..c : Shr(Pow2(c), e) = Pow2(c - e)
  <2>1. PICK o \in Nat : o = 0
    OBVIOUS
  <2>2. \A e \in 0..c : Shr(Pow2(c) + o, e) = Pow2(c - e) + Shr(o, e) /\ Pow2(c - e) \in Nat
    BY <1>1, <2>1, ShrAdd
  <2>3. Pow2(c) + o = Pow2(c)
    BY <1>1, <2>1
  <2>4. \A e \in Nat : Shr(o, e) = 0
    <3> DEFINE G == {e \in Nat : Shr(o, e) = 0}
    <3>1. 0 \in G
      BY <2>1, ShrEquations
    <3>2. ASSUME NEW e \in Nat, e \in G PROVE e + 1 \in G
      <4>1. Shr(o, e + 1) = 0 \div 2
        BY <3>2, ShrEquations
      <4>2. 0 \div 2 = 0
        OBVIOUS
      <4>3. QED
        BY <4>1, <4>2
    <3>3. QED
      <4>1. \A e \in Nat : e \in G
        <5> HIDE DEF G
        <5>1. QED
          BY <3>1, <3>2, InductiveSet
      <4>2. QED
        BY <4>1
  <2>5. QED
    BY <2>2, <2>3, <2>4
<1>3. Shr(Pow2(c), c) = 1
  <2>1. c \in 0..c /\ c - c = 0
    OBVIOUS
  <2>2. QED
    BY <1>2, <2>1, Pow2Equations
<1>4. Odd(Shr(Pow2(c), c))
  BY <1>3 DEF Odd
<1>5. ASSUME NEW e \in 0..c - 1 PROVE ~Odd(Shr(Pow2(c), e))
  <2>1. e \in 0..c /\ c - e \in Nat /\ c - e # 0
    OBVIOUS
  <2>2. PICK a \in Nat : Pow2(c - e) = 2 * a
    BY <2>1, Pow2Half, Pow2Facts
  <2>3. (2 * a) % 2 = 0
    OBVIOUS
  <2>4. QED
    BY <1>2, <2>1, <2>2, <2>3 DEF Odd
<1>6. Evens(Pow2(c)) = c
  BY <1>1, <1>4, <1>5, EvensUnique
<1>7. Shr(Pow2(c), c + 1) = 1 \div 2
  BY <1>1, <1>3, ShrEquations
<1>8. 1 \div 2 = 0
  OBVIOUS
<1>9. QED
  BY <1>6, <1>7, <1>8
-----------------------------------------------------------------------------
(* The tree                                                                *)

\* A tree of two or more leaves has leaves on both sides of its split.
LEMMA SplitInside ==
    ASSUME NEW i \in Nat, NEW j \in Nat, 2 <= j - i
    PROVE  /\ SplitPoint(j - i) \in Nat /\ 1 <= SplitPoint(j - i)
           /\ SplitPoint(j - i) < j - i
<1>1. PICK n \in Nat : n = j - i /\ 2 <= n
  OBVIOUS
<1>2. SplitPoint(n) \in Nat /\ 1 <= SplitPoint(n) /\ SplitPoint(n) < n
  BY <1>1, SplitIs
<1>3. QED
  BY <1>1, <1>2

\* The recursion of mth has a solution, so Mth satisfies its equation.
LEMMA MthEquation ==
    ASSUME NEW L, Len(L) \in Nat
    PROVE  \A i, j \in 0..Len(L) :
             Mth(L, i, j) = IF j <= i THEN Nil ELSE IF j - i = 1 THEN LeafHash(L[j])
                            ELSE NodeHash(Mth(L, i, i + SplitPoint(j - i)),
                                          Mth(L, i + SplitPoint(j - i), j))
<1> DEFINE M == Len(L)
           D == (0..Len(L)) \X (0..Len(L))
           Body(f, p) ==
             IF p[2] <= p[1] THEN Nil ELSE IF p[2] - p[1] = 1 THEN LeafHash(L[p[2]])
             ELSE NodeHash(f[<<p[1], p[1] + SplitPoint(p[2] - p[1])>>],
                           f[<<p[1] + SplitPoint(p[2] - p[1]), p[2]>>])
           Holds(f, n) == \A i, j \in 0..Len(L) : j - i <= n => f[<<i, j>>] = Body(f, <<i, j>>)
           G == {n \in Nat : \E f : Holds(f, n)}
<1>1. ASSUME NEW f, NEW h, NEW i \in 0..M, NEW j \in 0..M, NEW n \in Nat, j - i <= n + 1,
             \A a, b \in 0..M : b - a <= n => f[<<a, b>>] = h[<<a, b>>]
      PROVE  Body(f, <<i, j>>) = Body(h, <<i, j>>)
  <2>1. CASE j - i <= 1
    BY <2>1
  <2>2. CASE j - i > 1
    <3>1. PICK k \in Nat : k = SplitPoint(j - i) /\ 1 <= k /\ k < j - i
      <4>1. i \in Nat /\ j \in Nat /\ 2 <= j - i
        BY <2>2
      <4>2. QED
        BY <4>1, SplitInside
    <3>2. i + k \in 0..M /\ (i + k) - i <= n /\ j - (i + k) <= n
      BY <1>1, <3>1
    <3>3. f[<<i, i + k>>] = h[<<i, i + k>>] /\ f[<<i + k, j>>] = h[<<i + k, j>>]
      BY <1>1, <3>2
    <3>4. QED
      BY <3>1, <3>3
  <2>3. QED
    BY <2>1, <2>2
<1>2. 0 \in G
  <2> DEFINE f == [p \in D |-> Nil]
  <2>1. Holds(f, 0)
    OBVIOUS
  <2> HIDE DEF Holds, f
  <2>2. QED
    BY <2>1
<1>3. ASSUME NEW n \in Nat, n \in G PROVE n + 1 \in G
  <2>1. PICK f : Holds(f, n)
    BY <1>3
  <2> DEFINE h == [p \in D |-> IF p[2] - p[1] <= n THEN f[p] ELSE Body(f, p)]
  <2> HIDE DEF Body
  <2>2. ASSUME NEW a \in 0..M, NEW b \in 0..M PROVE
          /\ b - a <= n => h[<<a, b>>] = f[<<a, b>>]
          /\ ~(b - a <= n) => h[<<a, b>>] = Body(f, <<a, b>>)
    OBVIOUS
  <2> HIDE DEF h
  <2>2a. \A a, b \in 0..M : b - a <= n => f[<<a, b>>] = h[<<a, b>>]
    BY <2>2
  <2>3. ASSUME NEW i \in 0..M, NEW j \in 0..M, j - i <= n + 1
        PROVE  h[<<i, j>>] = Body(h, <<i, j>>)
    <3>1. Body(f, <<i, j>>) = Body(h, <<i, j>>)
      BY <1>1, <2>2a, <2>3
    <3>2. h[<<i, j>>] = Body(f, <<i, j>>)
      BY <2>1, <2>2
    <3>3. QED
      BY <3>1, <3>2
  <2>4. Holds(h, n + 1)
    BY <2>3
  <2> HIDE DEF Holds
  <2>5. n + 1 \in Nat
    OBVIOUS
  <2>6. QED
    BY <2>4, <2>5
<1>4. PICK f : Holds(f, M)
  <2> HIDE DEF G
  <2>1. M \in G
    BY <1>2, <1>3, InductiveSet
  <2>2. QED
    BY <2>1 DEF G
<1> DEFINE Unfold(x) == [p \in D |-> Body(x, p)]
           g == [p \in D |-> f[p]]
<1>5. g = Unfold(g)
  <2> HIDE DEF Body
  <2>1. ASSUME NEW i \in 0..M, NEW j \in 0..M PROVE g[<<i, j>>] = Body(g, <<i, j>>)
    <3>1. f[<<i, j>>] = Body(f, <<i, j>>)
      BY <1>4
    <3>2. \A a, b \in 0..M : b - a <= M => f[<<a, b>>] = g[<<a, b>>]
      OBVIOUS
    <3>3. j - i <= M + 1
      OBVIOUS
    <3> HIDE DEF g
    <3>4. Body(f, <<i, j>>) = Body(g, <<i, j>>)
      BY <1>1, <3>2, <3>3
    <3>5. g[<<i, j>>] = f[<<i, j>>]
      BY DEF g
    <3>6. QED
      BY <3>1, <3>4, <3>5
  <2>2. ASSUME NEW p \in D PROVE g[p] = Body(g, p)
    <3>1. PICK i \in 0..M, j \in 0..M : p = <<i, j>>
      OBVIOUS
    <3> HIDE DEF g
    <3>2. QED
      BY <2>1, <3>1
  <2>3. QED
    BY <2>2
<1> DEFINE m == CHOOSE x : x = Unfold(x)
<1>6. m = Unfold(m)
  BY <1>5
<1>7. \A i, j : Mth(L, i, j) = m[<<i, j>>]
  BY Zenon DEF Mth
<1> HIDE DEF m
<1>8. ASSUME NEW i \in 0..M, NEW j \in 0..M PROVE m[<<i, j>>] = Body(m, <<i, j>>)
  BY <1>6
<1>9. ASSUME NEW i \in 0..M, NEW j \in 0..M
      PROVE  Mth(L, i, j) = IF j <= i THEN Nil ELSE IF j - i = 1 THEN LeafHash(L[j])
                            ELSE NodeHash(Mth(L, i, i + SplitPoint(j - i)),
                                          Mth(L, i + SplitPoint(j - i), j))
  <2>1. PICK k : k = SplitPoint(j - i)
    OBVIOUS
  <2>2. /\ Mth(L, i, j) = m[<<i, j>>] /\ Mth(L, i, i + k) = m[<<i, i + k>>]
        /\ Mth(L, i + k, j) = m[<<i + k, j>>]
    BY <1>7
  <2>3. m[<<i, j>>] = IF j <= i THEN Nil ELSE IF j - i = 1 THEN LeafHash(L[j])
                      ELSE NodeHash(m[<<i, i + k>>], m[<<i + k, j>>])
    BY <1>8, <2>1
  <2>4. QED
    BY <2>1, <2>2, <2>3
<1>10. QED
  BY <1>9

\* A path that is built from the leaf up, one sibling per level.
BuildsPath(f, D, Ends, base, next, sib) ==
    f = [p \in D |-> IF p \in Ends THEN base[p] ELSE Append(f[next[p]], sib[p])]

\* There is one if the descent ends: mu counts down.
LEMMA PathExists ==
    ASSUME NEW D, NEW Ends, NEW base, NEW sib, NEW next \in [D -> D], NEW mu \in [D -> Nat],
           NEW M \in Nat, \A p \in D : mu[p] <= M,
           \A p \in D : p \notin Ends => mu[next[p]] < mu[p]
    PROVE  \E f : BuildsPath(f, D, Ends, base, next, sib)
<1> DEFINE Body(f, p) == IF p \in Ends THEN base[p] ELSE Append(f[next[p]], sib[p])
           Holds(f, n) == \A p \in D : mu[p] <= n => f[p] = Body(f, p)
           G == {n \in Nat : \E f : Holds(f, n)}
<1>1. ASSUME NEW f, NEW h, NEW p \in D, NEW n \in Nat, mu[p] <= n + 1,
             \A q \in D : mu[q] <= n => f[q] = h[q]
      PROVE  Body(f, p) = Body(h, p)
  <2>1. CASE p \in Ends
    BY <2>1
  <2>2. CASE p \notin Ends
    <3>1. next[p] \in D /\ mu[p] \in Nat /\ mu[next[p]] \in Nat /\ mu[next[p]] < mu[p]
      BY <2>2
    <3>2. mu[next[p]] <= n
      BY <1>1, <3>1
    <3>3. QED
      BY <1>1, <2>2, <3>1, <3>2
  <2>3. QED
    BY <2>1, <2>2
<1>2. 0 \in G
  <2> DEFINE f == [p \in D |-> base[p]]
  <2>1. ASSUME NEW p \in D, mu[p] <= 0 PROVE p \in Ends
    <3>1. ASSUME p \notin Ends PROVE FALSE
      <4>1. next[p] \in D /\ mu[p] \in Nat /\ mu[next[p]] \in Nat /\ mu[next[p]] < mu[p]
        BY <3>1
      <4>2. QED
        BY <2>1, <4>1
    <3>2. QED
      BY <3>1
  <2>2. Holds(f, 0)
    BY <2>1
  <2> HIDE DEF Holds, f
  <2>3. QED
    BY <2>2
<1>3. ASSUME NEW n \in Nat, n \in G PROVE n + 1 \in G
  <2>1. PICK f : Holds(f, n)
    BY <1>3
  <2> DEFINE h == [p \in D |-> IF mu[p] <= n THEN f[p] ELSE Body(f, p)]
  <2> HIDE DEF Body
  <2>2. ASSUME NEW q \in D PROVE /\ mu[q] <= n => h[q] = f[q]
                                 /\ ~(mu[q] <= n) => h[q] = Body(f, q)
    OBVIOUS
  <2> HIDE DEF h
  <2>3. \A q \in D : mu[q] <= n => f[q] = h[q]
    BY <2>2
  <2>4. ASSUME NEW p \in D, mu[p] <= n + 1 PROVE h[p] = Body(h, p)
    <3>1. Body(f, p) = Body(h, p)
      BY <1>1, <2>3, <2>4
    <3>2. h[p] = Body(f, p)
      BY <2>1, <2>2
    <3>3. QED
      BY <3>1, <3>2
  <2>5. Holds(h, n + 1)
    BY <2>4
  <2>6. n + 1 \in Nat
    OBVIOUS
  <2> HIDE DEF Holds
  <2>7. QED
    BY <2>5, <2>6
<1>4. PICK f : Holds(f, M)
  <2> HIDE DEF G
  <2>1. M \in G
    BY <1>2, <1>3, InductiveSet
  <2>2. QED
    BY <2>1 DEF G
<1> DEFINE g == [p \in D |-> f[p]]
<1>5. ASSUME NEW p \in D PROVE g[p] = Body(g, p)
  <2> HIDE DEF Body
  <2>1. f[p] = Body(f, p)
    BY <1>4
  <2>2. \A q \in D : mu[q] <= M => f[q] = g[q]
    OBVIOUS
  <2>3. mu[p] <= M + 1 /\ g[p] = f[p]
    OBVIOUS
  <2> HIDE DEF g
  <2>4. Body(f, p) = Body(g, p)
    BY <1>1, <2>2, <2>3
  <2>5. QED
    BY <2>1, <2>3, <2>4
<1>6. g = [p \in D |-> Body(g, p)]
  <2> HIDE DEF Body
  <2>1. QED
    BY <1>5
<1> HIDE DEF g
<1>7. BuildsPath(g, D, Ends, base, next, sib)
  BY <1>6 DEF BuildsPath
<1>8. QED
  BY <1>7

\* The path of InclusionProof is one: it satisfies its equation.
LEMMA InclusionPath ==
    ASSUME NEW L, NEW idx \in Nat, NEW size \in Nat, idx < size
    PROVE  \E path : /\ InclusionProof(L, idx, size) = path[<<0, size>>]
                     /\ \A i, j \in 0..size : (i <= idx /\ idx < j) =>
                          path[<<i, j>>] =
                            IF j - i = 1 THEN <<>>
                            ELSE IF idx < i + SplitPoint(j - i)
                            THEN Append(path[<<i, i + SplitPoint(j - i)>>],
                                        Mth(L, i + SplitPoint(j - i), j))
                            ELSE Append(path[<<i + SplitPoint(j - i), j>>],
                                        Mth(L, i, i + SplitPoint(j - i)))
<1> DEFINE D == Around(idx, size)
           K(p) == p[1] + SplitPoint(p[2] - p[1])
           Ends == {p \in D : p[2] - p[1] = 1}
           next == [p \in D |-> IF p \in Ends THEN p
                                ELSE IF idx < K(p) THEN <<p[1], K(p)>> ELSE <<K(p), p[2]>>]
           base == [p \in D |-> <<>>]
           sib == [p \in D |-> IF idx < K(p) THEN Mth(L, K(p), p[2]) ELSE Mth(L, p[1], K(p))]
           mu == [p \in D |-> p[2] - p[1]]
           Unfold(x) == [p \in D |->
             IF p[2] - p[1] = 1 THEN <<>>
             ELSE IF idx < K(p) THEN Append(x[<<p[1], K(p)>>], Mth(L, K(p), p[2]))
                                ELSE Append(x[<<K(p), p[2]>>], Mth(L, p[1], K(p)))]
<1>1. ASSUME NEW p \in D
      PROVE  /\ p[1] \in 0..size /\ p[2] \in 0..size /\ p[1] <= idx /\ idx < p[2]
             /\ p = <<p[1], p[2]>> /\ p[2] - p[1] \in Nat /\ p[2] - p[1] <= size
  BY DEF Around
<1>2. ASSUME NEW p \in D, p \notin Ends
      PROVE  /\ K(p) \in Nat /\ p[1] < K(p) /\ K(p) < p[2]
             /\ idx < K(p) => <<p[1], K(p)>> \in D
             /\ ~(idx < K(p)) => <<K(p), p[2]>> \in D
  <2>1. p[1] \in Nat /\ p[2] \in Nat /\ 2 <= p[2] - p[1]
    BY <1>1, <1>2
  <2>2. PICK k \in Nat : k = SplitPoint(p[2] - p[1]) /\ 1 <= k /\ k < p[2] - p[1]
    BY <2>1, SplitInside
  <2>3. K(p) = p[1] + k
    BY <2>2
  <2>4. K(p) \in Nat /\ p[1] < K(p) /\ K(p) < p[2] /\ K(p) \in 0..size
    BY <1>1, <2>1, <2>2, <2>3
  <2> HIDE DEF K
  <2>5. QED
    BY <1>1, <2>4 DEF Around
<1>3. \A p \in D : p \notin Ends => next[p] = IF idx < K(p) THEN <<p[1], K(p)>> ELSE <<K(p), p[2]>>
  OBVIOUS
<1>4. next \in [D -> D]
  <2>1. ASSUME NEW p \in D PROVE next[p] \in D
    <3>1. CASE p \in Ends
      BY <3>1
    <3>2. CASE p \notin Ends
      <4> HIDE DEF K, D, Ends, next
      <4>1. QED
        BY <1>2, <1>3, <3>2
    <3>3. QED
      BY <3>1, <3>2
  <2>2. next = [p \in D |-> next[p]]
    OBVIOUS
  <2> HIDE DEF next
  <2>3. QED
    BY <2>1, <2>2
<1>5. mu \in [D -> Nat] /\ \A p \in D : mu[p] <= size
  BY <1>1
<1>6. ASSUME NEW p \in D, p \notin Ends PROVE mu[next[p]] < mu[p]
  <2>0. p[1] \in Int /\ p[2] \in Int /\ K(p) \in Int /\ p[1] < K(p) /\ K(p) < p[2]
    <3>1. p[1] \in Int /\ p[2] \in Int
      BY <1>1
    <3>2. K(p) \in Nat /\ p[1] < K(p) /\ K(p) < p[2]
      BY <1>2, <1>6, Zenon
    <3> HIDE DEF K
    <3>3. QED
      BY <3>1, <3>2
  <2>1. next[p] \in D /\ mu[next[p]] = next[p][2] - next[p][1] /\ mu[p] = p[2] - p[1]
    BY <1>4
  <2> HIDE DEF next, mu, Ends, K, D
  <2>2. CASE idx < K(p)
    <3>1. next[p] = <<p[1], K(p)>>
      BY <1>3, <1>6, <2>2
    <3>2. next[p][2] - next[p][1] = K(p) - p[1]
      BY <3>1
    <3>3. QED
      BY <2>0, <2>1, <3>2
  <2>3. CASE ~(idx < K(p))
    <3>1. next[p] = <<K(p), p[2]>>
      BY <1>3, <1>6, <2>3
    <3>2. next[p][2] - next[p][1] = p[2] - K(p)
      BY <3>1
    <3>3. QED
      BY <2>0, <2>1, <3>2
  <2>4. QED
    BY <2>2, <2>3
<1>7. PICK f : BuildsPath(f, D, Ends, base, next, sib)
  <2> HIDE DEF next, mu, Ends, K, D, base, sib
  <2>1. \A p \in D : p \notin Ends => mu[next[p]] < mu[p]
    BY <1>6
  <2>2. mu \in [D -> Nat]
    BY <1>5
  <2>3. \A p \in D : mu[p] <= size
    BY <1>5
  <2>4. next \in [D -> D]
    BY <1>4
  <2>5. QED
    BY <2>1, <2>2, <2>3, <2>4, PathExists
<1>8. f = Unfold(f)
  <2>1. ASSUME NEW p \in D
        PROVE  f[p] = (IF p[2] - p[1] = 1 THEN <<>>
             ELSE IF idx < K(p) THEN Append(f[<<p[1], K(p)>>], Mth(L, K(p), p[2]))
                                ELSE Append(f[<<K(p), p[2]>>], Mth(L, p[1], K(p))))
    <3>1. f[p] = IF p \in Ends THEN base[p] ELSE Append(f[next[p]], sib[p])
      <4> HIDE DEF Ends, base, next, sib, D
      <4>1. QED
        BY <1>7 DEF BuildsPath
    <3>2. CASE p \in Ends
      BY <3>1, <3>2
    <3>3. CASE p \notin Ends
      <4>0. p[2] - p[1] # 1
        BY <3>3
      <4>1. sib[p] = IF idx < K(p) THEN Mth(L, K(p), p[2]) ELSE Mth(L, p[1], K(p))
        <5> HIDE DEF K
        <5>1. QED
          OBVIOUS
      <4>2. CASE idx < K(p)
        <5> HIDE DEF K, sib, next, Ends
        <5>1. f[p] = Append(f[next[p]], sib[p]) /\ next[p] = <<p[1], K(p)>> /\ sib[p] = Mth(L, K(p), p[2])
          BY <1>3, <3>1, <3>3, <4>1, <4>2
        <5>2. QED
          BY <4>0, <4>2, <5>1
      <4>3. CASE ~(idx < K(p))
        <5> HIDE DEF K, sib, next, Ends
        <5>1. f[p] = Append(f[next[p]], sib[p]) /\ next[p] = <<K(p), p[2]>> /\ sib[p] = Mth(L, p[1], K(p))
          BY <1>3, <3>1, <3>3, <4>1, <4>3
        <5>2. QED
          BY <4>0, <4>3, <5>1
      <4>4. QED
        BY <4>2, <4>3
    <3>4. QED
      BY <3>2, <3>3
  <2>2. f = [p \in D |-> f[p]]
    <3> HIDE DEF Ends, base, next, sib, D
    <3>1. QED
      BY <1>7 DEF BuildsPath
  <2> HIDE DEF K, D
  <2>3. QED
    BY <2>1, <2>2
<1> DEFINE g == CHOOSE x : x = Unfold(x)
<1>9. g = Unfold(g)
  BY <1>8
<1>10. InclusionProof(L, idx, size) = g[<<0, size>>]
  BY Zenon DEF InclusionProof
<1> HIDE DEF g
<1>11. ASSUME NEW i \in 0..size, NEW j \in 0..size, i <= idx /\ idx < j
       PROVE  g[<<i, j>>] =
                            IF j - i = 1 THEN <<>>
                            ELSE IF idx < i + SplitPoint(j - i)
                            THEN Append(g[<<i, i + SplitPoint(j - i)>>],
                                        Mth(L, i + SplitPoint(j - i), j))
                            ELSE Append(g[<<i + SplitPoint(j - i), j>>],
                                        Mth(L, i, i + SplitPoint(j - i)))
  <2>1. <<i, j>> \in D
    BY <1>11 DEF Around
  <2> HIDE DEF D
  <2>2. QED
    BY <1>9, <2>1
<1>12. QED
  BY <1>10, <1>11

\* The equation of consPath, level by level.
IsConsPath(path, L, from, size) ==
    \A i, j \in 0..size : (i < from /\ from <= j) =>
        path[<<i, j>>] =
          IF j = from THEN (IF i = 0 THEN <<>> ELSE <<Mth(L, i, j)>>)
          ELSE IF from <= i + SplitPoint(j - i)
          THEN Append(path[<<i, i + SplitPoint(j - i)>>], Mth(L, i + SplitPoint(j - i), j))
          ELSE Append(path[<<i + SplitPoint(j - i), j>>], Mth(L, i, i + SplitPoint(j - i)))

\* So does the path of ConsistencyProof.
LEMMA ConsistencyPath ==
    ASSUME NEW L, NEW from \in Nat, NEW size \in Nat, 1 <= from, from <= size
    PROVE  \E path : /\ ConsistencyProof(L, from, size) = path[<<0, size>>]
                     /\ IsConsPath(path, L, from, size)
<1> DEFINE D == Around(from - 1, size)
           K(p) == p[1] + SplitPoint(p[2] - p[1])
           Ends == {p \in D : p[2] = from}
           next == [p \in D |-> IF p \in Ends THEN p
                                ELSE IF from <= K(p) THEN <<p[1], K(p)>> ELSE <<K(p), p[2]>>]
           base == [p \in D |-> IF p[1] = 0 THEN <<>> ELSE <<Mth(L, p[1], p[2])>>]
           sib == [p \in D |-> IF from <= K(p) THEN Mth(L, K(p), p[2]) ELSE Mth(L, p[1], K(p))]
           mu == [p \in D |-> p[2] - p[1]]
           Unfold(x) == [p \in D |->
             IF p[2] = from THEN (IF p[1] = 0 THEN <<>> ELSE <<Mth(L, p[1], p[2])>>)
             ELSE IF from <= K(p) THEN Append(x[<<p[1], K(p)>>], Mth(L, K(p), p[2]))
                                ELSE Append(x[<<K(p), p[2]>>], Mth(L, p[1], K(p)))]
<1>1. ASSUME NEW p \in D
      PROVE  /\ p[1] \in 0..size /\ p[2] \in 0..size /\ p[1] < from /\ from <= p[2]
             /\ p = <<p[1], p[2]>> /\ p[2] - p[1] \in Nat /\ p[2] - p[1] <= size
  BY DEF Around
<1>2. ASSUME NEW p \in D, p \notin Ends
      PROVE  /\ K(p) \in Nat /\ p[1] < K(p) /\ K(p) < p[2]
             /\ from <= K(p) => <<p[1], K(p)>> \in D
             /\ ~(from <= K(p)) => <<K(p), p[2]>> \in D
  <2>1. p[1] \in Nat /\ p[2] \in Nat /\ 2 <= p[2] - p[1]
    BY <1>1, <1>2
  <2>2. PICK k \in Nat : k = SplitPoint(p[2] - p[1]) /\ 1 <= k /\ k < p[2] - p[1]
    BY <2>1, SplitInside
  <2>3. K(p) = p[1] + k
    BY <2>2
  <2>4. K(p) \in Nat /\ p[1] < K(p) /\ K(p) < p[2] /\ K(p) \in 0..size
    BY <1>1, <2>1, <2>2, <2>3
  <2> HIDE DEF K
  <2>5. QED
    BY <1>1, <2>4 DEF Around
<1>3. \A p \in D : p \notin Ends => next[p] = IF from <= K(p) THEN <<p[1], K(p)>> ELSE <<K(p), p[2]>>
  OBVIOUS
<1>4. next \in [D -> D]
  <2>1. ASSUME NEW p \in D PROVE next[p] \in D
    <3>1. CASE p \in Ends
      BY <3>1
    <3>2. CASE p \notin Ends
      <4> HIDE DEF K, D, Ends, next
      <4>1. QED
        BY <1>2, <1>3, <3>2
    <3>3. QED
      BY <3>1, <3>2
  <2>2. next = [p \in D |-> next[p]]
    OBVIOUS
  <2> HIDE DEF next
  <2>3. QED
    BY <2>1, <2>2
<1>5. mu \in [D -> Nat] /\ \A p \in D : mu[p] <= size
  BY <1>1
<1>6. ASSUME NEW p \in D, p \notin Ends PROVE mu[next[p]] < mu[p]
  <2>0. p[1] \in Int /\ p[2] \in Int /\ K(p) \in Int /\ p[1] < K(p) /\ K(p) < p[2]
    <3>1. p[1] \in Int /\ p[2] \in Int
      BY <1>1
    <3>2. K(p) \in Nat /\ p[1] < K(p) /\ K(p) < p[2]
      BY <1>2, <1>6, Zenon
    <3> HIDE DEF K
    <3>3. QED
      BY <3>1, <3>2
  <2>1. next[p] \in D /\ mu[next[p]] = next[p][2] - next[p][1] /\ mu[p] = p[2] - p[1]
    BY <1>4
  <2> HIDE DEF next, mu, Ends, K, D
  <2>2. CASE from <= K(p)
    <3>1. next[p] = <<p[1], K(p)>>
      BY <1>3, <1>6, <2>2
    <3>2. next[p][2] - next[p][1] = K(p) - p[1]
      BY <3>1
    <3>3. QED
      BY <2>0, <2>1, <3>2
  <2>3. CASE ~(from <= K(p))
    <3>1. next[p] = <<K(p), p[2]>>
      BY <1>3, <1>6, <2>3
    <3>2. next[p][2] - next[p][1] = p[2] - K(p)
      BY <3>1
    <3>3. QED
      BY <2>0, <2>1, <3>2
  <2>4. QED
    BY <2>2, <2>3
<1>7. PICK f : BuildsPath(f, D, Ends, base, next, sib)
  <2> HIDE DEF next, mu, Ends, K, D, base, sib
  <2>1. \A p \in D : p \notin Ends => mu[next[p]] < mu[p]
    BY <1>6
  <2>2. mu \in [D -> Nat]
    BY <1>5
  <2>3. \A p \in D : mu[p] <= size
    BY <1>5
  <2>4. next \in [D -> D]
    BY <1>4
  <2>5. QED
    BY <2>1, <2>2, <2>3, <2>4, PathExists
<1>8. f = Unfold(f)
  <2>1. ASSUME NEW p \in D
        PROVE  f[p] = (IF p[2] = from THEN (IF p[1] = 0 THEN <<>> ELSE <<Mth(L, p[1], p[2])>>)
             ELSE IF from <= K(p) THEN Append(f[<<p[1], K(p)>>], Mth(L, K(p), p[2]))
                                ELSE Append(f[<<K(p), p[2]>>], Mth(L, p[1], K(p))))
    <3>1. f[p] = IF p \in Ends THEN base[p] ELSE Append(f[next[p]], sib[p])
      <4> HIDE DEF Ends, base, next, sib, D
      <4>1. QED
        BY <1>7 DEF BuildsPath
    <3>2. CASE p \in Ends
      BY <3>1, <3>2
    <3>3. CASE p \notin Ends
      <4>0. p[2] # from
        BY <3>3
      <4>1. sib[p] = IF from <= K(p) THEN Mth(L, K(p), p[2]) ELSE Mth(L, p[1], K(p))
        <5> HIDE DEF K
        <5>1. QED
          OBVIOUS
      <4>2. CASE from <= K(p)
        <5> HIDE DEF K, sib, next, Ends
        <5>1. f[p] = Append(f[next[p]], sib[p]) /\ next[p] = <<p[1], K(p)>> /\ sib[p] = Mth(L, K(p), p[2])
          BY <1>3, <3>1, <3>3, <4>1, <4>2
        <5>2. QED
          BY <4>0, <4>2, <5>1
      <4>3. CASE ~(from <= K(p))
        <5> HIDE DEF K, sib, next, Ends
        <5>1. f[p] = Append(f[next[p]], sib[p]) /\ next[p] = <<K(p), p[2]>> /\ sib[p] = Mth(L, p[1], K(p))
          BY <1>3, <3>1, <3>3, <4>1, <4>3
        <5>2. QED
          BY <4>0, <4>3, <5>1
      <4>4. QED
        BY <4>2, <4>3
    <3>4. QED
      BY <3>2, <3>3
  <2>2. f = [p \in D |-> f[p]]
    <3> HIDE DEF Ends, base, next, sib, D
    <3>1. QED
      BY <1>7 DEF BuildsPath
  <2> HIDE DEF K, D
  <2>3. QED
    BY <2>1, <2>2
<1> DEFINE g == CHOOSE x : x = Unfold(x)
<1>9. g = Unfold(g)
  BY <1>8
<1>10. ConsistencyProof(L, from, size) = g[<<0, size>>]
  BY Zenon DEF ConsistencyProof
<1> HIDE DEF g
<1>11. ASSUME NEW i \in 0..size, NEW j \in 0..size, i < from /\ from <= j
       PROVE  g[<<i, j>>] =
                            IF j = from THEN (IF i = 0 THEN <<>> ELSE <<Mth(L, i, j)>>)
                            ELSE IF from <= i + SplitPoint(j - i)
                            THEN Append(g[<<i, i + SplitPoint(j - i)>>],
                                        Mth(L, i + SplitPoint(j - i), j))
                            ELSE Append(g[<<i + SplitPoint(j - i), j>>],
                                        Mth(L, i, i + SplitPoint(j - i)))
  <2>1. <<i, j>> \in D
    BY <1>11 DEF Around
  <2> HIDE DEF D
  <2>2. QED
    BY <1>9, <2>1
<1>12. QED
  BY <1>10, <1>11 DEF IsConsPath

\* The states of a verifier's loop.
LEMMA WalkEquations ==
    ASSUME NEW start, NEW path, Len(path) \in Nat
    PROVE  /\ Walk(start, path)[0] = start
           /\ \A n \in 1..Len(path) :
                Walk(start, path)[n] = Climb(Walk(start, path)[n - 1], path[n])
<1> DEFINE M == Len(path)
           Holds(f, n) == f[0] = start /\ \A i \in 1..n : f[i] = Climb(f[i - 1], path[i])
           G == {n \in Nat : \E f : Holds(f, n)}
<1>1. 0 \in G
  <2> DEFINE f == [i \in 0..0 |-> start]
  <2>1. Holds(f, 0)
    OBVIOUS
  <2> HIDE DEF Holds, f
  <2>2. QED
    BY <2>1
<1>2. ASSUME NEW n \in Nat, n \in G PROVE n + 1 \in G
  <2>1. PICK f : Holds(f, n)
    BY <1>2
  <2> DEFINE h == [i \in 0..n + 1 |-> IF i = n + 1 THEN Climb(f[n], path[n + 1]) ELSE f[i]]
  <2>2. \A i \in 0..n : h[i] = f[i]
    OBVIOUS
  <2>3. h[n + 1] = Climb(f[n], path[n + 1])
    OBVIOUS
  <2> HIDE DEF h
  <2>4. ASSUME NEW i \in 1..n + 1 PROVE h[i] = Climb(h[i - 1], path[i])
    <3>1. i - 1 \in 0..n /\ h[i - 1] = f[i - 1]
      BY <2>2
    <3>2. CASE i = n + 1
      BY <2>3, <3>1, <3>2
    <3>3. CASE i # n + 1
      <4>1. i \in 1..n /\ i \in 0..n
        BY <3>3
      <4>2. QED
        BY <2>1, <2>2, <3>1, <4>1
    <3>4. QED
      BY <3>2, <3>3
  <2>5. h[0] = start
    BY <2>1, <2>2
  <2>6. Holds(h, n + 1) /\ n + 1 \in Nat
    BY <2>4, <2>5
  <2> HIDE DEF Holds
  <2>7. QED
    BY <2>6
<1>3. PICK f : Holds(f, M)
  <2> HIDE DEF G
  <2>1. M \in G
    BY <1>1, <1>2, InductiveSet
  <2>2. QED
    BY <2>1 DEF G
<1> DEFINE Unfold(x) == [n \in 0..Len(path) |-> IF n = 0 THEN start ELSE Climb(x[n - 1], path[n])]
           g == [i \in 0..Len(path) |-> f[i]]
<1>4. g = Unfold(g)
  <2>1. ASSUME NEW i \in 0..M PROVE g[i] = IF i = 0 THEN start ELSE Climb(g[i - 1], path[i])
    <3>1. CASE i = 0
      BY <1>3, <3>1
    <3>2. CASE i # 0
      <4>1. i \in 1..M /\ i - 1 \in 0..M
        BY <3>2
      <4>2. g[i] = f[i] /\ g[i - 1] = f[i - 1] /\ f[i] = Climb(f[i - 1], path[i])
        BY <1>3, <4>1
      <4> HIDE DEF g
      <4>3. QED
        BY <3>2, <4>2
    <3>3. QED
      BY <3>1, <3>2
  <2>2. QED
    BY <2>1
<1> DEFINE w == CHOOSE x : x = Unfold(x)
<1>5. w = Unfold(w)
  BY <1>4
<1>6. Walk(start, path) = w
  BY Zenon DEF Walk
<1> HIDE DEF w
<1>7. w[0] = start
  BY <1>5
<1>8. ASSUME NEW n \in 1..M PROVE w[n] = Climb(w[n - 1], path[n])
  <2>1. n \in 0..M /\ n # 0
    OBVIOUS
  <2>2. QED
    BY <1>5, <2>1
<1>9. QED
  BY <1>6, <1>7, <1>8
-----------------------------------------------------------------------------
(* Hashes                                                                  *)

\* What a hash says of its children and of the entries below it.
LEMMA HashFields ==
    /\ Nil.entries = <<>>
    /\ \A e : LeafHash(e).leaf = e /\ LeafHash(e).entries = <<e>>
    /\ \A l, r : /\ NodeHash(l, r).left = l /\ NodeHash(l, r).right = r
                 /\ NodeHash(l, r).entries = l.entries \o r.entries
  BY DEF Nil, LeafHash, NodeHash

\* The fields of a walker.
LEMMA WalkerFields ==
    \A fn, sn, d, fr, sr :
      /\ Walker(fn, sn, d, fr, sr).fn = Shr(fn, d) /\ Walker(fn, sn, d, fr, sr).sn = Shr(sn, d)
      /\ Walker(fn, sn, d, fr, sr).fr = fr /\ Walker(fn, sn, d, fr, sr).sr = sr
  BY DEF Walker

\* The hash of leaves i to j names exactly these entries of the log.
LEMMA MthEntries ==
    ASSUME NEW E, NEW L \in Seq(E)
    PROVE  \A i, j \in 0..Len(L) : i <= j => Mth(L, i, j).entries = SubSeq(L, i + 1, j)
<1> DEFINE Right(n) == \A i, j \in 0..Len(L) :
                          j - i = n => Mth(L, i, j).entries = SubSeq(L, i + 1, j)
           G == {n \in Nat : Right(n)}
<1>0. Len(L) \in Nat
  OBVIOUS
<1>1. ASSUME NEW n \in Nat, \A m \in 0..n - 1 : m \in G PROVE n \in G
  <2>1. ASSUME NEW i \in 0..Len(L), NEW j \in 0..Len(L), j - i = n
        PROVE  Mth(L, i, j).entries = SubSeq(L, i + 1, j)
    <3>1. CASE n = 0
      <4>1. Mth(L, i, j) = Nil
        BY <1>0, <2>1, <3>1, MthEquation
      <4>2. SubSeq(L, i + 1, j) = <<>>
        BY <2>1, <3>1, SubSeqEmpty
      <4>3. QED
        BY <4>1, <4>2, HashFields
    <3>2. CASE n = 1
      <4>1. Mth(L, i, j) = LeafHash(L[j])
        BY <1>0, <2>1, <3>2, MthEquation
      <4>2. j \in 1..Len(L) /\ j \in j..Len(L) /\ i + 1 = j
        BY <2>1, <3>2
      <4>3. SubSeq(L, j, j) = <<L[j]>>
        <5>1. SubSeq(L, j, j) = <<L[j]>> \o SubSeq(L, j + 1, j)
          BY <4>2, SubSeqRecursiveFirst
        <5>2. SubSeq(L, j + 1, j) = <<>>
          BY <4>2, SubSeqEmpty
        <5>3. <<L[j]>> \in Seq(E)
          BY <4>2
        <5>4. QED
          BY <5>1, <5>2, <5>3, ConcatEmptySeq
      <4>4. QED
        BY <4>1, <4>2, <4>3, HashFields
    <3>3. CASE n > 1
      <4>1. i \in Nat /\ j \in Nat /\ 2 <= j - i
        BY <2>1, <3>3
      <4>2. PICK k \in Nat : k = SplitPoint(j - i) /\ 1 <= k /\ k < j - i
        BY <4>1, SplitInside
      <4>3. Mth(L, i, j) = NodeHash(Mth(L, i, i + k), Mth(L, i + k, j))
        BY <1>0, <4>1, <4>2, MthEquation
      <4>4. i + k \in 0..Len(L) /\ (i + k) - i \in 0..n - 1 /\ j - (i + k) \in 0..n - 1
        BY <2>1, <4>2
      <4>5. Mth(L, i, i + k).entries = SubSeq(L, i + 1, i + k)
        BY <1>1, <4>4
      <4>6. Mth(L, i + k, j).entries = SubSeq(L, (i + k) + 1, j)
        BY <1>1, <4>4
      <4>7. i + 1 \in 1..Len(L) + 1 /\ i + k \in (i + 1) - 1..Len(L) /\ j \in i + k..Len(L)
        BY <4>1, <4>2, <4>4
      <4>8. SubSeq(L, i + 1, i + k) \o SubSeq(L, (i + k) + 1, j) = SubSeq(L, i + 1, j)
        BY <4>7, ConcatAdjacentSubSeq
      <4>9. Mth(L, i, j).entries = Mth(L, i, i + k).entries \o Mth(L, i + k, j).entries
        <5> DEFINE a == Mth(L, i, i + k)
                   b == Mth(L, i + k, j)
        <5>1. NodeHash(a, b).entries = a.entries \o b.entries
          BY HashFields
        <5>2. QED
          BY <4>3, <5>1
      <4>10. QED
        BY <4>5, <4>6, <4>8, <4>9
    <3>4. QED
      BY <3>1, <3>2, <3>3
  <2>2. QED
    BY <2>1
<1>2. \A n \in Nat : n \in G
  <2> HIDE DEF G
  <2>1. QED
    BY <1>1, CompleteInduction
<1>3. ASSUME NEW i \in 0..Len(L), NEW j \in 0..Len(L), i <= j
      PROVE  Mth(L, i, j).entries = SubSeq(L, i + 1, j)
  <2>1. j - i \in Nat
    BY <1>3
  <2>2. QED
    BY <1>2, <2>1
<1>4. QED
  BY <1>3

\* It is a hash of entries, and not nil unless there are none.
LEMMA MthSeq ==
    ASSUME NEW E, NEW L \in Seq(E), NEW i \in 0..Len(L), NEW j \in 0..Len(L)
    PROVE  /\ Mth(L, i, j).entries \in Seq(E)
           /\ i <= j => Len(Mth(L, i, j).entries) = j - i
           /\ i < j => Mth(L, i, j) # Nil
<1>1. CASE i <= j
  <2>1. Mth(L, i, j).entries = SubSeq(L, i + 1, j)
    BY <1>1, MthEntries
  <2>2. \A t \in i + 1..j : L[t] \in E
    OBVIOUS
  <2>3. i + 1 \in Int /\ j \in Int
    OBVIOUS
  <2>4. SubSeq(L, i + 1, j) \in Seq(E) /\ Len(SubSeq(L, i + 1, j)) = IF i + 1 <= j THEN j - (i + 1) + 1 ELSE 0
    BY <2>2, <2>3, SubSeqProperties
  <2>5. Len(Mth(L, i, j).entries) = j - i
    BY <1>1, <2>1, <2>4
  <2>6. Len(Nil.entries) = 0
    BY HashFields
  <2>7. QED
    BY <2>1, <2>4, <2>5, <2>6
<1>2. CASE i > j
  <2>1. Mth(L, i, j) = Nil
    BY <1>2, MthEquation
  <2>2. QED
    BY <1>2, <2>1, HashFields
<1>3. QED
  BY <1>1, <1>2

\* Logs that agree on the leaves of a tree have the same hash of it.
LEMMA MthSame ==
    ASSUME NEW E, NEW L \in Seq(E), NEW K \in Seq(E)
    PROVE  \A i, j \in Nat :
             (/\ i \in 0..Len(L) /\ j \in 0..Len(L) /\ i \in 0..Len(K) /\ j \in 0..Len(K)
              /\ \A t \in i + 1..j : L[t] = K[t]) => Mth(L, i, j) = Mth(K, i, j)
<1> DEFINE Agree(i, j) == /\ i \in 0..Len(L) /\ j \in 0..Len(L) /\ i \in 0..Len(K) /\ j \in 0..Len(K)
                          /\ \A t \in i + 1..j : L[t] = K[t]
           Right(n) == \A i, j \in Nat : (Agree(i, j) /\ j - i <= n) => Mth(L, i, j) = Mth(K, i, j)
           G == {n \in Nat : Right(n)}
<1>0. Len(L) \in Nat /\ Len(K) \in Nat
  OBVIOUS
<1>1. ASSUME NEW n \in Nat, \A m \in 0..n - 1 : m \in G PROVE n \in G
  <2>1. ASSUME NEW i \in Nat, NEW j \in Nat, Agree(i, j), j - i <= n
        PROVE  Mth(L, i, j) = Mth(K, i, j)
    <3>1. CASE j <= i
      BY <1>0, <2>1, <3>1, MthEquation
    <3>2. CASE j - i = 1
      <4>1. j \in i + 1..j
        BY <3>2
      <4>2. L[j] = K[j]
        BY <2>1, <4>1
      <4>3. Mth(L, i, j) = LeafHash(L[j])
        BY <1>0, <2>1, <3>2, MthEquation
      <4>4. Mth(K, i, j) = LeafHash(K[j])
        BY <1>0, <2>1, <3>2, MthEquation
      <4>5. QED
        BY <4>2, <4>3, <4>4
    <3>3. CASE j - i > 1
      <4>1. PICK k \in Nat : k = SplitPoint(j - i) /\ 1 <= k /\ k < j - i
        BY <3>3, SplitInside
      <4>2. /\ Mth(L, i, j) = NodeHash(Mth(L, i, i + k), Mth(L, i + k, j))
            /\ Mth(K, i, j) = NodeHash(Mth(K, i, i + k), Mth(K, i + k, j))
        BY <1>0, <2>1, <3>3, <4>1, MthEquation
      <4>3. Agree(i, i + k) /\ Agree(i + k, j) /\ i + k \in Nat
        BY <2>1, <4>1
      <4>4. n - 1 \in 0..n - 1 /\ (i + k) - i <= n - 1 /\ j - (i + k) <= n - 1
        BY <2>1, <4>1
      <4>5. Right(n - 1)
        BY <1>1, <4>4
      <4> HIDE DEF Agree
      <4>6. Mth(L, i, i + k) = Mth(K, i, i + k)
        BY <4>3, <4>4, <4>5
      <4>7. Mth(L, i + k, j) = Mth(K, i + k, j)
        BY <4>3, <4>4, <4>5
      <4>8. QED
        BY <4>2, <4>6, <4>7
    <3>4. QED
      BY <3>1, <3>2, <3>3
  <2>2. QED
    BY <2>1
<1>2. \A n \in Nat : n \in G
  <2> HIDE DEF G
  <2>1. QED
    BY <1>1, CompleteInduction
<1>3. ASSUME NEW i \in Nat, NEW j \in Nat, Agree(i, j) PROVE Mth(L, i, j) = Mth(K, i, j)
  <2>1. j \in G /\ j - i <= j
    BY <1>2
  <2> HIDE DEF Agree
  <2>2. QED
    BY <1>3, <2>1
<1>4. QED
  BY <1>3
-----------------------------------------------------------------------------
(* What the verifiers can be convinced of                                  *)

\* One round of the loop, field by field.
LEMMA ClimbFields ==
    ASSUME NEW w, NEW p
    PROVE  /\ (Odd(w.fn) \/ w.fn = w.sn) =>
                /\ Climb(w, p).fn = Shr(w.fn, Evens(w.fn) + 1)
                /\ Climb(w, p).sn = Shr(w.sn, Evens(w.fn) + 1)
                /\ Climb(w, p).fr = NodeHash(p, w.fr) /\ Climb(w, p).sr = NodeHash(p, w.sr)
           /\ ~(Odd(w.fn) \/ w.fn = w.sn) =>
                /\ Climb(w, p).fn = Shr(w.fn, 1) /\ Climb(w, p).sn = Shr(w.sn, 1)
                /\ Climb(w, p).fr = w.fr /\ Climb(w, p).sr = NodeHash(w.sr, p)
<1>1. CASE Odd(w.fn) \/ w.fn = w.sn
  <2>1. Climb(w, p) = Walker(w.fn, w.sn, Evens(w.fn) + 1, NodeHash(p, w.fr), NodeHash(p, w.sr))
    BY <1>1 DEF Climb
  <2>2. QED
    BY <1>1, <2>1, WalkerFields
<1>2. CASE ~(Odd(w.fn) \/ w.fn = w.sn)
  <2>1. Climb(w, p) = Walker(w.fn, w.sn, 1, w.fr, NodeHash(w.sr, p))
    BY <1>2 DEF Climb
  <2>2. QED
    BY <1>2, <2>1, WalkerFields
<1>3. QED
  BY <1>1, <1>2

\* The entries t extend the entries s.
Extended(E, s, t) == s \in Seq(E) /\ t \in Seq(E) /\ \E u \in Seq(E) : t = s \o u

\* What is extended is a prefix.
LEMMA ExtendedPrefix ==
    ASSUME NEW E, NEW s, NEW t, Extended(E, s, t)
    PROVE  IsPrefix(s, t) /\ Len(s) <= Len(t) /\ \A i \in 1..Len(s) : t[i] = s[i]
<1>1. PICK u \in Seq(E) : t = s \o u
  BY DEF Extended
<1>2. s \in Seq(E) /\ Len(s) \in Nat /\ Len(u) \in Nat
  BY DEF Extended
<1>3. /\ t \in Seq(E) /\ Len(t) = Len(s) + Len(u)
      /\ \A i \in 1..Len(s) + Len(u) : t[i] = IF i <= Len(s) THEN s[i] ELSE u[i - Len(s)]
  BY <1>1, <1>2, ConcatProperties
<1>4. Len(s) <= Len(t) /\ \A i \in 1..Len(s) : t[i] = s[i]
  BY <1>2, <1>3
<1>5. SubSeq(s, 1, Len(s)) = SubSeq(t, 1, Len(s))
  <2> DEFINE n == Len(s)
             a == SubSeq(s, 1, n)
             b == SubSeq(t, 1, n)
  <2>1. (\A i \in 1..n : s[i] \in E /\ t[i] \in E) /\ n \in Int /\ 1 \in Int
    BY <1>2, <1>4
  <2>2. a \in Seq(E) /\ Len(a) = (IF 1 <= n THEN n - 1 + 1 ELSE 0) /\ \A i \in 1..n - 1 + 1 : a[i] = s[1 + i - 1]
    BY <2>1, SubSeqProperties
  <2>3. b \in Seq(E) /\ Len(b) = (IF 1 <= n THEN n - 1 + 1 ELSE 0) /\ \A i \in 1..n - 1 + 1 : b[i] = t[1 + i - 1]
    BY <2>1, SubSeqProperties
  <2> HIDE DEF a, b
  <2>4. Len(a) = Len(b) /\ Len(a) = n
    BY <1>2, <2>2, <2>3
  <2>5. ASSUME NEW i \in 1..Len(a) PROVE a[i] = b[i]
    <3>1. i \in 1..n /\ i \in 1..n - 1 + 1 /\ 1 + i - 1 = i
      BY <1>2, <2>4
    <3>2. QED
      BY <1>4, <2>2, <2>3, <3>1
  <2>6. a = b
    BY <2>2, <2>3, <2>4, <2>5, SeqEqual
  <2>7. QED
    BY <2>6 DEF a, b
<1>6. QED
  BY <1>4, <1>5 DEF IsPrefix

\* What fr hashes stays a prefix of what sr hashes, whatever is on the path.
LEMMA WalkExtends ==
    ASSUME NEW E, NEW H, \A h \in H : h.entries \in Seq(E), NEW path \in Seq(H), NEW start,
           Extended(E, start.fr.entries, start.sr.entries)
    PROVE  \A n \in 0..Len(path) :
             Extended(E, Walk(start, path)[n].fr.entries, Walk(start, path)[n].sr.entries)
<1> DEFINE walk == Walk(start, path)
           Good(n) == Extended(E, walk[n].fr.entries, walk[n].sr.entries)
           G == {n \in Nat : n <= Len(path) => Good(n)}
<1>0. Len(path) \in Nat
  OBVIOUS
<1>1. /\ walk[0] = start
      /\ \A n \in 1..Len(path) : walk[n] = Climb(walk[n - 1], path[n])
  BY <1>0, WalkEquations
<1> HIDE DEF walk
<1>2. 0 \in G
  BY <1>1
<1>3. ASSUME NEW n \in Nat, n \in G PROVE n + 1 \in G
  <2>1. ASSUME n + 1 <= Len(path) PROVE Good(n + 1)
    <3>1. n + 1 \in 1..Len(path) /\ (n + 1) - 1 = n /\ n <= Len(path)
      BY <1>0, <2>1
    <3>2. PICK w, p : w = walk[n] /\ p = path[n + 1] /\ p \in H
      BY <3>1
    <3>3. walk[n + 1] = Climb(w, p)
      BY <1>1, <3>1, <3>2
    <3>4. Extended(E, w.fr.entries, w.sr.entries)
      BY <1>3, <3>1, <3>2
    <3>5. PICK s, t : s = w.fr.entries /\ t = w.sr.entries
      OBVIOUS
    <3>6. PICK u \in Seq(E) : t = s \o u /\ s \in Seq(E) /\ t \in Seq(E)
      BY <3>4, <3>5 DEF Extended
    <3>7. PICK q \in Seq(E) : q = p.entries
      BY <3>2
    <3>8. CASE Odd(w.fn) \/ w.fn = w.sn
      <4>1. Climb(w, p).fr = NodeHash(p, w.fr) /\ Climb(w, p).sr = NodeHash(p, w.sr)
        BY <3>8, ClimbFields
      <4>2a. NodeHash(p, w.fr).entries = p.entries \o w.fr.entries
        BY HashFields
      <4>2b. NodeHash(p, w.sr).entries = p.entries \o w.sr.entries
        BY HashFields
      <4>2. NodeHash(p, w.fr).entries = q \o s /\ NodeHash(p, w.sr).entries = q \o t
        BY <3>5, <3>7, <4>2a, <4>2b
      <4>3a. q \o s \in Seq(E) /\ q \o t \in Seq(E)
        BY <3>6, ConcatProperties
      <4>3b. (q \o s) \o u = q \o (s \o u)
        BY <3>6, ConcatAssociative
      <4>3. q \o s \in Seq(E) /\ q \o t \in Seq(E) /\ q \o t = (q \o s) \o u
        BY <3>6, <4>3a, <4>3b
      <4>4. Extended(E, q \o s, q \o t)
        BY <4>3 DEF Extended
      <4>5. QED
        BY <3>3, <4>1, <4>2, <4>4
    <3>9. CASE ~(Odd(w.fn) \/ w.fn = w.sn)
      <4>1. Climb(w, p).fr = w.fr /\ Climb(w, p).sr = NodeHash(w.sr, p)
        BY <3>9, ClimbFields
      <4>2. NodeHash(w.sr, p).entries = t \o q
        BY <3>5, <3>7, HashFields
      <4>3. t \o q \in Seq(E) /\ u \o q \in Seq(E) /\ t \o q = s \o (u \o q)
        BY <3>6, ConcatProperties, ConcatAssociative
      <4>4. Extended(E, s, t \o q)
        BY <3>6, <4>3 DEF Extended
      <4>5. QED
        BY <3>3, <3>5, <4>1, <4>2, <4>4
    <3>10. QED
      BY <3>8, <3>9
  <2>2. QED
    BY <2>1
<1>4. \A n \in Nat : n \in G
  <2> HIDE DEF G
  <2>1. QED
    BY <1>2, <1>3, InductiveSet
<1>5. ASSUME NEW n \in 0..Len(path) PROVE Good(n)
  <2>1. n \in Nat /\ n <= Len(path)
    BY <1>0
  <2>2. QED
    BY <1>4, <2>1
<1>6. QED
  BY <1>5 DEF walk

\* Every sequence extends itself.
LEMMA ExtendedSelf ==
    ASSUME NEW E, NEW s \in Seq(E) PROVE Extended(E, s, s)
<1>1. <<>> \in Seq(E) /\ s = s \o <<>>
  BY ConcatEmptySeq
<1>2. QED
  BY <1>1 DEF Extended

\* The path that VerifyConsistency walks: the old root first if it is a whole
\* subtree of the new tree, otherwise the proof's own first hash.
LEMMA ConsistencySound ==
    ASSUME NEW E, NEW H, \A h \in H : h.entries \in Seq(E), NEW proof \in Seq(H),
           NEW oldRoot \in H, NEW newRoot, NEW size1 \in Nat, NEW size2 \in Nat, size1 # 0,
           VerifyConsistency(oldRoot, newRoot, size1, size2, proof)
    PROVE  Extended(E, oldRoot.entries, newRoot.entries)
<1>1. CASE size1 = size2
  <2>1. oldRoot = newRoot
    BY <1>1 DEF VerifyConsistency
  <2>2. QED
    BY <2>1, ExtendedSelf
<1>2. CASE size1 # size2
  <2> DEFINE path == (IF PowerOfTwo(size1) THEN <<oldRoot>> ELSE <<>>) \o proof
             start == Walker(size1 - 1, size2 - 1, Odds(size1 - 1), path[1], path[1])
             n == Len(Tail(path))
  <2>1. /\ proof # <<>>
        /\ Walk(start, Tail(path))[n].fr = oldRoot /\ Walk(start, Tail(path))[n].sr = newRoot
    BY <1>2 DEF VerifyConsistency
  <2>2. path \in Seq(H) /\ path # <<>>
    <3>1. CASE PowerOfTwo(size1)
      <4>1. path = <<oldRoot>> \o proof /\ <<oldRoot>> \in Seq(H) /\ Len(<<oldRoot>>) = 1
        BY <3>1
      <4>2. <<oldRoot>> \o proof \in Seq(H) /\ Len(<<oldRoot>> \o proof) = 1 + Len(proof)
        BY <4>1, ConcatProperties
      <4>3. QED
        BY <4>1, <4>2
    <3>2. CASE ~PowerOfTwo(size1)
      <4>1. path = proof
        BY <3>2, ConcatEmptySeq
      <4>2. QED
        BY <2>1, <4>1
    <3>3. QED
      BY <3>1, <3>2
  <2>3. PICK P : P = path
    OBVIOUS
  <2>4. Tail(P) \in Seq(H) /\ P[1] \in H
    <3>1. P \in Seq(H) /\ P # <<>>
      BY <2>2, <2>3
    <3>2. QED
      BY <3>1
  <2>5. PICK s : s = Walker(size1 - 1, size2 - 1, Odds(size1 - 1), P[1], P[1])
    OBVIOUS
  <2>6. Walk(s, Tail(P))[Len(Tail(P))].fr = oldRoot /\ Walk(s, Tail(P))[Len(Tail(P))].sr = newRoot
    <3> HIDE DEF path
    <3>1. QED
      BY <2>1, <2>3, <2>5
  <2> HIDE DEF path, start, n
  <2>7. s.fr = P[1] /\ s.sr = P[1]
    BY <2>5, WalkerFields
  <2>8. Extended(E, s.fr.entries, s.sr.entries)
    BY <2>4, <2>7, ExtendedSelf
  <2>9. Len(Tail(P)) \in 0..Len(Tail(P))
    BY <2>4
  <2>10. Extended(E, Walk(s, Tail(P))[Len(Tail(P))].fr.entries, Walk(s, Tail(P))[Len(Tail(P))].sr.entries)
    BY <2>4, <2>8, <2>9, WalkExtends
  <2>11. QED
    BY <2>6, <2>10
<1>3. QED
  BY <1>1, <1>2
-----------------------------------------------------------------------------
(* One more level of the tree                                              *)

\* A round of the verifiers' loop that hashes the proof on the left, ...
LEMMA ClimbLeft ==
    ASSUME NEW w, NEW p, NEW f, NEW n, NEW h, w.fn = f, w.sn = n, Odd(f) \/ f = n,
           h = Evens(f) + 1
    PROVE  /\ Climb(w, p).fn = Shr(f, h) /\ Climb(w, p).sn = Shr(n, h)
           /\ Climb(w, p).fr = NodeHash(p, w.fr) /\ Climb(w, p).sr = NodeHash(p, w.sr)
  BY ClimbFields

\* ... and one that hashes it on the right.
LEMMA ClimbRight ==
    ASSUME NEW w, NEW p, NEW f, NEW n, w.fn = f, w.sn = n, ~Odd(f), f # n
    PROVE  /\ Climb(w, p).fn = Shr(f, 1) /\ Climb(w, p).sn = Shr(n, 1)
           /\ Climb(w, p).fr = w.fr /\ Climb(w, p).sr = NodeHash(w.sr, p)
  BY ClimbFields

\* No shift, ...
LEMMA ShrZero == \A x \in Nat : Shr(x, 0) = x
<1>1. ASSUME NEW x \in Nat PROVE Shr(x, 0) = x
  BY ShrEquations
<1>2. QED
  BY <1>1

\* ... and one.
LEMMA ShrOne == \A x \in Nat : Shr(x, 1) = x \div 2 /\ x \div 2 \in Nat
<1>1. ASSUME NEW x \in Nat PROVE Shr(x, 1) = x \div 2
  <2>1. Shr(x, 0) = x
    BY ShrEquations
  <2>2. PICK z \in Nat : z = 0
    OBVIOUS
  <2>3. Shr(x, z + 1) = Shr(x, z) \div 2
    BY ShrEquations
  <2>4. QED
    BY <2>1, <2>2, <2>3
<1>2. QED
  BY <1>1

\* A walk a in a full subtree of height d, and the walk b of the same leaf in
\* a tree that has this subtree on its left.
InLeft(a, b, d) ==
    /\ a.fn \in Nat /\ a.fn < Pow2(d) /\ a.sn = Pow2(d) - 1
    /\ b.fn = a.fn /\ b.sn \in Nat /\ Pow2(d) <= b.sn /\ b.sn < 2 * Pow2(d)
    /\ b.fr = a.fr /\ b.sr = a.sr

\* A walk a in a subtree of height at most d, and the walk b of the same leaf
\* in the tree that has a full subtree of that height on its left.
InRight(a, b, d) ==
    /\ a.fn \in Nat /\ a.sn \in Nat /\ a.fn <= a.sn /\ a.sn < Pow2(d)
    /\ b.fn = Pow2(d) + a.fn /\ b.sn = Pow2(d) + a.sn
    /\ b.fr = a.fr /\ b.sr = a.sr

\* Both walks take the same turns as long as the inner one has not ended.
LEMMA LeftStep ==
    ASSUME NEW a, NEW b, NEW p, NEW d \in Nat, InLeft(a, b, d), a.sn # 0
    PROVE  \E e \in Nat : InLeft(Climb(a, p), Climb(b, p), e)
<1>1. d # 0
  BY Pow2Equations DEF InLeft
<1>2. PICK e \in Nat, q \in Nat : e = d - 1 /\ q = Pow2(e) /\ q >= 1 /\ Pow2(d) = 2 * q
  BY <1>1, Pow2Half, Pow2Facts
<1>3. PICK f \in Nat, n \in Nat, m \in Nat :
        f = a.fn /\ f = b.fn /\ n = a.sn /\ m = b.sn
        /\ f < 2 * q /\ n = 2 * q - 1 /\ 2 * q <= m /\ m < 4 * q
  BY <1>2 DEF InLeft
<1>3a. a.fn = f /\ b.fn = f /\ a.sn = n /\ b.sn = m
  BY <1>3
<1>4. /\ f \div 2 \in Nat /\ f \div 2 < q /\ n \div 2 = q - 1 /\ m \div 2 \in Nat
      /\ q <= m \div 2 /\ m \div 2 < 2 * q
  BY <1>2, <1>3
<1>5. Shr(f, 1) = f \div 2 /\ Shr(n, 1) = n \div 2 /\ Shr(m, 1) = m \div 2
  BY ShrOne
<1>6. CASE Odd(f)
  <2>1. Evens(f) + 1 = 1
    BY <1>6, EvensOdd
  <2>2. /\ Climb(a, p).fn = Shr(f, 1) /\ Climb(a, p).sn = Shr(n, 1)
        /\ Climb(a, p).fr = NodeHash(p, a.fr) /\ Climb(a, p).sr = NodeHash(p, a.sr)
    BY <1>3a, <1>6, <2>1, ClimbLeft
  <2>3. /\ Climb(b, p).fn = Shr(f, 1) /\ Climb(b, p).sn = Shr(m, 1)
        /\ Climb(b, p).fr = NodeHash(p, b.fr) /\ Climb(b, p).sr = NodeHash(p, b.sr)
    BY <1>3a, <1>6, <2>1, ClimbLeft
  <2>4. InLeft(Climb(a, p), Climb(b, p), e)
    BY <1>2, <1>4, <1>5, <2>2, <2>3 DEF InLeft
  <2>5. QED
    BY <2>4
<1>7. CASE ~Odd(f)
  <2>1. f # n /\ f # m
    BY <1>2, <1>3, <1>7 DEF Odd
  <2>2. /\ Climb(a, p).fn = Shr(f, 1) /\ Climb(a, p).sn = Shr(n, 1)
        /\ Climb(a, p).fr = a.fr /\ Climb(a, p).sr = NodeHash(a.sr, p)
    BY <1>3a, <1>7, <2>1, ClimbRight
  <2>3. /\ Climb(b, p).fn = Shr(f, 1) /\ Climb(b, p).sn = Shr(m, 1)
        /\ Climb(b, p).fr = b.fr /\ Climb(b, p).sr = NodeHash(b.sr, p)
    BY <1>3a, <1>7, <2>1, ClimbRight
  <2>4. InLeft(Climb(a, p), Climb(b, p), e)
    BY <1>2, <1>4, <1>5, <2>2, <2>3 DEF InLeft
  <2>5. QED
    BY <2>4
<1>8. QED
  BY <1>6, <1>7

\* And the outer one then takes one step more, past its right sibling.
LEMMA LeftEnd ==
    ASSUME NEW a, NEW b, NEW p, NEW d \in Nat, InLeft(a, b, d), a.sn = 0
    PROVE  /\ Climb(b, p).sn = 0 /\ Climb(b, p).fr = a.fr
           /\ Climb(b, p).sr = NodeHash(a.sr, p)
<1>1. PICK q \in Nat : q = Pow2(d) /\ q = 1
  BY Pow2Facts DEF InLeft
<1>2. b.fn = 0 /\ b.sn = 1
  BY <1>1 DEF InLeft
<1>3. ~Odd(b.fn) /\ b.fn # b.sn
  BY <1>2 DEF Odd
<1>4. Climb(b, p).sn = Shr(b.sn, 1) /\ Climb(b, p).fr = b.fr /\ Climb(b, p).sr = NodeHash(b.sr, p)
  BY <1>3, ClimbFields
<1>5. Shr(b.sn, 1) = 0
  <2>1. PICK m \in Nat : m = b.sn /\ m = 1
    BY <1>2
  <2>2. Shr(m, 1) = m \div 2
    BY ShrOne
  <2>3. QED
    BY <2>1, <2>2
<1>6. QED
  BY <1>4, <1>5 DEF InLeft

\* A round in the right subtree is a round in the whole tree.
LEMMA RightStep ==
    ASSUME NEW a, NEW b, NEW p, NEW d \in Nat, InRight(a, b, d), a.sn # 0
    PROVE  \E e \in Nat : InRight(Climb(a, p), Climb(b, p), e)
<1>1. d # 0
  BY Pow2Equations DEF InRight
<1>2. PICK q \in Nat : q = Pow2(d - 1) /\ q >= 1 /\ Pow2(d) = 2 * q /\ d - 1 \in Nat
  BY <1>1, Pow2Half, Pow2Facts
<1>3. PICK f \in Nat, n \in Nat, k \in Nat, m \in Nat :
        f = a.fn /\ n = a.sn /\ k = b.fn /\ m = b.sn
        /\ f <= n /\ n < 2 * q /\ k = 2 * q + f /\ m = 2 * q + n /\ n # 0
  BY <1>2 DEF InRight
<1>3a. a.fn = f /\ b.fn = k /\ a.sn = n /\ b.sn = m
  BY <1>3
<1>4. /\ f \div 2 \in Nat /\ n \div 2 \in Nat /\ f \div 2 <= n \div 2 /\ n \div 2 < q
      /\ k \div 2 = q + (f \div 2) /\ m \div 2 = q + (n \div 2)
  BY <1>2, <1>3
<1>5. Shr(f, 1) = f \div 2 /\ Shr(n, 1) = n \div 2 /\ Shr(k, 1) = k \div 2 /\ Shr(m, 1) = m \div 2
  BY ShrOne
<1>6. Odd(f) <=> Odd(k)
  BY <1>2, <1>3 DEF Odd
<1>7. f = n <=> k = m
  BY <1>3
<1>8. CASE Odd(f)
  <2>1. Evens(f) + 1 = 1 /\ Evens(k) + 1 = 1
    BY <1>6, <1>8, EvensOdd
  <2>2. /\ Climb(a, p).fn = Shr(f, 1) /\ Climb(a, p).sn = Shr(n, 1)
        /\ Climb(a, p).fr = NodeHash(p, a.fr) /\ Climb(a, p).sr = NodeHash(p, a.sr)
    BY <1>3a, <1>8, <2>1, ClimbLeft
  <2>3. /\ Climb(b, p).fn = Shr(k, 1) /\ Climb(b, p).sn = Shr(m, 1)
        /\ Climb(b, p).fr = NodeHash(p, b.fr) /\ Climb(b, p).sr = NodeHash(p, b.sr)
    BY <1>3a, <1>6, <1>8, <2>1, ClimbLeft
  <2>4. InRight(Climb(a, p), Climb(b, p), d - 1)
    BY <1>2, <1>4, <1>5, <2>2, <2>3 DEF InRight
  <2>5. QED
    BY <1>2, <2>4
<1>9. CASE ~Odd(f) /\ f = n
  <2>1. PICK e \in Nat : e = Evens(f) /\ e < d /\ Evens(Pow2(d) + f) = e
    BY <1>2, <1>3, <1>9, EvensAdd
  <2>2. Evens(k) = e
    BY <1>2, <1>3, <2>1
  <2>3. PICK h \in Nat : h = e + 1
    OBVIOUS
  <2>4. /\ Climb(a, p).fn = Shr(f, h) /\ Climb(a, p).sn = Shr(f, h)
        /\ Climb(a, p).fr = NodeHash(p, a.fr) /\ Climb(a, p).sr = NodeHash(p, a.sr)
    BY <1>3a, <1>9, <2>1, <2>3, ClimbLeft
  <2>5. /\ Climb(b, p).fn = Shr(k, h) /\ Climb(b, p).sn = Shr(k, h)
        /\ Climb(b, p).fr = NodeHash(p, b.fr) /\ Climb(b, p).sr = NodeHash(p, b.sr)
    BY <1>3a, <1>7, <1>9, <2>2, <2>3, ClimbLeft
  <2>6. h \in 0..d /\ f < Pow2(d) /\ k = Pow2(d) + f /\ d - h \in Nat
    BY <1>2, <1>3, <2>1, <2>3
  <2>7. Shr(k, h) = Pow2(d - h) + Shr(f, h) /\ Shr(f, h) < Pow2(d - h) /\ Shr(f, h) \in Nat
    <3>1. Shr(Pow2(d) + f, h) = Pow2(d - h) + Shr(f, h) /\ Shr(f, h) < Pow2(d - h)
      BY <2>6, ShrAdd
    <3>2. Shr(f, h) \in Nat
      BY ShrNat
    <3>3. QED
      BY <2>6, <3>1, <3>2
  <2>8. InRight(Climb(a, p), Climb(b, p), d - h)
    BY <2>4, <2>5, <2>7 DEF InRight
  <2>9. QED
    BY <2>6, <2>8
<1>10. CASE ~Odd(f) /\ f # n
  <2>2. /\ Climb(a, p).fn = Shr(f, 1) /\ Climb(a, p).sn = Shr(n, 1)
        /\ Climb(a, p).fr = a.fr /\ Climb(a, p).sr = NodeHash(a.sr, p)
    BY <1>3a, <1>10, ClimbRight
  <2>3. /\ Climb(b, p).fn = Shr(k, 1) /\ Climb(b, p).sn = Shr(m, 1)
        /\ Climb(b, p).fr = b.fr /\ Climb(b, p).sr = NodeHash(b.sr, p)
    BY <1>3a, <1>6, <1>7, <1>10, ClimbRight
  <2>4. InRight(Climb(a, p), Climb(b, p), d - 1)
    BY <1>2, <1>4, <1>5, <2>2, <2>3 DEF InRight
  <2>5. QED
    BY <1>2, <2>4
<1>11. QED
  BY <1>8, <1>9, <1>10

\* The one step more is past the left sibling here, and over the zero bits
\* that a right subtree of less than full height leaves.
LEMMA RightEnd ==
    ASSUME NEW a, NEW b, NEW p, NEW d \in Nat, InRight(a, b, d), a.sn = 0
    PROVE  /\ Climb(b, p).sn = 0 /\ Climb(b, p).fr = NodeHash(p, a.fr)
           /\ Climb(b, p).sr = NodeHash(p, a.sr)
<1>1. PICK q \in Nat : q = Pow2(d)
  BY Pow2Facts
<1>2. b.fn = q /\ b.sn = q
  BY <1>1 DEF InRight
<1>3. Climb(b, p).sn = Shr(q, Evens(q) + 1) /\ Climb(b, p).fr = NodeHash(p, b.fr) /\ Climb(b, p).sr = NodeHash(p, b.sr)
  BY <1>2, ClimbFields
<1>4. Shr(q, Evens(q) + 1) = 0
  BY <1>1, EvensPow2
<1>5. QED
  BY <1>3, <1>4 DEF InRight

\* The walks of a subtree and of the tree it lies in, on either side.
Inside(side, a, b, d) == IF side = "left" THEN InLeft(a, b, d) ELSE InRight(a, b, d)

\* The outer root after the walk t in a tree, given the walk w in its subtree
\* on that side and the sibling p.
OuterEnds(side, v, w, p) ==
    IF side = "left" THEN v.fr = w.fr /\ v.sr = NodeHash(w.sr, p)
                     ELSE v.fr = NodeHash(p, w.fr) /\ v.sr = NodeHash(p, w.sr)

\* A walk of a subtree, with the sibling as its last hash, is a walk of the tree.
LEMMA OuterWalk ==
    ASSUME NEW side, NEW H, NEW P \in Seq(H), NEW p \in H, NEW s, NEW t, NEW d \in Nat,
           Inside(side, s, t, d), EndsAtRoot(Walk(s, P), Len(P))
    PROVE  /\ Append(P, p) \in Seq(H) /\ Len(Append(P, p)) = Len(P) + 1
           /\ EndsAtRoot(Walk(t, Append(P, p)), Len(P) + 1)
           /\ OuterEnds(side, Walk(t, Append(P, p))[Len(P) + 1], Walk(s, P)[Len(P)], p)
<1>1a. PICK Q : Q = Append(P, p)
  OBVIOUS
<1>1b. PICK n \in Nat : n = Len(P)
  OBVIOUS
<1>2. Q \in Seq(H) /\ Len(Q) = n + 1 /\ (\A i \in 1..n : Q[i] = P[i]) /\ Q[n + 1] = p
  BY <1>1a, <1>1b, AppendProperties
<1>3. PICK w, v : w = Walk(s, P) /\ v = Walk(t, Q)
  OBVIOUS
<1>4. w[0] = s /\ \A m \in 1..n : w[m] = Climb(w[m - 1], P[m])
  BY <1>1b, <1>3, WalkEquations
<1>5. v[0] = t /\ \A m \in 1..n + 1 : v[m] = Climb(v[m - 1], Q[m])
  <2>1. Len(Q) \in Nat /\ Len(Q) = n + 1
    BY <1>2
  <2>2. Walk(t, Q)[0] = t /\ \A m \in 1..Len(Q) : Walk(t, Q)[m] = Climb(Walk(t, Q)[m - 1], Q[m])
    BY <2>1, WalkEquations
  <2>3. QED
    BY <1>3, <2>1, <2>2
<1>6. w[n].sn = 0 /\ \A m \in 0..n - 1 : w[m].sn # 0
  BY <1>1b, <1>3 DEF EndsAtRoot
<1>7. ASSUME NEW a, NEW b, NEW q, NEW e \in Nat, Inside(side, a, b, e), a.sn # 0
      PROVE  \E f \in Nat : Inside(side, Climb(a, q), Climb(b, q), f)
  BY <1>7, LeftStep, RightStep DEF Inside
<1> DEFINE G == {m \in Nat : m <= n => \E e \in Nat : Inside(side, w[m], v[m], e)}
<1>8. 0 \in G
  BY <1>4, <1>5
<1>9. ASSUME NEW m \in Nat, m \in G PROVE m + 1 \in G
  <2>1. ASSUME m + 1 <= n PROVE \E e \in Nat : Inside(side, w[m + 1], v[m + 1], e)
    <3>1. m <= n /\ m \in 0..n - 1 /\ m + 1 \in 1..n /\ m + 1 \in 1..n + 1 /\ (m + 1) - 1 = m
      BY <2>1
    <3>2. PICK e \in Nat : Inside(side, w[m], v[m], e)
      BY <1>9, <3>1
    <3>3. w[m + 1] = Climb(w[m], P[m + 1])
      BY <1>4, <3>1
    <3>4. v[m + 1] = Climb(v[m], P[m + 1])
      BY <1>2, <1>5, <3>1
    <3>5. w[m].sn # 0
      BY <1>6, <3>1
    <3>6. QED
      BY <1>7, <3>2, <3>3, <3>4, <3>5
  <2>2. QED
    BY <2>1
<1>10. \A m \in Nat : m \in G
  <2> HIDE DEF G
  <2>1. QED
    BY <1>8, <1>9, InductiveSet
<1>11. ASSUME NEW m \in 0..n PROVE v[m].sn # 0
  <2>1. PICK e \in Nat : Inside(side, w[m], v[m], e)
    BY <1>10
  <2>2. Pow2(e) \in Nat /\ Pow2(e) >= 1
    BY Pow2Facts
  <2>3. CASE side = "left"
    BY <2>1, <2>2, <2>3 DEF Inside, InLeft
  <2>4. CASE side # "left"
    BY <2>1, <2>2, <2>4 DEF Inside, InRight
  <2>5. QED
    BY <2>3, <2>4
<1>12. PICK e \in Nat : Inside(side, w[n], v[n], e)
  BY <1>10
<1>13. v[n + 1] = Climb(v[n], p)
  BY <1>2, <1>5
<1>14. v[n + 1].sn = 0 /\ OuterEnds(side, v[n + 1], w[n], p)
  <2>1. CASE side = "left"
    BY <1>6, <1>12, <1>13, <2>1, LeftEnd DEF Inside, OuterEnds
  <2>2. CASE side # "left"
    BY <1>6, <1>12, <1>13, <2>2, RightEnd DEF Inside, OuterEnds
  <2>3. QED
    BY <2>1, <2>2
<1>15. EndsAtRoot(v, n + 1)
  <2>1. \A m \in 0..(n + 1) - 1 : m \in 0..n
    OBVIOUS
  <2>2. QED
    BY <1>11, <1>14, <2>1 DEF EndsAtRoot
<1>16. QED
  BY <1>1a, <1>1b, <1>2, <1>3, <1>14, <1>15

\* A walk that is at the root already.
LEMMA EmptyWalk ==
    ASSUME NEW s, s.sn = 0
    PROVE  EndsAtRoot(Walk(s, <<>>), Len(<<>>)) /\ Walk(s, <<>>)[Len(<<>>)] = s
<1>1. Len(<<>>) = 0 /\ Walk(s, <<>>)[0] = s
  BY WalkEquations
<1>2. QED
  BY <1>1 DEF EndsAtRoot

\* The hashes of the subtrees of a log.
Hashes(L) == {Mth(L, p[1], p[2]) : p \in (0..Len(L)) \X (0..Len(L))}

\* The tree hashes of a log are among its hashes, ...
LEMMA MthInHashes ==
    ASSUME NEW L, NEW i \in 0..Len(L), NEW j \in 0..Len(L) PROVE Mth(L, i, j) \in Hashes(L)
<1>1. <<i, j>> \in (0..Len(L)) \X (0..Len(L)) /\ <<i, j>>[1] = i /\ <<i, j>>[2] = j
  OBVIOUS
<1>2. QED
  BY <1>1 DEF Hashes

\* ... each of which names entries of the log.
LEMMA HashesEntries ==
    ASSUME NEW E, NEW L \in Seq(E) PROVE \A h \in Hashes(L) : h.entries \in Seq(E)
<1>1. ASSUME NEW h \in Hashes(L) PROVE h.entries \in Seq(E)
  <2>1. PICK p \in (0..Len(L)) \X (0..Len(L)) : h = Mth(L, p[1], p[2])
    BY DEF Hashes
  <2>2. p[1] \in 0..Len(L) /\ p[2] \in 0..Len(L)
    OBVIOUS
  <2>3. QED
    BY <2>1, <2>2, MthSeq
<1>2. QED
  BY <1>1

\* The walk of leaf idx over its path in every subtree [i, j) it lies in.
LEMMA InclusionWalk ==
    ASSUME NEW E, NEW L \in Seq(E), NEW size \in 0..Len(L), NEW idx \in Nat, idx < size
    PROVE  LET leaf == LeafHash(L[idx + 1])
               start == Walker(idx, size - 1, 0, leaf, leaf)
               proof == InclusionProof(L, idx, size)
               n == Len(proof)
           IN  /\ proof \in Seq(Hashes(L)) /\ EndsAtRoot(Walk(start, proof), n)
               /\ Walk(start, proof)[n].sr = Mth(L, 0, size)
<1>1. PICK leaf : leaf = LeafHash(L[idx + 1])
  OBVIOUS
<1>2. size \in Nat /\ Len(L) \in Nat /\ size <= Len(L)
  OBVIOUS
<1>3. PICK path :
        /\ InclusionProof(L, idx, size) = path[<<0, size>>]
        /\ \A i, j \in 0..size : (i <= idx /\ idx < j) =>
             path[<<i, j>>] =
               IF j - i = 1 THEN <<>>
               ELSE IF idx < i + SplitPoint(j - i)
               THEN Append(path[<<i, i + SplitPoint(j - i)>>], Mth(L, i + SplitPoint(j - i), j))
               ELSE Append(path[<<i + SplitPoint(j - i), j>>], Mth(L, i, i + SplitPoint(j - i)))
  BY <1>2, InclusionPath
<1> DEFINE Start(i, j) == Walker(idx - i, j - i - 1, 0, leaf, leaf)
           Good(i, j) ==
             /\ path[<<i, j>>] \in Seq(Hashes(L))
             /\ EndsAtRoot(Walk(Start(i, j), path[<<i, j>>]), Len(path[<<i, j>>]))
             /\ Walk(Start(i, j), path[<<i, j>>])[Len(path[<<i, j>>])].sr = Mth(L, i, j)
           Right(n) == \A i, j \in 0..size : (i <= idx /\ idx < j /\ j - i = n) => Good(i, j)
           G == {n \in Nat : Right(n)}
<1>4. ASSUME NEW i \in 0..size, NEW j \in 0..size, i <= idx, idx < j
      PROVE  /\ Start(i, j).fn = idx - i /\ Start(i, j).sn = j - i - 1
             /\ Start(i, j).fr = leaf /\ Start(i, j).sr = leaf
  <2>1. PICK f \in Nat, n \in Nat : f = idx - i /\ n = j - i - 1
    BY <1>4
  <2>2. Shr(f, 0) = f /\ Shr(n, 0) = n
    BY ShrZero
  <2>3. QED
    BY <2>1, <2>2, WalkerFields
<1> HIDE DEF Start
<1>5. ASSUME NEW n \in Nat, \A m \in 0..n - 1 : m \in G PROVE n \in G
  <2>1. ASSUME NEW i \in 0..size, NEW j \in 0..size, i <= idx, idx < j, j - i = n
        PROVE  Good(i, j)
    <3>1. CASE n = 1
      <4>1. j = idx + 1 /\ i = idx /\ i \in 0..Len(L) /\ j \in 0..Len(L)
        BY <2>1, <3>1
      <4>2. path[<<i, j>>] = <<>>
        BY <1>3, <2>1, <3>1
      <4>3. Mth(L, i, j) = leaf
        BY <1>1, <1>2, <2>1, <3>1, <4>1, MthEquation
      <4>4. Start(i, j).sn = 0 /\ Start(i, j).sr = leaf
        BY <1>4, <2>1, <3>1
      <4>5. EndsAtRoot(Walk(Start(i, j), <<>>), Len(<<>>)) /\ Walk(Start(i, j), <<>>)[Len(<<>>)] = Start(i, j)
        BY <4>4, EmptyWalk
      <4>6. QED
        BY <4>2, <4>3, <4>4, <4>5
    <3>2. CASE n # 1
      <4>1. n >= 2 /\ i \in Nat /\ j \in Nat
        BY <2>1, <3>2
      <4>2. PICK d \in Nat, k \in Nat : /\ SplitPoint(n) = k /\ k = Pow2(d) /\ 1 <= k
                                        /\ k < n /\ n <= 2 * k
        BY <4>1, SplitIs
      <4>3. /\ i + k \in 0..size /\ i \in 0..Len(L) /\ j \in 0..Len(L) /\ i + k \in 0..Len(L)
            /\ SplitPoint(j - i) = k
        BY <1>2, <2>1, <4>2
      <4>4. Mth(L, i, j) = NodeHash(Mth(L, i, i + k), Mth(L, i + k, j))
        <5>1. ~(j <= i) /\ j - i # 1
          BY <2>1, <3>2, <4>1
        <5>2. QED
          BY <1>2, <4>3, <5>1, MthEquation
      <4>5. Mth(L, i, i + k) \in Hashes(L) /\ Mth(L, i + k, j) \in Hashes(L)
        BY <4>3, MthInHashes
      <4>6. CASE idx < i + k
        <5>1. path[<<i, j>>] = Append(path[<<i, i + k>>], Mth(L, i + k, j))
          BY <1>3, <2>1, <3>2, <4>3, <4>6
        <5>2. k \in 0..n - 1 /\ (i + k) - i = k
          BY <4>1, <4>2
        <5>3. Good(i, i + k)
          BY <1>5, <2>1, <4>3, <4>6, <5>2
        <5>3a. (i + k) - i - 1 = k - 1
          BY <4>1
        <5>4. /\ Start(i, i + k).fn = idx - i /\ Start(i, i + k).sn = k - 1
              /\ Start(i, i + k).fr = leaf /\ Start(i, i + k).sr = leaf
          BY <1>4, <2>1, <4>3, <4>6, <5>3a
        <5>5. /\ Start(i, j).fn = idx - i /\ Start(i, j).sn = n - 1
              /\ Start(i, j).fr = leaf /\ Start(i, j).sr = leaf
          BY <1>4, <2>1
        <5>6. PICK s, t, P, p : s = Start(i, i + k) /\ t = Start(i, j) /\ P = path[<<i, i + k>>] /\ p = Mth(L, i + k, j)
          OBVIOUS
        <5>7. Inside("left", s, t, d)
          <6>1. idx - i \in Nat /\ idx - i < k /\ n - 1 \in Nat /\ k <= n - 1 /\ n - 1 < 2 * k
            BY <2>1, <4>1, <4>2, <4>6
          <6>2. s.fn = idx - i /\ s.sn = k - 1 /\ s.fr = leaf /\ s.sr = leaf
            BY <5>4, <5>6
          <6>3. t.fn = idx - i /\ t.sn = n - 1 /\ t.fr = leaf /\ t.sr = leaf
            BY <5>5, <5>6
          <6>4. QED
            BY <4>2, <6>1, <6>2, <6>3 DEF Inside, InLeft
        <5>8. P \in Seq(Hashes(L)) /\ EndsAtRoot(Walk(s, P), Len(P)) /\ Walk(s, P)[Len(P)].sr = Mth(L, i, i + k)
          BY <5>3, <5>6
        <5>9. /\ Append(P, p) \in Seq(Hashes(L)) /\ Len(Append(P, p)) = Len(P) + 1
              /\ EndsAtRoot(Walk(t, Append(P, p)), Len(P) + 1)
              /\ OuterEnds("left", Walk(t, Append(P, p))[Len(P) + 1], Walk(s, P)[Len(P)], p)
          BY <4>5, <5>6, <5>7, <5>8, OuterWalk
        <5>10. Walk(t, Append(P, p))[Len(P) + 1].sr = Mth(L, i, j)
          BY <4>4, <5>6, <5>8, <5>9 DEF OuterEnds
        <5>11. QED
          BY <5>1, <5>6, <5>9, <5>10
      <4>7. CASE ~(idx < i + k)
        <5>1. path[<<i, j>>] = Append(path[<<i + k, j>>], Mth(L, i, i + k))
          BY <1>3, <2>1, <3>2, <4>3, <4>7
        <5>2. n - k \in 0..n - 1 /\ j - (i + k) = n - k /\ i + k <= idx
          BY <2>1, <4>1, <4>2, <4>7
        <5>3. Good(i + k, j)
          BY <1>5, <2>1, <4>3, <5>2
        <5>4. /\ Start(i + k, j).fn = idx - (i + k) /\ Start(i + k, j).sn = j - (i + k) - 1
              /\ Start(i + k, j).fr = leaf /\ Start(i + k, j).sr = leaf
          BY <1>4, <2>1, <4>3, <5>2
        <5>5. /\ Start(i, j).fn = idx - i /\ Start(i, j).sn = j - i - 1
              /\ Start(i, j).fr = leaf /\ Start(i, j).sr = leaf
          BY <1>4, <2>1
        <5>6. PICK s, t, P, p : s = Start(i + k, j) /\ t = Start(i, j) /\ P = path[<<i + k, j>>] /\ p = Mth(L, i, i + k)
          OBVIOUS
        <5>7. Inside("right", s, t, d)
          <6>0. PICK f \in Nat, m \in Nat : f = idx - (i + k) /\ m = j - (i + k) - 1
            BY <2>1, <4>2, <5>2
          <6>a. i \in Int /\ j \in Int /\ k \in Int /\ idx \in Int /\ idx < j /\ j - i <= 2 * k
            BY <2>1, <4>1, <4>2
          <6>1. f <= m /\ m < k /\ idx - i = k + f /\ j - i - 1 = k + m
            BY <6>0, <6>a
          <6>2. s.fn = f /\ s.sn = m /\ s.fr = leaf /\ s.sr = leaf
            BY <5>4, <5>6, <6>0
          <6>3. t.fn = k + f /\ t.sn = k + m /\ t.fr = leaf /\ t.sr = leaf
            BY <5>5, <5>6, <6>1
          <6>4. QED
            BY <4>2, <6>1, <6>2, <6>3 DEF Inside, InRight
        <5>8. P \in Seq(Hashes(L)) /\ EndsAtRoot(Walk(s, P), Len(P)) /\ Walk(s, P)[Len(P)].sr = Mth(L, i + k, j)
          BY <5>3, <5>6
        <5>9. /\ Append(P, p) \in Seq(Hashes(L)) /\ Len(Append(P, p)) = Len(P) + 1
              /\ EndsAtRoot(Walk(t, Append(P, p)), Len(P) + 1)
              /\ OuterEnds("right", Walk(t, Append(P, p))[Len(P) + 1], Walk(s, P)[Len(P)], p)
          BY <4>5, <5>6, <5>7, <5>8, OuterWalk
        <5>10. Walk(t, Append(P, p))[Len(P) + 1].sr = Mth(L, i, j)
          BY <4>4, <5>6, <5>8, <5>9 DEF OuterEnds
        <5>11. QED
          BY <5>1, <5>6, <5>9, <5>10
      <4>8. QED
        BY <4>6, <4>7
    <3>3. QED
      BY <3>1, <3>2
  <2> HIDE DEF Good
  <2>2. QED
    BY <2>1
<1>6. \A n \in Nat : n \in G
  <2> HIDE DEF G
  <2>1. QED
    BY <1>5, CompleteInduction
<1>7. Good(0, size)
  <2>1. 0 \in 0..size /\ size \in 0..size /\ size - 0 = size /\ 0 <= idx
    BY <1>2
  <2>2. size \in G
    <3> HIDE DEF G
    <3>1. QED
      BY <1>2, <1>6
  <2> HIDE DEF Good
  <2>3. QED
    BY <2>1, <2>2
<1>8. Start(0, size) = Walker(idx, size - 1, 0, leaf, leaf)
  <2>1. idx - 0 = idx /\ size - 0 - 1 = size - 1
    BY <1>2
  <2>2. QED
    BY <2>1 DEF Start
<1>9. QED
  BY <1>1, <1>3, <1>7, <1>8

\* Where the walks of VerifyConsistency start: the old tree is the whole left
\* subtree, it ends inside it, or it ends beyond it.
LEMMA StartsWhole ==
    ASSUME NEW d \in Nat, NEW r \in Nat, r < Pow2(d), NEW X
    PROVE  \E s : /\ s.sn = 0 /\ s.fr = X /\ s.sr = X
                  /\ InLeft(s, Walker(Pow2(d) - 1, Pow2(d) + r, Odds(Pow2(d) - 1), X, X), 0)
<1> DEFINE s == Walker(0, 0, 0, X, X)
           t == Walker(Pow2(d) - 1, Pow2(d) + r, Odds(Pow2(d) - 1), X, X)
<1>1. s.fn = 0 /\ s.sn = 0 /\ s.fr = X /\ s.sr = X
  <2>1. Shr(0, 0) = 0
    BY ShrZero
  <2>2. QED
    BY <2>1, WalkerFields
<1>2. PICK q \in Nat : q = Pow2(0) /\ q = 1
  BY Pow2Equations
<1>3. Odds(Pow2(d) - 1) = d /\ d \in 0..d /\ d - d = 0
  BY OddsOnes
<1>4. Shr(Pow2(d) - 1, d) = 0
  <2>1. Shr(Pow2(d) - 1, d) = Pow2(d - d) - 1
    BY <1>3, ShrOnes
  <2>2. QED
    BY <1>2, <1>3, <2>1
<1>5. Shr(Pow2(d) + r, d) = 1
  <2>1. Shr(Pow2(d) + r, d) = Pow2(d - d) + Shr(r, d) /\ Shr(r, d) < Pow2(d - d)
    BY <1>3, ShrAdd
  <2>2. Shr(r, d) \in Nat
    BY ShrNat
  <2>3. QED
    BY <1>2, <1>3, <2>1, <2>2
<1>6. t.fn = 0 /\ t.sn = 1 /\ t.fr = X /\ t.sr = X
  BY <1>3, <1>4, <1>5, WalkerFields
<1> HIDE DEF s, t
<1>7. InLeft(s, t, 0)
  BY <1>1, <1>2, <1>6 DEF InLeft
<1>8. QED
  BY <1>1, <1>7 DEF t

\* The walks of a consistency proof whose old size ends in the left subtree start alike, ...
LEMMA StartsLeft ==
    ASSUME NEW d \in Nat, NEW x \in Nat, x < Pow2(d) - 1, NEW r \in Nat, r < Pow2(d), NEW X
    PROVE  \E e \in Nat : InLeft(Walker(x, Pow2(d) - 1, Odds(x), X, X),
                                 Walker(x, Pow2(d) + r, Odds(x), X, X), e)
<1> DEFINE s == Walker(x, Pow2(d) - 1, Odds(x), X, X)
           t == Walker(x, Pow2(d) + r, Odds(x), X, X)
<1>1. PICK z \in Nat : z = Odds(x) /\ z < d
  BY OddsSmall, OddsIs
<1>2. PICK q \in Nat : q = Pow2(d - z) /\ d - z \in Nat
  BY <1>1, Pow2Facts
<1>3. z \in 0..d /\ x < Pow2(d)
  BY <1>1, Pow2Facts
<1>4. PICK f \in Nat, y \in Nat : f = Shr(x, z) /\ y = Shr(r, z)
  BY ShrNat
<1>5. f < q /\ y < q /\ Shr(Pow2(d) + r, z) = q + y
  BY <1>2, <1>3, <1>4, ShrAdd
<1>6. Shr(Pow2(d) - 1, z) = q - 1
  BY <1>2, <1>3, ShrOnes
<1>7. s.fn = f /\ s.sn = q - 1 /\ s.fr = X /\ s.sr = X
  BY <1>1, <1>4, <1>6, WalkerFields
<1>8. t.fn = f /\ t.sn = q + y /\ t.fr = X /\ t.sr = X
  BY <1>1, <1>4, <1>5, WalkerFields
<1> HIDE DEF s, t
<1>9. InLeft(s, t, d - z)
  BY <1>2, <1>5, <1>7, <1>8 DEF InLeft
<1>10. QED
  BY <1>2, <1>9 DEF s, t

\* ... and so do those of one whose old size ends in the right subtree.
LEMMA StartsRight ==
    ASSUME NEW d \in Nat, NEW x \in Nat, x < Pow2(d) - 1, NEW r \in Nat, x <= r, r < Pow2(d), NEW X
    PROVE  \E e \in Nat : InRight(Walker(x, r, Odds(x), X, X),
                                  Walker(Pow2(d) + x, Pow2(d) + r, Odds(Pow2(d) + x), X, X), e)
<1> DEFINE s == Walker(x, r, Odds(x), X, X)
           t == Walker(Pow2(d) + x, Pow2(d) + r, Odds(Pow2(d) + x), X, X)
<1>1. PICK z \in Nat : z = Odds(x) /\ z < d /\ Odds(Pow2(d) + x) = z
  BY OddsSmall, OddsIs
<1>2. PICK q \in Nat : q = Pow2(d - z) /\ d - z \in Nat
  BY <1>1, Pow2Facts
<1>3. z \in 0..d /\ x < Pow2(d)
  BY <1>1, Pow2Facts
<1>4. PICK f \in Nat, y \in Nat : f = Shr(x, z) /\ y = Shr(r, z)
  BY ShrNat
<1>5. y < q /\ Shr(Pow2(d) + r, z) = q + y /\ Shr(Pow2(d) + x, z) = q + f
  BY <1>2, <1>3, <1>4, ShrAdd
<1>6. f <= y
  BY <1>4, ShrMonotone
<1>7. s.fn = f /\ s.sn = y /\ s.fr = X /\ s.sr = X
  BY <1>1, <1>4, WalkerFields
<1>8. t.fn = q + f /\ t.sn = q + y /\ t.fr = X /\ t.sr = X
  BY <1>1, <1>5, WalkerFields
<1> HIDE DEF s, t
<1>9. InRight(s, t, d - z)
  BY <1>2, <1>5, <1>6, <1>7, <1>8 DEF InRight
<1>10. QED
  BY <1>2, <1>9 DEF s, t

\* Appending behind the first element appends.
LEMMA AppendAfter ==
    ASSUME NEW H, NEW X \in H, NEW R \in Seq(H), NEW p \in H
    PROVE  Append(<<X>> \o R, p) = <<X>> \o Append(R, p)
<1>1. <<X>> \in Seq(H) /\ <<p>> \in Seq(H)
  OBVIOUS
<1>2. <<X>> \o R \in Seq(H)
  BY <1>1, ConcatProperties
<1>3. Append(<<X>> \o R, p) = (<<X>> \o R) \o <<p>> /\ Append(R, p) = R \o <<p>>
  BY <1>2, AppendIsConcat
<1>4. (<<X>> \o R) \o <<p>> = <<X>> \o (R \o <<p>>)
  BY <1>1, ConcatAssociative
<1>5. QED
  BY <1>3, <1>4

\* A power of two is one of its exponents' powers.
LEMMA PowerOfTwoIs ==
    ASSUME NEW d \in Nat, NEW n \in Nat
    PROVE  /\ n = Pow2(d) => PowerOfTwo(n)
           /\ (Pow2(d) < n /\ n < 2 * Pow2(d)) => ~PowerOfTwo(n)
<1>1. d < Pow2(d) /\ Pow2(d) \in Nat
  BY Pow2Facts
<1>2. ASSUME n = Pow2(d) PROVE PowerOfTwo(n)
  <2>1. d \in 0..n
    BY <1>1, <1>2
  <2>2. QED
    BY <1>2, <2>1 DEF PowerOfTwo
<1>3. ASSUME Pow2(d) < n, n < 2 * Pow2(d), PowerOfTwo(n) PROVE FALSE
  <2>1. PICK e \in 0..n : n = Pow2(e)
    BY <1>3 DEF PowerOfTwo
  <2>2. e \in Nat
    OBVIOUS
  <2>3. CASE e < d
    <3>1. 2 * Pow2(e) <= Pow2(d)
      BY <2>2, <2>3, Pow2Monotone
    <3>2. QED
      BY <1>1, <1>3, <2>1, <3>1
  <2>4. CASE e = d
    BY <1>1, <1>3, <2>1, <2>4
  <2>5. CASE d < e
    <3>1. 2 * Pow2(d) <= Pow2(e)
      BY <2>2, <2>5, Pow2Monotone
    <3>2. QED
      BY <1>1, <1>3, <2>1, <3>1
  <2>6. QED
    BY <2>2, <2>3, <2>4, <2>5
<1>4. QED
  BY <1>2, <1>3

\* The walk from X over R, in the subtree [i, j) and its old part [i, from).
StartAt(from, i, j, X) == Walker(from - i - 1, j - i - 1, Odds(from - i - 1), X, X)

\* The walk from the subtree that the proof starts with recomputes both roots.
ReachesBoth(L, from, i, j, X, R) ==
    /\ X \in Hashes(L) /\ R \in Seq(Hashes(L)) /\ Len(R) >= 1
    /\ EndsAtRoot(Walk(StartAt(from, i, j, X), R), Len(R))
    /\ Walk(StartAt(from, i, j, X), R)[Len(R)].fr = Mth(L, i, from)
    /\ Walk(StartAt(from, i, j, X), R)[Len(R)].sr = Mth(L, i, j)

\* A level up, the sibling on the right or on the left is appended.
LEMMA ReachesUp ==
    ASSUME NEW L, NEW side, NEW s, NEW P \in Seq(Hashes(L)), NEW p \in Hashes(L), NEW e \in Nat,
           NEW from, NEW i, NEW j, NEW X \in Hashes(L), NEW F, NEW S,
           Inside(side, s, StartAt(from, i, j, X), e), EndsAtRoot(Walk(s, P), Len(P)),
           Walk(s, P)[Len(P)].fr = F, Walk(s, P)[Len(P)].sr = S,
           IF side = "left" THEN Mth(L, i, from) = F /\ Mth(L, i, j) = NodeHash(S, p)
                            ELSE Mth(L, i, from) = NodeHash(p, F) /\ Mth(L, i, j) = NodeHash(p, S)
    PROVE  ReachesBoth(L, from, i, j, X, Append(P, p))
<1>1. PICK t : t = StartAt(from, i, j, X)
  OBVIOUS
<1>2. /\ Append(P, p) \in Seq(Hashes(L)) /\ Len(Append(P, p)) = Len(P) + 1
      /\ EndsAtRoot(Walk(t, Append(P, p)), Len(P) + 1)
      /\ OuterEnds(side, Walk(t, Append(P, p))[Len(P) + 1], Walk(s, P)[Len(P)], p)
  BY <1>1, OuterWalk
<1>3. Len(P) \in Nat
  OBVIOUS
<1>4. /\ Walk(t, Append(P, p))[Len(P) + 1].fr = Mth(L, i, from)
      /\ Walk(t, Append(P, p))[Len(P) + 1].sr = Mth(L, i, j)
  BY <1>2 DEF OuterEnds
<1>5. QED
  BY <1>1, <1>2, <1>3, <1>4 DEF ReachesBoth

\* The consistency proof, in every subtree that the old tree ends in.
LEMMA ConsistencyWalk ==
    ASSUME NEW E, NEW L \in Seq(E), NEW size \in 0..Len(L), NEW from \in Nat, 1 <= from, from < size
    PROVE  \E X \in Hashes(L), R \in Seq(Hashes(L)) :
             /\ ReachesBoth(L, from, 0, size, X, R)
             /\ IF PowerOfTwo(from) THEN X = Mth(L, 0, from) /\ ConsistencyProof(L, from, size) = R
                ELSE ConsistencyProof(L, from, size) = <<X>> \o R
<1>1. size \in Nat /\ Len(L) \in Nat /\ size <= Len(L)
  OBVIOUS
<1>2. PICK path :
        /\ ConsistencyProof(L, from, size) = path[<<0, size>>]
        /\ IsConsPath(path, L, from, size)
  <2>1. from <= size
    BY <1>1
  <2>2. QED
    BY <1>1, <2>1, ConsistencyPath
<1> DEFINE Splits(i, j, X, R) ==
             IF i = 0 /\ PowerOfTwo(from) THEN X = Mth(L, 0, from) /\ path[<<i, j>>] = R
             ELSE path[<<i, j>>] = <<X>> \o R
           Good(i, j) == \E X \in Hashes(L), R \in Seq(Hashes(L)) :
                           ReachesBoth(L, from, i, j, X, R) /\ Splits(i, j, X, R)
           Right(n) == \A i, j \in 0..size : (i < from /\ from < j /\ j - i = n) => Good(i, j)
           G == {n \in Nat : Right(n)}
<1>3. ASSUME NEW n \in Nat, \A m \in 0..n - 1 : m \in G PROVE n \in G
  <2>1. ASSUME NEW i \in 0..size, NEW j \in 0..size, i < from, from < j, j - i = n
        PROVE  Good(i, j)
    <3>1. n >= 2 /\ i \in Nat /\ j \in Nat
      BY <2>1
    <3>2. PICK d \in Nat, k \in Nat : /\ SplitPoint(n) = k /\ k = Pow2(d) /\ 1 <= k
                                      /\ k < n /\ n <= 2 * k
      BY <3>1, SplitIs
    <3>3. i + k \in 0..size /\ i \in 0..Len(L) /\ j \in 0..Len(L) /\ i + k \in 0..Len(L) /\ from \in 0..Len(L)
      BY <1>1, <2>1, <3>1, <3>2
    <3>3a. SplitPoint(j - i) = k
      BY <2>1, <3>2
    <3>3b. path[<<i, j>>] = IF from <= i + k THEN Append(path[<<i, i + k>>], Mth(L, i + k, j))
                            ELSE Append(path[<<i + k, j>>], Mth(L, i, i + k))
      <4>1. from <= j /\ j # from
        BY <2>1, <3>1
      <4>2. QED
        BY <1>2, <2>1, <3>3a, <4>1 DEF IsConsPath
    <3>4. Mth(L, i, j) = NodeHash(Mth(L, i, i + k), Mth(L, i + k, j))
      <4>1. ~(j <= i) /\ j - i # 1
        BY <2>1, <3>1
      <4>2. QED
        BY <1>1, <3>3, <3>3a, <4>1, MthEquation
    <3>5. Mth(L, i, i + k) \in Hashes(L) /\ Mth(L, i + k, j) \in Hashes(L)
      BY <3>3, MthInHashes
    <3>6. PICK r \in Nat : r = n - 1 - k /\ r < Pow2(d) /\ j - i - 1 = Pow2(d) + r
      BY <2>1, <3>1, <3>2
    <3>7. CASE from = i + k
      <4>1. PICK X, p : X = Mth(L, i, i + k) /\ p = Mth(L, i + k, j) /\ X \in Hashes(L) /\ p \in Hashes(L)
        BY <3>5
      <4>2. from - i - 1 = Pow2(d) - 1
        BY <3>1, <3>2, <3>7
      <4>3. StartAt(from, i, j, X) = Walker(Pow2(d) - 1, Pow2(d) + r, Odds(Pow2(d) - 1), X, X)
        BY <3>6, <4>2 DEF StartAt
      <4>4. PICK s : s.sn = 0 /\ s.fr = X /\ s.sr = X /\ InLeft(s, StartAt(from, i, j, X), 0)
        BY <3>6, <4>3, StartsWhole
      <4>5. Inside("left", s, StartAt(from, i, j, X), 0)
        BY <4>4 DEF Inside
      <4>6. EndsAtRoot(Walk(s, <<>>), Len(<<>>)) /\ Walk(s, <<>>)[Len(<<>>)] = s
        BY <4>4, EmptyWalk
      <4>7. <<>> \in Seq(Hashes(L))
        OBVIOUS
      <4>8. Mth(L, i, from) = X /\ Mth(L, i, j) = NodeHash(X, p)
        BY <3>4, <3>7, <4>1
      <4>9. ReachesBoth(L, from, i, j, X, Append(<<>>, p))
        <5>1. Walk(s, <<>>)[Len(<<>>)].fr = X /\ Walk(s, <<>>)[Len(<<>>)].sr = X
          BY <4>4, <4>6
        <5>2. QED
          BY <4>1, <4>5, <4>6, <4>7, <4>8, <5>1, ReachesUp
      <4>10. path[<<i, j>>] = Append(path[<<i, from>>], p)
        BY <3>1, <3>3b, <3>7, <4>1
      <4>11. path[<<i, from>>] = IF i = 0 THEN <<>> ELSE <<X>>
        <5>1. from \in 0..size /\ from <= from
          OBVIOUS
        <5>2. path[<<i, from>>] = IF i = 0 THEN <<>> ELSE <<Mth(L, i, from)>>
          BY <1>2, <2>1, <5>1 DEF IsConsPath
        <5>3. QED
          BY <4>8, <5>2
      <4>12. Append(<<>>, p) \in Seq(Hashes(L))
        BY <4>9 DEF ReachesBoth
      <4>13. Splits(i, j, X, Append(<<>>, p))
        <5>1. CASE i = 0
          <6>1. PowerOfTwo(from)
            BY <3>2, <3>7, <5>1, PowerOfTwoIs
          <6>2. QED
            BY <4>8, <4>10, <4>11, <5>1, <6>1
        <5>2. CASE i # 0
          <6>1. path[<<i, j>>] = Append(<<X>>, p)
            BY <4>10, <4>11, <5>2
          <6>2. <<X>> \o <<>> = <<X>>
            <7>1. <<X>> \in Seq(Hashes(L))
              BY <4>1
            <7>2. QED
              BY <7>1, ConcatEmptySeq
          <6>3. Append(<<X>> \o <<>>, p) = <<X>> \o Append(<<>>, p)
            BY <4>1, <4>7, AppendAfter
          <6>4. QED
            BY <5>2, <6>1, <6>2, <6>3
        <5>3. QED
          BY <5>1, <5>2
      <4> HIDE DEF Splits
      <4>14. QED
        BY <4>1, <4>9, <4>12, <4>13
    <3>8. CASE from < i + k
      <4>1. k \in 0..n - 1 /\ (i + k) - i = k
        BY <3>1, <3>2
      <4>2. Good(i, i + k)
        BY <1>3, <2>1, <3>3, <3>8, <4>1
      <4>3. PICK X \in Hashes(L), P \in Seq(Hashes(L)) :
              ReachesBoth(L, from, i, i + k, X, P) /\ Splits(i, i + k, X, P)
        <5> HIDE DEF Splits
        <5>1. QED
          BY <4>2
      <4>4. PICK p : p = Mth(L, i + k, j) /\ p \in Hashes(L)
        BY <3>5
      <4>5. path[<<i, j>>] = Append(path[<<i, i + k>>], p)
        BY <3>1, <3>3b, <3>8, <4>4
      <4>6. PICK x \in Nat : x = from - i - 1 /\ x < Pow2(d) - 1
        BY <2>1, <3>1, <3>2, <3>8
      <4>7. StartAt(from, i, i + k, X) = Walker(x, Pow2(d) - 1, Odds(x), X, X)
        <5>1. (i + k) - i - 1 = Pow2(d) - 1
          BY <3>1, <3>2
        <5>2. QED
          BY <4>6, <5>1 DEF StartAt
      <4>8. StartAt(from, i, j, X) = Walker(x, Pow2(d) + r, Odds(x), X, X)
        BY <3>6, <4>6 DEF StartAt
      <4>9. PICK e \in Nat : InLeft(StartAt(from, i, i + k, X), StartAt(from, i, j, X), e)
        BY <3>6, <4>6, <4>7, <4>8, StartsLeft
      <4>10. PICK s : s = StartAt(from, i, i + k, X)
        OBVIOUS
      <4>11. Inside("left", s, StartAt(from, i, j, X), e)
        BY <4>9, <4>10 DEF Inside
      <4>12. /\ EndsAtRoot(Walk(s, P), Len(P)) /\ Walk(s, P)[Len(P)].fr = Mth(L, i, from)
             /\ Walk(s, P)[Len(P)].sr = Mth(L, i, i + k)
        BY <4>3, <4>10 DEF ReachesBoth
      <4>13. Mth(L, i, j) = NodeHash(Mth(L, i, i + k), p)
        BY <3>4, <4>4
      <4>14. ReachesBoth(L, from, i, j, X, Append(P, p))
        BY <4>4, <4>11, <4>12, <4>13, ReachesUp
      <4>15. Append(P, p) \in Seq(Hashes(L))
        BY <4>14 DEF ReachesBoth
      <4>16. Append(<<X>> \o P, p) = <<X>> \o Append(P, p)
        BY <4>4, AppendAfter
      <4>17. Splits(i, j, X, Append(P, p))
        BY <4>3, <4>5, <4>16
      <4> HIDE DEF Splits
      <4>18. QED
        BY <4>14, <4>15, <4>17
    <3>9. CASE from > i + k
      <4>1. n - k \in 0..n - 1 /\ j - (i + k) = n - k
        BY <2>1, <3>1, <3>2
      <4>2. Good(i + k, j)
        BY <1>3, <2>1, <3>3, <3>9, <4>1
      <4>3. PICK X \in Hashes(L), P \in Seq(Hashes(L)) :
              ReachesBoth(L, from, i + k, j, X, P) /\ Splits(i + k, j, X, P)
        <5> HIDE DEF Splits
        <5>1. QED
          BY <4>2
      <4>4. PICK p : p = Mth(L, i, i + k) /\ p \in Hashes(L)
        BY <3>5
      <4>5. path[<<i, j>>] = Append(path[<<i + k, j>>], p)
        <5>1. ~(from <= i + k) /\ j # from
          BY <2>1, <3>1, <3>9
        <5>2. QED
          BY <3>3b, <4>4, <5>1
      <4>6. PICK x \in Nat : x = from - (i + k) - 1 /\ x < Pow2(d) - 1 /\ x <= r
                             /\ from - i - 1 = Pow2(d) + x /\ j - (i + k) - 1 = r
        <5>1. i \in Int /\ j \in Int /\ k \in Int /\ from < j /\ j - i = n /\ from > i + k
          BY <2>1, <3>1, <3>9
        <5>2. k = Pow2(d) /\ n <= 2 * k /\ r = n - 1 - k
          BY <3>2, <3>6
        <5>3. PICK x \in Nat : x = from - (i + k) - 1
          BY <5>1
        <5>4. x < k - 1 /\ x <= r /\ from - i - 1 = k + x /\ j - (i + k) - 1 = r
          <6>1. n = j - i /\ n <= 2 * k /\ r = n - 1 - k
            BY <5>1, <5>2
          <6>2. QED
            BY <5>1, <5>3, <6>1
        <5>5. QED
          BY <5>2, <5>3, <5>4
      <4>7. StartAt(from, i + k, j, X) = Walker(x, r, Odds(x), X, X)
        BY <4>6 DEF StartAt
      <4>8. StartAt(from, i, j, X) = Walker(Pow2(d) + x, Pow2(d) + r, Odds(Pow2(d) + x), X, X)
        BY <3>6, <4>6 DEF StartAt
      <4>9. PICK e \in Nat : InRight(StartAt(from, i + k, j, X), StartAt(from, i, j, X), e)
        BY <3>6, <4>6, <4>7, <4>8, StartsRight
      <4>10. PICK s : s = StartAt(from, i + k, j, X)
        OBVIOUS
      <4>11. Inside("right", s, StartAt(from, i, j, X), e)
        BY <4>9, <4>10 DEF Inside
      <4>12. /\ EndsAtRoot(Walk(s, P), Len(P)) /\ Walk(s, P)[Len(P)].fr = Mth(L, i + k, from)
             /\ Walk(s, P)[Len(P)].sr = Mth(L, i + k, j)
        BY <4>3, <4>10 DEF ReachesBoth
      <4>13. Mth(L, i, j) = NodeHash(p, Mth(L, i + k, j))
        BY <3>4, <4>4
      <4>14. PICK m \in Nat : m = from - i /\ Pow2(d) < m /\ m < 2 * Pow2(d)
        <5>1. i \in Int /\ j \in Int /\ k \in Int /\ from < j /\ j - i <= 2 * k /\ from > i + k
          BY <2>1, <3>1, <3>2, <3>9
        <5>2. k = Pow2(d)
          BY <3>2
        <5>3. QED
          BY <5>1, <5>2
      <4>15. Mth(L, i, from) = NodeHash(p, Mth(L, i + k, from))
        <5>0. m <= 2 * Pow2(d)
          BY <3>2, <4>14
        <5>1. SplitPoint(m) = Pow2(d)
          BY <4>14, <5>0, SplitUnique
        <5>2. SplitPoint(from - i) = k
          BY <3>2, <4>14, <5>1
        <5>3. ~(from <= i) /\ from - i # 1
          BY <2>1, <3>1, <3>2, <3>9
        <5>4. QED
          BY <1>1, <3>3, <4>4, <5>2, <5>3, MthEquation
      <4>16. ReachesBoth(L, from, i, j, X, Append(P, p))
        BY <4>4, <4>11, <4>12, <4>13, <4>15, ReachesUp
      <4>17. Append(P, p) \in Seq(Hashes(L))
        BY <4>16 DEF ReachesBoth
      <4>18. Append(<<X>> \o P, p) = <<X>> \o Append(P, p)
        BY <4>4, AppendAfter
      <4>19. ~(i + k = 0)
        BY <3>1, <3>2
      <4>20. ~(i = 0 /\ PowerOfTwo(from))
        <5>1. ASSUME i = 0 PROVE ~PowerOfTwo(from)
          <6>1. from = m
            BY <4>14, <5>1
          <6>2. QED
            BY <4>14, <6>1, PowerOfTwoIs
        <5>2. QED
          BY <5>1
      <4>21. Splits(i, j, X, Append(P, p))
        BY <4>3, <4>5, <4>18, <4>19, <4>20
      <4> HIDE DEF Splits
      <4>22. QED
        BY <4>16, <4>17, <4>21
    <3>10. from = i + k \/ from < i + k \/ from > i + k
      BY <3>1
    <3> HIDE DEF Good
    <3>11. QED
      BY <3>7, <3>8, <3>9, <3>10
  <2> HIDE DEF Good
  <2>2. QED
    BY <2>1
<1>4. \A n \in Nat : n \in G
  <2> HIDE DEF G
  <2>1. QED
    BY <1>3, CompleteInduction
<1>5. Good(0, size)
  <2>1. 0 \in 0..size /\ size \in 0..size /\ size - 0 = size /\ 0 < from
    BY <1>1
  <2>2. size \in G
    <3> HIDE DEF G
    <3>1. QED
      BY <1>1, <1>4
  <2> HIDE DEF Good
  <2>3. QED
    BY <2>1, <2>2
<1>6. PICK X \in Hashes(L), R \in Seq(Hashes(L)) : ReachesBoth(L, from, 0, size, X, R) /\ Splits(0, size, X, R)
  <2> HIDE DEF Splits
  <2>1. QED
    BY <1>5
<1>7. IF PowerOfTwo(from) THEN X = Mth(L, 0, from) /\ ConsistencyProof(L, from, size) = R
      ELSE ConsistencyProof(L, from, size) = <<X>> \o R
  BY <1>2, <1>6
<1>8. QED
  BY <1>6, <1>7

\* VerifyConsistency accepts the proof that the handler serves: the walk from
\* the shared subtree ends at the old and at the new root.
LEMMA ConsistencyComplete ==
    ASSUME NEW E, NEW L \in Seq(E), NEW size \in 0..Len(L), NEW from \in Nat, 1 <= from, from < size
    PROVE  VerifyConsistency(Mth(L, 0, from), Mth(L, 0, size), from, size,
                             ConsistencyProof(L, from, size))
<1>1. PICK X \in Hashes(L), R \in Seq(Hashes(L)) :
        /\ ReachesBoth(L, from, 0, size, X, R)
        /\ IF PowerOfTwo(from) THEN X = Mth(L, 0, from) /\ ConsistencyProof(L, from, size) = R
           ELSE ConsistencyProof(L, from, size) = <<X>> \o R
  BY ConsistencyWalk
<1> DEFINE old == Mth(L, 0, from)
           new == Mth(L, 0, size)
           proof == ConsistencyProof(L, from, size)
           path == (IF PowerOfTwo(from) THEN <<old>> ELSE <<>>) \o proof
           start == Walker(from - 1, size - 1, Odds(from - 1), X, X)
<1>2. size \in Nat /\ Len(L) \in Nat /\ from \in 0..Len(L) /\ 0 \in 0..Len(L) /\ 0 < from /\ 0 < size
  OBVIOUS
<1>3. old # Nil /\ new # Nil
  BY <1>2, MthSeq
<1>4. <<X>> \in Seq(Hashes(L)) /\ Len(<<X>>) = 1 /\ <<X>>[1] = X
  OBVIOUS
<1>5. PICK Q : Q = <<X>> \o R
  OBVIOUS
<1>6. /\ Q \in Seq(Hashes(L)) /\ Len(Q) = 1 + Len(R) /\ Q # <<>> /\ Q[1] = X /\ Tail(Q) = R
  <2>1. /\ Q \in Seq(Hashes(L)) /\ Len(Q) = 1 + Len(R)
        /\ \A i \in 1..1 + Len(R) : Q[i] = IF i <= 1 THEN <<X>>[i] ELSE R[i - 1]
    BY <1>4, <1>5, ConcatProperties
  <2>2. Len(R) \in Nat /\ 1 \in 1..1 + Len(R)
    OBVIOUS
  <2>3. Q # <<>> /\ Q[1] = X
    BY <1>4, <2>1, <2>2
  <2>4. Tail(Q) \in Seq(Hashes(L)) /\ Len(Tail(Q)) = Len(Q) - 1 /\ \A i \in 1..Len(Tail(Q)) : Tail(Q)[i] = Q[i + 1]
    BY <2>1, <2>3, HeadTailProperties
  <2>5. Len(Tail(Q)) = Len(R)
    BY <2>1, <2>2, <2>4
  <2>6. ASSUME NEW i \in 1..Len(Tail(Q)) PROVE Tail(Q)[i] = R[i]
    <3>1. i + 1 \in 1..1 + Len(R) /\ ~(i + 1 <= 1) /\ (i + 1) - 1 = i
      BY <2>2, <2>5
    <3>2. QED
      BY <2>1, <2>4, <3>1
  <2>7. Tail(Q) = R
    BY <2>4, <2>5, <2>6, SeqEqual
  <2>8. QED
    BY <2>1, <2>3, <2>7
<1>7. path = Q
  <2>1. CASE PowerOfTwo(from)
    BY <1>1, <1>5, <2>1
  <2>2. CASE ~PowerOfTwo(from)
    <3>1. proof = Q
      BY <1>1, <1>5, <2>2
    <3>2. <<>> \o Q = Q
      BY <1>6, ConcatEmptySeq
    <3>3. QED
      BY <2>2, <3>1, <3>2
  <2>3. QED
    BY <2>1, <2>2
<1>8. Len(R) >= 1 /\ Len(R) \in Nat
  BY <1>1 DEF ReachesBoth
<1>9. proof # <<>>
  <2>1. CASE PowerOfTwo(from)
    BY <1>1, <1>8, <2>1
  <2>2. CASE ~PowerOfTwo(from)
    BY <1>1, <1>5, <1>6, <2>2
  <2>3. QED
    BY <2>1, <2>2
<1>10. StartAt(from, 0, size, X) = start
  <2>1. from - 0 - 1 = from - 1 /\ size - 0 - 1 = size - 1
    BY <1>2
  <2>2. QED
    BY <2>1 DEF StartAt
<1>11. /\ EndsAtRoot(Walk(start, R), Len(R))
       /\ Walk(start, R)[Len(R)].fr = old /\ Walk(start, R)[Len(R)].sr = new
  BY <1>1, <1>10 DEF ReachesBoth
<1>12. path[1] = X /\ Tail(path) = R
  BY <1>6, <1>7
<1>13. from # 0 /\ ~(from > size) /\ from # size
  BY <1>2
<1> HIDE DEF old, new, proof, path, start
<1>14. LET st == Walker(from - 1, size - 1, Odds(from - 1), path[1], path[1])
           walk == Walk(st, Tail(path))
           n == Len(Tail(path))
       IN  EndsAtRoot(walk, n) /\ walk[n].fr = old /\ walk[n].sr = new
  BY <1>11, <1>12 DEF start
<1>15. VerifyConsistency(old, new, from, size, proof)
  BY <1>3, <1>9, <1>13, <1>14 DEF VerifyConsistency, path
<1>16. QED
  BY <1>15 DEF old, new, proof

\* What the handler serves is a sequence of hashes of the log's subtrees.
LEMMA ConsistencyProofHashes ==
    ASSUME NEW E, NEW L \in Seq(E), NEW size \in 0..Len(L), NEW from \in Nat, 1 <= from, from < size
    PROVE  ConsistencyProof(L, from, size) \in Seq(Hashes(L))
<1>1. PICK X \in Hashes(L), R \in Seq(Hashes(L)) :
        IF PowerOfTwo(from) THEN X = Mth(L, 0, from) /\ ConsistencyProof(L, from, size) = R
        ELSE ConsistencyProof(L, from, size) = <<X>> \o R
  BY ConsistencyWalk
<1>2. <<X>> \in Seq(Hashes(L))
  OBVIOUS
<1>3. <<X>> \o R \in Seq(Hashes(L))
  BY <1>2, ConcatProperties
<1>4. QED
  BY <1>1, <1>3
-----------------------------------------------------------------------------
(* Both kinds of proof verify for what they prove and for nothing else.    *)

\* Walks of the same leaf number in trees of the same size turn alike.
LEMMA WalksAlike ==
    ASSUME NEW H, NEW P \in Seq(H), NEW Q \in Seq(H), NEW s, NEW t, s.fn = t.fn, s.sn = t.sn
    PROVE  \A n \in Nat : (n <= Len(P) /\ n <= Len(Q)) =>
             /\ Walk(s, P)[n].fn = Walk(t, Q)[n].fn /\ Walk(s, P)[n].sn = Walk(t, Q)[n].sn
<1>1. PICK w, v : w = Walk(s, P) /\ v = Walk(t, Q)
  OBVIOUS
<1>2. Len(P) \in Nat /\ Len(Q) \in Nat
  OBVIOUS
<1>3. w[0] = s /\ \A m \in 1..Len(P) : w[m] = Climb(w[m - 1], P[m])
  BY <1>1, <1>2, WalkEquations
<1>4. v[0] = t /\ \A m \in 1..Len(Q) : v[m] = Climb(v[m - 1], Q[m])
  BY <1>1, <1>2, WalkEquations
<1> DEFINE G == {n \in Nat : (n <= Len(P) /\ n <= Len(Q)) => (w[n].fn = v[n].fn /\ w[n].sn = v[n].sn)}
<1>5. 0 \in G
  BY <1>3, <1>4
<1>6. ASSUME NEW n \in Nat, n \in G PROVE n + 1 \in G
  <2>1. ASSUME n + 1 <= Len(P), n + 1 <= Len(Q)
        PROVE  w[n + 1].fn = v[n + 1].fn /\ w[n + 1].sn = v[n + 1].sn
    <3>1. n <= Len(P) /\ n <= Len(Q) /\ n + 1 \in 1..Len(P) /\ n + 1 \in 1..Len(Q) /\ (n + 1) - 1 = n
      BY <1>2, <2>1
    <3>2. PICK a, b, p, q : a = w[n] /\ b = v[n] /\ p = P[n + 1] /\ q = Q[n + 1]
      OBVIOUS
    <3>3. w[n + 1] = Climb(a, p) /\ v[n + 1] = Climb(b, q)
      BY <1>3, <1>4, <3>1, <3>2
    <3>4. PICK f, m : f = a.fn /\ f = b.fn /\ m = a.sn /\ m = b.sn
      BY <1>6, <3>1, <3>2
    <3>4a. a.fn = f /\ a.sn = m
      BY <3>4
    <3>4b. b.fn = f /\ b.sn = m
      BY <3>4
    <3>5. CASE Odd(f) \/ f = m
      <4>1. PICK h : h = Evens(f) + 1
        OBVIOUS
      <4>2. Climb(a, p).fn = Shr(f, h) /\ Climb(a, p).sn = Shr(m, h)
        BY <3>4a, <3>5, <4>1, ClimbLeft
      <4>3. Climb(b, q).fn = Shr(f, h) /\ Climb(b, q).sn = Shr(m, h)
        BY <3>4b, <3>5, <4>1, ClimbLeft
      <4>4. QED
        BY <3>3, <4>2, <4>3
    <3>6. CASE ~(Odd(f) \/ f = m)
      <4>2. Climb(a, p).fn = Shr(f, 1) /\ Climb(a, p).sn = Shr(m, 1)
        BY <3>4a, <3>6, ClimbRight
      <4>3. Climb(b, q).fn = Shr(f, 1) /\ Climb(b, q).sn = Shr(m, 1)
        BY <3>4b, <3>6, ClimbRight
      <4>4. QED
        BY <3>3, <4>2, <4>3
    <3>7. QED
      BY <3>5, <3>6
  <2>2. QED
    BY <2>1
<1>7. \A n \in Nat : n \in G
  <2> HIDE DEF G
  <2>1. QED
    BY <1>5, <1>6, InductiveSet
<1>8. QED
  BY <1>1, <1>7

\* If both end at the root, they have the same length, and if they then have
\* the same hash they started from the same one: no hash is of two nodes.
LEMMA SameRootSameLeaf ==
    ASSUME NEW H, NEW P \in Seq(H), NEW Q \in Seq(H), NEW s, NEW t, s.fn = t.fn, s.sn = t.sn,
           EndsAtRoot(Walk(s, P), Len(P)), EndsAtRoot(Walk(t, Q), Len(Q)),
           Walk(s, P)[Len(P)].sr = Walk(t, Q)[Len(Q)].sr
    PROVE  s.sr = t.sr
<1>1. PICK w, v : w = Walk(s, P) /\ v = Walk(t, Q)
  OBVIOUS
<1>2. Len(P) \in Nat /\ Len(Q) \in Nat
  OBVIOUS
<1>3. w[0] = s /\ \A m \in 1..Len(P) : w[m] = Climb(w[m - 1], P[m])
  BY <1>1, <1>2, WalkEquations
<1>4. v[0] = t /\ \A m \in 1..Len(Q) : v[m] = Climb(v[m - 1], Q[m])
  BY <1>1, <1>2, WalkEquations
<1>5. \A n \in Nat : (n <= Len(P) /\ n <= Len(Q)) => (w[n].fn = v[n].fn /\ w[n].sn = v[n].sn)
  BY <1>1, WalksAlike
<1>6. w[Len(P)].sn = 0 /\ \A m \in 0..Len(P) - 1 : w[m].sn # 0
  BY <1>1 DEF EndsAtRoot
<1>7. v[Len(Q)].sn = 0 /\ \A m \in 0..Len(Q) - 1 : v[m].sn # 0
  BY <1>1 DEF EndsAtRoot
<1>8. PICK n \in Nat : n = Len(P) /\ n = Len(Q)
  <2>1. ASSUME Len(P) < Len(Q) PROVE FALSE
    <3>1. Len(P) \in 0..Len(Q) - 1 /\ Len(P) <= Len(P) /\ Len(P) <= Len(Q)
      BY <1>2, <2>1
    <3>2. QED
      BY <1>2, <1>5, <1>6, <1>7, <3>1
  <2>2. ASSUME Len(Q) < Len(P) PROVE FALSE
    <3>1. Len(Q) \in 0..Len(P) - 1 /\ Len(Q) <= Len(Q) /\ Len(Q) <= Len(P)
      BY <1>2, <2>2
    <3>2. QED
      BY <1>2, <1>5, <1>6, <1>7, <3>1
  <2>3. QED
    BY <1>2, <2>1, <2>2
<1> DEFINE G == {m \in Nat : m <= n => w[n - m].sr = v[n - m].sr}
<1>9. 0 \in G
  <2>1. n - 0 = n /\ w[n].sr = v[n].sr
    BY <1>1, <1>8
  <2>2. QED
    BY <2>1
<1>10. ASSUME NEW m \in Nat, m \in G PROVE m + 1 \in G
  <2>1. ASSUME m + 1 <= n PROVE w[n - (m + 1)].sr = v[n - (m + 1)].sr
    <3>1. PICK l \in Nat : l = n - (m + 1) /\ l + 1 = n - m
      BY <2>1
    <3>2. l + 1 \in 1..n /\ (l + 1) - 1 = l /\ l <= n /\ m <= n
      BY <3>1
    <3>3. PICK a, b, p, q : a = w[l] /\ b = v[l] /\ p = P[l + 1] /\ q = Q[l + 1]
      OBVIOUS
    <3>4. w[l + 1] = Climb(a, p) /\ v[l + 1] = Climb(b, q)
      BY <1>3, <1>4, <1>8, <3>2, <3>3
    <3>5. w[l + 1].sr = v[l + 1].sr
      BY <1>10, <3>1, <3>2
    <3>6. PICK f, k : f = a.fn /\ f = b.fn /\ k = a.sn /\ k = b.sn
      BY <1>5, <1>8, <3>2, <3>3
    <3>6a. a.fn = f /\ a.sn = k
      BY <3>6
    <3>6b. b.fn = f /\ b.sn = k
      BY <3>6
    <3>7. CASE Odd(f) \/ f = k
      <4>1. PICK h : h = Evens(f) + 1
        OBVIOUS
      <4>2a. Climb(a, p).sr = NodeHash(p, a.sr)
        BY <3>6a, <3>7, <4>1, ClimbLeft
      <4>2b. Climb(b, q).sr = NodeHash(q, b.sr)
        BY <3>6b, <3>7, <4>1, ClimbLeft
      <4>3. NodeHash(p, a.sr).right = a.sr /\ NodeHash(q, b.sr).right = b.sr
        BY HashFields
      <4>4. QED
        BY <3>1, <3>3, <3>4, <3>5, <4>2a, <4>2b, <4>3
    <3>8. CASE ~(Odd(f) \/ f = k)
      <4>2. Climb(a, p).sr = NodeHash(a.sr, p) /\ Climb(b, q).sr = NodeHash(b.sr, q)
        BY <3>6, <3>8, ClimbRight
      <4>3. NodeHash(a.sr, p).left = a.sr /\ NodeHash(b.sr, q).left = b.sr
        BY HashFields
      <4>4. QED
        BY <3>1, <3>3, <3>4, <3>5, <4>2, <4>3
    <3>9. QED
      BY <3>7, <3>8
  <2>2. QED
    BY <2>1
<1>11. n \in G
  <2> HIDE DEF G
  <2>1. QED
    BY <1>9, <1>10, InductiveSet
<1>12. w[0].sr = v[0].sr
  <2>1. n - n = 0 /\ n <= n
    OBVIOUS
  <2>2. QED
    BY <1>11, <2>1
<1>13. QED
  BY <1>3, <1>4, <1>12

\* The events by their history and place.
Entries == Nat \X Nat

\* Every entry names its place, so no entry occurs twice.
LogOK == /\ log \in Seq(Entries)
         /\ \A i \in 1..Len(log) : log[i][2] = i - 1

\* handleCTProof: the inclusion proofs of a log verify for their index and no other.
LEMMA InclusionProofsExact == LogOK => InclusionExact
<1> SUFFICES ASSUME LogOK PROVE InclusionExact
  OBVIOUS
<1>1. log \in Seq(Entries) /\ Len(log) \in Nat
  BY DEF LogOK
<1>2. ASSUME NEW n \in 1..Len(log), NEW i \in 0..n - 1, NEW k \in 0..n - 1
      PROVE  VerifyInclusion(LeafHash(log[i + 1]), k, n, InclusionProof(log, i, n)) = Mth(log, 0, n)
                <=> k = i
  <2>1. n \in 0..Len(log) /\ i \in Nat /\ i < n /\ k \in Nat /\ k < n /\ 0 \in 0..Len(log) /\ 0 < n
    BY <1>1
  <2>2. PICK a, b, P, Q : /\ a = LeafHash(log[i + 1]) /\ b = LeafHash(log[k + 1])
                          /\ P = InclusionProof(log, i, n) /\ Q = InclusionProof(log, k, n)
    OBVIOUS
  <2>3. PICK s, t, u : /\ s = Walker(k, n - 1, 0, a, a) /\ t = Walker(k, n - 1, 0, b, b)
                       /\ u = Walker(i, n - 1, 0, a, a)
    OBVIOUS
  <2>4. /\ P \in Seq(Hashes(log)) /\ EndsAtRoot(Walk(u, P), Len(P))
        /\ Walk(u, P)[Len(P)].sr = Mth(log, 0, n)
    BY <1>1, <2>1, <2>2, <2>3, InclusionWalk
  <2>5. /\ Q \in Seq(Hashes(log)) /\ EndsAtRoot(Walk(t, Q), Len(Q))
        /\ Walk(t, Q)[Len(Q)].sr = Mth(log, 0, n)
    BY <1>1, <2>1, <2>2, <2>3, InclusionWalk
  <2>6. Mth(log, 0, n) # Nil
    BY <1>1, <2>1, MthSeq
  <2>7. VerifyInclusion(a, k, n, P) = IF EndsAtRoot(Walk(s, P), Len(P)) THEN Walk(s, P)[Len(P)].sr ELSE Nil
    <3>1. 0 <= k /\ k < n
      BY <2>1
    <3>2. QED
      BY <2>3, <3>1 DEF VerifyInclusion
  <2>8. ASSUME k = i PROVE VerifyInclusion(a, k, n, P) = Mth(log, 0, n)
    <3>1. s = u
      BY <2>3, <2>8
    <3>2. QED
      BY <2>4, <2>7, <3>1
  <2>9. ASSUME VerifyInclusion(a, k, n, P) = Mth(log, 0, n) PROVE k = i
    <3>1. EndsAtRoot(Walk(s, P), Len(P)) /\ Walk(s, P)[Len(P)].sr = Mth(log, 0, n)
      BY <2>6, <2>7, <2>9
    <3>2. s.fn = t.fn /\ s.sn = t.sn /\ s.sr = a /\ t.sr = b
      BY <2>3, WalkerFields
    <3>3. Walk(s, P)[Len(P)].sr = Walk(t, Q)[Len(Q)].sr
      BY <2>5, <3>1
    <3>4. s.sr = t.sr
      BY <2>4, <2>5, <3>1, <3>2, <3>3, SameRootSameLeaf
    <3>5. a.leaf = log[i + 1] /\ b.leaf = log[k + 1]
      BY <2>2, HashFields
    <3>6. log[i + 1] = log[k + 1]
      BY <3>2, <3>4, <3>5
    <3>7. i + 1 \in 1..Len(log) /\ k + 1 \in 1..Len(log)
      BY <1>1, <2>1
    <3>8. log[i + 1][2] = (i + 1) - 1 /\ log[k + 1][2] = (k + 1) - 1
      BY <3>7 DEF LogOK
    <3>9. QED
      BY <2>1, <3>6, <3>8
  <2>10. QED
    BY <2>2, <2>8, <2>9
<1>3. QED
  BY <1>2 DEF InclusionExact

\* The prefix of a log.
LEMMA PrefixIs ==
    ASSUME NEW E, NEW L \in Seq(E), NEW m \in 0..Len(L)
    PROVE  /\ SubSeq(L, 1, m) \in Seq(E) /\ Len(SubSeq(L, 1, m)) = m
           /\ \A i \in 1..m : SubSeq(L, 1, m)[i] = L[i]
<1>1. m \in Int /\ 1 \in Int /\ \A i \in 1..m : L[i] \in E
  OBVIOUS
<1>2. /\ SubSeq(L, 1, m) \in Seq(E) /\ Len(SubSeq(L, 1, m)) = IF 1 <= m THEN m - 1 + 1 ELSE 0
      /\ \A i \in 1..m - 1 + 1 : SubSeq(L, 1, m)[i] = L[1 + i - 1]
  BY <1>1, SubSeqProperties
<1>3. ASSUME NEW i \in 1..m PROVE SubSeq(L, 1, m)[i] = L[i]
  <2>1. i \in 1..m - 1 + 1 /\ 1 + i - 1 = i
    OBVIOUS
  <2>2. QED
    BY <1>2, <2>1
<1>4. QED
  BY <1>2, <1>3

\* A tree head that VerifyConsistency is convinced of is of a log that the
\* other one extends.
LEMMA VerifiedExtends ==
    ASSUME NEW E, NEW H, \A h \in H : h.entries \in Seq(E), NEW proof \in Seq(H),
           NEW oldRoot, oldRoot.entries \in Seq(E), NEW newRoot,
           NEW size1 \in Nat, NEW size2 \in Nat, size1 # 0,
           VerifyConsistency(oldRoot, newRoot, size1, size2, proof)
    PROVE  Extended(E, oldRoot.entries, newRoot.entries)
<1>1. PICK H2 : H2 = H \cup {oldRoot}
  OBVIOUS
<1>2. (\A h \in H2 : h.entries \in Seq(E)) /\ oldRoot \in H2 /\ H \subseteq H2
  BY <1>1
<1>3. proof \in Seq(H2)
  BY <1>2, SeqMonotonic
<1>4. QED
  BY <1>2, <1>3, ConsistencySound

\* handleCTProof: the consistency proofs of a log verify for its own history and no other.
LEMMA ConsistencyProofsExact == LogOK => ConsistencyExact
<1> SUFFICES ASSUME LogOK PROVE ConsistencyExact
  OBVIOUS
<1>1. log \in Seq(Entries) /\ Len(log) \in Nat
  BY DEF LogOK
<1>2. ASSUME NEW n \in 2..Len(log), NEW m \in 1..n - 1, NEW h \in 0..MaxAdoptions + 1
      PROVE  LET other == [i \in 1..m |-> IF i = m THEN Entry(h, i - 1) ELSE log[i]]
             IN  VerifyConsistency(Mth(other, 0, m), Mth(log, 0, n), m, n, ConsistencyProof(log, m, n))
                   <=> other = SubSeq(log, 1, m)
  <2> DEFINE other == [i \in 1..m |-> IF i = m THEN Entry(h, i - 1) ELSE log[i]]
  <2>1. /\ n \in 0..Len(log) /\ m \in Nat /\ 1 <= m /\ m < n /\ m # 0 /\ n \in Nat
        /\ m \in 0..Len(log) /\ 0 \in 0..Len(log) /\ 0 <= m /\ 0 <= n
    BY <1>1
  <2>2. other \in Seq(Entries) /\ Len(other) = m
    <3>1. h \in Nat
      BY CTBounds
    <3>2. ASSUME NEW i \in 1..m PROVE other[i] \in Entries
      <4>1. CASE i = m
        BY <3>1, <4>1 DEF Entries, Entry
      <4>2. CASE i # m
        <5>1. i \in 1..Len(log)
          BY <2>1
        <5>2. log[i] \in Entries
          BY <1>1, <5>1
        <5>3. QED
          BY <4>2, <5>2
      <4>3. QED
        BY <4>1, <4>2
    <3>3. other \in [1..m -> Entries]
      BY <3>2
    <3>4. QED
      BY <2>1, <3>3
  <2> HIDE DEF other
  <2>3. PICK P : P = ConsistencyProof(log, m, n) /\ P \in Seq(Hashes(log))
    BY <1>1, <2>1, ConsistencyProofHashes
  <2>4. \A x \in Hashes(log) : x.entries \in Seq(Entries)
    BY <1>1, HashesEntries
  <2>5. PICK pre : pre = SubSeq(log, 1, m)
    OBVIOUS
  <2>6. pre \in Seq(Entries) /\ Len(pre) = m /\ \A i \in 1..m : pre[i] = log[i]
    BY <1>1, <2>1, <2>5, PrefixIs
  <2>7. ASSUME other = pre
        PROVE  VerifyConsistency(Mth(other, 0, m), Mth(log, 0, n), m, n, P)
    <3>1. 0 \in Nat /\ m \in 0..Len(other) /\ 0 \in 0..Len(other) /\ \A i \in 0 + 1..m : other[i] = log[i]
      BY <2>1, <2>2, <2>6, <2>7
    <3>2. Mth(other, 0, m) = Mth(log, 0, m)
      BY <1>1, <2>1, <2>2, <3>1, MthSame
    <3>3. QED
      BY <1>1, <2>1, <2>3, <3>2, ConsistencyComplete
  <2>8. ASSUME VerifyConsistency(Mth(other, 0, m), Mth(log, 0, n), m, n, P)
        PROVE  other = pre
    <3>0. 0 \in 0..Len(other) /\ m \in 0..Len(other)
      BY <2>1, <2>2
    <3>1. Mth(other, 0, m).entries = SubSeq(other, 0 + 1, m) /\ Mth(log, 0, n).entries = SubSeq(log, 0 + 1, n)
      BY <1>1, <2>1, <2>2, <3>0, MthEntries
    <3>2. PICK s, t : s = SubSeq(other, 1, m) /\ t = SubSeq(log, 1, n)
      OBVIOUS
    <3>3. s \in Seq(Entries) /\ Len(s) = m /\ \A i \in 1..m : s[i] = other[i]
      BY <2>1, <2>2, <3>2, PrefixIs
    <3>4. t \in Seq(Entries) /\ \A i \in 1..n : t[i] = log[i]
      BY <1>1, <2>1, <3>2, PrefixIs
    <3>5. Mth(other, 0, m).entries = s /\ Mth(log, 0, n).entries = t
      BY <3>1, <3>2
    <3>6. Extended(Entries, s, t)
      BY <2>1, <2>3, <2>4, <2>8, <3>3, <3>5, VerifiedExtends
    <3>7. \A i \in 1..Len(s) : t[i] = s[i]
      BY <3>6, ExtendedPrefix
    <3>8. ASSUME NEW i \in 1..Len(other) PROVE other[i] = pre[i]
      <4>1. i \in 1..m /\ i \in 1..n /\ i \in 1..Len(s)
        BY <2>1, <2>2, <3>3
      <4>2. QED
        BY <2>6, <3>3, <3>4, <3>7, <4>1
    <3>9. QED
      BY <2>2, <2>6, <3>8, SeqEqual
  <2>9. QED
    BY <2>3, <2>5, <2>7, <2>8 DEF other
<1>3. QED
  BY <1>2 DEF ConsistencyExact
-----------------------------------------------------------------------------
(* The gossip                                                              *)

\* A proof is a sequence of hashes of entries.
IsProof(P) == \E H : (\A h \in H : h.entries \in Seq(Entries)) /\ P \in Seq(H)

\* The shapes of what a reporter holds.
RepShape(p) ==
    /\ DOMAIN p = {"pc", "known", "sth", "proof", "seen", "verdict"}
    /\ p.known \in Nat
    /\ p.sth.size \in Nat /\ p.sth.root.entries \in Seq(Entries)
    /\ DOMAIN p.seen = {"size", "root"}
    /\ p.seen.size \in Nat /\ p.seen.root.entries \in Seq(Entries)
    /\ IsProof(p.proof)

\* A report that is accepted was verified against what was read of the trusted head.
RepVerified(p) ==
    (p.pc \in {"check", "size", "root"} /\ p.verdict = "accepted") =>
        Accepts(p.sth, p.seen, p.proof, p.known)

\* Inductive: what a reporter holds has its shape, and was verified if accepted.
VerifiedInv ==
    /\ LogOK /\ adoptions \in Nat
    /\ ctSize \in Nat /\ ctRoot.entries \in Seq(Entries)
    /\ DOMAIN rep = Reporters
    /\ \A r \in Reporters : RepShape(rep[r]) /\ RepVerified(rep[r])

\* The root of the log's first entries.
IsHead(size, root) == size \in 0..Len(log) /\ root = Mth(log, 0, size)

\* The tree hash of some of the log's first entries.
SomeHead(root) == \E k \in 0..Len(log) : root = Mth(log, 0, k)

\* A head is the log's, a proof leads to it from the head of the known size, and
\* an alarm has one of the causes that are not a rewrite.
RepHonest(p) ==
    /\ IsHead(p.sth.size, p.sth.root)
    /\ (p.pc \in {"post", "read"} /\ 1 <= p.known /\ p.known < p.sth.size) =>
         VerifyConsistency(Mth(log, 0, p.known), p.sth.root, p.known, p.sth.size, p.proof)
    /\ p.pc \in {"idle", "sth", "post", "read"} => p.verdict # "alarm"
    /\ p.verdict = "alarm" =>
         p.known # p.seen.size \/ Len(p.seen.root.entries) # p.seen.size

\* Inductive too: while no recovery has rewritten the log, what the endpoint and
\* the reporters hold is true of it, though not at the same size.
HonestInv == adoptions = 0 => SomeHead(ctRoot) /\ \A r \in Reporters : RepHonest(rep[r])

\* The tree head of the empty log.
LEMMA EmptyHead ==
    /\ TreeHead(<<>>).size = 0 /\ TreeHead(<<>>).root = Nil
    /\ DOMAIN TreeHead(<<>>) = {"size", "root"}
    /\ \A L : Mth(L, 0, 0) = Nil \/ Len(L) \notin Nat
<1>1. ASSUME NEW L, Len(L) \in Nat PROVE Mth(L, 0, 0) = Nil
  <2>1. 0 \in 0..Len(L) /\ 0 <= 0
    BY <1>1
  <2>2. QED
    BY <1>1, <2>1, MthEquation
<1>2. Len(<<>>) = 0
  OBVIOUS
<1>3. Mth(<<>>, 0, 0) = Nil
  BY <1>1, <1>2
<1>4. QED
  BY <1>1, <1>2, <1>3 DEF TreeHead

\* Nil names no entries, and no proof is a proof.
LEMMA NoEntries == Nil.entries \in Seq(Entries) /\ IsProof(<<>>)
<1>1. Nil.entries \in Seq(Entries)
  BY HashFields
<1>2. \A h \in {} : h.entries \in Seq(Entries)
  OBVIOUS
<1>3. <<>> \in Seq({})
  OBVIOUS
<1>4. QED
  BY <1>1, <1>2, <1>3 DEF IsProof

\* The record of a reporter between two posts.
LEMMA IdleIs ==
    ASSUME NEW k \in Nat
    PROVE  /\ Idle(k).pc = "idle" /\ Idle(k).known = k /\ Idle(k).sth.size = 0
           /\ Idle(k).sth.root = Nil /\ Idle(k).verdict = "none" /\ RepShape(Idle(k))
<1>1. /\ Idle(k).pc = "idle" /\ Idle(k).known = k /\ Idle(k).sth = TreeHead(<<>>)
      /\ Idle(k).proof = <<>> /\ Idle(k).seen = TreeHead(<<>>) /\ Idle(k).verdict = "none"
      /\ DOMAIN Idle(k) = {"pc", "known", "sth", "proof", "seen", "verdict"}
  BY DEF Idle
<1>2. QED
  BY <1>1, EmptyHead, NoEntries DEF RepShape

\* A reporter's record after each of its steps.
LEMMA RepSteps ==
    ASSUME DOMAIN rep = Reporters, NEW r \in Reporters,
           DOMAIN rep[r] = {"pc", "known", "sth", "proof", "seen", "verdict"},
           DOMAIN rep[r].seen = {"size", "root"}
    PROVE
      /\ GetSTH(r) =>
           /\ rep'[r].pc = "sth"
           /\ rep'[r].sth = TreeHead(log)
           /\ rep'[r].known = rep[r].known
           /\ rep'[r].proof = rep[r].proof
           /\ rep'[r].seen = rep[r].seen
           /\ rep'[r].verdict = rep[r].verdict
           /\ DOMAIN rep'[r] = DOMAIN rep[r]
           /\ DOMAIN rep' = Reporters
      /\ ReadSize(r) =>
           /\ rep'[r].pc = "read"
           /\ rep'[r].seen = [size |-> ctSize, root |-> Nil]
           /\ rep'[r].known = rep[r].known
           /\ rep'[r].proof = rep[r].proof
           /\ rep'[r].sth = rep[r].sth
           /\ rep'[r].verdict = rep[r].verdict
           /\ DOMAIN rep'[r] = DOMAIN rep[r]
           /\ DOMAIN rep' = Reporters
      /\ Observe(r) =>
           /\ rep'[r].pc = "check"
           /\ rep'[r].seen.size = rep[r].seen.size
           /\ rep'[r].seen.root = ctRoot
           /\ DOMAIN rep'[r].seen = {"size", "root"}
           /\ rep'[r].verdict = IF Accepts(rep[r].sth, [rep[r].seen EXCEPT !.root = ctRoot], rep[r].proof, rep[r].known)
                                       THEN "accepted" ELSE "alarm"
           /\ rep'[r].seen = [rep[r].seen EXCEPT !.root = ctRoot]
           /\ rep'[r].known = rep[r].known
           /\ rep'[r].proof = rep[r].proof
           /\ rep'[r].sth = rep[r].sth
           /\ DOMAIN rep'[r] = DOMAIN rep[r]
           /\ DOMAIN rep' = Reporters
      /\ Check(r) =>
           /\ rep'[r].pc = IF rep[r].verdict = "accepted" /\ rep[r].sth.size > ctSize
                                       THEN "size" ELSE "answer"
           /\ rep'[r].known = rep[r].known
           /\ rep'[r].proof = rep[r].proof
           /\ rep'[r].sth = rep[r].sth
           /\ rep'[r].seen = rep[r].seen
           /\ rep'[r].verdict = rep[r].verdict
           /\ DOMAIN rep'[r] = DOMAIN rep[r]
           /\ DOMAIN rep' = Reporters
      /\ StoreSize(r) =>
           /\ rep'[r].pc = "root"
           /\ rep'[r].known = rep[r].known
           /\ rep'[r].proof = rep[r].proof
           /\ rep'[r].sth = rep[r].sth
           /\ rep'[r].seen = rep[r].seen
           /\ rep'[r].verdict = rep[r].verdict
           /\ DOMAIN rep'[r] = DOMAIN rep[r]
           /\ DOMAIN rep' = Reporters
      /\ StoreRoot(r) =>
           /\ rep'[r].pc = "answer"
           /\ rep'[r].known = rep[r].known
           /\ rep'[r].proof = rep[r].proof
           /\ rep'[r].sth = rep[r].sth
           /\ rep'[r].seen = rep[r].seen
           /\ rep'[r].verdict = rep[r].verdict
           /\ DOMAIN rep'[r] = DOMAIN rep[r]
           /\ DOMAIN rep' = Reporters
      /\ GetProof(r) =>
           /\ DOMAIN rep' = Reporters
           /\ (rep[r].known < 1 \/ rep[r].known >= rep[r].sth.size) =>
                /\ rep'[r].pc = "post" /\ rep'[r].known = rep[r].known /\ rep'[r].proof = rep[r].proof
                /\ rep'[r].sth = rep[r].sth /\ rep'[r].seen = rep[r].seen
                /\ rep'[r].verdict = rep[r].verdict
                /\ DOMAIN rep'[r] = DOMAIN rep[r]
           /\ (~(rep[r].known < 1 \/ rep[r].known >= rep[r].sth.size) /\ rep[r].sth.size > Len(log)) =>
                rep'[r] = Idle(rep[r].known)
           /\ (~(rep[r].known < 1 \/ rep[r].known >= rep[r].sth.size) /\ ~(rep[r].sth.size > Len(log))) =>
                /\ rep'[r].pc = "post" /\ rep'[r].known = rep[r].known
                /\ rep'[r].proof = ConsistencyProof(log, rep[r].known, rep[r].sth.size)
                /\ rep'[r].sth = rep[r].sth /\ rep'[r].seen = rep[r].seen
                /\ rep'[r].verdict = rep[r].verdict
                /\ DOMAIN rep'[r] = DOMAIN rep[r]
      /\ Answer(r) => rep'[r] = Idle(ctSize) /\ DOMAIN rep' = Reporters
<1>1. ASSUME GetSTH(r)
      PROVE
           /\ rep'[r].pc = "sth"
           /\ rep'[r].sth = TreeHead(log)
           /\ rep'[r].known = rep[r].known
           /\ rep'[r].proof = rep[r].proof
           /\ rep'[r].seen = rep[r].seen
           /\ rep'[r].verdict = rep[r].verdict
           /\ DOMAIN rep'[r] = DOMAIN rep[r]
           /\ DOMAIN rep' = Reporters
  BY <1>1 DEF GetSTH
<1>2. ASSUME ReadSize(r)
      PROVE
           /\ rep'[r].pc = "read"
           /\ rep'[r].seen = [size |-> ctSize, root |-> Nil]
           /\ rep'[r].known = rep[r].known
           /\ rep'[r].proof = rep[r].proof
           /\ rep'[r].sth = rep[r].sth
           /\ rep'[r].verdict = rep[r].verdict
           /\ DOMAIN rep'[r] = DOMAIN rep[r]
           /\ DOMAIN rep' = Reporters
  BY <1>2 DEF ReadSize
<1>3. ASSUME Observe(r)
      PROVE
           /\ rep'[r].pc = "check"
           /\ rep'[r].seen.size = rep[r].seen.size
           /\ rep'[r].seen.root = ctRoot
           /\ DOMAIN rep'[r].seen = {"size", "root"}
           /\ rep'[r].verdict = IF Accepts(rep[r].sth, [rep[r].seen EXCEPT !.root = ctRoot], rep[r].proof, rep[r].known)
                                       THEN "accepted" ELSE "alarm"
           /\ rep'[r].seen = [rep[r].seen EXCEPT !.root = ctRoot]
           /\ rep'[r].known = rep[r].known
           /\ rep'[r].proof = rep[r].proof
           /\ rep'[r].sth = rep[r].sth
           /\ DOMAIN rep'[r] = DOMAIN rep[r]
           /\ DOMAIN rep' = Reporters
  BY <1>3 DEF Observe
<1>4. ASSUME Check(r)
      PROVE
           /\ rep'[r].pc = IF rep[r].verdict = "accepted" /\ rep[r].sth.size > ctSize
                                       THEN "size" ELSE "answer"
           /\ rep'[r].known = rep[r].known
           /\ rep'[r].proof = rep[r].proof
           /\ rep'[r].sth = rep[r].sth
           /\ rep'[r].seen = rep[r].seen
           /\ rep'[r].verdict = rep[r].verdict
           /\ DOMAIN rep'[r] = DOMAIN rep[r]
           /\ DOMAIN rep' = Reporters
  BY <1>4 DEF Check
<1>5. ASSUME StoreSize(r)
      PROVE
           /\ rep'[r].pc = "root"
           /\ rep'[r].known = rep[r].known
           /\ rep'[r].proof = rep[r].proof
           /\ rep'[r].sth = rep[r].sth
           /\ rep'[r].seen = rep[r].seen
           /\ rep'[r].verdict = rep[r].verdict
           /\ DOMAIN rep'[r] = DOMAIN rep[r]
           /\ DOMAIN rep' = Reporters
  BY <1>5 DEF StoreSize
<1>6. ASSUME StoreRoot(r)
      PROVE
           /\ rep'[r].pc = "answer"
           /\ rep'[r].known = rep[r].known
           /\ rep'[r].proof = rep[r].proof
           /\ rep'[r].sth = rep[r].sth
           /\ rep'[r].seen = rep[r].seen
           /\ rep'[r].verdict = rep[r].verdict
           /\ DOMAIN rep'[r] = DOMAIN rep[r]
           /\ DOMAIN rep' = Reporters
  BY <1>6 DEF StoreRoot
<1>7. ASSUME GetProof(r)
      PROVE
           /\ DOMAIN rep' = Reporters
           /\ (rep[r].known < 1 \/ rep[r].known >= rep[r].sth.size) =>
                /\ rep'[r].pc = "post" /\ rep'[r].known = rep[r].known /\ rep'[r].proof = rep[r].proof
                /\ rep'[r].sth = rep[r].sth /\ rep'[r].seen = rep[r].seen
                /\ rep'[r].verdict = rep[r].verdict
                /\ DOMAIN rep'[r] = DOMAIN rep[r]
           /\ (~(rep[r].known < 1 \/ rep[r].known >= rep[r].sth.size) /\ rep[r].sth.size > Len(log)) =>
                rep'[r] = Idle(rep[r].known)
           /\ (~(rep[r].known < 1 \/ rep[r].known >= rep[r].sth.size) /\ ~(rep[r].sth.size > Len(log))) =>
                /\ rep'[r].pc = "post" /\ rep'[r].known = rep[r].known
                /\ rep'[r].proof = ConsistencyProof(log, rep[r].known, rep[r].sth.size)
                /\ rep'[r].sth = rep[r].sth /\ rep'[r].seen = rep[r].seen
                /\ rep'[r].verdict = rep[r].verdict
                /\ DOMAIN rep'[r] = DOMAIN rep[r]
  <2>1. CASE rep[r].known < 1 \/ rep[r].known >= rep[r].sth.size
    BY <1>7, <2>1 DEF GetProof
  <2>2. CASE ~(rep[r].known < 1 \/ rep[r].known >= rep[r].sth.size) /\ rep[r].sth.size > Len(log)
    BY <1>7, <2>2 DEF GetProof
  <2>3. CASE ~(rep[r].known < 1 \/ rep[r].known >= rep[r].sth.size) /\ ~(rep[r].sth.size > Len(log))
    BY <1>7, <2>3 DEF GetProof
  <2>4. QED
    BY <2>1, <2>2, <2>3
<1>8. ASSUME Answer(r) PROVE rep'[r] = Idle(ctSize) /\ DOMAIN rep' = Reporters
  BY <1>8 DEF Answer
<1>9. QED
  BY <1>1, <1>2, <1>3, <1>4, <1>5, <1>6, <1>7, <1>8

\* Initially nothing is trusted.
LEMMA GossipStarts == CTInit => VerifiedInv
<1> SUFFICES ASSUME CTInit PROVE VerifiedInv
  OBVIOUS
<1>1. log = <<>> /\ adoptions = 0 /\ ctSize = 0 /\ ctRoot = Nil /\ rep = [r \in Reporters |-> Idle(0)]
  BY DEF CTInit
<1>2. LogOK
  BY <1>1 DEF LogOK
<1>3. ASSUME NEW r \in Reporters PROVE RepShape(rep[r]) /\ RepVerified(rep[r])
  <2>1. rep[r] = Idle(0)
    BY <1>1
  <2>2. 0 \in Nat
    OBVIOUS
  <2>3. RepShape(Idle(0)) /\ Idle(0).pc = "idle"
    BY <2>2, IdleIs
  <2>4. QED
    BY <2>1, <2>3 DEF RepVerified
<1>4. QED
  BY <1>1, <1>2, <1>3, NoEntries DEF VerifiedInv

\* The entry written at a place of the log under a history.
LEMMA EntryIs == \A h, n \in Nat : Entry(h, n) \in Entries /\ Entry(h, n)[2] = n
BY DEF Entry, Entries

\* A longer log of the same history, and the log of an adopted fork.
LEMMA LogGrows ==
    ASSUME LogOK, adoptions \in Nat, AppendEvent
    PROVE  /\ LogOK' /\ Len(log') = Len(log) + 1
           /\ \A i \in 1..Len(log) : log'[i] = log[i]
<1>1. log' = Append(log, Entry(adoptions, Len(log))) /\ log \in Seq(Entries) /\ Len(log) \in Nat
  BY DEF AppendEvent, LogOK
<1>2a. Entry(adoptions, Len(log)) \in Entries /\ Entry(adoptions, Len(log))[2] = Len(log)
  BY <1>1, EntryIs
<1>2. PICK e : e = Entry(adoptions, Len(log)) /\ e \in Entries /\ e[2] = Len(log)
  BY <1>2a
<1>3. /\ log' \in Seq(Entries) /\ Len(log') = Len(log) + 1
      /\ (\A i \in 1..Len(log) : log'[i] = log[i]) /\ log'[Len(log) + 1] = e
  BY <1>1, <1>2, AppendProperties
<1>4. ASSUME NEW i \in 1..Len(log') PROVE log'[i][2] = i - 1
  <2>1. CASE i = Len(log) + 1
    BY <1>1, <1>2, <1>3, <2>1
  <2>2. CASE i # Len(log) + 1
    <3>1. i \in 1..Len(log)
      BY <1>1, <1>3, <2>2
    <3>2. QED
      BY <1>3, <3>1 DEF LogOK
  <2>3. QED
    BY <2>1, <2>2
<1>5. QED
  BY <1>3, <1>4 DEF LogOK

\* The log that handleRecover adopts with a fork is a log.
LEMMA LogAdopts ==
    ASSUME LogOK, adoptions \in Nat, NEW n \in 0..MaxSize, AdoptFork(n)
    PROVE  LogOK'
<1>1. /\ log \in Seq(Entries) /\ Len(log) \in Nat /\ n \in 0..Len(log) /\ adoptions' \in Nat
      /\ log' = SubSeq(log, 1, n) \o <<Entry(adoptions', n), Entry(adoptions', n + 1)>>
  BY CTBounds DEF AdoptFork, LogOK
<1>2. PICK s : s = SubSeq(log, 1, n) /\ s \in Seq(Entries) /\ Len(s) = n /\ \A i \in 1..n : s[i] = log[i]
  BY <1>1, PrefixIs
<1>3. PICK a, b : /\ a = Entry(adoptions', n) /\ b = Entry(adoptions', n + 1)
                  /\ a \in Entries /\ b \in Entries /\ a[2] = n /\ b[2] = n + 1
  <2>1. PICK h \in Nat : h = adoptions'
    BY <1>1
  <2>2. PICK m \in Nat : m = n + 1
    BY <1>1
  <2>3. /\ Entry(h, n) \in Entries /\ Entry(h, n)[2] = n
        /\ Entry(h, m) \in Entries /\ Entry(h, m)[2] = m
    BY <1>1, EntryIs
  <2>4. QED
    BY <2>1, <2>2, <2>3
<1>4. PICK t : t = <<a, b>>
  OBVIOUS
<1>5. t \in Seq(Entries) /\ Len(t) = 2 /\ t[1] = a /\ t[2] = b
  BY <1>3, <1>4
<1>6. log' = s \o t
  BY <1>1, <1>2, <1>3, <1>4
<1>7. /\ log' \in Seq(Entries) /\ Len(log') = n + 2
      /\ \A i \in 1..n + 2 : log'[i] = IF i <= n THEN s[i] ELSE t[i - n]
  <2>1. /\ s \o t \in Seq(Entries) /\ Len(s \o t) = Len(s) + Len(t)
        /\ \A i \in 1..Len(s) + Len(t) : (s \o t)[i] = IF i <= Len(s) THEN s[i] ELSE t[i - Len(s)]
    BY <1>2, <1>5, ConcatProperties
  <2>2. QED
    BY <1>2, <1>5, <1>6, <2>1
<1>8. ASSUME NEW i \in 1..Len(log') PROVE log'[i][2] = i - 1
  <2>1. i \in 1..n + 2 /\ n \in Nat
    BY <1>1, <1>7
  <2>2. CASE i <= n
    <3>1. log'[i] = log[i] /\ i \in 1..Len(log)
      BY <1>1, <1>2, <1>7, <2>1, <2>2
    <3>2. QED
      BY <3>1 DEF LogOK
  <2>3. CASE i = n + 1
    <3>1. i - n = 1 /\ ~(i <= n) /\ i - 1 = n
      BY <2>1, <2>3
    <3>2. log'[i] = a
      BY <1>5, <1>7, <2>1, <3>1
    <3>3. QED
      BY <1>3, <3>1, <3>2
  <2>4. CASE i = n + 2
    <3>1. i - n = 2 /\ ~(i <= n) /\ i - 1 = n + 1
      BY <2>1, <2>4
    <3>2. log'[i] = b
      BY <1>5, <1>7, <2>1, <3>1
    <3>3. QED
      BY <1>3, <3>1, <3>2
  <2>5. QED
    BY <2>1, <2>2, <2>3, <2>4
<1>9. QED
  BY <1>7, <1>8 DEF LogOK

\* A step of one reporter leaves the others where they are.
LEMMA OthersStay ==
    ASSUME DOMAIN rep = Reporters, NEW r \in Reporters, NEW s \in Reporters, s # r,
           \/ GetSTH(r) \/ GetProof(r) \/ ReadSize(r) \/ Observe(r) \/ Check(r)
           \/ StoreSize(r) \/ StoreRoot(r) \/ Answer(r)
    PROVE  rep'[s] = rep[s]
<1>1. CASE GetSTH(r) \/ ReadSize(r) \/ Check(r) \/ StoreSize(r) \/ StoreRoot(r) \/ Answer(r)
  BY <1>1 DEF GetSTH, ReadSize, Check, StoreSize, StoreRoot, Answer
<1>2. CASE GetProof(r)
  BY <1>2 DEF GetProof
<1>3. CASE Observe(r)
  BY <1>3 DEF Observe
<1>4. QED
  BY <1>1, <1>2, <1>3

\* After a step of one reporter it is enough to look at its record.
LEMMA StepOf ==
    ASSUME VerifiedInv, NEW r \in Reporters,
           \/ GetSTH(r) \/ GetProof(r) \/ ReadSize(r) \/ Observe(r) \/ Check(r)
           \/ StoreSize(r) \/ StoreRoot(r) \/ Answer(r),
           UNCHANGED <<log, adoptions>>, ctSize' \in Nat, ctRoot'.entries \in Seq(Entries),
           DOMAIN rep' = Reporters, RepShape(rep'[r]), RepVerified(rep'[r])
    PROVE  VerifiedInv'
<1>1. LogOK' /\ adoptions' \in Nat /\ DOMAIN rep = Reporters
  BY DEF VerifiedInv, LogOK
<1>2. ASSUME NEW s \in Reporters PROVE RepShape(rep'[s]) /\ RepVerified(rep'[s])
  <2>1. CASE s = r
    BY <2>1
  <2>2. CASE s # r
    <3>1. rep'[s] = rep[s]
      BY <1>1, <2>2, OthersStay
    <3>2. QED
      BY <3>1 DEF VerifiedInv
  <2>3. QED
    BY <2>1, <2>2
<1>3. \A s \in Reporters : RepShape(rep[s])' /\ RepVerified(rep[s])'
  BY <1>2 DEF RepShape, RepVerified
<1>4. QED
  BY <1>1, <1>3 DEF VerifiedInv

\* Every step keeps what is held in shape and verified.
LEMMA VerifiedSteps == VerifiedInv /\ [CTNext]_ctVars => VerifiedInv'
<1> SUFFICES ASSUME VerifiedInv, [CTNext]_ctVars PROVE VerifiedInv'
  OBVIOUS
<1>1. /\ LogOK /\ adoptions \in Nat /\ ctSize \in Nat /\ ctRoot.entries \in Seq(Entries)
      /\ DOMAIN rep = Reporters
  BY DEF VerifiedInv
<1>2. \A r \in Reporters : RepShape(rep[r]) /\ RepVerified(rep[r])
  BY DEF VerifiedInv
<1>2a. log \in Seq(Entries) /\ Len(log) \in Nat
  BY <1>1 DEF LogOK
<1>3. CASE UNCHANGED ctVars
  BY <1>3 DEF ctVars, VerifiedInv, LogOK, RepShape, RepVerified
<1>4. CASE AppendEvent
  <2>1. UNCHANGED <<adoptions, ctSize, ctRoot, rep>>
    BY <1>4 DEF AppendEvent
  <2>2. LogOK'
    BY <1>1, <1>4, LogGrows
  <2>3. \A r \in Reporters : RepShape(rep[r])' /\ RepVerified(rep[r])'
    BY <1>2, <2>1 DEF RepShape, RepVerified
  <2>4. QED
    BY <1>1, <2>1, <2>2, <2>3 DEF VerifiedInv
<1>5. ASSUME NEW n \in 0..MaxSize, AdoptFork(n) PROVE VerifiedInv'
  <2>1. UNCHANGED <<ctSize, ctRoot, rep>> /\ adoptions' \in Nat
    BY <1>1, <1>5 DEF AdoptFork
  <2>2. LogOK'
    BY <1>1, <1>5, LogAdopts
  <2>3. \A r \in Reporters : RepShape(rep[r])' /\ RepVerified(rep[r])'
    BY <1>2, <2>1 DEF RepShape, RepVerified
  <2>4. QED
    BY <1>1, <2>1, <2>2, <2>3 DEF VerifiedInv
<1>6. ASSUME NEW r \in Reporters, \/ GetSTH(r) \/ GetProof(r) \/ ReadSize(r) \/ Observe(r) \/ Check(r)
                                  \/ StoreSize(r) \/ StoreRoot(r) \/ Answer(r)
      PROVE  VerifiedInv'
  <2>1. /\ DOMAIN rep[r] = {"pc", "known", "sth", "proof", "seen", "verdict"} /\ rep[r].known \in Nat
        /\ rep[r].sth.size \in Nat /\ rep[r].sth.root.entries \in Seq(Entries)
        /\ DOMAIN rep[r].seen = {"size", "root"}
        /\ rep[r].seen.size \in Nat /\ rep[r].seen.root.entries \in Seq(Entries)
        /\ IsProof(rep[r].proof)
    BY <1>2 DEF RepShape
  <2>2. RepVerified(rep[r])
    BY <1>2
  <2>3. CASE GetSTH(r)
    <3>1. /\ rep'[r].pc = "sth" /\ rep'[r].sth = TreeHead(log) /\ rep'[r].known = rep[r].known
          /\ rep'[r].proof = rep[r].proof /\ rep'[r].seen = rep[r].seen
          /\ DOMAIN rep'[r] = DOMAIN rep[r] /\ DOMAIN rep' = Reporters
      BY <1>1, <2>1, <2>3, RepSteps
    <3>2. UNCHANGED <<log, adoptions, ctSize, ctRoot>>
      BY <2>3 DEF GetSTH
    <3>3. TreeHead(log).size = Len(log) /\ TreeHead(log).root = Mth(log, 0, Len(log))
      BY DEF TreeHead
    <3>4. Mth(log, 0, Len(log)).entries \in Seq(Entries)
      <4>1. 0 \in 0..Len(log) /\ Len(log) \in 0..Len(log)
        BY <1>2a
      <4>2. QED
        BY <1>2a, <4>1, MthSeq
    <3>5. RepShape(rep'[r])
      BY <1>2a, <2>1, <3>1, <3>3, <3>4 DEF RepShape
    <3>6. RepVerified(rep'[r])
      BY <3>1 DEF RepVerified
    <3>7. QED
      BY <1>1, <3>1, <3>2, <3>5, <3>6, <1>6, StepOf
  <2>4. CASE GetProof(r)
    <3>1. UNCHANGED <<log, adoptions, ctSize, ctRoot>>
      BY <2>4 DEF GetProof
    <3>2. DOMAIN rep' = Reporters
      BY <1>1, <2>1, <2>4, RepSteps
    <3>3. CASE rep[r].known < 1 \/ rep[r].known >= rep[r].sth.size
      <4>1. /\ rep'[r].pc = "post" /\ rep'[r].known = rep[r].known /\ rep'[r].proof = rep[r].proof
            /\ rep'[r].sth = rep[r].sth /\ rep'[r].seen = rep[r].seen
            /\ DOMAIN rep'[r] = DOMAIN rep[r]
        BY <1>1, <2>1, <2>4, <3>3, RepSteps
      <4>2. RepShape(rep'[r])
        BY <2>1, <4>1 DEF RepShape
      <4>3. RepVerified(rep'[r])
        BY <4>1 DEF RepVerified
      <4>4. QED
        BY <1>1, <3>1, <3>2, <4>2, <4>3, <1>6, StepOf
    <3>4. CASE ~(rep[r].known < 1 \/ rep[r].known >= rep[r].sth.size) /\ rep[r].sth.size > Len(log)
      <4>1. rep'[r] = Idle(rep[r].known)
        BY <1>1, <2>1, <2>4, <3>4, RepSteps
      <4>2. RepShape(rep'[r]) /\ rep'[r].pc = "idle"
        BY <2>1, <4>1, IdleIs
      <4>3. RepVerified(rep'[r])
        BY <4>2 DEF RepVerified
      <4>4. QED
        BY <1>1, <3>1, <3>2, <4>2, <4>3, <1>6, StepOf
    <3>5. CASE ~(rep[r].known < 1 \/ rep[r].known >= rep[r].sth.size) /\ ~(rep[r].sth.size > Len(log))
      <4>1. /\ rep'[r].pc = "post" /\ rep'[r].known = rep[r].known
            /\ rep'[r].proof = ConsistencyProof(log, rep[r].known, rep[r].sth.size)
            /\ rep'[r].sth = rep[r].sth /\ rep'[r].seen = rep[r].seen
            /\ DOMAIN rep'[r] = DOMAIN rep[r]
        BY <1>1, <2>1, <2>4, <3>5, RepSteps
      <4>2. PICK from \in Nat, to \in 0..Len(log) : from = rep[r].known /\ to = rep[r].sth.size /\ 1 <= from /\ from < to
        BY <1>2a, <2>1, <3>5
      <4>3. ConsistencyProof(log, from, to) \in Seq(Hashes(log))
        BY <1>2a, <4>2, ConsistencyProofHashes
      <4>4. IsProof(rep'[r].proof)
        <5>1. \A h \in Hashes(log) : h.entries \in Seq(Entries)
          BY <1>2a, HashesEntries
        <5>2. QED
          BY <4>1, <4>2, <4>3, <5>1 DEF IsProof
      <4>5. RepShape(rep'[r])
        BY <2>1, <4>1, <4>4 DEF RepShape
      <4>6. RepVerified(rep'[r])
        BY <4>1 DEF RepVerified
      <4>7. QED
        BY <1>1, <3>1, <3>2, <4>5, <4>6, <1>6, StepOf
    <3>6. QED
      BY <3>3, <3>4, <3>5
  <2>5. CASE ReadSize(r)
    <3>1. /\ rep'[r].pc = "read" /\ rep'[r].seen = [size |-> ctSize, root |-> Nil]
          /\ rep'[r].known = rep[r].known /\ rep'[r].proof = rep[r].proof /\ rep'[r].sth = rep[r].sth
          /\ DOMAIN rep'[r] = DOMAIN rep[r] /\ DOMAIN rep' = Reporters
      BY <1>1, <2>1, <2>5, RepSteps
    <3>2. UNCHANGED <<log, adoptions, ctSize, ctRoot>>
      BY <2>5 DEF ReadSize
    <3>3. rep'[r].seen.size = ctSize /\ rep'[r].seen.root = Nil /\ DOMAIN rep'[r].seen = {"size", "root"}
      BY <3>1
    <3>4. RepShape(rep'[r])
      BY <1>1, <2>1, <3>1, <3>3, NoEntries DEF RepShape
    <3>5. RepVerified(rep'[r])
      BY <3>1, <3>2, <3>3 DEF RepVerified
    <3>6. QED
      BY <1>1, <3>1, <3>2, <3>4, <3>5, <1>6, StepOf
  <2>6. CASE Observe(r)
    <3> DEFINE trusted == [rep[r].seen EXCEPT !.root = ctRoot]
    <3>1. /\ rep'[r].pc = "check" /\ rep'[r].seen = trusted
          /\ rep'[r].seen.size = rep[r].seen.size /\ rep'[r].seen.root = ctRoot
          /\ DOMAIN rep'[r].seen = {"size", "root"}
          /\ rep'[r].verdict = IF Accepts(rep[r].sth, trusted, rep[r].proof, rep[r].known)
                               THEN "accepted" ELSE "alarm"
          /\ rep'[r].known = rep[r].known /\ rep'[r].proof = rep[r].proof /\ rep'[r].sth = rep[r].sth
          /\ DOMAIN rep'[r] = DOMAIN rep[r] /\ DOMAIN rep' = Reporters
      BY <1>1, <2>1, <2>6, RepSteps
    <3>2. UNCHANGED <<log, adoptions, ctSize, ctRoot>> /\ rep[r].pc = "read"
      BY <2>6 DEF Observe
    <3> HIDE DEF trusted
    <3>3. RepShape(rep'[r])
      BY <1>1, <2>1, <3>1 DEF RepShape
    <3>4. rep'[r].verdict = "accepted" => Accepts(rep'[r].sth, rep'[r].seen, rep'[r].proof, rep'[r].known)
      BY <3>1
    <3>5. RepVerified(rep'[r])
      BY <3>1, <3>4 DEF RepVerified
    <3>6. QED
      BY <1>1, <3>1, <3>2, <3>3, <3>5, <1>6, StepOf
  <2>7. CASE Check(r)
    <3>1. /\ rep'[r].pc = IF rep[r].verdict = "accepted" /\ rep[r].sth.size > ctSize THEN "size" ELSE "answer"
          /\ rep'[r].known = rep[r].known /\ rep'[r].proof = rep[r].proof /\ rep'[r].sth = rep[r].sth
          /\ rep'[r].seen = rep[r].seen /\ rep'[r].verdict = rep[r].verdict
          /\ DOMAIN rep'[r] = DOMAIN rep[r] /\ DOMAIN rep' = Reporters
      BY <1>1, <2>1, <2>7, RepSteps
    <3>2. UNCHANGED <<log, adoptions, ctSize, ctRoot>> /\ rep[r].pc = "check"
      BY <2>7 DEF Check
    <3>3. RepShape(rep'[r])
      BY <2>1, <3>1 DEF RepShape
    <3>4. rep[r].verdict = "accepted" => Accepts(rep[r].sth, rep[r].seen, rep[r].proof, rep[r].known)
      BY <2>2, <3>2 DEF RepVerified
    <3>5. RepVerified(rep'[r])
      BY <3>1, <3>4 DEF RepVerified
    <3>6. QED
      BY <1>1, <3>1, <3>2, <3>3, <3>5, <1>6, StepOf
  <2>8. CASE StoreSize(r)
    <3>1. /\ rep'[r].pc = "root"
          /\ rep'[r].known = rep[r].known /\ rep'[r].proof = rep[r].proof /\ rep'[r].sth = rep[r].sth
          /\ rep'[r].seen = rep[r].seen /\ rep'[r].verdict = rep[r].verdict
          /\ DOMAIN rep'[r] = DOMAIN rep[r] /\ DOMAIN rep' = Reporters
      BY <1>1, <2>1, <2>8, RepSteps
    <3>2. UNCHANGED <<log, adoptions, ctRoot>> /\ rep[r].pc = "size" /\ ctSize' = rep[r].sth.size
      BY <2>8 DEF StoreSize
    <3>3. RepShape(rep'[r])
      BY <2>1, <3>1 DEF RepShape
    <3>4. rep[r].verdict = "accepted" => Accepts(rep[r].sth, rep[r].seen, rep[r].proof, rep[r].known)
      BY <2>2, <3>2 DEF RepVerified
    <3>5. RepVerified(rep'[r])
      BY <3>1, <3>4 DEF RepVerified
    <3>6. QED
      BY <1>1, <2>1, <3>1, <3>2, <3>3, <3>5, <1>6, StepOf
  <2>9. CASE StoreRoot(r)
    <3>1. /\ rep'[r].pc = "answer"
          /\ rep'[r].known = rep[r].known /\ rep'[r].proof = rep[r].proof /\ rep'[r].sth = rep[r].sth
          /\ rep'[r].seen = rep[r].seen /\ rep'[r].verdict = rep[r].verdict
          /\ DOMAIN rep'[r] = DOMAIN rep[r] /\ DOMAIN rep' = Reporters
      BY <1>1, <2>1, <2>9, RepSteps
    <3>2. UNCHANGED <<log, adoptions, ctSize>> /\ rep[r].pc = "root" /\ ctRoot' = rep[r].sth.root
      BY <2>9 DEF StoreRoot
    <3>3. RepShape(rep'[r])
      BY <2>1, <3>1 DEF RepShape
    <3>4. RepVerified(rep'[r])
      BY <3>1 DEF RepVerified
    <3>5. QED
      BY <1>1, <2>1, <3>1, <3>2, <3>3, <3>4, <1>6, StepOf
  <2>10. CASE Answer(r)
    <3>1. rep'[r] = Idle(ctSize) /\ DOMAIN rep' = Reporters
      BY <1>1, <2>1, <2>10, RepSteps
    <3>2. UNCHANGED <<log, adoptions, ctSize, ctRoot>>
      BY <2>10 DEF Answer
    <3>3. RepShape(rep'[r]) /\ rep'[r].pc = "idle"
      BY <1>1, <3>1, IdleIs
    <3>4. RepVerified(rep'[r])
      BY <3>3 DEF RepVerified
    <3>5. QED
      BY <1>1, <3>1, <3>2, <3>3, <3>4, <1>6, StepOf
  <2>11. QED
    BY <1>6, <2>3, <2>4, <2>5, <2>6, <2>7, <2>8, <2>9, <2>10
<1>7. QED
  BY <1>3, <1>4, <1>5, <1>6 DEF CTNext

\* Of a log that only grew, the heads stay what they were.
LEMMA HeadsStay ==
    ASSUME LogOK, adoptions \in Nat, AppendEvent
    PROVE  \A k \in 0..Len(log) : k \in 0..Len(log') /\ Mth(log', 0, k) = Mth(log, 0, k)
<1>1. LogOK' /\ Len(log') = Len(log) + 1 /\ \A i \in 1..Len(log) : log'[i] = log[i]
  BY LogGrows
<1>2. log \in Seq(Entries) /\ log' \in Seq(Entries) /\ Len(log) \in Nat
  BY <1>1 DEF LogOK
<1>3. ASSUME NEW k \in 0..Len(log) PROVE k \in 0..Len(log') /\ Mth(log', 0, k) = Mth(log, 0, k)
  <2>1. k \in Nat /\ 0 \in Nat /\ k \in 0..Len(log') /\ 0 \in 0..Len(log) /\ 0 \in 0..Len(log')
    BY <1>1, <1>2
  <2>2. \A t \in 0 + 1..k : log'[t] = log[t]
    BY <1>1, <1>2
  <2>3. \A i, j \in Nat :
          (/\ i \in 0..Len(log') /\ j \in 0..Len(log') /\ i \in 0..Len(log) /\ j \in 0..Len(log)
           /\ \A t \in i + 1..j : log'[t] = log[t]) => Mth(log', i, j) = Mth(log, i, j)
    BY <1>2, MthSame
  <2>4. PICK z \in Nat : z = 0
    OBVIOUS
  <2>5. \A t \in z + 1..k : log'[t] = log[t]
    BY <2>2, <2>4
  <2>6. Mth(log', z, k) = Mth(log, z, k)
    BY <2>1, <2>3, <2>4, <2>5
  <2>7. QED
    BY <2>1, <2>4, <2>6
<1>4. QED
  BY <1>3

\* The empty head is a head of every log.
LEMMA IdleHonest ==
    ASSUME LogOK, NEW k \in Nat
    PROVE  IsHead(Idle(k).sth.size, Idle(k).sth.root)
<1>1. Len(log) \in Nat
  BY DEF LogOK
<1>2. Mth(log, 0, 0) = Nil /\ 0 \in 0..Len(log)
  BY <1>1, EmptyHead
<1>3. Idle(k).sth.size = 0 /\ Idle(k).sth.root = Nil
  BY IdleIs
<1>4. QED
  BY <1>2, <1>3 DEF IsHead

\* Initially nothing is held but the empty head.
LEMMA HonestStarts == CTInit => HonestInv
<1> SUFFICES ASSUME CTInit PROVE HonestInv
  OBVIOUS
<1>1. log = <<>> /\ ctRoot = Nil /\ rep = [r \in Reporters |-> Idle(0)]
  BY DEF CTInit
<1>2. LogOK
  BY GossipStarts DEF VerifiedInv
<1>3. PICK z \in Nat : z = 0
  OBVIOUS
<1>4. IsHead(Idle(z).sth.size, Idle(z).sth.root) /\ SomeHead(Nil)
  <2>1. Mth(log, 0, 0) = Nil /\ 0 \in 0..Len(log)
    BY <1>2, EmptyHead DEF LogOK
  <2>2. QED
    BY <1>2, <2>1, IdleHonest DEF SomeHead
<1>5. Idle(z).pc = "idle" /\ Idle(z).verdict = "none"
  BY IdleIs
<1>6. RepHonest(Idle(z))
  BY <1>4, <1>5 DEF RepHonest
<1>7. ASSUME NEW r \in Reporters PROVE RepHonest(rep[r])
  <2>1. rep[r] = Idle(z)
    BY <1>1, <1>3
  <2>2. QED
    BY <1>6, <2>1
<1>8. QED
  BY <1>1, <1>4, <1>7 DEF HonestInv

\* After a step of one reporter it is enough to look at it and at the stored root.
LEMMA OneHonestStep ==
    ASSUME DOMAIN rep = Reporters, adoptions = 0, HonestInv, NEW r \in Reporters,
           \/ GetSTH(r) \/ GetProof(r) \/ ReadSize(r) \/ Observe(r) \/ Check(r)
           \/ StoreSize(r) \/ StoreRoot(r) \/ Answer(r),
           log' = log, SomeHead(ctRoot'), RepHonest(rep'[r])
    PROVE  HonestInv'
<1>1. ASSUME NEW s \in Reporters PROVE RepHonest(rep'[s])
  <2>1. CASE s = r
    BY <2>1
  <2>2. CASE s # r
    <3>1. rep'[s] = rep[s]
      BY <2>2, OthersStay
    <3>2. QED
      BY <3>1 DEF HonestInv
  <2>3. QED
    BY <2>1, <2>2
<1>2. \A s \in Reporters : RepHonest(rep[s])'
  BY <1>1 DEF RepHonest, IsHead
<1>3. SomeHead(ctRoot)'
  BY DEF SomeHead
<1>4. QED
  BY <1>2, <1>3 DEF HonestInv

\* The stored root is the log's at the size that it names entries for.
LEMMA RootOfItsSize ==
    ASSUME LogOK, NEW root, SomeHead(root), NEW size, Len(root.entries) = size
    PROVE  IsHead(size, root)
<1>1. log \in Seq(Entries) /\ Len(log) \in Nat
  BY DEF LogOK
<1>2. PICK k \in 0..Len(log) : root = Mth(log, 0, k)
  BY DEF SomeHead
<1>3. PICK z \in Nat : z = 0
  OBVIOUS
<1>4. z \in 0..Len(log) /\ z <= k
  BY <1>1, <1>3
<1>5. Len(Mth(log, z, k).entries) = k - z
  BY <1>1, <1>4, MthSeq
<1>6. k = size
  BY <1>2, <1>3, <1>5
<1>7. QED
  BY <1>2, <1>6 DEF IsHead

\* As long as no recovery rewrote the log, a post whose proof starts at the size
\* that the endpoint read, with the root of that size, is accepted.
LEMMA HonestAccepted ==
    ASSUME LogOK, NEW p, RepHonest(p), p.pc = "read", p.known \in Nat, p.sth.size \in Nat,
           NEW trusted, trusted.size = p.known, SomeHead(trusted.root),
           Len(trusted.root.entries) = trusted.size
    PROVE  Accepts(p.sth, trusted, p.proof, p.known)
<1>1. /\ IsHead(p.sth.size, p.sth.root)
      /\ (1 <= p.known /\ p.known < p.sth.size) =>
           VerifyConsistency(Mth(log, 0, p.known), p.sth.root, p.known, p.sth.size, p.proof)
  BY DEF RepHonest
<1>2. IsHead(trusted.size, trusted.root)
  BY RootOfItsSize
<1>3. CASE trusted.size = 0
  BY <1>3 DEF Accepts
<1>4. CASE p.sth.size < trusted.size
  BY <1>4 DEF Accepts
<1>5. CASE p.sth.size = trusted.size
  <2>1. p.sth.root = trusted.root
    BY <1>1, <1>2, <1>5 DEF IsHead
  <2>2. QED
    BY <1>5, <2>1 DEF Accepts
<1>6. CASE p.sth.size > trusted.size /\ trusted.size # 0
  <2>1. 1 <= p.known /\ p.known < p.sth.size
    BY <1>6
  <2>2. VerifyConsistency(trusted.root, p.sth.root, trusted.size, p.sth.size, p.proof)
    BY <1>1, <1>2, <2>1 DEF IsHead
  <2>3. QED
    BY <1>6, <2>2 DEF Accepts
<1>7. QED
  BY <1>3, <1>4, <1>5, <1>6

\* Every step keeps what is held true of a log that no recovery rewrote.
LEMMA HonestSteps == VerifiedInv /\ HonestInv /\ [CTNext]_ctVars => HonestInv'
<1> SUFFICES ASSUME VerifiedInv, HonestInv, [CTNext]_ctVars, adoptions' = 0 PROVE HonestInv'
  BY DEF HonestInv
<1>1. /\ LogOK /\ adoptions \in Nat /\ ctSize \in Nat /\ DOMAIN rep = Reporters
      /\ \A r \in Reporters : RepShape(rep[r])
  BY DEF VerifiedInv
<1>2. log \in Seq(Entries) /\ Len(log) \in Nat
  BY <1>1 DEF LogOK
<1>3. ASSUME NEW n \in 0..MaxSize, AdoptFork(n) PROVE HonestInv'
  BY <1>1, <1>3 DEF AdoptFork
<1>4. CASE UNCHANGED ctVars
  BY <1>4 DEF ctVars, HonestInv, RepHonest, IsHead, SomeHead
<1>5. CASE AppendEvent
  <2>1. UNCHANGED <<adoptions, ctSize, ctRoot, rep>>
    BY <1>5 DEF AppendEvent
  <2>2. SomeHead(ctRoot) /\ \A r \in Reporters : RepHonest(rep[r])
    BY <2>1 DEF HonestInv
  <2>3. \A k \in 0..Len(log) : k \in 0..Len(log') /\ Mth(log', 0, k) = Mth(log, 0, k)
    BY <1>1, <1>5, HeadsStay
  <2>4. ASSUME NEW r \in Reporters PROVE RepHonest(rep[r])'
    <3>1. RepHonest(rep[r]) /\ rep'[r] = rep[r]
      BY <2>1, <2>2
    <3>2. rep[r].sth.size \in Nat /\ rep[r].known \in Nat
      BY <1>1 DEF RepShape
    <3>3. IsHead(rep[r].sth.size, rep[r].sth.root)'
      BY <2>3, <3>1 DEF RepHonest, IsHead
    <3>4. ASSUME rep[r].pc \in {"post", "read"}, 1 <= rep[r].known, rep[r].known < rep[r].sth.size
          PROVE  VerifyConsistency(Mth(log', 0, rep[r].known), rep[r].sth.root, rep[r].known,
                                   rep[r].sth.size, rep[r].proof)
      <4>1. rep[r].sth.size \in 0..Len(log)
        BY <3>1 DEF RepHonest, IsHead
      <4>2. rep[r].known \in 0..Len(log)
        BY <1>2, <3>2, <3>4, <4>1
      <4>3. Mth(log', 0, rep[r].known) = Mth(log, 0, rep[r].known)
        BY <2>3, <4>2
      <4>4. VerifyConsistency(Mth(log, 0, rep[r].known), rep[r].sth.root, rep[r].known,
                              rep[r].sth.size, rep[r].proof)
        BY <3>1, <3>4 DEF RepHonest
      <4>5. QED
        BY <4>3, <4>4
    <3>5. QED
      BY <3>1, <3>3, <3>4 DEF RepHonest
  <2>5. SomeHead(ctRoot)'
    BY <2>1, <2>2, <2>3 DEF SomeHead
  <2>6. QED
    BY <2>4, <2>5 DEF HonestInv
<1>6. ASSUME NEW r \in Reporters, \/ GetSTH(r) \/ GetProof(r) \/ ReadSize(r) \/ Observe(r) \/ Check(r)
                                  \/ StoreSize(r) \/ StoreRoot(r) \/ Answer(r)
      PROVE  HonestInv'
  <2>1. /\ DOMAIN rep[r] = {"pc", "known", "sth", "proof", "seen", "verdict"} /\ rep[r].known \in Nat
        /\ rep[r].sth.size \in Nat /\ DOMAIN rep[r].seen = {"size", "root"}
    BY <1>1 DEF RepShape
  <2>2. log' = log /\ adoptions = 0
    BY <1>6 DEF GetSTH, GetProof, ReadSize, Observe, Check, StoreSize, StoreRoot, Answer
  <2>3. SomeHead(ctRoot) /\ RepHonest(rep[r])
    BY <2>2 DEF HonestInv
  <2>4. /\ IsHead(rep[r].sth.size, rep[r].sth.root)
        /\ rep[r].pc \in {"idle", "sth", "post", "read"} => rep[r].verdict # "alarm"
        /\ rep[r].verdict = "alarm" =>
              rep[r].known # rep[r].seen.size \/ Len(rep[r].seen.root.entries) # rep[r].seen.size
    BY <2>3 DEF RepHonest
  <2>5. \A k \in Nat : RepHonest(Idle(k))
    <3>1. ASSUME NEW k \in Nat PROVE RepHonest(Idle(k))
      <4>1. Idle(k).pc = "idle" /\ Idle(k).verdict = "none"
        BY IdleIs
      <4>2. IsHead(Idle(k).sth.size, Idle(k).sth.root)
        BY <1>1, IdleHonest
      <4>3. QED
        BY <4>1, <4>2 DEF RepHonest
    <3>2. QED
      BY <3>1
  <2>6. CASE GetSTH(r)
    <3>1. rep'[r].pc = "sth" /\ rep'[r].sth = TreeHead(log) /\ rep'[r].verdict = rep[r].verdict
      BY <1>1, <2>1, <2>6, RepSteps
    <3>2. ctRoot' = ctRoot /\ rep[r].pc = "idle"
      BY <2>6 DEF GetSTH
    <3>3. TreeHead(log).size = Len(log) /\ TreeHead(log).root = Mth(log, 0, Len(log))
          /\ Len(log) \in 0..Len(log)
      BY <1>2 DEF TreeHead
    <3>4. IsHead(rep'[r].sth.size, rep'[r].sth.root)
      BY <3>1, <3>3 DEF IsHead
    <3>5. RepHonest(rep'[r])
      BY <2>4, <3>1, <3>2, <3>4 DEF RepHonest
    <3>6. QED
      BY <1>1, <1>6, <2>2, <2>3, <3>2, <3>5, OneHonestStep
  <2>7. CASE GetProof(r)
    <3>1. ctRoot' = ctRoot /\ rep[r].pc = "sth"
      BY <2>7 DEF GetProof
    <3>2. CASE rep[r].known < 1 \/ rep[r].known >= rep[r].sth.size
      <4>1. /\ rep'[r].pc = "post" /\ rep'[r].known = rep[r].known /\ rep'[r].sth = rep[r].sth
            /\ rep'[r].verdict = rep[r].verdict
        BY <1>1, <2>1, <2>7, <3>2, RepSteps
      <4>2. ~(1 <= rep'[r].known /\ rep'[r].known < rep'[r].sth.size)
        BY <2>1, <3>2, <4>1
      <4>3. RepHonest(rep'[r])
        BY <2>4, <3>1, <4>1, <4>2 DEF RepHonest
      <4>4. QED
        BY <1>1, <1>6, <2>2, <2>3, <3>1, <4>3, OneHonestStep
    <3>3. CASE ~(rep[r].known < 1 \/ rep[r].known >= rep[r].sth.size) /\ rep[r].sth.size > Len(log)
      BY <1>2, <2>1, <2>4, <3>3 DEF IsHead
    <3>4. CASE ~(rep[r].known < 1 \/ rep[r].known >= rep[r].sth.size) /\ ~(rep[r].sth.size > Len(log))
      <4>1. /\ rep'[r].pc = "post" /\ rep'[r].known = rep[r].known /\ rep'[r].sth = rep[r].sth
            /\ rep'[r].proof = ConsistencyProof(log, rep[r].known, rep[r].sth.size)
            /\ rep'[r].verdict = rep[r].verdict
        BY <1>1, <2>1, <2>7, <3>4, RepSteps
      <4>2. PICK from \in Nat : from = rep[r].known
        BY <2>1
      <4>3. PICK to \in 0..Len(log) : to = rep[r].sth.size
        BY <2>4 DEF IsHead
      <4>4. 1 <= from /\ from < to
        BY <2>1, <3>4, <4>2, <4>3
      <4>5. VerifyConsistency(Mth(log, 0, from), Mth(log, 0, to), from, to, ConsistencyProof(log, from, to))
        BY <1>2, <4>4, ConsistencyComplete
      <4>6. rep[r].sth.root = Mth(log, 0, to)
        BY <2>4, <4>3 DEF IsHead
      <4>7. VerifyConsistency(Mth(log, 0, rep'[r].known), rep'[r].sth.root, rep'[r].known,
                              rep'[r].sth.size, rep'[r].proof)
        BY <4>1, <4>2, <4>3, <4>5, <4>6
      <4>8. RepHonest(rep'[r])
        BY <2>4, <3>1, <4>1, <4>7 DEF RepHonest
      <4>9. QED
        BY <1>1, <1>6, <2>2, <2>3, <3>1, <4>8, OneHonestStep
    <3>5. QED
      BY <3>2, <3>3, <3>4
  <2>8. CASE ReadSize(r)
    <3>1. /\ rep'[r].pc = "read" /\ rep'[r].known = rep[r].known /\ rep'[r].proof = rep[r].proof
          /\ rep'[r].sth = rep[r].sth /\ rep'[r].verdict = rep[r].verdict
      BY <1>1, <2>1, <2>8, RepSteps
    <3>2. ctRoot' = ctRoot /\ rep[r].pc = "post"
      BY <2>8 DEF ReadSize
    <3>3. (1 <= rep[r].known /\ rep[r].known < rep[r].sth.size) =>
             VerifyConsistency(Mth(log, 0, rep[r].known), rep[r].sth.root, rep[r].known,
                               rep[r].sth.size, rep[r].proof)
      BY <2>3, <3>2 DEF RepHonest
    <3>4. RepHonest(rep'[r])
      BY <2>4, <3>1, <3>2, <3>3 DEF RepHonest
    <3>5. QED
      BY <1>1, <1>6, <2>2, <2>3, <3>2, <3>4, OneHonestStep
  <2>9. CASE Observe(r)
    <3> DEFINE trusted == [rep[r].seen EXCEPT !.root = ctRoot]
    <3>1. /\ rep'[r].pc = "check" /\ rep'[r].sth = rep[r].sth /\ rep'[r].known = rep[r].known
          /\ rep'[r].seen = trusted
          /\ rep'[r].verdict = IF Accepts(rep[r].sth, trusted, rep[r].proof, rep[r].known)
                               THEN "accepted" ELSE "alarm"
      BY <1>1, <2>1, <2>9, RepSteps
    <3>2. ctRoot' = ctRoot /\ rep[r].pc = "read"
      BY <2>9 DEF Observe
    <3>3. trusted.root = ctRoot
      BY <2>1
    <3> HIDE DEF trusted
    <3>4. ASSUME rep'[r].verdict = "alarm"
          PROVE  rep'[r].known # rep'[r].seen.size \/ Len(rep'[r].seen.root.entries) # rep'[r].seen.size
      <4>1. ~Accepts(rep[r].sth, trusted, rep[r].proof, rep[r].known)
        BY <3>1, <3>4
      <4>2. ~(trusted.size = rep[r].known /\ Len(trusted.root.entries) = trusted.size)
        BY <1>1, <2>1, <2>3, <3>2, <3>3, <4>1, HonestAccepted
      <4>3. QED
        BY <3>1, <4>2
    <3>5. RepHonest(rep'[r])
      BY <2>4, <3>1, <3>4 DEF RepHonest
    <3>6. QED
      BY <1>1, <1>6, <2>2, <2>3, <3>2, <3>5, OneHonestStep
  <2>10. CASE Check(r) \/ StoreSize(r)
    <3>1. /\ rep'[r].pc \in {"size", "answer", "root"} /\ rep'[r].sth = rep[r].sth
          /\ rep'[r].known = rep[r].known /\ rep'[r].seen = rep[r].seen
          /\ rep'[r].verdict = rep[r].verdict
      <4>1. CASE Check(r)
        BY <1>1, <2>1, <4>1, RepSteps
      <4>2. CASE StoreSize(r)
        BY <1>1, <2>1, <4>2, RepSteps
      <4>3. QED
        BY <2>10, <4>1, <4>2
    <3>2. ctRoot' = ctRoot
      BY <2>10 DEF Check, StoreSize
    <3>3. RepHonest(rep'[r])
      BY <2>4, <3>1 DEF RepHonest
    <3>4. QED
      BY <1>1, <1>6, <2>2, <2>3, <3>2, <3>3, OneHonestStep
  <2>11. CASE StoreRoot(r)
    <3>1. /\ rep'[r].pc = "answer" /\ rep'[r].sth = rep[r].sth
          /\ rep'[r].known = rep[r].known /\ rep'[r].seen = rep[r].seen
          /\ rep'[r].verdict = rep[r].verdict
      BY <1>1, <2>1, <2>11, RepSteps
    <3>2. ctRoot' = rep[r].sth.root
      BY <2>11 DEF StoreRoot
    <3>3. SomeHead(ctRoot')
      BY <2>4, <3>2 DEF IsHead, SomeHead
    <3>4. RepHonest(rep'[r])
      BY <2>4, <3>1 DEF RepHonest
    <3>5. QED
      BY <1>1, <1>6, <2>2, <3>3, <3>4, OneHonestStep
  <2>12. CASE Answer(r)
    <3>1. rep'[r] = Idle(ctSize)
      BY <1>1, <2>1, <2>12, RepSteps
    <3>2. ctRoot' = ctRoot
      BY <2>12 DEF Answer
    <3>3. RepHonest(rep'[r])
      BY <1>1, <2>5, <3>1
    <3>4. QED
      BY <1>1, <1>6, <2>2, <2>3, <3>2, <3>3, OneHonestStep
  <2>13. QED
    BY <1>6, <2>6, <2>7, <2>8, <2>9, <2>10, <2>11, <2>12
<1>7. QED
  BY <1>3, <1>4, <1>5, <1>6 DEF CTNext

\* What the gateway accepts of a size that it trusts or of a larger one extends
\* what it trusts.
LEMMA AcceptedIs ==
    ASSUME NEW p, RepShape(p), p.seen.size = 0 => p.seen.root = Nil,
           Accepts(p.sth, p.seen, p.proof, p.known), p.sth.size >= p.seen.size
    PROVE  IsPrefix(p.seen.root.entries, p.sth.root.entries)
<1>1. /\ p.sth.size \in Nat /\ p.sth.root.entries \in Seq(Entries)
      /\ p.seen.size \in Nat /\ p.seen.root.entries \in Seq(Entries)
      /\ IsProof(p.proof)
  BY DEF RepShape
<1>2. Extended(Entries, p.seen.root.entries, p.sth.root.entries)
  <2>1. CASE p.seen.size = 0
    <3>1. p.seen.root.entries = <<>>
      BY <2>1, HashFields
    <3>2. p.sth.root.entries = <<>> \o p.sth.root.entries
      BY <1>1
    <3>3. QED
      BY <1>1, <3>1, <3>2 DEF Extended
  <2>2. CASE p.sth.size = p.seen.size /\ p.sth.root = p.seen.root
    BY <1>1, <2>2, ExtendedSelf
  <2>3. CASE p.seen.size # 0 /\ p.sth.size > p.seen.size
             /\ VerifyConsistency(p.seen.root, p.sth.root, p.seen.size, p.sth.size, p.proof)
    <3>1. PICK H : (\A h \in H : h.entries \in Seq(Entries)) /\ p.proof \in Seq(H)
      BY <1>1 DEF IsProof
    <3>2. QED
      BY <1>1, <2>3, <3>1, VerifiedExtends
  <2>4. ~(p.sth.size < p.seen.size)
    BY <1>1
  <2>5. QED
    BY <2>1, <2>2, <2>3, <2>4 DEF Accepts
<1>3. QED
  BY <1>2, ExtendedPrefix

\* What was verified extends what it was verified against.
LEMMA VerifiedAccepts == VerifiedInv => AcceptedExtends
<1>1. ASSUME VerifiedInv, NEW r \in Reporters, rep[r].pc \in {"check", "size", "root"},
             rep[r].verdict = "accepted", rep[r].sth.size >= rep[r].seen.size,
             rep[r].seen.size # 0
      PROVE  IsPrefix(rep[r].seen.root.entries, rep[r].sth.root.entries)
  <2>1. RepShape(rep[r]) /\ RepVerified(rep[r])
    BY <1>1 DEF VerifiedInv
  <2>2. Accepts(rep[r].sth, rep[r].seen, rep[r].proof, rep[r].known)
    BY <1>1, <2>1 DEF RepVerified
  <2>3. QED
    BY <1>1, <2>1, <2>2, AcceptedIs
<1>2. QED
  BY <1>1 DEF AcceptedExtends

\* For any reporters, the log stays a log.
LEMMA LogStays == (LogOK /\ adoptions \in Nat) /\ [CTNext]_ctVars => (LogOK /\ adoptions \in Nat)'
<1> SUFFICES ASSUME LogOK, adoptions \in Nat, [CTNext]_ctVars PROVE LogOK' /\ adoptions' \in Nat
  OBVIOUS
<1>1. CASE UNCHANGED <<log, adoptions>>
  BY <1>1 DEF LogOK
<1>2. CASE AppendEvent
  <2>1. LogOK'
    BY <1>2, LogGrows
  <2>2. adoptions' = adoptions
    BY <1>2 DEF AppendEvent
  <2>3. QED
    BY <2>1, <2>2
<1>3. ASSUME NEW n \in 0..MaxSize, AdoptFork(n) PROVE LogOK' /\ adoptions' \in Nat
  <2>1. LogOK'
    BY <1>3, LogAdopts
  <2>2. adoptions' = adoptions + 1
    BY <1>3 DEF AdoptFork
  <2>3. QED
    BY <2>1, <2>2
<1>4. ASSUME NEW r \in Reporters, \/ GetSTH(r) \/ GetProof(r) \/ ReadSize(r) \/ Observe(r) \/ Check(r)
                                  \/ StoreSize(r) \/ StoreRoot(r) \/ Answer(r)
      PROVE  UNCHANGED <<log, adoptions>>
  BY <1>4 DEF GetSTH, GetProof, ReadSize, Observe, Check, StoreSize, StoreRoot, Answer
<1>5. UNCHANGED ctVars => UNCHANGED <<log, adoptions>>
  BY DEF ctVars
<1>6. QED
  BY <1>1, <1>2, <1>3, <1>4, <1>5 DEF CTNext

\* Whatever events are appended and whatever forks are adopted, the proofs that
\* handleCTProof serves verify for what they prove and for nothing else: path
\* and consPath agree with VerifyInclusion and VerifyConsistency on trees of
\* every size.
THEOREM ServedProofsAreExact == CTSpec => []ProofsExact
<1>1. CTInit => LogOK /\ adoptions \in Nat
  BY GossipStarts DEF VerifiedInv
<1>2. (LogOK /\ adoptions \in Nat) /\ [CTNext]_ctVars => (LogOK /\ adoptions \in Nat)'
  BY LogStays
<1>3. LogOK => ProofsExact
  BY InclusionProofsExact, ConsistencyProofsExact DEF ProofsExact
<1>4. QED
  BY <1>1, <1>2, <1>3, PTL DEF CTSpec

\* However the reports of any number of reporters, new events and adopted forks
\* interleave, a report that the gossip endpoint accepts at the size that it read
\* as trusted, or beyond, extends the root that it read entry by entry, unless
\* that size was zero.
THEOREM AcceptedExtendsWhatWasRead == CTSpec => []AcceptedExtends
<1>1. CTInit => VerifiedInv
  BY GossipStarts
<1>2. VerifiedInv /\ [CTNext]_ctVars => VerifiedInv'
  BY VerifiedSteps
<1>3. VerifiedInv => AcceptedExtends
  BY VerifiedAccepts
<1>4. QED
  BY <1>1, <1>2, <1>3, PTL DEF CTSpec

\* However the posts of any number of reporters interleave, with logs of any size,
\* the gossip endpoint alarms a reporter that posts what the log serves for three
\* reasons only: a recovery rewrote the log, another post moved the trusted size
\* away from where the reporter's proof starts, or the endpoint read a size and a
\* root that two posts wrote.
THEOREM AlarmHasItsCause == CTSpec => []GossipAlarmHasCause
<1>1. CTInit => VerifiedInv /\ HonestInv
  BY GossipStarts, HonestStarts
<1>2. VerifiedInv /\ HonestInv /\ [CTNext]_ctVars => (VerifiedInv /\ HonestInv)'
  BY VerifiedSteps, HonestSteps
<1>3. VerifiedInv /\ HonestInv => GossipAlarmHasCause
  <2>1. ASSUME HonestInv, adoptions = 0, NEW r \in Reporters, rep[r].verdict = "alarm"
        PROVE  rep[r].known # rep[r].seen.size \/ Len(rep[r].seen.root.entries) # rep[r].seen.size
    BY <2>1 DEF HonestInv, RepHonest
  <2>2. VerifiedInv => adoptions \in Nat
    BY DEF VerifiedInv
  <2>3. QED
    BY <2>1, <2>2 DEF GossipAlarmHasCause
<1>4. QED
  BY <1>1, <1>2, <1>3, PTL DEF CTSpec

\* What the bounds of the model leave of the tree heads that reporters hold.
HeadBounded(p) ==
    p.sth.size \in 0..MaxSize /\ p.sth.root.entries \in Seq(Entries) /\ Len(p.sth.root.entries) <= MaxSize

\* The types, with the tree heads that reporters hold.
CTTypes == CTTypeOK /\ \A r \in Reporters : HeadBounded(rep[r])

\* The log keeps its bounds ...
LEMMA LogBounded ==
    ASSUME VerifiedInv, CTTypeOK, AppendEvent \/ \E n \in 0..MaxSize : AdoptFork(n)
    PROVE  /\ log' \in Seq((0..MaxAdoptions) \X (0..MaxSize - 1)) /\ Len(log') <= MaxSize
           /\ adoptions' \in 0..MaxAdoptions
<1> DEFINE Named == (0..MaxAdoptions) \X (0..MaxSize - 1)
<1>1. /\ log \in Seq(Named) /\ Len(log) \in Nat /\ Len(log) <= MaxSize /\ MaxSize \in Nat
      /\ adoptions \in 0..MaxAdoptions /\ MaxAdoptions \in Nat
  BY CTBounds DEF CTTypeOK
<1>2. \A h \in 0..MaxAdoptions, k \in 0..MaxSize - 1 : Entry(h, k) \in Named
  BY DEF Entry
<1> HIDE DEF Named
<1>3. CASE AppendEvent
  <2>1. log' = Append(log, Entry(adoptions, Len(log))) /\ Len(log) < MaxSize /\ adoptions' = adoptions
    BY <1>3, CTBounds DEF AppendEvent, Room
  <2>2. Len(log) \in 0..MaxSize - 1
    BY <1>1, <2>1
  <2>3. Entry(adoptions, Len(log)) \in Named
    BY <1>1, <1>2, <2>2
  <2>4. log' \in Seq(Named) /\ Len(log') = Len(log) + 1
    BY <1>1, <2>1, <2>3, AppendProperties
  <2>5. QED
    BY <1>1, <2>1, <2>4 DEF Named
<1>4. ASSUME NEW n \in 0..MaxSize, AdoptFork(n)
      PROVE  /\ log' \in Seq((0..MaxAdoptions) \X (0..MaxSize - 1)) /\ Len(log') <= MaxSize
             /\ adoptions' \in 0..MaxAdoptions
  <2>1. /\ log' = SubSeq(log, 1, n) \o <<Entry(adoptions', n), Entry(adoptions', n + 1)>>
        /\ n < Len(log) /\ n + 2 <= MaxSize /\ adoptions' = adoptions + 1 /\ adoptions < MaxAdoptions
    BY <1>1, <1>4, CTBounds DEF AdoptFork, Room
  <2>2. /\ n \in 0..Len(log) /\ adoptions' \in 0..MaxAdoptions
        /\ n \in 0..MaxSize - 1 /\ n + 1 \in 0..MaxSize - 1
    BY <1>1, <2>1
  <2>3. PICK s : s = SubSeq(log, 1, n) /\ s \in Seq(Named) /\ Len(s) = n
    BY <1>1, <2>2, PrefixIs
  <2>4. PICK u : u = <<Entry(adoptions', n), Entry(adoptions', n + 1)>>
    OBVIOUS
  <2>5. Entry(adoptions', n) \in Named /\ Entry(adoptions', n + 1) \in Named
    BY <1>2, <2>2
  <2>6. u \in Seq(Named) /\ Len(u) = 2
    BY <2>4, <2>5
  <2>7. s \o u \in Seq(Named) /\ Len(s \o u) = Len(s) + Len(u)
    BY <2>3, <2>6, ConcatProperties
  <2>8. log' = s \o u
    BY <2>1, <2>3, <2>4
  <2>9. QED
    BY <1>1, <2>1, <2>2, <2>3, <2>6, <2>7, <2>8 DEF Named
<1>5. QED
  BY <1>3, <1>4

\* ... and so does a step of a reporter that keeps them of its own record.
LEMMA StepBounded ==
    ASSUME VerifiedInv, CTTypes, NEW r \in Reporters,
           \/ GetSTH(r) \/ GetProof(r) \/ ReadSize(r) \/ Observe(r) \/ Check(r)
           \/ StoreSize(r) \/ StoreRoot(r) \/ Answer(r),
           UNCHANGED <<log, adoptions>>, ctSize' \in 0..MaxSize, Len(ctRoot'.entries) <= MaxSize,
           posts' \in 0..MaxPosts,
           rep'[r].pc \in {"idle", "sth", "post", "read", "check", "size", "root", "answer"},
           rep'[r].known \in 0..MaxSize, HeadBounded(rep'[r])
    PROVE  CTTypes'
<1>1. DOMAIN rep = Reporters
  BY DEF VerifiedInv
<1>2. ASSUME NEW s \in Reporters
      PROVE  /\ rep'[s].pc \in {"idle", "sth", "post", "read", "check", "size", "root", "answer"}
             /\ rep'[s].known \in 0..MaxSize /\ HeadBounded(rep'[s])
  <2>1. CASE s = r
    BY <2>1
  <2>2. CASE s # r
    <3>1. rep'[s] = rep[s]
      BY <1>1, <2>2, OthersStay
    <3>2. QED
      BY <3>1 DEF CTTypes, CTTypeOK
  <2>3. QED
    BY <2>1, <2>2
<1>3. \A s \in Reporters : HeadBounded(rep[s])'
  BY <1>2 DEF HeadBounded
<1>4. CTTypeOK'
  BY <1>2 DEF CTTypes, CTTypeOK
<1>5. QED
  BY <1>3, <1>4 DEF CTTypes

\* Every step keeps the types.
LEMMA TypeSteps == VerifiedInv /\ CTTypes /\ [CTNext]_ctVars => CTTypes'
<1> SUFFICES ASSUME VerifiedInv, CTTypes, [CTNext]_ctVars PROVE CTTypes'
  OBVIOUS
<1>1. /\ ctSize \in 0..MaxSize /\ Len(ctRoot.entries) <= MaxSize /\ posts \in 0..MaxPosts
      /\ DOMAIN rep = Reporters /\ MaxSize \in Nat /\ MaxPosts \in Nat
      /\ \A r \in Reporters :
            RepShape(rep[r]) /\ HeadBounded(rep[r]) /\ rep[r].known \in 0..MaxSize
  BY CTBounds DEF CTTypes, CTTypeOK, VerifiedInv
<1>2. log \in Seq(Entries) /\ Len(log) \in 0..MaxSize
  BY <1>1 DEF CTTypes, CTTypeOK, VerifiedInv, LogOK
<1>3. CASE UNCHANGED ctVars
  BY <1>3 DEF ctVars, CTTypes, CTTypeOK, HeadBounded
<1>4. CASE AppendEvent \/ \E n \in 0..MaxSize : AdoptFork(n)
  <2>1. UNCHANGED <<ctSize, ctRoot, rep, posts>>
    BY <1>4 DEF AppendEvent, AdoptFork
  <2>2. /\ log' \in Seq((0..MaxAdoptions) \X (0..MaxSize - 1)) /\ Len(log') <= MaxSize
        /\ adoptions' \in 0..MaxAdoptions
    BY <1>4, LogBounded DEF CTTypes
  <2>3. \A r \in Reporters : HeadBounded(rep[r])'
    BY <1>1, <2>1 DEF HeadBounded
  <2>4. CTTypeOK'
    BY <2>1, <2>2 DEF CTTypes, CTTypeOK
  <2>5. QED
    BY <2>3, <2>4 DEF CTTypes
<1>5. ASSUME NEW r \in Reporters, \/ GetSTH(r) \/ GetProof(r) \/ ReadSize(r) \/ Observe(r) \/ Check(r)
                                  \/ StoreSize(r) \/ StoreRoot(r) \/ Answer(r)
      PROVE  CTTypes'
  <2>1. /\ DOMAIN rep[r] = {"pc", "known", "sth", "proof", "seen", "verdict"}
        /\ DOMAIN rep[r].seen = {"size", "root"} /\ rep[r].known \in 0..MaxSize
        /\ rep[r].known \in Nat /\ HeadBounded(rep[r])
    BY <1>1 DEF RepShape
  <2>2. UNCHANGED <<log, adoptions>>
    BY <1>5 DEF GetSTH, GetProof, ReadSize, Observe, Check, StoreSize, StoreRoot, Answer
  <2>3. \A k \in 0..MaxSize : /\ Idle(k).pc = "idle" /\ Idle(k).known \in 0..MaxSize
                              /\ HeadBounded(Idle(k))
    <3>1. ASSUME NEW k \in 0..MaxSize
          PROVE  Idle(k).pc = "idle" /\ Idle(k).known \in 0..MaxSize /\ HeadBounded(Idle(k))
      <4>1. /\ Idle(k).pc = "idle" /\ Idle(k).known = k /\ Idle(k).sth.size = 0
            /\ Idle(k).sth.root = Nil
        BY <1>1, IdleIs
      <4>2. Nil.entries = <<>> /\ Nil.entries \in Seq(Entries) /\ Len(<<>>) = 0
        BY HashFields
      <4>3. QED
        BY <1>1, <4>1, <4>2 DEF HeadBounded
    <3>2. QED
      BY <3>1
  <2>4. CASE GetSTH(r)
    <3>1. rep'[r].pc = "sth" /\ rep'[r].sth = TreeHead(log) /\ rep'[r].known = rep[r].known
      BY <1>1, <2>1, <2>4, RepSteps
    <3>2. UNCHANGED <<ctSize, ctRoot>> /\ posts < MaxPosts /\ posts' = posts + 1
      BY <2>4 DEF GetSTH
    <3>3. posts' \in 0..MaxPosts
      BY <1>1, <3>2
    <3>4. TreeHead(log).size = Len(log) /\ TreeHead(log).root = Mth(log, 0, Len(log))
      BY DEF TreeHead
    <3>5. PICK n \in Nat, z \in Nat : n = Len(log) /\ z = 0 /\ n <= MaxSize
      BY <1>1, <1>2
    <3>6. z \in 0..Len(log) /\ n \in 0..Len(log) /\ z <= n
      BY <3>5
    <3>7. Mth(log, z, n).entries \in Seq(Entries) /\ Len(Mth(log, z, n).entries) = n - z
      BY <1>2, <3>6, MthSeq
    <3>8. HeadBounded(rep'[r])
      BY <1>1, <1>2, <3>1, <3>4, <3>5, <3>7 DEF HeadBounded
    <3>9. QED
      BY <1>1, <1>5, <2>1, <2>2, <3>1, <3>2, <3>3, <3>8, StepBounded
  <2>5. CASE GetProof(r)
    <3>1. UNCHANGED <<ctSize, ctRoot, posts>>
      BY <2>5 DEF GetProof
    <3>2. \/ rep'[r].pc = "post" /\ rep'[r].known = rep[r].known /\ rep'[r].sth = rep[r].sth
          \/ rep'[r] = Idle(rep[r].known)
      <4>1. CASE rep[r].known < 1 \/ rep[r].known >= rep[r].sth.size
        BY <1>1, <2>1, <2>5, <4>1, RepSteps
      <4>2. CASE ~(rep[r].known < 1 \/ rep[r].known >= rep[r].sth.size) /\ rep[r].sth.size > Len(log)
        BY <1>1, <2>1, <2>5, <4>2, RepSteps
      <4>3. CASE ~(rep[r].known < 1 \/ rep[r].known >= rep[r].sth.size) /\ ~(rep[r].sth.size > Len(log))
        BY <1>1, <2>1, <2>5, <4>3, RepSteps
      <4>4. QED
        BY <4>1, <4>2, <4>3
    <3>3. /\ rep'[r].pc \in {"post", "idle"} /\ rep'[r].known \in 0..MaxSize
          /\ HeadBounded(rep'[r])
      BY <2>1, <2>3, <3>2 DEF HeadBounded
    <3>4. QED
      BY <1>1, <1>5, <2>2, <3>1, <3>3, StepBounded
  <2>6. CASE ReadSize(r) \/ Observe(r) \/ Check(r)
    <3>1. /\ rep'[r].pc \in {"read", "check", "size", "answer"}
          /\ rep'[r].known = rep[r].known /\ rep'[r].sth = rep[r].sth
      <4>1. CASE ReadSize(r)
        BY <1>1, <2>1, <4>1, RepSteps
      <4>2. CASE Observe(r)
        BY <1>1, <2>1, <4>2, RepSteps
      <4>3. CASE Check(r)
        BY <1>1, <2>1, <4>3, RepSteps
      <4>4. QED
        BY <2>6, <4>1, <4>2, <4>3
    <3>2. UNCHANGED <<ctSize, ctRoot, posts>>
      BY <1>1, <2>6 DEF ReadSize, Observe, Check
    <3>3. HeadBounded(rep'[r]) /\ rep'[r].known \in 0..MaxSize
      BY <2>1, <3>1 DEF HeadBounded
    <3>4. QED
      BY <1>1, <1>5, <2>2, <3>1, <3>2, <3>3, StepBounded
  <2>7. CASE StoreSize(r) \/ StoreRoot(r)
    <3>1. /\ rep'[r].pc \in {"root", "answer"}
          /\ rep'[r].known = rep[r].known /\ rep'[r].sth = rep[r].sth
      <4>1. CASE StoreSize(r)
        BY <1>1, <2>1, <4>1, RepSteps
      <4>2. CASE StoreRoot(r)
        BY <1>1, <2>1, <4>2, RepSteps
      <4>3. QED
        BY <2>7, <4>1, <4>2
    <3>2. UNCHANGED <<posts>>
      BY <2>7 DEF StoreSize, StoreRoot
    <3>3. ctSize' \in 0..MaxSize /\ Len(ctRoot'.entries) <= MaxSize
      BY <1>1, <2>1, <2>7 DEF StoreSize, StoreRoot, HeadBounded
    <3>4. HeadBounded(rep'[r]) /\ rep'[r].known \in 0..MaxSize
      BY <2>1, <3>1 DEF HeadBounded
    <3>5. QED
      BY <1>1, <1>5, <2>2, <3>1, <3>2, <3>3, <3>4, StepBounded
  <2>8. CASE Answer(r)
    <3>1. rep'[r] = Idle(ctSize)
      BY <1>1, <2>1, <2>8, RepSteps
    <3>2. UNCHANGED <<ctSize, ctRoot, posts>>
      BY <2>8 DEF Answer
    <3>3. rep'[r].pc = "idle" /\ rep'[r].known \in 0..MaxSize /\ HeadBounded(rep'[r])
      BY <1>1, <2>3, <3>1
    <3>4. QED
      BY <1>1, <1>5, <2>2, <3>2, <3>3, StepBounded
  <2>9. QED
    BY <1>5, <2>4, <2>5, <2>6, <2>7, <2>8
<1>6. QED
  BY <1>3, <1>4, <1>5 DEF CTNext

\* Type correctness, for any number of reporters.
THEOREM GossipTypes == CTSpec => []CTTypeOK
<1>1. CTInit => VerifiedInv /\ CTTypes
  <2> SUFFICES ASSUME CTInit PROVE VerifiedInv /\ CTTypes
    OBVIOUS
  <2>1. /\ log = <<>> /\ adoptions = 0 /\ ctSize = 0 /\ ctRoot = Nil /\ posts = 0
        /\ rep = [r \in Reporters |-> Idle(0)]
    BY DEF CTInit
  <2>2. PICK z \in Nat : z = 0
    OBVIOUS
  <2>3. /\ Idle(z).pc = "idle" /\ Idle(z).known = z /\ Idle(z).sth.size = 0
        /\ Idle(z).sth.root = Nil
    BY IdleIs
  <2>4. Nil.entries = <<>> /\ Nil.entries \in Seq(Entries) /\ Len(<<>>) = 0 /\ Len(Nil.entries) = 0
    BY HashFields
  <2>5. HeadBounded(Idle(z)) /\ 0 \in 0..MaxSize /\ 0 \in 0..MaxPosts /\ 0 \in 0..MaxAdoptions
    BY <2>3, <2>4, CTBounds DEF HeadBounded
  <2>6. \A r \in Reporters : rep[r] = Idle(z)
    BY <2>1, <2>2
  <2>7. log \in Seq((0..MaxAdoptions) \X (0..MaxSize - 1)) /\ Len(log) <= MaxSize /\ Len(ctRoot.entries) <= MaxSize
    BY <2>1, <2>4, CTBounds
  <2>8. CTTypes
    BY <2>1, <2>2, <2>3, <2>5, <2>6, <2>7 DEF CTTypes, CTTypeOK
  <2>9. QED
    BY <2>8, GossipStarts
<1>2. VerifiedInv /\ CTTypes /\ [CTNext]_ctVars => (VerifiedInv /\ CTTypes)'
  BY VerifiedSteps, TypeSteps
<1>3. CTTypes => CTTypeOK
  BY DEF CTTypes
<1>4. QED
  BY <1>1, <1>2, <1>3, PTL DEF CTSpec
=============================================================================
