----------------------------- MODULE KeyProofs ------------------------------
(***************************************************************************)
(* The council's keys.  Members of the distributed key generation that     *)
(* finish have combined each other's latest polynomials, for any number of *)
(* members, restarts and lost connections.  Whatever ceremony dealt the    *)
(* shares and however often they were reshared, share files load, quorums  *)
(* of one generation that heard all dealers join to the secret of the      *)
(* group key and sign under it, and other signers only sign what they join *)
(* to, for any prime order of the group, any members, any thresholds and   *)
(* any lost or garbled messages: sums and powers are recursive functions whose       *)
(* equations are proved first, arithmetic is modulo L, and Lagrange's      *)
(* theorem at zero follows from a recurrence of the coefficients' moments. *)
(***************************************************************************)
EXTENDS Dkg, ThresholdKeys, FiniteSetTheorems, NaturalsInduction,
        WellFoundedInduction, TLAPS

(***************************************************************************)
(* Key generation: the inductive invariant.                                                *)
(***************************************************************************)

\* Material r of m in the hands of n, which dials m: either m still runs on it
\* and has recorded the run of n in return, or m has been started again since
\* and waits for a dial of n that will not come in this run.
Mutual(r, n, m) ==
    \/ r = run[m] /\ got[m][n] = run[n]
    \/ r < run[m] /\ got[m][n] = 0

\* What the dialing side has recorded.
RecordedMutual ==
    \A n, m \in Members : n < m /\ got[n][m] # 0 => Mutual(got[n][m], n, m)

\* The outgoing exchange of n, between the two sides' recordPeer.
CallMutual ==
    \A n \in Members :
        /\ call[n].stage # "none" => Target(n) # 0
        /\ call[n].stage = "recorded" =>
             Running(Target(n)) /\ got[Target(n)][n] = run[n]
        /\ call[n].stage = "replied" => Mutual(call[n].run, n, Target(n))

\* A share is made of all members' material.
FinishedComplete == \A n \in Members : Finished(n) => Complete(n)

IInv ==
    /\ TypeOK
    /\ RecordedMutual
    /\ CallMutual
    /\ FinishedComplete

(***************************************************************************)
(* The dial loop.                                                          *)
(***************************************************************************)

\* Peers that n has still to dial.
Open(n) == {p \in Members : p > n /\ got[n][p] = 0}

\* The target is one of them, if there is any.
LEMMA TargetOpen ==
    ASSUME NEW n \in Members
    PROVE  /\ Target(n) # 0 => Target(n) \in Open(n)
           /\ Target(n) = 0 => Open(n) = {}
<1>1. CASE Open(n) = {}
  BY <1>1 DEF Target, Open
<1>2. CASE Open(n) # {}
  <2>1. Open(n) \subseteq Nat
    BY MembersAtLeastTwo DEF Open, Members
  <2> DEFINE Less == {ss \in Nat \X Nat : ss[1] < ss[2]}
  <2>0. IsWellFoundedOn(Less, Nat)
    BY NatLessThanWellFounded, Zenon DEF OpToRel
  <2> HIDE DEF Less
  <2>2. PICK p \in Open(n) : \A q \in Open(n) : ~(<<q, p>> \in Less)
    BY <1>2, <2>1, <2>0, WFMin
  <2>3. \A q \in Open(n) : p <= q
    <3> SUFFICES ASSUME NEW q \in Open(n), ~(p <= q) PROVE FALSE
      OBVIOUS
    <3>1. p \in Nat /\ q \in Nat /\ q < p
      BY <2>1
    <3>2. <<q, p>> \in Less
      BY <3>1 DEF Less
    <3> QED BY <2>2, <3>2
  <2>4. Target(n) = CHOOSE q \in Open(n) : \A r \in Open(n) : q <= r
    BY <1>2 DEF Target, Open
  <2>5. Target(n) \in Open(n)
    BY <2>2, <2>3, <2>4
  <2> QED BY <1>2, <2>1, <2>5 DEF Open, Members
<1> QED BY <1>1, <1>2

\* It stays while what n has recorded of higher members does.
LEMMA TargetStays ==
    ASSUME NEW n \in Members, Open(n)' = Open(n)
    PROVE  Target(n)' = Target(n)
<1> DEFINE Least(S) == IF S = {} THEN 0 ELSE CHOOSE p \in S : \A q \in S : p <= q
<1>1. Target(n) = Least(Open(n)) /\ Target(n)' = Least(Open(n)')
  BY DEF Target, Open
<1> HIDE DEF Least
<1> QED BY <1>1

\* The same with the facts that the actions need.
LEMMA TargetFacts ==
    ASSUME TypeOK, NEW n \in Members, Target(n) # 0
    PROVE  /\ Target(n) \in Members /\ Target(n) > n
           /\ got[n][Target(n)] = 0
  BY TargetOpen DEF Open

(***************************************************************************)
(* Every step preserves the invariant.                                     *)
(***************************************************************************)

\* A process stops, however, and with it the calls to it and its own.
LEMMA StopKeeps ==
    ASSUME IInv, NEW n \in Members, EndCalls(n), UNCHANGED <<run, got>>,
           NEW s \in {"off", "abort", "gone"}, st' = [st EXCEPT ![n] = s],
           s = "gone" => Finished(n),
           errc' = errc, losses' \in 0..MaxLosses
    PROVE  IInv'
<1> USE MembersAtLeastTwo, DkgBounds
<1>1. PICK f \in {"eof", "reset"} :
        call' = [k \in Members |->
                   IF k = n THEN NoCall
                   ELSE IF Target(k) = n /\ call[k].stage \in {"sent", "recorded"}
                        THEN [call[k] EXCEPT !.stage = f] ELSE call[k]]
  BY DEF EndCalls
<1>2. \A k \in Members : Target(k)' = Target(k)
  BY TargetStays DEF Open
<1>3. TypeOK'
  <2>1. ASSUME NEW k \in Members PROVE call'[k] \in [stage : Stages, run : 0..MaxRuns]
    <3>1. call[k] \in [stage : Stages, run : 0..MaxRuns]
      BY DEF IInv, TypeOK
    <3>2. NoCall \in [stage : Stages, run : 0..MaxRuns] /\ f \in Stages
      BY DEF NoCall, Stages
    <3>3. [call[k] EXCEPT !.stage = f] \in [stage : Stages, run : 0..MaxRuns]
      BY <3>1, <3>2
    <3> QED BY <1>1, <3>1, <3>2, <3>3
  <2>2. call' \in [Members -> [stage : Stages, run : 0..MaxRuns]]
    BY <1>1, <2>1
  <2>3. st' \in [Members -> {"off", "dial", "wait", "done", "gone", "abort"}]
    BY DEF IInv, TypeOK
  <2> QED BY <2>2, <2>3 DEF IInv, TypeOK
<1>4. RecordedMutual'
  BY DEF IInv, RecordedMutual, Mutual
<1>5. CallMutual'
  <2> SUFFICES ASSUME NEW k \in Members
               PROVE  /\ call'[k].stage # "none" => Target(k) # 0
                      /\ call'[k].stage = "recorded" =>
                           Running(Target(k))' /\ got[Target(k)][k] = run[k]
                      /\ call'[k].stage = "replied" => Mutual(call'[k].run, k, Target(k))
    BY <1>2 DEF CallMutual, Mutual
  <2>1. CASE call'[k] = call[k] /\ call[k].stage # "recorded"
    BY <2>1 DEF IInv, CallMutual
  <2>2. CASE call'[k] = call[k] /\ call[k].stage = "recorded" /\ k # n
    <3>1. Target(k) # n /\ Target(k) # 0
      BY <1>1, <2>2 DEF IInv, TypeOK, CallMutual
    <3>2. st'[Target(k)] = st[Target(k)]
      BY <3>1, TargetFacts DEF IInv, TypeOK
    <3> QED BY <1>2, <2>2, <3>2 DEF IInv, CallMutual, Running, Listening
  <2>3. CASE k = n
    BY <1>1, <2>3 DEF NoCall
  <2>4. CASE k # n /\ Target(k) = n /\ call[k].stage \in {"sent", "recorded"}
    <3>1. call'[k].stage \in {"eof", "reset"}
      BY <1>1, <2>4 DEF IInv, TypeOK
    <3> QED BY <2>4, <3>1 DEF IInv, CallMutual
  <2> QED BY <1>1, <2>1, <2>2, <2>3, <2>4
<1>6. FinishedComplete'
  BY DEF IInv, TypeOK, FinishedComplete, Finished, Complete
<1> QED BY <1>3, <1>4, <1>5, <1>6 DEF IInv

\* The exchange of n moves on, and nothing else does but counters.
LEMMA CallKeeps ==
    ASSUME IInv, NEW n \in Members, UNCHANGED <<st, run, got>>,
           NEW c \in [stage : Stages, run : 0..MaxRuns], call' = [call EXCEPT ![n] = c],
           c.stage # "none" => Target(n) # 0,
           c.stage # "recorded",
           c.stage = "replied" => Mutual(c.run, n, Target(n)),
           errc' \in [Members -> BOOLEAN], losses' \in 0..MaxLosses
    PROVE  IInv'
<1>1. \A k \in Members : Target(k)' = Target(k)
  BY TargetStays DEF Open
<1>2. TypeOK'
  BY DEF IInv, TypeOK
<1>3. RecordedMutual' /\ FinishedComplete'
  BY DEF IInv, RecordedMutual, Mutual, FinishedComplete, Finished, Complete
<1>4. CallMutual'
  <2> SUFFICES ASSUME NEW k \in Members
               PROVE  /\ call'[k].stage # "none" => Target(k) # 0
                      /\ call'[k].stage = "recorded" =>
                           Running(Target(k))' /\ got[Target(k)][k] = run[k]
                      /\ call'[k].stage = "replied" => Mutual(call'[k].run, k, Target(k))
    BY <1>1 DEF CallMutual, Mutual
  <2>1. CASE k = n
    <3>1. call'[k] = c
      BY <2>1 DEF IInv, TypeOK
    <3> QED BY <2>1, <3>1
  <2>2. CASE k # n
    <3>1. call'[k] = call[k]
      BY <2>2 DEF IInv, TypeOK
    <3> QED BY <1>1, <3>1 DEF IInv, CallMutual, Running, Listening
  <2> QED BY <2>1, <2>2
<1> QED BY <1>2, <1>3, <1>4 DEF IInv

\* A running process goes on to another of its running states.
LEMMA RunKeeps ==
    ASSUME IInv, NEW n \in Members, UNCHANGED <<run, got, call, errc, losses>>,
           NEW s \in {"wait", "done"}, st' = [st EXCEPT ![n] = s], Listening(n),
           s = "done" => Complete(n)
    PROVE  IInv'
<1>1. \A k \in Members : Target(k)' = Target(k)
  BY TargetStays DEF Open
<1>2. TypeOK'
  BY DEF IInv, TypeOK
<1>3. RecordedMutual'
  BY DEF IInv, RecordedMutual, Mutual
<1>4. FinishedComplete'
  BY DEF IInv, TypeOK, FinishedComplete, Finished, Complete
<1>5. \A k \in Members : Running(k) => Running(k)'
  BY DEF IInv, TypeOK, Running, Listening
<1>6. CallMutual'
  <2> SUFFICES ASSUME NEW k \in Members
               PROVE  /\ call[k].stage # "none" => Target(k) # 0
                      /\ call[k].stage = "recorded" =>
                           Running(Target(k))' /\ got[Target(k)][k] = run[k]
                      /\ call[k].stage = "replied" => Mutual(call[k].run, k, Target(k))
    BY <1>1 DEF CallMutual, Mutual
  <2>1. CASE call[k].stage = "recorded"
    <3>1. Target(k) \in Members
      BY <2>1, TargetFacts DEF IInv, CallMutual
    <3>2. Running(Target(k))'
      BY <1>1, <1>5, <2>1, <3>1 DEF IInv, CallMutual, Running, Listening
    <3> QED BY <2>1, <3>2 DEF IInv, CallMutual
  <2>2. CASE call[k].stage # "recorded"
    BY <2>2 DEF IInv, CallMutual
  <2> QED BY <2>1, <2>2
<1> QED BY <1>2, <1>3, <1>4, <1>6 DEF IInv

\* A new run: the peers that recorded the old one are left waiting.
LEMMA StartKeeps ==
    ASSUME IInv, NEW n \in Members, Start(n)
    PROVE  IInv'
<1> USE MembersAtLeastTwo, DkgBounds
<1>1. /\ st' = [st EXCEPT ![n] = "dial"] /\ st[n] \in {"off", "abort"}
      /\ run' = [run EXCEPT ![n] = run[n] + 1] /\ run[n] < MaxRuns
      /\ got' = [got EXCEPT ![n] = Nothing]
      /\ call' = [call EXCEPT ![n] = NoCall]
      /\ errc' = [errc EXCEPT ![n] = FALSE]
      /\ losses' = losses
  BY DEF Start, DkgGenerate
<1>2. /\ run'[n] = run[n] + 1 /\ call'[n] = NoCall
      /\ \A p \in Members : got'[n][p] = 0
      /\ \A k \in Members \ {n} : st'[k] = st[k] /\ run'[k] = run[k]
                                  /\ got'[k] = got[k] /\ call'[k] = call[k]
  BY <1>1 DEF IInv, TypeOK, Nothing
<1>3. \A k \in Members \ {n} : Target(k)' = Target(k)
  BY <1>2, TargetStays DEF Open
<1>4. TypeOK'
  <2>1. st' \in [Members -> {"off", "dial", "wait", "done", "gone", "abort"}]
        /\ run' \in [Members -> 0..MaxRuns] /\ errc' \in [Members -> BOOLEAN]
    BY <1>1 DEF IInv, TypeOK
  <2>2. got' \in [Members -> [Members -> 0..MaxRuns]]
    BY <1>1 DEF IInv, TypeOK, Nothing
  <2>3. call' \in [Members -> [stage : Stages, run : 0..MaxRuns]]
    BY <1>1 DEF IInv, TypeOK, NoCall, Stages
  <2>4. \A k, p \in Members : got'[k][p] <= run'[p]
    <3> SUFFICES ASSUME NEW k \in Members, NEW p \in Members PROVE got'[k][p] <= run'[p]
      OBVIOUS
    <3>1. got[k][p] <= run[p] /\ run[p] \in Nat /\ got[k][p] \in Nat /\ run[n] \in Nat
      BY DEF IInv, TypeOK
    <3>2. got'[k][p] <= got[k][p] /\ run[p] <= run'[p] /\ run'[p] \in Nat
      BY <1>2, <3>1
    <3>3. got'[k][p] \in Nat
      BY <2>2
    <3> QED BY <3>1, <3>2, <3>3
  <2> QED BY <1>1, <2>1, <2>2, <2>3, <2>4 DEF IInv, TypeOK
<1>5. RecordedMutual'
  <2> SUFFICES ASSUME NEW a \in Members, NEW b \in Members, a < b, got'[a][b] # 0
               PROVE  Mutual(got[a][b], a, b)' /\ got'[a][b] = got[a][b]
    BY DEF RecordedMutual, Mutual
  <2>1. a # n /\ got'[a][b] = got[a][b] /\ Mutual(got[a][b], a, b)
    BY <1>2 DEF IInv, RecordedMutual
  <2>2. CASE b = n
    BY <1>2, <2>1, <2>2 DEF IInv, TypeOK, Mutual
  <2>3. CASE b # n
    BY <1>2, <2>1, <2>3 DEF Mutual
  <2> QED BY <2>1, <2>2, <2>3
<1>6. CallMutual'
  <2> SUFFICES ASSUME NEW k \in Members, k # n, call[k].stage # "none"
               PROVE  /\ Target(k) # 0
                      /\ call[k].stage = "recorded" =>
                           Running(Target(k))' /\ got'[Target(k)][k] = run[k]
                      /\ call[k].stage = "replied" => Mutual(call[k].run, k, Target(k))'
    BY <1>2, <1>3 DEF CallMutual, Mutual, NoCall
  <2>1. Target(k) # 0 /\ Target(k) \in Members
    BY TargetFacts DEF IInv, CallMutual
  <2>2. CASE Target(k) = n
    <3>1. call[k].stage # "recorded"
      BY <1>1, <2>2 DEF IInv, CallMutual, Running, Listening
    <3>2. ASSUME call[k].stage = "replied" PROVE Mutual(call[k].run, k, n)'
      <4>1. Mutual(call[k].run, k, n)
        BY <2>2, <3>2 DEF IInv, CallMutual
      <4> QED BY <1>2, <4>1 DEF IInv, TypeOK, Mutual
    <3> QED BY <1>3, <2>1, <2>2, <3>1, <3>2 DEF Mutual
  <2>3. CASE Target(k) # n
    BY <1>2, <1>3, <2>1, <2>3 DEF IInv, CallMutual, Mutual, Running, Listening
  <2> QED BY <2>2, <2>3
<1>7. FinishedComplete'
  BY <1>1, <1>2 DEF IInv, TypeOK, FinishedComplete, Finished, Complete
<1> QED BY <1>4, <1>5, <1>6, <1>7 DEF IInv

\* The peer records the run of n for the first time.
LEMMA RecordKeeps ==
    ASSUME IInv, NEW n \in Members, ServePeer(n), got[Target(n)][n] = 0
    PROVE  IInv'
<1> USE MembersAtLeastTwo, DkgBounds
<1> DEFINE p == Target(n)
<1>1. p \in Members /\ p > n /\ got[n][p] = 0 /\ Listening(p)
  BY TargetFacts DEF IInv, CallMutual, ServePeer
<1>2. /\ got' = [got EXCEPT ![p][n] = run[n]]
      /\ call' = [call EXCEPT ![n].stage = "recorded"]
      /\ UNCHANGED <<st, run, errc, losses>>
  BY DEF ServePeer
<1>3. \A a, b \in Members : got'[a][b] = IF a = p /\ b = n THEN run[n] ELSE got[a][b]
  BY <1>1, <1>2 DEF IInv, TypeOK
<1>4. \A k \in Members : Target(k)' = Target(k)
  BY <1>1, <1>3, TargetStays DEF Open, Members
<1>5. TypeOK'
  <2>1. got' \in [Members -> [Members -> 0..MaxRuns]]
    BY <1>1, <1>2 DEF IInv, TypeOK
  <2>2. call' \in [Members -> [stage : Stages, run : 0..MaxRuns]]
    BY <1>2 DEF IInv, TypeOK, Stages
  <2>3. \A a, b \in Members : got'[a][b] <= run'[b]
    BY <1>2, <1>3 DEF IInv, TypeOK
  <2> QED BY <1>2, <2>1, <2>2, <2>3 DEF IInv, TypeOK
<1>6. RecordedMutual'
  <2> SUFFICES ASSUME NEW a \in Members, NEW b \in Members, a < b, got'[a][b] # 0
               PROVE  Mutual(got[a][b], a, b)'
    BY DEF RecordedMutual, Mutual
  <2>1. got'[a][b] = got[a][b]
    BY <1>1, <1>3 DEF Members
  <2>2. ~(b = p /\ a = n)
    BY <1>1, <2>1
  <2>3. got'[b][a] = got[b][a]
    BY <1>3, <2>2
  <2> QED BY <1>2, <2>1, <2>3 DEF IInv, RecordedMutual, Mutual
<1>7. CallMutual'
  <2> SUFFICES ASSUME NEW k \in Members, call'[k].stage # "none"
               PROVE  /\ Target(k) # 0
                      /\ call'[k].stage = "recorded" =>
                           Running(Target(k))' /\ got'[Target(k)][k] = run[k]
                      /\ call'[k].stage = "replied" => Mutual(call[k].run, k, Target(k))'
    BY <1>2, <1>4 DEF CallMutual, Mutual
  <2>1. CASE k = n
    <3>1. call'[k].stage = "recorded"
      BY <1>2, <2>1 DEF IInv, TypeOK
    <3> QED BY <1>1, <1>2, <1>3, <1>4, <2>1, <3>1 DEF Running, Listening, Members
  <2>2. CASE k # n
    <3>1. call'[k] = call[k]
      BY <1>2, <2>2 DEF IInv, TypeOK
    <3>2. Target(k) # 0 /\ Target(k) \in Members
      BY <3>1, TargetFacts DEF IInv, CallMutual
    <3>3. got'[Target(k)][k] = got[Target(k)][k]
      BY <1>3, <2>2, <3>2
    <3> QED BY <1>2, <1>4, <3>1, <3>2, <3>3 DEF IInv, CallMutual, Mutual, Running, Listening
  <2> QED BY <2>1, <2>2
<1>8. FinishedComplete'
  <2> SUFFICES ASSUME NEW k \in Members, Finished(k) PROVE Complete(k)'
    BY <1>2 DEF FinishedComplete, Finished
  <2>1. k # p
    BY <1>1 DEF Finished, Listening
  <2> QED BY <1>3, <2>1 DEF IInv, FinishedComplete, Complete
<1> QED BY <1>5, <1>6, <1>7, <1>8 DEF IInv

\* exchange returns with the material of the peer's run.
LEMMA ReceiveKeeps ==
    ASSUME IInv, NEW n \in Members, Receive(n)
    PROVE  IInv'
<1> USE MembersAtLeastTwo, DkgBounds
<1> DEFINE m == Target(n)
           r == call[n].run
<1>1. m \in Members /\ m > n /\ got[n][m] = 0 /\ Mutual(r, n, m)
  BY TargetFacts DEF IInv, CallMutual, Receive
<1>2. /\ got' = [got EXCEPT ![n][m] = r]
      /\ call' = [call EXCEPT ![n] = NoCall]
      /\ UNCHANGED <<st, run, errc, losses>> /\ st[n] = "dial"
  BY DEF Receive
<1>3. \A a, b \in Members : got'[a][b] = IF a = n /\ b = m THEN r ELSE got[a][b]
  BY <1>1, <1>2 DEF IInv, TypeOK
<1>4. \A k \in Members \ {n} : Target(k)' = Target(k)
  BY <1>3, TargetStays DEF Open
<1>5. r \in 0..MaxRuns /\ r <= run[m]
  BY <1>1 DEF IInv, TypeOK, Mutual
<1>6. TypeOK'
  <2>1. got' \in [Members -> [Members -> 0..MaxRuns]]
    BY <1>1, <1>2, <1>5 DEF IInv, TypeOK
  <2>2. call' \in [Members -> [stage : Stages, run : 0..MaxRuns]]
    BY <1>2 DEF IInv, TypeOK, NoCall, Stages
  <2>3. \A a, b \in Members : got'[a][b] <= run'[b]
    BY <1>2, <1>3, <1>5 DEF IInv, TypeOK
  <2> QED BY <1>2, <2>1, <2>2, <2>3 DEF IInv, TypeOK
<1>7. RecordedMutual'
  <2> SUFFICES ASSUME NEW a \in Members, NEW b \in Members, a < b, got'[a][b] # 0
               PROVE  Mutual(got[a][b], a, b)'
    BY DEF RecordedMutual, Mutual
  <2>1. got'[b][a] = got[b][a]
    BY <1>1, <1>3 DEF Members
  <2>2. CASE a = n /\ b = m
    BY <1>1, <1>2, <1>3, <2>1, <2>2 DEF Mutual
  <2>3. CASE ~(a = n /\ b = m)
    BY <1>2, <1>3, <2>1, <2>3 DEF IInv, RecordedMutual, Mutual
  <2> QED BY <2>2, <2>3
<1>8. CallMutual'
  <2> SUFFICES ASSUME NEW k \in Members, k # n, call[k].stage # "none"
               PROVE  /\ Target(k) # 0
                      /\ call[k].stage = "recorded" =>
                           Running(Target(k))' /\ got'[Target(k)][k] = run[k]
                      /\ call[k].stage = "replied" => Mutual(call[k].run, k, Target(k))'
    <3>1. call'[n] = NoCall /\ \A k \in Members \ {n} : call'[k] = call[k]
      BY <1>2 DEF IInv, TypeOK
    <3> QED BY <1>2, <1>4, <3>1 DEF CallMutual, Mutual, NoCall
  <2>1. Target(k) # 0 /\ Target(k) \in Members /\ Target(k) > k /\ call'[k] = call[k]
    BY <1>2, TargetFacts DEF IInv, TypeOK, CallMutual
  <2>2. got'[Target(k)][k] = got[Target(k)][k]
    BY <1>1, <1>3, <2>1 DEF Members
  <2> QED BY <1>2, <1>4, <2>1, <2>2 DEF IInv, CallMutual, Mutual, Running, Listening
<1>9. FinishedComplete'
  <2> SUFFICES ASSUME NEW k \in Members, Finished(k) PROVE Complete(k)'
    BY <1>2 DEF FinishedComplete, Finished
  <2>1. k # n
    BY <1>2 DEF Finished
  <2> QED BY <1>3, <2>1 DEF IInv, FinishedComplete, Complete
<1> QED BY <1>6, <1>7, <1>8, <1>9 DEF IInv

\* One step of any member.
LEMMA StepKeeps == IInv /\ [Next]_vars => IInv'
<1> SUFFICES ASSUME IInv, [Next]_vars PROVE IInv'
  OBVIOUS
<1> USE MembersAtLeastTwo, DkgBounds
<1>1. ASSUME NEW n \in Members, Dial(n) PROVE IInv'
  <2>1. [stage |-> "sent", run |-> run[n]] \in [stage : Stages, run : 0..MaxRuns]
    BY DEF IInv, TypeOK, Stages
  <2> QED BY <1>1, <2>1, CallKeeps DEF Dial, IInv, TypeOK
<1>2. ASSUME NEW n \in Members, ServePeer(n) PROVE IInv'
  <2>1. CASE got[Target(n)][n] = 0
    BY <1>2, <2>1, RecordKeeps
  <2>2. CASE got[Target(n)][n] # 0
    <3> DEFINE c == [call[n] EXCEPT !.stage = "eof"]
    <3>1. c \in [stage : Stages, run : 0..MaxRuns] /\ c.stage = "eof"
      BY DEF IInv, TypeOK, Stages
    <3>2. call' = [call EXCEPT ![n] = c] /\ errc' = [errc EXCEPT ![Target(n)] = TRUE]
          /\ UNCHANGED <<st, run, got, losses>> /\ Target(n) # 0
      BY <1>2, <2>2 DEF ServePeer, IInv, TypeOK, CallMutual
    <3>3. errc' \in [Members -> BOOLEAN]
      BY <3>2 DEF IInv, TypeOK
    <3> HIDE DEF c
    <3> QED BY <3>1, <3>2, <3>3, CallKeeps DEF IInv, TypeOK
  <2> QED BY <2>1, <2>2
<1>3. ASSUME NEW n \in Members, NEW f \in {"eof", "reset"},
             call' = [call EXCEPT ![n].stage = f], Target(n) # 0,
             UNCHANGED <<st, run, got, errc>>, losses' \in 0..MaxLosses
      PROVE IInv'
  <2> DEFINE c == [call[n] EXCEPT !.stage = f]
  <2>1. c \in [stage : Stages, run : 0..MaxRuns] /\ c.stage = f
    BY DEF IInv, TypeOK, Stages
  <2>2. call' = [call EXCEPT ![n] = c]
    BY <1>3 DEF IInv, TypeOK
  <2> HIDE DEF c
  <2> QED BY <1>3, <2>1, <2>2, CallKeeps DEF IInv, TypeOK
<1>4. ASSUME NEW n \in Members, ServeLate(n) PROVE IInv'
  BY <1>3, <1>4 DEF ServeLate, IInv, TypeOK, CallMutual
<1>5. ASSUME NEW n \in Members, WriteReply(n) PROVE IInv'
  <2> DEFINE c == [stage |-> "replied", run |-> run[Target(n)]]
  <2>1. Target(n) \in Members /\ Target(n) # 0 /\ got[Target(n)][n] = run[n]
    BY <1>5, TargetFacts DEF WriteReply, IInv, CallMutual
  <2>2. c \in [stage : Stages, run : 0..MaxRuns] /\ Mutual(c.run, n, Target(n))
    BY <2>1 DEF IInv, TypeOK, Stages, Mutual
  <2> QED BY <1>5, <2>1, <2>2, CallKeeps DEF WriteReply, IInv, TypeOK
<1>6. ASSUME NEW n \in Members, Receive(n) PROVE IInv'
  BY <1>6, ReceiveKeeps
<1>7. ASSUME NEW n \in Members, FailExchange(n) \/ FailListener(n) \/ DialTimeout(n)
      PROVE IInv'
  BY <1>7, StopKeeps DEF FailExchange, FailListener, DialTimeout, IInv, TypeOK
<1>8. ASSUME NEW n \in Members, StartWaiting(n) PROVE IInv'
  BY <1>8, RunKeeps DEF StartWaiting, Listening
<1>9. ASSUME NEW n \in Members, Finish(n) PROVE IInv'
  BY <1>9, RunKeeps DEF Finish, Listening
<1>10. ASSUME NEW n \in Members, Start(n) PROVE IInv'
  BY <1>10, StartKeeps
<1>11. ASSUME NEW n \in Members, Retry(n) PROVE IInv'
  <2>1. NoCall \in [stage : Stages, run : 0..MaxRuns] /\ NoCall.stage = "none"
    BY DEF NoCall, Stages
  <2> QED BY <1>11, <2>1, CallKeeps DEF Retry, IInv, TypeOK
<1>12. ASSUME NEW n \in Members, ExitProcess(n) PROVE IInv'
  BY <1>12, StopKeeps DEF ExitProcess, Finished, IInv, TypeOK
<1>13. ASSUME NEW n \in Members, LoseConnection(n) PROVE IInv'
  <2>1. losses' \in 0..MaxLosses /\ Target(n) # 0
    BY <1>13 DEF LoseConnection, IInv, TypeOK, CallMutual
  <2> QED BY <1>3, <1>13, <2>1 DEF LoseConnection
<1>14. ASSUME NEW n \in Members, Crash(n) PROVE IInv'
  BY <1>14, StopKeeps DEF Crash, IInv, TypeOK
<1>15. CASE UNCHANGED vars
  <2>1. \A k \in Members : Target(k)' = Target(k)
    BY <1>15, TargetStays DEF Open, vars
  <2> QED BY <1>15, <2>1 DEF vars, IInv, TypeOK, RecordedMutual, CallMutual, Mutual,
             FinishedComplete, Finished, Complete, Running, Listening
<1> QED BY <1>1, <1>2, <1>4, <1>5, <1>6, <1>7, <1>8, <1>9, <1>10, <1>11, <1>12, <1>13,
           <1>14, <1>15 DEF Next, Step

\* Whatever crashes, restarts, lost replies and retries there were, members
\* that finished the ceremony used each other's latest material: DkgFinalize
\* never runs on two ends of a pair with different polynomials.
THEOREM FinishedPairsAgree == Spec => []PairAgrees
<1>1. Init => IInv
  BY MembersAtLeastTwo, DkgBounds
  DEF Init, IInv, TypeOK, RecordedMutual, CallMutual, FinishedComplete, Finished,
      NoCall, Nothing, Stages
<1>2. IInv => PairAgrees
  <2> SUFFICES ASSUME IInv, NEW n \in Members, NEW m \in Members, n # m,
                      Finished(n), Finished(m)
               PROVE  got[n][m] = run[m]
    BY DEF PairAgrees
  <2>1. got[n][m] # 0 /\ got[m][n] # 0
    BY DEF IInv, FinishedComplete, Complete
  <2>2. CASE n < m
    BY <2>1, <2>2 DEF IInv, RecordedMutual, Mutual
  <2>3. CASE m < n
    BY <2>1, <2>3 DEF IInv, RecordedMutual, Mutual
  <2> QED BY <2>2, <2>3, MembersAtLeastTwo DEF Members
<1> QED BY <1>1, <1>2, StepKeeps, PTL DEF Spec
-----------------------------------------------------------------------------
(* Induction and recursion over the naturals.                              *)

\* A set of naturals that has zero and successors is all of them.
LEMMA InductiveSet ==
    ASSUME NEW G, 0 \in G, \A n \in Nat : n \in G => n + 1 \in G
    PROVE  \A n \in Nat : n \in G
<1> DEFINE Less == {ss \in Nat \X Nat : ss[1] < ss[2]}
           Fails == {n \in Nat : n \notin G}
<1>1. IsWellFoundedOn(Less, Nat)
  BY NatLessThanWellFounded, Zenon DEF OpToRel
<1> HIDE DEF Less
<1>2. ASSUME Fails # {} PROVE FALSE
  <2>1. PICK x \in Fails : \A y \in Fails : ~(<<y, x>> \in Less)
    BY <1>1, <1>2, WFMin
  <2>2. x \in Nat /\ x # 0 /\ x \notin G
    BY <2>1
  <2>3. x - 1 \in Nat /\ x - 1 < x /\ (x - 1) + 1 = x
    BY <2>2
  <2>4. x - 1 \notin G
    BY <2>2, <2>3
  <2>5. <<x - 1, x>> \in Less
    BY <2>2, <2>3 DEF Less
  <2>6. QED
    BY <2>1, <2>3, <2>4, <2>5
<1>3. QED
  BY <1>2

\* Recursion from b by a function of the last value and the next number.
Steps(g, b, step, n) ==
    /\ g \in [0..n -> Int] /\ g[0] = b
    /\ \A i \in 1..n : g[i] = step[<<g[i - 1], i>>]

\* Such a recursion goes as far as one likes.
LEMMA RecursionExists ==
    ASSUME NEW b \in Int, NEW step \in [Int \X Nat -> Int]
    PROVE  \A n \in Nat : \E g : Steps(g, b, step, n)
<1> DEFINE G == {n \in Nat : \E g : Steps(g, b, step, n)}
<1>1. 0 \in G
  <2> DEFINE g == [i \in 0..0 |-> b]
  <2>1. Steps(g, b, step, 0)
    BY DEF Steps
  <2>2. QED
    BY <2>1
<1>2. ASSUME NEW n \in Nat, n \in G PROVE n + 1 \in G
  <2>1. PICK g : Steps(g, b, step, n)
    BY <1>2
  <2>1a. g \in [0..n -> Int] /\ g[n] \in Int /\ <<g[n], n + 1>> \in Int \X Nat
    BY <2>1 DEF Steps
  <2> DEFINE h == [i \in 0..n + 1 |-> IF i = n + 1 THEN step[<<g[n], n + 1>>] ELSE g[i]]
  <2>2. h \in [0..n + 1 -> Int]
    <3>1. ASSUME NEW i \in 0..n + 1 PROVE h[i] \in Int
      <4>1. CASE i = n + 1
        BY <2>1a, <4>1
      <4>2. CASE i # n + 1
        <5>1. i \in 0..n
          BY <4>2
        <5>2. QED
          BY <2>1a, <4>2, <5>1
      <4>3. QED
        BY <4>1, <4>2
    <3>2. QED
      BY <3>1
  <2>3. h[0] = b
    BY <2>1 DEF Steps
  <2>4. ASSUME NEW i \in 1..n + 1 PROVE h[i] = step[<<h[i - 1], i>>]
    <3>1. i - 1 \in 0..n + 1 /\ i - 1 # n + 1 /\ i \in 0..n + 1
      OBVIOUS
    <3>2. h[i - 1] = g[i - 1]
      BY <3>1
    <3>3. CASE i = n + 1
      <4>1. h[i] = step[<<g[n], n + 1>>] /\ i - 1 = n
        BY <3>3
      <4>2. QED
        BY <3>2, <3>3, <4>1
    <3>4. CASE i # n + 1
      <4>1. i \in 1..n /\ h[i] = g[i]
        BY <3>1, <3>4
      <4>2. g[i] = step[<<g[i - 1], i>>]
        BY <2>1, <4>1 DEF Steps
      <4>3. QED
        BY <3>2, <4>1, <4>2
    <3>5. QED
      BY <3>3, <3>4
  <2> HIDE DEF h
  <2>5. Steps(h, b, step, n + 1)
    BY <2>2, <2>3, <2>4 DEF Steps
  <2>6. QED
    BY <2>5
<1> HIDE DEF G
<1>3. \A n \in Nat : n \in G
  BY <1>1, <1>2, InductiveSet
<1>4. QED
  BY <1>3 DEF G
-----------------------------------------------------------------------------
(* Sums, products and powers: what the loops compute.                      *)

\* The partial sums of f.
LEMMA SumSteps ==
    ASSUME NEW f, NEW n \in Nat, \A i \in 1..n : f[i] \in Int
    PROVE  \E h \in [0..n -> Int] :
             /\ h[0] = 0
             /\ \A i \in 1..n : h[i] = h[i - 1] + f[i]
             /\ \A m \in 0..n : SumTo(f, m) = h[m]
<1> DEFINE step == [p \in Int \X Nat |-> p[1] + (IF p[2] \in 1..n THEN f[p[2]] ELSE 0)]
           Unfold(g, m) == [i \in 0..m |-> IF i = 0 THEN 0 ELSE g[i - 1] + f[i]]
<1>1. step \in [Int \X Nat -> Int]
  OBVIOUS
<1>2. PICK h : Steps(h, 0, step, n)
  BY <1>1, RecursionExists
<1>3. h \in [0..n -> Int] /\ h[0] = 0
  BY <1>2 DEF Steps
<1>4. ASSUME NEW i \in 1..n PROVE h[i] = h[i - 1] + f[i]
  <2>1. i - 1 \in 0..n /\ h[i - 1] \in Int /\ <<h[i - 1], i>> \in Int \X Nat
    BY <1>3
  <2>2. h[i] = step[<<h[i - 1], i>>]
    BY <1>2 DEF Steps
  <2>3. QED
    BY <2>1, <2>2
<1> HIDE DEF step
<1>5. ASSUME NEW m \in 0..n PROVE SumTo(f, m) = h[m]
  <2> DEFINE k == [i \in 0..m |-> h[i]]
  <2>1. k = Unfold(k, m)
    <3>1. ASSUME NEW i \in 0..m PROVE k[i] = Unfold(k, m)[i]
      <4>1. CASE i = 0
        BY <1>3, <4>1
      <4>2. CASE i # 0
        <5>1. i \in 1..n /\ i - 1 \in 0..m
          BY <4>2
        <5>2. h[i] = h[i - 1] + f[i] /\ k[i - 1] = h[i - 1] /\ k[i] = h[i]
          BY <1>4, <5>1
        <5>3. QED
          BY <4>2, <5>2
      <4>3. QED
        BY <4>1, <4>2
    <3>2. k = [i \in 0..m |-> k[i]]
      OBVIOUS
    <3>3. QED
      BY <3>1, <3>2
  <2> DEFINE g == CHOOSE x : x = Unfold(x, m)
  <2>2. g = Unfold(g, m)
    BY <2>1
  <2>3. SumTo(f, m) = g[m]
    BY Zenon DEF SumTo
  <2> HIDE DEF g
  <2> DEFINE S == {i \in Nat : i <= m => g[i] = h[i]}
  <2>4. 0 \in S
    BY <1>3, <2>2
  <2>5. ASSUME NEW i \in Nat, i \in S PROVE i + 1 \in S
    <3>1. ASSUME i + 1 <= m PROVE g[i + 1] = h[i + 1]
      <4>1. i + 1 \in 1..n /\ i + 1 \in 0..m /\ i + 1 # 0 /\ (i + 1) - 1 = i /\ i <= m
        BY <3>1
      <4>2. g[i] = h[i]
        BY <2>5, <4>1
      <4>3. g[i + 1] = Unfold(g, m)[i + 1]
        BY <2>2
      <4>4. h[i + 1] = h[(i + 1) - 1] + f[i + 1]
        BY <1>4, <4>1
      <4>5. QED
        BY <4>1, <4>2, <4>3, <4>4
    <3>2. QED
      BY <3>1
  <2> HIDE DEF S
  <2>6. m \in S
    BY <2>4, <2>5, InductiveSet
  <2>7. QED
    BY <2>3, <2>6 DEF S
<1>6. QED
  BY <1>3, <1>4, <1>5

\* The partial products of f.
LEMMA ProductSteps ==
    ASSUME NEW f, NEW n \in Nat, \A i \in 1..n : f[i] \in Int
    PROVE  \E h \in [0..n -> Int] :
             /\ h[0] = 1
             /\ \A i \in 1..n : h[i] = h[i - 1] * f[i]
             /\ \A m \in 0..n : ProductTo(f, m) = h[m]
<1> DEFINE step == [p \in Int \X Nat |-> p[1] * (IF p[2] \in 1..n THEN f[p[2]] ELSE 1)]
           Unfold(g, m) == [i \in 0..m |-> IF i = 0 THEN 1 ELSE g[i - 1] * f[i]]
<1>1. step \in [Int \X Nat -> Int]
  OBVIOUS
<1>2. PICK h : Steps(h, 1, step, n)
  BY <1>1, RecursionExists
<1>3. h \in [0..n -> Int] /\ h[0] = 1
  BY <1>2 DEF Steps
<1>4. ASSUME NEW i \in 1..n PROVE h[i] = h[i - 1] * f[i]
  <2>1. i - 1 \in 0..n /\ h[i - 1] \in Int /\ <<h[i - 1], i>> \in Int \X Nat
    BY <1>3
  <2>2. h[i] = step[<<h[i - 1], i>>]
    BY <1>2 DEF Steps
  <2>3. QED
    BY <2>1, <2>2
<1> HIDE DEF step
<1>5. ASSUME NEW m \in 0..n PROVE ProductTo(f, m) = h[m]
  <2> DEFINE k == [i \in 0..m |-> h[i]]
  <2>1. k = Unfold(k, m)
    <3>1. ASSUME NEW i \in 0..m PROVE k[i] = Unfold(k, m)[i]
      <4>1. CASE i = 0
        BY <1>3, <4>1
      <4>2. CASE i # 0
        <5>1. i \in 1..n /\ i - 1 \in 0..m
          BY <4>2
        <5>2. h[i] = h[i - 1] * f[i] /\ k[i - 1] = h[i - 1] /\ k[i] = h[i]
          BY <1>4, <5>1
        <5>3. QED
          BY <4>2, <5>2
      <4>3. QED
        BY <4>1, <4>2
    <3>2. k = [i \in 0..m |-> k[i]]
      OBVIOUS
    <3>3. QED
      BY <3>1, <3>2
  <2> DEFINE g == CHOOSE x : x = Unfold(x, m)
  <2>2. g = Unfold(g, m)
    BY <2>1
  <2>3. ProductTo(f, m) = g[m]
    BY Zenon DEF ProductTo
  <2> HIDE DEF g
  <2> DEFINE S == {i \in Nat : i <= m => g[i] = h[i]}
  <2>4. 0 \in S
    BY <1>3, <2>2
  <2>5. ASSUME NEW i \in Nat, i \in S PROVE i + 1 \in S
    <3>1. ASSUME i + 1 <= m PROVE g[i + 1] = h[i + 1]
      <4>1. i + 1 \in 1..n /\ i + 1 \in 0..m /\ i + 1 # 0 /\ (i + 1) - 1 = i /\ i <= m
        BY <3>1
      <4>2. g[i] = h[i]
        BY <2>5, <4>1
      <4>3. g[i + 1] = Unfold(g, m)[i + 1]
        BY <2>2
      <4>4. h[i + 1] = h[(i + 1) - 1] * f[i + 1]
        BY <1>4, <4>1
      <4>5. QED
        BY <4>1, <4>2, <4>3, <4>4
    <3>2. QED
      BY <3>1
  <2> HIDE DEF S
  <2>6. m \in S
    BY <2>4, <2>5, InductiveSet
  <2>7. QED
    BY <2>3, <2>6 DEF S
<1>6. QED
  BY <1>3, <1>4, <1>5

\* The powers of x.
LEMMA PowerSteps ==
    ASSUME NEW x \in Int, NEW n \in Nat
    PROVE  \E h \in [0..n -> Int] :
             /\ h[0] = 1
             /\ \A i \in 1..n : h[i] = (h[i - 1] * x) % L
             /\ \A m \in 0..n : Power(x, m) = h[m]
<1> DEFINE step == [p \in Int \X Nat |-> (p[1] * x) % L]
           Unfold(g, m) == [i \in 0..m |-> IF i = 0 THEN 1 ELSE (g[i - 1] * x) % L]
<1>1. step \in [Int \X Nat -> Int]
  BY PrimeOrder
<1>2. PICK h : Steps(h, 1, step, n)
  BY <1>1, RecursionExists
<1>3. h \in [0..n -> Int] /\ h[0] = 1
  BY <1>2 DEF Steps
<1>4. ASSUME NEW i \in 1..n PROVE h[i] = (h[i - 1] * x) % L
  <2>1. i - 1 \in 0..n /\ h[i - 1] \in Int /\ <<h[i - 1], i>> \in Int \X Nat
    BY <1>3
  <2>2. h[i] = step[<<h[i - 1], i>>]
    BY <1>2 DEF Steps
  <2>3. QED
    BY <2>1, <2>2
<1> HIDE DEF step
<1>5. ASSUME NEW m \in 0..n PROVE Power(x, m) = h[m]
  <2> DEFINE k == [i \in 0..m |-> h[i]]
  <2>1. k = Unfold(k, m)
    <3>1. ASSUME NEW i \in 0..m PROVE k[i] = Unfold(k, m)[i]
      <4>1. CASE i = 0
        BY <1>3, <4>1
      <4>2. CASE i # 0
        <5>1. i \in 1..n /\ i - 1 \in 0..m
          BY <4>2
        <5>2. h[i] = (h[i - 1] * x) % L /\ k[i - 1] = h[i - 1] /\ k[i] = h[i]
          BY <1>4, <5>1
        <5>3. QED
          BY <4>2, <5>2
      <4>3. QED
        BY <4>1, <4>2
    <3>2. k = [i \in 0..m |-> k[i]]
      OBVIOUS
    <3>3. QED
      BY <3>1, <3>2
  <2> DEFINE g == CHOOSE y : y = Unfold(y, m)
  <2>2. g = Unfold(g, m)
    BY <2>1
  <2>3. Power(x, m) = g[m]
    BY Zenon DEF Power
  <2> HIDE DEF g
  <2> DEFINE S == {i \in Nat : i <= m => g[i] = h[i]}
  <2>4. 0 \in S
    BY <1>3, <2>2
  <2>5. ASSUME NEW i \in Nat, i \in S PROVE i + 1 \in S
    <3>1. ASSUME i + 1 <= m PROVE g[i + 1] = h[i + 1]
      <4>1. i + 1 \in 1..n /\ i + 1 \in 0..m /\ i + 1 # 0 /\ (i + 1) - 1 = i /\ i <= m
        BY <3>1
      <4>2. g[i] = h[i]
        BY <2>5, <4>1
      <4>3. g[i + 1] = Unfold(g, m)[i + 1]
        BY <2>2
      <4>4. h[i + 1] = (h[(i + 1) - 1] * x) % L
        BY <1>4, <4>1
      <4>5. QED
        BY <4>1, <4>2, <4>3, <4>4
    <3>2. QED
      BY <3>1
  <2> HIDE DEF S
  <2>6. m \in S
    BY <2>4, <2>5, InductiveSet
  <2>7. QED
    BY <2>3, <2>6 DEF S
<1>6. QED
  BY <1>3, <1>4, <1>5

\* The equations that define them.
LEMMA SumEquations ==
    ASSUME NEW f, NEW n \in Nat, \A i \in 1..n : f[i] \in Int
    PROVE  /\ SumTo(f, 0) = 0
           /\ \A m \in 0..n : SumTo(f, m) \in Int
           /\ \A m \in 1..n : SumTo(f, m) = SumTo(f, m - 1) + f[m]
<1>1. PICK h \in [0..n -> Int] : /\ h[0] = 0
                                 /\ \A i \in 1..n : h[i] = h[i - 1] + f[i]
                                 /\ \A m \in 0..n : SumTo(f, m) = h[m]
  BY SumSteps
<1>2. \A m \in 1..n : m - 1 \in 0..n /\ m \in 0..n
  OBVIOUS
<1>3. QED
  BY <1>1, <1>2

\* The same for products.
LEMMA ProductEquations ==
    ASSUME NEW f, NEW n \in Nat, \A i \in 1..n : f[i] \in Int
    PROVE  /\ ProductTo(f, 0) = 1
           /\ \A m \in 0..n : ProductTo(f, m) \in Int
           /\ \A m \in 1..n : ProductTo(f, m) = ProductTo(f, m - 1) * f[m]
<1>1. PICK h \in [0..n -> Int] : /\ h[0] = 1
                                 /\ \A i \in 1..n : h[i] = h[i - 1] * f[i]
                                 /\ \A m \in 0..n : ProductTo(f, m) = h[m]
  BY ProductSteps
<1>2. \A m \in 1..n : m - 1 \in 0..n /\ m \in 0..n
  OBVIOUS
<1>3. QED
  BY <1>1, <1>2

\* The same for the running power of evalPolyL.
LEMMA PowerEquations ==
    ASSUME NEW x \in Int, NEW n \in Nat
    PROVE  /\ Power(x, 0) = 1
           /\ Power(x, n) \in Int
           /\ Power(x, n + 1) = (Power(x, n) * x) % L
<1>0. n + 1 \in Nat
  OBVIOUS
<1>1. PICK h \in [0..n + 1 -> Int] : /\ h[0] = 1
                                     /\ \A i \in 1..n + 1 : h[i] = (h[i - 1] * x) % L
                                     /\ \A m \in 0..n + 1 : Power(x, m) = h[m]
  BY <1>0, PowerSteps
<1>2. n \in 0..n + 1 /\ n + 1 \in 1..n + 1 /\ (n + 1) - 1 = n /\ n + 1 \in 0..n + 1 /\ 0 \in 0..n + 1
  OBVIOUS
<1>3. h[n + 1] = (h[n] * x) % L
  BY <1>1, <1>2
<1>4. QED
  BY <1>1, <1>2, <1>3
-----------------------------------------------------------------------------
(* Arithmetic modulo L.                                                    *)

Cong(a, b) == \E q \in Int : a - b = q * L

\* Reduction gives a scalar, congruent to what was reduced.
LEMMA ModRange ==
    ASSUME NEW a \in Int
    PROVE  a % L \in Scalars /\ a % L \in Int /\ Cong(a, a % L)
<1>1. a % L \in 0..L - 1
  BY PrimeOrder
<1>2. a = L * (a \div L) + (a % L) /\ a \div L \in Int
  BY PrimeOrder
<1>3. a - (a % L) = (a \div L) * L
  BY <1>1, <1>2, PrimeOrder
<1>4. QED
  BY <1>1, <1>2, <1>3 DEF Cong, Scalars

\* Congruence is an equivalence ...
LEMMA CongRefl == ASSUME NEW a \in Int PROVE Cong(a, a)
<1>1. a - a = 0 * L
  BY PrimeOrder
<1>2. QED
  BY <1>1 DEF Cong

\* ... (symmetry) ...
LEMMA CongSym == ASSUME NEW a \in Int, NEW b \in Int, Cong(a, b) PROVE Cong(b, a)
<1>1. PICK q \in Int : a - b = q * L
  BY DEF Cong
<1>2. b - a = (-q) * L /\ -q \in Int
  BY <1>1, PrimeOrder
<1>3. QED
  BY <1>2 DEF Cong

\* ... (transitivity) ...
LEMMA CongTrans ==
    ASSUME NEW a \in Int, NEW b \in Int, NEW c \in Int, Cong(a, b), Cong(b, c)
    PROVE  Cong(a, c)
<1>1. PICK q \in Int : a - b = q * L
  BY DEF Cong
<1>2. PICK r \in Int : b - c = r * L
  BY DEF Cong
<1>3. a - c = (q + r) * L /\ q + r \in Int
  BY <1>1, <1>2, PrimeOrder
<1>4. QED
  BY <1>3 DEF Cong

\* ... that sums and differences respect ...
LEMMA CongAdd ==
    ASSUME NEW a \in Int, NEW b \in Int, NEW c \in Int, NEW d \in Int, Cong(a, b), Cong(c, d)
    PROVE  Cong(a + c, b + d) /\ Cong(a - c, b - d)
<1>1. PICK q \in Int : a - b = q * L
  BY DEF Cong
<1>2. PICK r \in Int : c - d = r * L
  BY DEF Cong
<1>3. (a + c) - (b + d) = (q + r) * L /\ q + r \in Int
  BY <1>1, <1>2, PrimeOrder
<1>4. (a - c) - (b - d) = (q - r) * L /\ q - r \in Int
  BY <1>1, <1>2, PrimeOrder
<1>5. QED
  BY <1>3, <1>4 DEF Cong

\* ... and products, ...
LEMMA CongMul ==
    ASSUME NEW a \in Int, NEW b \in Int, NEW c \in Int, NEW d \in Int, Cong(a, b), Cong(c, d)
    PROVE  Cong(a * c, b * d)
<1>1. PICK q \in Int : a - b = q * L
  BY DEF Cong
<1>2. PICK r \in Int : c - d = r * L
  BY DEF Cong
<1>3. a * c - b * d = (a - b) * c + b * (c - d)
  OBVIOUS
<1>4. (q * L) * c + b * (r * L) = (q * c + b * r) * L /\ q * c + b * r \in Int
  BY PrimeOrder
<1>5. QED
  BY <1>1, <1>2, <1>3, <1>4 DEF Cong

\* ... by a number too.
LEMMA CongScale ==
    ASSUME NEW a \in Int, NEW b \in Int, NEW k \in Int, Cong(a, b)
    PROVE  Cong(k * a, k * b) /\ Cong(a * k, b * k)
<1>1. Cong(k, k)
  BY CongRefl
<1>2. QED
  BY <1>1, CongMul

\* A factor congruent to one can be left out.
LEMMA CongUnit ==
    ASSUME NEW u \in Int, NEW a \in Int, Cong(u, 1)
    PROVE  Cong(u * a, a)
<1>1. PICK q \in Int : u - 1 = q * L
  BY DEF Cong
<1>2. u * a - a = (u - 1) * a
  OBVIOUS
<1>3. (q * L) * a = (q * a) * L /\ q * a \in Int
  BY PrimeOrder
<1>4. QED
  BY <1>1, <1>2, <1>3 DEF Cong

\* Scalars are congruent iff equal.
LEMMA CongScalars ==
    ASSUME NEW a \in Scalars, NEW b \in Scalars, Cong(a, b)
    PROVE  a = b
<1>1. PICK q \in Int : a - b = q * L
  BY DEF Cong
<1>2. a \in Int /\ b \in Int /\ a - b < L /\ a - b > -L
  BY PrimeOrder DEF Scalars
<1>3. ASSUME q >= 1 PROVE FALSE
  <2>1. q * L >= L
    BY <1>3, PrimeOrder
  <2>2. QED
    BY <1>1, <1>2, <2>1, PrimeOrder
<1>4. ASSUME q <= -1 PROVE FALSE
  <2>1. q * L <= -L
    BY <1>4, PrimeOrder
  <2>2. QED
    BY <1>1, <1>2, <2>1, PrimeOrder
<1>5. q = 0
  BY <1>3, <1>4
<1>6. QED
  BY <1>1, <1>2, <1>5, PrimeOrder

\* Numbers are congruent iff they reduce to the same scalar.
LEMMA CongIsModEqual ==
    ASSUME NEW a \in Int, NEW b \in Int
    PROVE  Cong(a, b) <=> a % L = b % L
<1>1. a % L \in Scalars /\ a % L \in Int /\ Cong(a, a % L)
  BY ModRange
<1>2. b % L \in Scalars /\ b % L \in Int /\ Cong(b, b % L)
  BY ModRange
<1>3. ASSUME Cong(a, b) PROVE a % L = b % L
  <2>1. Cong(a % L, a)
    BY <1>1, CongSym
  <2>2. Cong(a % L, b)
    BY <1>1, <1>3, <2>1, CongTrans
  <2>3. Cong(a % L, b % L)
    BY <1>1, <1>2, <2>2, CongTrans
  <2>4. QED
    BY <1>1, <1>2, <2>3, CongScalars
<1>4. ASSUME a % L = b % L PROVE Cong(a, b)
  <2>1. Cong(b % L, b)
    BY <1>2, CongSym
  <2>2. QED
    BY <1>1, <1>2, <1>4, <2>1, CongTrans
<1>5. QED
  BY <1>3, <1>4

\* A scalar is reduced already.
LEMMA ScalarMod == ASSUME NEW a \in Scalars PROVE a % L = a /\ a \in Int
<1>1. a \in Int
  BY PrimeOrder DEF Scalars
<1>2. a % L \in Scalars /\ Cong(a, a % L)
  BY <1>1, ModRange
<1>3. QED
  BY <1>1, <1>2, CongScalars

\* Nonzero scalars have inverses, so that there are no divisors of zero.
LEMMA InverseIs ==
    ASSUME NEW k \in 1..L - 1
    PROVE  Inverses[k] \in Scalars /\ Inverses[k] \in Int /\ Cong(k * Inverses[k], 1)
<1>1. \E i \in Scalars : (k * i) % L = 1
  BY PrimeOrder
<1>2. Inverses[k] = CHOOSE i \in Scalars : (k * i) % L = 1
  BY DEF Inverses
<1>3. Inverses[k] \in Scalars /\ (k * Inverses[k]) % L = 1
  BY <1>1, <1>2
<1>4. Inverses[k] \in Int /\ k \in Int /\ k * Inverses[k] \in Int
  BY <1>3, PrimeOrder DEF Scalars
<1>5. QED
  BY <1>3, <1>4, ModRange

\* A factor that is not congruent to zero cancels.
LEMMA Cancel ==
    ASSUME NEW k \in Int, ~Cong(k, 0), NEW a \in Int, NEW b \in Int, Cong(k * a, k * b)
    PROVE  Cong(a, b)
<1>1. k % L \in Scalars /\ k % L \in Int /\ Cong(k, k % L)
  BY ModRange
<1>2. k % L # 0
  BY <1>1
<1>3. k % L \in 1..L - 1
  BY <1>1, <1>2, PrimeOrder DEF Scalars
<1>4. PICK i \in Int : Cong((k % L) * i, 1)
  BY <1>3, InverseIs
<1>5. Cong(k * i, (k % L) * i)
  BY <1>1, <1>4, CongScale
<1>6. Cong(k * i, 1) /\ k * i \in Int /\ k * a \in Int /\ k * b \in Int
  BY <1>1, <1>4, <1>5, CongTrans
<1>7. Cong((k * i) * a, a) /\ Cong((k * i) * b, b)
  BY <1>6, CongUnit
<1>8. Cong(i * (k * a), i * (k * b))
  BY <1>6, CongScale
<1>9. (k * i) * a = i * (k * a) /\ (k * i) * b = i * (k * b)
  OBVIOUS
<1>10. Cong(i * (k * a), a) /\ Cong(i * (k * b), b)
  BY <1>7, <1>9
<1>11. i * (k * a) \in Int /\ i * (k * b) \in Int
  OBVIOUS
<1>12. Cong(a, i * (k * a))
  BY <1>10, <1>11, CongSym
<1>13. Cong(a, i * (k * b))
  BY <1>8, <1>11, <1>12, CongTrans
<1>14. QED
  BY <1>10, <1>11, <1>13, CongTrans
-----------------------------------------------------------------------------
(* Sums and products modulo L.                                             *)

\* Sums are linear, modulo L, term by term.
LEMMA SumLinear ==
    ASSUME NEW n \in Nat, NEW f, NEW g, NEW h, NEW a \in Int, NEW b \in Int,
           \A i \in 1..n : f[i] \in Int /\ g[i] \in Int /\ h[i] \in Int,
           \A i \in 1..n : Cong(h[i], a * f[i] + b * g[i])
    PROVE  Cong(SumTo(h, n), a * SumTo(f, n) + b * SumTo(g, n))
<1> DEFINE Holds(m) == Cong(SumTo(h, m), a * SumTo(f, m) + b * SumTo(g, m))
           G == {m \in Nat : m <= n => Holds(m)}
<1>1. /\ SumTo(f, 0) = 0 /\ SumTo(g, 0) = 0 /\ SumTo(h, 0) = 0
      /\ \A m \in 0..n : SumTo(f, m) \in Int /\ SumTo(g, m) \in Int /\ SumTo(h, m) \in Int
      /\ \A m \in 1..n : /\ SumTo(f, m) = SumTo(f, m - 1) + f[m]
                         /\ SumTo(g, m) = SumTo(g, m - 1) + g[m]
                         /\ SumTo(h, m) = SumTo(h, m - 1) + h[m]
  BY SumEquations
<1>2. 0 \in G
  <2>1. a * 0 + b * 0 = 0 /\ Cong(0, 0)
    BY CongRefl
  <2>2. QED
    BY <1>1, <2>1
<1>3. ASSUME NEW m \in Nat, m \in G PROVE m + 1 \in G
  <2>1. ASSUME m + 1 <= n PROVE Holds(m + 1)
    <3>1. m \in 0..n /\ m + 1 \in 1..n /\ (m + 1) - 1 = m /\ m <= n
      BY <2>1
    <3>2. PICK sf \in Int, sg \in Int, sh \in Int :
            sf = SumTo(f, m) /\ sg = SumTo(g, m) /\ sh = SumTo(h, m)
      BY <1>1, <3>1
    <3>3. PICK ff \in Int, gg \in Int, hh \in Int :
            ff = f[m + 1] /\ gg = g[m + 1] /\ hh = h[m + 1]
      BY <3>1
    <3>4. Cong(sh, a * sf + b * sg)
      BY <1>3, <3>1, <3>2
    <3>5. Cong(hh, a * ff + b * gg)
      BY <3>1, <3>3
    <3>6. a * sf + b * sg \in Int /\ a * ff + b * gg \in Int
      OBVIOUS
    <3>7. Cong(sh + hh, (a * sf + b * sg) + (a * ff + b * gg))
      BY <3>4, <3>5, <3>6, CongAdd
    <3>8. (a * sf + b * sg) + (a * ff + b * gg) = a * (sf + ff) + b * (sg + gg)
      OBVIOUS
    <3>9. SumTo(h, m + 1) = sh + hh /\ SumTo(f, m + 1) = sf + ff /\ SumTo(g, m + 1) = sg + gg
      BY <1>1, <3>1, <3>2, <3>3
    <3>10. Cong(sh + hh, a * (sf + ff) + b * (sg + gg))
      BY <3>7, <3>8
    <3>11. QED
      BY <3>9, <3>10
  <2>2. QED
    BY <2>1
<1> HIDE DEF G
<1>4. n \in G
  BY <1>2, <1>3, InductiveSet
<1>5. QED
  BY <1>4 DEF G

\* A sum of integers is one.
LEMMA SumInt ==
    ASSUME NEW n \in Nat, NEW f, \A i \in 1..n : f[i] \in Int
    PROVE  SumTo(f, n) \in Int
<1>1. n \in 0..n
  OBVIOUS
<1>2. QED
  BY <1>1, SumEquations

\* A common factor.
LEMMA SumScaled ==
    ASSUME NEW n \in Nat, NEW f, NEW h, NEW a \in Int,
           \A i \in 1..n : f[i] \in Int /\ h[i] \in Int /\ Cong(h[i], a * f[i])
    PROVE  Cong(SumTo(h, n), a * SumTo(f, n))
<1>0. PICK z \in Int : z = 0
  OBVIOUS
<1>1. ASSUME NEW i \in 1..n PROVE Cong(h[i], a * f[i] + z * f[i])
  <2>1. a * f[i] + z * f[i] = a * f[i]
    BY <1>0
  <2>2. QED
    BY <2>1
<1>2. Cong(SumTo(h, n), a * SumTo(f, n) + z * SumTo(f, n))
  BY <1>1, SumLinear
<1>3. SumTo(f, n) \in Int
  BY SumInt
<1>4. a * SumTo(f, n) + z * SumTo(f, n) = a * SumTo(f, n)
  BY <1>0, <1>3
<1>5. QED
  BY <1>2, <1>4

\* Congruent terms, congruent sums.
LEMMA SumCongruent ==
    ASSUME NEW n \in Nat, NEW f, NEW h,
           \A i \in 1..n : f[i] \in Int /\ h[i] \in Int /\ Cong(h[i], f[i])
    PROVE  Cong(SumTo(h, n), SumTo(f, n))
<1>0. PICK e \in Int : e = 1
  OBVIOUS
<1>1. ASSUME NEW i \in 1..n PROVE Cong(h[i], e * f[i])
  <2>1. e * f[i] = f[i]
    BY <1>0
  <2>2. QED
    BY <2>1
<1>2. Cong(SumTo(h, n), e * SumTo(f, n))
  BY <1>1, SumScaled
<1>3. SumTo(f, n) \in Int
  BY SumInt
<1>4. e * SumTo(f, n) = SumTo(f, n)
  BY <1>0, <1>3
<1>5. QED
  BY <1>2, <1>4

\* The sum of two sums.
LEMMA SumAdded ==
    ASSUME NEW n \in Nat, NEW f, NEW g, NEW h,
           \A i \in 1..n : f[i] \in Int /\ g[i] \in Int /\ h[i] \in Int,
           \A i \in 1..n : Cong(h[i], f[i] + g[i])
    PROVE  Cong(SumTo(h, n), SumTo(f, n) + SumTo(g, n))
<1>0. PICK e \in Int : e = 1
  OBVIOUS
<1>1. ASSUME NEW i \in 1..n PROVE Cong(h[i], e * f[i] + e * g[i])
  <2>1. e * f[i] + e * g[i] = f[i] + g[i]
    BY <1>0
  <2>2. QED
    BY <2>1
<1>2. Cong(SumTo(h, n), e * SumTo(f, n) + e * SumTo(g, n))
  BY <1>1, SumLinear
<1>3. SumTo(f, n) \in Int /\ SumTo(g, n) \in Int
  BY SumInt
<1>4. e * SumTo(f, n) + e * SumTo(g, n) = SumTo(f, n) + SumTo(g, n)
  BY <1>0, <1>3
<1>5. QED
  BY <1>2, <1>4

\* A sum of rows is the sum of columns.
LEMMA SumSwap ==
    ASSUME NEW n \in Nat, NEW m \in Nat, NEW A \in [1..n -> [1..m -> Int]], NEW u, NEW v,
           \A i \in 1..n : u[i] \in Int /\ Cong(u[i], SumTo(A[i], m)),
           \A j \in 1..m : v[j] \in Int /\ Cong(v[j], SumTo([i \in 1..n |-> A[i][j]], n))
    PROVE  Cong(SumTo(u, n), SumTo(v, m))
<1> DEFINE W(k) == [i \in 1..n |-> SumTo(A[i], k)]
           C(j) == [i \in 1..n |-> A[i][j]]
           G == {k \in Nat : k <= m => Cong(SumTo(W(k), n), SumTo(v, k))}
<1>1. ASSUME NEW i \in 1..n
      PROVE  /\ SumTo(A[i], 0) = 0
             /\ \A k \in 0..m : SumTo(A[i], k) \in Int
             /\ \A k \in 1..m : SumTo(A[i], k) = SumTo(A[i], k - 1) + A[i][k]
  <2>1. \A j \in 1..m : A[i][j] \in Int
    OBVIOUS
  <2>2. QED
    BY <2>1, SumEquations
<1>2. /\ SumTo(v, 0) = 0
      /\ \A k \in 0..m : SumTo(v, k) \in Int
      /\ \A k \in 1..m : SumTo(v, k) = SumTo(v, k - 1) + v[k]
  BY SumEquations
<1>3. 0 \in G
  <2>1. \A i \in 1..n : W(0)[i] = 0
    BY <1>1
  <2>1a. PICK z \in Int : z = 0
    OBVIOUS
  <2>2. \A i \in 1..n : W(0)[i] \in Int /\ Cong(W(0)[i], z * W(0)[i])
    BY <2>1, <2>1a, CongRefl
  <2> HIDE DEF W
  <2>3. Cong(SumTo(W(0), n), z * SumTo(W(0), n)) /\ SumTo(W(0), n) \in Int
    BY <2>2, SumScaled, SumInt
  <2>4. z * SumTo(W(0), n) = 0
    BY <2>1a, <2>3
  <2>5. Cong(SumTo(W(0), n), 0)
    BY <2>3, <2>4
  <2>6. QED
    BY <1>2, <2>5
<1>4. ASSUME NEW k \in Nat, k \in G PROVE k + 1 \in G
  <2>1. ASSUME k + 1 <= m PROVE Cong(SumTo(W(k + 1), n), SumTo(v, k + 1))
    <3>1. k \in 0..m /\ k + 1 \in 0..m /\ k + 1 \in 1..m /\ (k + 1) - 1 = k /\ k <= m
      BY <2>1
    <3>2. \A i \in 1..n : /\ W(k)[i] \in Int /\ C(k + 1)[i] \in Int /\ W(k + 1)[i] \in Int
                          /\ W(k + 1)[i] = W(k)[i] + C(k + 1)[i]
      BY <1>1, <3>1
    <3>3. \A i \in 1..n : Cong(W(k + 1)[i], W(k)[i] + C(k + 1)[i])
      BY <3>2, CongRefl
    <3>4. Cong(v[k + 1], SumTo(C(k + 1), n)) /\ v[k + 1] \in Int
      BY <3>1
    <3>5. Cong(SumTo(W(k), n), SumTo(v, k))
      BY <1>4, <3>1
    <3> HIDE DEF W, C
    <3>6. Cong(SumTo(W(k + 1), n), SumTo(W(k), n) + SumTo(C(k + 1), n))
      BY <3>2, <3>3, SumAdded
    <3>7. SumTo(W(k + 1), n) \in Int /\ SumTo(W(k), n) \in Int /\ SumTo(C(k + 1), n) \in Int
      <4>1. /\ \A i \in 1..n : W(k)[i] \in Int
            /\ \A i \in 1..n : C(k + 1)[i] \in Int
            /\ \A i \in 1..n : W(k + 1)[i] \in Int
        BY <3>2
      <4>2. n \in 0..n
        OBVIOUS
      <4>3. QED
        BY <4>1, <4>2, SumEquations
    <3>8. Cong(SumTo(C(k + 1), n), v[k + 1])
      BY <3>4, <3>7, CongSym
    <3>9. SumTo(v, k) \in Int /\ SumTo(v, k + 1) = SumTo(v, k) + v[k + 1]
      BY <1>2, <3>1
    <3>10. Cong(SumTo(W(k), n) + SumTo(C(k + 1), n), SumTo(v, k) + v[k + 1])
      BY <3>4, <3>5, <3>7, <3>8, <3>9, CongAdd
    <3>11. /\ SumTo(W(k), n) + SumTo(C(k + 1), n) \in Int
           /\ SumTo(v, k) + v[k + 1] \in Int
      BY <3>4, <3>7, <3>9
    <3>12. Cong(SumTo(W(k + 1), n), SumTo(v, k) + v[k + 1])
      BY <3>6, <3>7, <3>10, <3>11, CongTrans
    <3>13. QED
      BY <3>9, <3>12
  <2>2. QED
    BY <2>1
<1>5. m \in G
  <2> HIDE DEF G
  <2>1. QED
    BY <1>3, <1>4, InductiveSet
<1>6. Cong(SumTo(W(m), n), SumTo(v, m))
  BY <1>5
<1>7. \A i \in 1..n : u[i] \in Int /\ W(m)[i] \in Int /\ Cong(u[i], W(m)[i])
  BY <1>1
<1> HIDE DEF W
<1>8. Cong(SumTo(u, n), SumTo(W(m), n))
  BY <1>7, SumCongruent
<1>9. SumTo(u, n) \in Int /\ SumTo(W(m), n) \in Int /\ SumTo(v, m) \in Int
  <2>1. /\ \A i \in 1..n : u[i] \in Int
        /\ \A i \in 1..n : W(m)[i] \in Int
    BY <1>7
  <2>2. n \in 0..n /\ m \in 0..m
    OBVIOUS
  <2>3. QED
    BY <1>2, <2>1, <2>2, SumEquations
<1>10. QED
  BY <1>6, <1>8, <1>9, CongTrans

\* A sum with one term.
LEMMA SumSingle ==
    ASSUME NEW n \in Nat, NEW x \in 1..n, NEW f, f[x] \in Int,
           \A i \in 1..n : i # x => f[i] = 0
    PROVE  SumTo(f, n) = f[x]
<1>0. \A i \in 1..n : f[i] \in Int
  OBVIOUS
<1>1. /\ SumTo(f, 0) = 0
      /\ \A m \in 0..n : SumTo(f, m) \in Int
      /\ \A m \in 1..n : SumTo(f, m) = SumTo(f, m - 1) + f[m]
  BY <1>0, SumEquations
<1> DEFINE G == {m \in Nat : m <= n => SumTo(f, m) = IF m < x THEN 0 ELSE f[x]}
<1>2. 0 \in G
  BY <1>1
<1>3. ASSUME NEW m \in Nat, m \in G PROVE m + 1 \in G
  <2>1. ASSUME m + 1 <= n PROVE SumTo(f, m + 1) = IF m + 1 < x THEN 0 ELSE f[x]
    <3>1. m + 1 \in 1..n /\ (m + 1) - 1 = m /\ m <= n
      BY <2>1
    <3>2. SumTo(f, m + 1) = SumTo(f, m) + f[m + 1]
      BY <1>1, <3>1
    <3>3. SumTo(f, m) = IF m < x THEN 0 ELSE f[x]
      BY <1>3, <3>1
    <3>4. CASE m + 1 = x
      BY <3>2, <3>3, <3>4
    <3>5. CASE m + 1 # x
      <4>1. f[m + 1] = 0
        BY <3>1, <3>5
      <4>2. m < x <=> m + 1 < x
        BY <3>5
      <4>3. QED
        BY <3>2, <3>3, <4>1, <4>2
    <3>6. QED
      BY <3>4, <3>5
  <2>2. QED
    BY <2>1
<1> HIDE DEF G
<1>4. n \in G
  BY <1>2, <1>3, InductiveSet
<1>5. QED
  BY <1>4 DEF G

\* A product with one factor taken out.
LEMMA ProductTake ==
    ASSUME NEW n \in Nat, NEW x \in 1..n, NEW f, NEW g, \A i \in 1..n : f[i] \in Int,
           g[x] = 1, \A i \in 1..n : i # x => g[i] = f[i]
    PROVE  /\ ProductTo(f, n) \in Int /\ ProductTo(g, n) \in Int
           /\ ProductTo(f, n) = f[x] * ProductTo(g, n)
<1>0. \A i \in 1..n : g[i] \in Int
  OBVIOUS
<1>1. /\ ProductTo(f, 0) = 1 /\ ProductTo(g, 0) = 1
      /\ \A m \in 0..n : ProductTo(f, m) \in Int /\ ProductTo(g, m) \in Int
      /\ \A m \in 1..n : /\ ProductTo(f, m) = ProductTo(f, m - 1) * f[m]
                         /\ ProductTo(g, m) = ProductTo(g, m - 1) * g[m]
  BY <1>0, ProductEquations
<1> DEFINE G == {m \in Nat : m <= n => ProductTo(f, m) = IF m < x THEN ProductTo(g, m)
                                                         ELSE f[x] * ProductTo(g, m)}
<1>2. 0 \in G
  BY <1>1
<1>3. ASSUME NEW m \in Nat, m \in G PROVE m + 1 \in G
  <2>1. ASSUME m + 1 <= n
        PROVE  ProductTo(f, m + 1) = IF m + 1 < x THEN ProductTo(g, m + 1)
                                     ELSE f[x] * ProductTo(g, m + 1)
    <3>1. m + 1 \in 1..n /\ (m + 1) - 1 = m /\ m <= n /\ m \in 0..n
      BY <2>1
    <3>2. /\ ProductTo(f, m + 1) = ProductTo(f, m) * f[m + 1]
          /\ ProductTo(g, m + 1) = ProductTo(g, m) * g[m + 1]
      BY <1>1, <3>1
    <3>3. ProductTo(f, m) = IF m < x THEN ProductTo(g, m) ELSE f[x] * ProductTo(g, m)
      BY <1>3, <3>1
    <3>3a. PICK pg \in Int, fx \in Int, fm \in Int :
             pg = ProductTo(g, m) /\ fx = f[x] /\ fm = f[m + 1]
      BY <1>1, <3>1
    <3>4. CASE m + 1 = x
      <4>1. ProductTo(f, m + 1) = pg * fx /\ ProductTo(g, m + 1) = pg * 1
        BY <3>2, <3>3, <3>3a, <3>4
      <4>2. pg * fx = fx * (pg * 1)
        OBVIOUS
      <4>3. QED
        BY <3>3a, <3>4, <4>1, <4>2
    <3>5. CASE m + 1 # x
      <4>1. g[m + 1] = fm
        BY <3>1, <3>3a, <3>5
      <4>2. m < x <=> m + 1 < x
        BY <3>5
      <4>3. (fx * pg) * fm = fx * (pg * fm)
        OBVIOUS
      <4>4. QED
        BY <3>2, <3>3, <3>3a, <4>1, <4>2, <4>3
    <3>6. QED
      BY <3>4, <3>5
  <2>2. QED
    BY <2>1
<1> HIDE DEF G
<1>4. n \in G
  BY <1>2, <1>3, InductiveSet
<1>5. n \in 0..n /\ ~(n < x)
  OBVIOUS
<1>6. QED
  BY <1>1, <1>4, <1>5 DEF G

\* A product of ones, and one of factors that are not zero modulo L.
LEMMA ProductOne ==
    ASSUME NEW n \in Nat, NEW f, \A i \in 1..n : f[i] = 1
    PROVE  ProductTo(f, n) = 1
<1>0. \A i \in 1..n : f[i] \in Int
  OBVIOUS
<1>1. /\ ProductTo(f, 0) = 1
      /\ \A m \in 1..n : ProductTo(f, m) = ProductTo(f, m - 1) * f[m]
  BY <1>0, ProductEquations
<1> DEFINE G == {m \in Nat : m <= n => ProductTo(f, m) = 1}
<1>2. 0 \in G
  BY <1>1
<1>3. ASSUME NEW m \in Nat, m \in G PROVE m + 1 \in G
  <2>1. ASSUME m + 1 <= n PROVE ProductTo(f, m + 1) = 1
    <3>1. m + 1 \in 1..n /\ (m + 1) - 1 = m /\ m <= n
      BY <2>1
    <3>2. ProductTo(f, m) = 1 /\ f[m + 1] = 1
      BY <1>3, <3>1
    <3>3. QED
      BY <1>1, <3>1, <3>2
  <2>2. QED
    BY <2>1
<1> HIDE DEF G
<1>4. n \in G
  BY <1>2, <1>3, InductiveSet
<1>5. QED
  BY <1>4 DEF G

\* A product of factors not congruent to zero is not congruent to zero.
LEMMA ProductNonzero ==
    ASSUME NEW n \in Nat, NEW f, \A i \in 1..n : f[i] \in Int /\ ~Cong(f[i], 0)
    PROVE  ProductTo(f, n) \in Int /\ ~Cong(ProductTo(f, n), 0)
<1>0. \A i \in 1..n : f[i] \in Int
  OBVIOUS
<1>1. /\ ProductTo(f, 0) = 1
      /\ \A m \in 0..n : ProductTo(f, m) \in Int
      /\ \A m \in 1..n : ProductTo(f, m) = ProductTo(f, m - 1) * f[m]
  BY <1>0, ProductEquations
<1> DEFINE G == {m \in Nat : m <= n => ~Cong(ProductTo(f, m), 0)}
<1>2. 0 \in G
  <2>1. 1 \in Scalars /\ 0 \in Scalars
    BY PrimeOrder DEF Scalars
  <2>2. ~Cong(1, 0)
    BY <2>1, CongScalars
  <2>3. QED
    BY <1>1, <2>2
<1>3. ASSUME NEW m \in Nat, m \in G PROVE m + 1 \in G
  <2>1. ASSUME m + 1 <= n, Cong(ProductTo(f, m + 1), 0) PROVE FALSE
    <3>1. m + 1 \in 1..n /\ (m + 1) - 1 = m /\ m <= n /\ m \in 0..n
      BY <2>1
    <3>2. PICK p \in Int, k \in Int : p = ProductTo(f, m) /\ k = f[m + 1]
      BY <1>1, <3>1
    <3>3. ~Cong(p, 0) /\ ~Cong(k, 0)
      BY <1>3, <3>1, <3>2
    <3>4. Cong(p * k, 0)
      BY <1>1, <2>1, <3>1, <3>2
    <3>5. p * 0 = 0
      OBVIOUS
    <3>6. Cong(p * k, p * 0)
      BY <3>4, <3>5
    <3>7. Cong(k, 0)
      BY <3>3, <3>6, Cancel
    <3>8. QED
      BY <3>3, <3>7
  <2>2. QED
    BY <2>1
<1> HIDE DEF G
<1>4. n \in G
  BY <1>2, <1>3, InductiveSet
<1>5. n \in 0..n
  OBVIOUS
<1>6. QED
  BY <1>1, <1>4, <1>5 DEF G
-----------------------------------------------------------------------------
(* Lagrange coefficients.                                                  *)

Num(i, S) == ProductOver(S \ {i}, [x \in S \ {i} |-> x])
Den(i, S) == ProductOver(S \ {i}, [x \in S \ {i} |-> x - i])

\* Coordinates of two members differ modulo L, and none is zero.
LEMMA CoordinatesDiffer ==
    ASSUME NEW x \in 1..L - 1, NEW i \in 1..L - 1
    PROVE  /\ x \in Int /\ i \in Int /\ x - i \in Int /\ ~Cong(x, 0)
           /\ x # i => ~Cong(x - i, 0)
<1>1. x \in Scalars /\ i \in Scalars /\ x \in Int /\ i \in Int /\ x # 0 /\ 0 \in Scalars
  BY PrimeOrder DEF Scalars
<1>2. ~Cong(x, 0)
  BY <1>1, CongScalars
<1>3. ASSUME Cong(x - i, 0) PROVE x = i
  <2>1. PICK q \in Int : (x - i) - 0 = q * L
    BY <1>3 DEF Cong
  <2>2. x - i = q * L
    BY <1>1, <2>1
  <2>3. Cong(x, i)
    BY <2>2 DEF Cong
  <2>4. QED
    BY <1>1, <2>3, CongScalars
<1>4. QED
  BY <1>1, <1>2, <1>3

\* The denominator of a coefficient can be inverted.
LEMMA DenNonzero ==
    ASSUME NEW S \in SUBSET (1..L - 1), NEW i \in S
    PROVE  /\ Num(i, S) \in Int /\ Den(i, S) \in Int /\ ~Cong(Den(i, S), 0)
<1> DEFINE T == S \ {i}
           f == [x \in 1..L - 1 |-> IF x \in T THEN [y \in T |-> y][x] ELSE 1]
           g == [x \in 1..L - 1 |-> IF x \in T THEN [y \in T |-> y - i][x] ELSE 1]
<1>0. L - 1 \in Nat /\ 1 \in Int /\ ~Cong(1, 0)
  <2>1. 1 \in Scalars /\ 0 \in Scalars /\ L - 1 \in Nat
    BY PrimeOrder DEF Scalars
  <2>2. QED
    BY <2>1, CongScalars
<1>1. \A x \in 1..L - 1 : f[x] \in Int
  BY <1>0
<1>2. ASSUME NEW x \in 1..L - 1 PROVE g[x] \in Int /\ ~Cong(g[x], 0)
  <2>1. CASE x \in T
    <3>1. g[x] = x - i /\ x # i
      BY <2>1
    <3>2. QED
      BY <3>1, CoordinatesDiffer
  <2>2. CASE x \notin T
    BY <1>0, <2>2
  <2>3. QED
    BY <2>1, <2>2
<1>3. Num(i, S) = ProductTo(f, L - 1) /\ Den(i, S) = ProductTo(g, L - 1)
  BY DEF Num, Den, ProductOver
<1>4. L - 1 \in 0..L - 1
  BY <1>0
<1> HIDE DEF f, g
<1>5. ProductTo(f, L - 1) \in Int
  BY <1>0, <1>1, <1>4, ProductEquations
<1>6. ProductTo(g, L - 1) \in Int /\ ~Cong(ProductTo(g, L - 1), 0)
  BY <1>0, <1>2, ProductNonzero
<1>7. QED
  BY <1>3, <1>5, <1>6

\* A coefficient is the quotient of its two products.
LEMMA LagrangeIs ==
    ASSUME NEW S \in SUBSET (1..L - 1), NEW i \in S
    PROVE  /\ Lagrange(i, S) \in Scalars /\ Lagrange(i, S) \in Int
           /\ Cong(Lagrange(i, S) * Den(i, S), Num(i, S))
<1>1. PICK n \in Int, d \in Int : n = Num(i, S) /\ d = Den(i, S) /\ ~Cong(d, 0)
  BY DenNonzero
<1>2. PICK nm \in Int, dm \in Int : /\ nm = n % L /\ dm = d % L /\ dm \in Scalars
                                    /\ Cong(n, nm) /\ Cong(d, dm)
  BY ModRange
<1>3. dm \in 1..L - 1
  <2>1. dm # 0
    BY <1>1, <1>2
  <2>2. QED
    BY <1>2, <2>1, PrimeOrder DEF Scalars
<1>4. PICK v \in Int : v = Inverses[dm] /\ Cong(dm * v, 1)
  BY <1>3, InverseIs
<1>5. Lagrange(i, S) = (nm * v) % L
  BY <1>1, <1>2, <1>4 DEF Lagrange, Num, Den
<1>6. PICK l \in Int : l = Lagrange(i, S) /\ l \in Scalars /\ Cong(nm * v, l)
  <2>1. nm * v \in Int
    OBVIOUS
  <2>2. QED
    BY <1>5, <2>1, ModRange
<1>7. PICK q1 \in Int : n - nm = q1 * L
  BY <1>2 DEF Cong
<1>8. PICK q2 \in Int : d - dm = q2 * L
  BY <1>2 DEF Cong
<1>9. PICK q3 \in Int : dm * v - 1 = q3 * L
  BY <1>4 DEF Cong
<1>10. PICK q4 \in Int : nm * v - l = q4 * L
  BY <1>6 DEF Cong
<1>11. l * d - n = (nm * v - q4 * L) * (dm + q2 * L) - (nm + q1 * L)
  <2>1. l = nm * v - q4 * L /\ d = dm + q2 * L /\ n = nm + q1 * L
    BY <1>7, <1>8, <1>10, PrimeOrder
  <2>2. QED
    BY <2>1
<1>12. (nm * v - q4 * L) * (dm + q2 * L) - (nm + q1 * L)
          = nm * (dm * v - 1) + ((nm * v) * q2 - q4 * dm - (q4 * L) * q2 - q1) * L
  BY PrimeOrder
<1>13. nm * (q3 * L) + ((nm * v) * q2 - q4 * dm - (q4 * L) * q2 - q1) * L
          = (nm * q3 + (nm * v) * q2 - q4 * dm - (q4 * L) * q2 - q1) * L
  BY PrimeOrder
<1>14. nm * q3 + (nm * v) * q2 - q4 * dm - (q4 * L) * q2 - q1 \in Int
  BY PrimeOrder
<1>15. Cong(l * d, n)
  BY <1>9, <1>11, <1>12, <1>13, <1>14 DEF Cong
<1>16. QED
  BY <1>1, <1>6, <1>15

\* What a member more makes of the products.
LEMMA OneMore ==
    ASSUME NEW S \in SUBSET (1..L - 1), NEW a \in S, NEW i \in S, i # a
    PROVE  /\ Num(i, S) = a * Num(i, S \ {a})
           /\ Den(i, S) = (a - i) * Den(i, S \ {a})
<1> DEFINE T == S \ {i}
           U == (S \ {a}) \ {i}
           f == [x \in 1..L - 1 |-> IF x \in T THEN [y \in T |-> y][x] ELSE 1]
           g == [x \in 1..L - 1 |-> IF x \in T THEN [y \in T |-> y - i][x] ELSE 1]
           fu == [x \in 1..L - 1 |-> IF x \in U THEN [y \in U |-> y][x] ELSE 1]
           gu == [x \in 1..L - 1 |-> IF x \in U THEN [y \in U |-> y - i][x] ELSE 1]
<1>0. L - 1 \in Nat /\ a \in 1..L - 1
  BY PrimeOrder
<1>1. /\ Num(i, S) = ProductTo(f, L - 1) /\ Den(i, S) = ProductTo(g, L - 1)
      /\ Num(i, S \ {a}) = ProductTo(fu, L - 1) /\ Den(i, S \ {a}) = ProductTo(gu, L - 1)
  BY DEF Num, Den, ProductOver
<1>2. \A x \in 1..L - 1 : f[x] \in Int /\ g[x] \in Int
  BY <1>0
<1>3. f[a] = a /\ g[a] = a - i /\ fu[a] = 1 /\ gu[a] = 1
  BY <1>0
<1>4. ASSUME NEW x \in 1..L - 1, x # a PROVE fu[x] = f[x] /\ gu[x] = g[x]
  <2>1. x \in U <=> x \in T
    BY <1>4
  <2>2. QED
    BY <2>1
<1> HIDE DEF f, g, fu, gu
<1>5. ProductTo(f, L - 1) = f[a] * ProductTo(fu, L - 1)
  BY <1>0, <1>2, <1>3, <1>4, ProductTake
<1>6. ProductTo(g, L - 1) = g[a] * ProductTo(gu, L - 1)
  BY <1>0, <1>2, <1>3, <1>4, ProductTake
<1>7. QED
  BY <1>1, <1>3, <1>5, <1>6

\* The recurrence of the coefficients.
LEMMA LagrangeStep ==
    ASSUME NEW S \in SUBSET (1..L - 1), NEW a \in S, NEW i \in S, i # a
    PROVE  Cong(Lagrange(i, S) * (a - i), a * Lagrange(i, S \ {a}))
<1> DEFINE U == S \ {a}
<1>0. U \in SUBSET (1..L - 1) /\ i \in U /\ a \in Int /\ i \in Int
  BY PrimeOrder
<1>1. PICK l \in Int : l = Lagrange(i, S) /\ Cong(l * Den(i, S), Num(i, S))
  BY LagrangeIs
<1>2. PICK k \in Int : k = Lagrange(i, U) /\ Cong(k * Den(i, U), Num(i, U))
  BY <1>0, LagrangeIs
<1>3. PICK d \in Int, n \in Int : d = Den(i, U) /\ n = Num(i, U) /\ ~Cong(d, 0)
  BY <1>0, DenNonzero
<1>4. Cong(l * ((a - i) * d), a * n) /\ Cong(k * d, n)
  BY <1>1, <1>2, <1>3, OneMore
<1>5. PICK q1 \in Int : l * ((a - i) * d) - a * n = q1 * L
  BY <1>4 DEF Cong
<1>6. PICK q2 \in Int : k * d - n = q2 * L
  BY <1>4 DEF Cong
<1>7. d * (l * (a - i)) - d * (a * k) = (l * ((a - i) * d) - a * n) - a * (k * d - n)
  BY <1>0
<1>8. q1 * L - a * (q2 * L) = (q1 - a * q2) * L /\ q1 - a * q2 \in Int
  BY <1>0, PrimeOrder
<1>9. Cong(d * (l * (a - i)), d * (a * k))
  BY <1>5, <1>6, <1>7, <1>8 DEF Cong
<1>10. l * (a - i) \in Int /\ a * k \in Int
  BY <1>0
<1>11. Cong(l * (a - i), a * k)
  BY <1>3, <1>9, <1>10, Cancel
<1>12. QED
  BY <1>1, <1>2, <1>11
-----------------------------------------------------------------------------
(* Interpolation at zero.                                                  *)

\* The m-th moment of the coefficients of S.
Term(S, m) == [x \in 1..L - 1 |-> IF x \in S THEN Power(x, m) * Lagrange(x, S) ELSE 0]
Moment(S, m) == SumTo(Term(S, m), L - 1)

\* Moments are integers.
LEMMA TermInt ==
    ASSUME NEW S \in SUBSET (1..L - 1), NEW m \in Nat
    PROVE  /\ \A x \in 1..L - 1 : Term(S, m)[x] \in Int
           /\ Moment(S, m) \in Int /\ L - 1 \in Nat
<1>1. ASSUME NEW x \in 1..L - 1 PROVE Term(S, m)[x] \in Int
  <2>1. x \in Int
    BY PrimeOrder
  <2>2. CASE x \in S
    <3>1. Power(x, m) \in Int /\ Lagrange(x, S) \in Int
      BY <2>1, <2>2, PowerEquations, LagrangeIs
    <3>2. QED
      BY <2>2, <3>1 DEF Term
  <2>3. CASE x \notin S
    BY <2>3 DEF Term
  <2>4. QED
    BY <2>2, <2>3
<1>2. L - 1 \in Nat
  BY PrimeOrder
<1>3. QED
  BY <1>1, <1>2, SumInt DEF Moment

\* The recurrence of the moments.
LEMMA MomentStep ==
    ASSUME NEW S \in SUBSET (1..L - 1), NEW a \in S, NEW m \in Nat
    PROVE  Cong(Moment(S, m + 1), a * Moment(S, m) + (-a) * Moment(S \ {a}, m))
<1> DEFINE U == S \ {a}
           f == Term(S, m)
           g == Term(U, m)
           h == Term(S, m + 1)
<1>0. U \in SUBSET (1..L - 1) /\ a \in Int /\ -a \in Int /\ m + 1 \in Nat /\ L - 1 \in Nat
  BY PrimeOrder
<1>1. \A x \in 1..L - 1 : f[x] \in Int /\ g[x] \in Int /\ h[x] \in Int
  BY <1>0, TermInt
<1>2. ASSUME NEW x \in 1..L - 1 PROVE Cong(h[x], a * f[x] + (-a) * g[x])
  <2>0. x \in Int
    BY PrimeOrder
  <2>1. PICK p \in Int, r \in Int : p = Power(x, m) /\ r = Power(x, m + 1) /\ Cong(p * x, r)
    <3>1. Power(x, m) \in Int /\ Power(x, m + 1) = (Power(x, m) * x) % L
      BY <2>0, PowerEquations
    <3>2. Power(x, m) * x \in Int
      BY <2>0, <3>1
    <3>3. QED
      BY <3>1, <3>2, ModRange
  <2>2. PICK q1 \in Int : p * x - r = q1 * L
    BY <2>1 DEF Cong
  <2>3. CASE x \notin S
    <3>1. h[x] = 0 /\ f[x] = 0 /\ g[x] = 0
      BY <2>3 DEF Term
    <3>2. a * 0 + (-a) * 0 = 0
      BY <1>0
    <3>3. QED
      BY <3>1, <3>2, CongRefl
  <2>4. CASE x = a
    <3>1. PICK l \in Int : l = Lagrange(x, S)
      BY <2>4, LagrangeIs
    <3>2. h[x] = r * l /\ f[x] = p * l /\ g[x] = 0
      BY <2>1, <2>4, <3>1 DEF Term
    <3>3. r * l - (x * (p * l) + (-x) * 0) = (-(p * x - r)) * l
      BY <2>0
    <3>4. (-(q1 * L)) * l = (-(q1 * l)) * L /\ -(q1 * l) \in Int
      BY PrimeOrder
    <3>5. Cong(r * l, x * (p * l) + (-x) * 0)
      BY <2>2, <3>3, <3>4 DEF Cong
    <3>6. QED
      BY <2>4, <3>2, <3>5
  <2>5. CASE x \in S /\ x # a
    <3>1. PICK l \in Int, k \in Int : /\ l = Lagrange(x, S) /\ k = Lagrange(x, U)
                                      /\ Cong(l * (a - x), a * k)
      BY <1>0, <2>5, LagrangeIs, LagrangeStep
    <3>2. h[x] = r * l /\ f[x] = p * l /\ g[x] = p * k
      BY <2>1, <2>5, <3>1 DEF Term
    <3>3. PICK q2 \in Int : l * (a - x) - a * k = q2 * L
      BY <3>1 DEF Cong
    <3>4. r * l - (a * (p * l) + (-a) * (p * k)) = (-(p * x - r)) * l - p * (l * (a - x) - a * k)
      BY <1>0, <2>0
    <3>5. (-(q1 * L)) * l - p * (q2 * L) = (-(q1 * l) - p * q2) * L /\ -(q1 * l) - p * q2 \in Int
      BY PrimeOrder
    <3>6. Cong(r * l, a * (p * l) + (-a) * (p * k))
      BY <2>2, <3>3, <3>4, <3>5 DEF Cong
    <3>7. QED
      BY <3>2, <3>6
  <2>6. QED
    BY <2>3, <2>4, <2>5
<1> HIDE DEF f, g, h
<1>3. PICK b \in Int : b = -a
  BY <1>0
<1>4. \A x \in 1..L - 1 : Cong(h[x], a * f[x] + b * g[x])
  BY <1>2, <1>3
<1>5. Cong(SumTo(h, L - 1), a * SumTo(f, L - 1) + b * SumTo(g, L - 1))
  BY <1>0, <1>1, <1>4, SumLinear
<1>6. QED
  BY <1>3, <1>5 DEF Moment, f, g, h

\* One member alone.
LEMMA MomentSingle ==
    ASSUME NEW x \in 1..L - 1
    PROVE  Cong(Moment({x}, 0), 1)
<1>0. x \in Int /\ L - 1 \in Nat /\ {x} \in SUBSET (1..L - 1) /\ x \in {x}
  BY PrimeOrder
<1>1. Power(x, 0) = 1
  BY <1>0, PowerEquations
<1>2. Num(x, {x}) = 1 /\ Den(x, {x}) = 1
  <2> DEFINE T == {x} \ {x}
             f == [z \in 1..L - 1 |-> IF z \in T THEN [y \in T |-> y][z] ELSE 1]
             g == [z \in 1..L - 1 |-> IF z \in T THEN [y \in T |-> y - x][z] ELSE 1]
  <2>1. Num(x, {x}) = ProductTo(f, L - 1) /\ Den(x, {x}) = ProductTo(g, L - 1)
    BY DEF Num, Den, ProductOver
  <2>2. \A i \in 1..L - 1 : f[i] = 1 /\ g[i] = 1
    OBVIOUS
  <2> HIDE DEF f, g
  <2>3. QED
    BY <1>0, <2>1, <2>2, ProductOne
<1>3. PICK l \in Int : l = Lagrange(x, {x}) /\ Cong(l * 1, 1)
  BY <1>0, <1>2, LagrangeIs
<1>4. Term({x}, 0)[x] = l /\ \A i \in 1..L - 1 : i # x => Term({x}, 0)[i] = 0
  BY <1>1, <1>3 DEF Term
<1>5. Moment({x}, 0) = Term({x}, 0)[x]
  BY <1>0, <1>4, SumSingle DEF Moment
<1>6. l * 1 = l
  OBVIOUS
<1>7. QED
  BY <1>3, <1>4, <1>5, <1>6

Unit(m) == IF m = 0 THEN 1 ELSE 0

\* Lagrange's theorem at zero: the coefficients of n + 1 members add up to one
\* and annihilate the powers from 1 to n.
LEMMA MomentsAre ==
    \A n \in Nat : \A S \in SUBSET (1..L - 1) :
        Cardinality(S) = n + 1 => \A m \in 0..n : Cong(Moment(S, m), Unit(m))
<1> DEFINE Right(S, n) == \A m \in 0..n : Cong(Moment(S, m), Unit(m))
           G == {n \in Nat : \A S \in SUBSET (1..L - 1) : Cardinality(S) = n + 1 => Right(S, n)}
<1>0. \A S \in SUBSET (1..L - 1) : IsFiniteSet(S)
  <2>1. IsFiniteSet(1..L - 1)
    BY FS_Interval, PrimeOrder
  <2>2. QED
    BY <2>1, FS_Subset
<1>1. 0 \in G
  <2>1. ASSUME NEW S \in SUBSET (1..L - 1), Cardinality(S) = 1 PROVE Cong(Moment(S, 0), Unit(0))
    <3>1. PICK x : S = {x}
      BY <1>0, <2>1, FS_Singleton
    <3>2. x \in 1..L - 1
      BY <3>1
    <3>3. QED
      BY <3>1, <3>2, MomentSingle DEF Unit
  <2>2. QED
    BY <2>1
<1>2. ASSUME NEW n \in Nat, n \in G PROVE n + 1 \in G
  <2>1. ASSUME NEW S \in SUBSET (1..L - 1), Cardinality(S) = (n + 1) + 1 PROVE Right(S, n + 1)
    <3>0. IsFiniteSet(S)
      BY <1>0
    <3>1. S # {}
      BY <2>1, FS_EmptySet
    <3>2. PICK a \in S : TRUE
      BY <3>1
    <3>3. IsFiniteSet(S \ {a}) /\ Cardinality(S \ {a}) = n + 1
      BY <2>1, <3>0, FS_RemoveElement
    <3>4. S \ {a} # {}
      BY <3>3, FS_EmptySet
    <3>5. PICK b \in S : b # a
      BY <3>4
    <3>6. Cardinality(S \ {b}) = n + 1
      BY <2>1, <3>0, FS_RemoveElement
    <3>7. /\ \A m \in 0..n : Cong(Moment(S \ {a}, m), Unit(m))
          /\ \A m \in 0..n : Cong(Moment(S \ {b}, m), Unit(m))
      <4>1. S \ {a} \in SUBSET (1..L - 1) /\ S \ {b} \in SUBSET (1..L - 1)
        OBVIOUS
      <4>2. QED
        BY <1>2, <3>3, <3>6, <4>1
    <3>8. a \in 1..L - 1 /\ b \in 1..L - 1 /\ a \in Int /\ b \in Int
      BY PrimeOrder
    <3>9. PICK f0 \in Int, f1 \in Int, ga \in Int, gb \in Int :
            f0 = Moment(S, 0) /\ f1 = Moment(S, 1) /\ ga = Moment(S \ {a}, 0) /\ gb = Moment(S \ {b}, 0)
      <4>1. S \ {a} \in SUBSET (1..L - 1) /\ S \ {b} \in SUBSET (1..L - 1) /\ 0 \in Nat /\ 1 \in Nat
        OBVIOUS
      <4>2. QED
        BY <4>1, TermInt
    <3>10. Cong(ga, 1) /\ Cong(gb, 1)
      BY <3>7, <3>9 DEF Unit
    <3>11. Cong(f1, a * f0 + (-a) * ga) /\ Cong(f1, b * f0 + (-b) * gb)
      <4>1. Cong(Moment(S, 0 + 1), a * Moment(S, 0) + (-a) * Moment(S \ {a}, 0))
        BY MomentStep
      <4>2. Cong(Moment(S, 0 + 1), b * Moment(S, 0) + (-b) * Moment(S \ {b}, 0))
        BY MomentStep
      <4>3. QED
        BY <3>9, <4>1, <4>2
    <3>12. PICK q1 \in Int : ga - 1 = q1 * L
      BY <3>10 DEF Cong
    <3>13. PICK q2 \in Int : gb - 1 = q2 * L
      BY <3>10 DEF Cong
    <3>14. PICK q3 \in Int : f1 - (a * f0 + (-a) * ga) = q3 * L
      BY <3>11 DEF Cong
    <3>15. PICK q4 \in Int : f1 - (b * f0 + (-b) * gb) = q4 * L
      BY <3>11 DEF Cong
    <3>16. (a - b) * f0 - (a - b) * 1 = (f1 - (b * f0 + (-b) * gb)) - (f1 - (a * f0 + (-a) * ga))
                                          + a * (ga - 1) - b * (gb - 1)
      BY <3>8
    <3>17. (q4 * L - q3 * L) + a * (q1 * L) - b * (q2 * L) = (q4 - q3 + a * q1 - b * q2) * L
      BY <3>8, PrimeOrder
    <3>18. q4 - q3 + a * q1 - b * q2 \in Int
      BY <3>8
    <3>19. Cong((a - b) * f0, (a - b) * 1)
      BY <3>12, <3>13, <3>14, <3>15, <3>16, <3>17, <3>18 DEF Cong
    <3>20. Cong(f0, 1)
      <4>1. a - b \in Int /\ ~Cong(a - b, 0)
        BY <3>5, <3>8, CoordinatesDiffer
      <4>2. PICK e \in Int : e = 1
        OBVIOUS
      <4>3. Cong((a - b) * f0, (a - b) * e)
        BY <3>19, <4>2
      <4>4. Cong(f0, e)
        BY <4>1, <4>3, Cancel
      <4>5. QED
        BY <4>2, <4>4
    <3>21. Cong(f1, 0)
      <4>1. PICK q5 \in Int : f0 - 1 = q5 * L
        BY <3>20 DEF Cong
      <4>2. f1 - 0 = (f1 - (a * f0 + (-a) * ga)) + a * (f0 - 1) - a * (ga - 1)
        BY <3>8
      <4>3. q3 * L + a * (q5 * L) - a * (q1 * L) = (q3 + a * q5 - a * q1) * L /\ q3 + a * q5 - a * q1 \in Int
        BY <3>8, PrimeOrder
      <4>4. QED
        BY <3>12, <3>14, <4>1, <4>2, <4>3 DEF Cong
    <3> DEFINE H == {m \in Nat : m <= n => Cong(Moment(S, m + 1), 0)}
    <3>22. 0 \in H
      BY <3>9, <3>21
    <3>23. ASSUME NEW m \in Nat, m \in H PROVE m + 1 \in H
      <4>1. ASSUME m + 1 <= n PROVE Cong(Moment(S, (m + 1) + 1), 0)
        <5>0. m + 1 \in Nat /\ m + 1 \in 0..n /\ m + 1 # 0 /\ m <= n /\ (m + 1) + 1 \in Nat
          BY <4>1
        <5>1. PICK u \in Int, v \in Int, w \in Int :
                /\ u = Moment(S, m + 1) /\ v = Moment(S \ {a}, m + 1)
                /\ w = Moment(S, (m + 1) + 1)
          BY <5>0, TermInt
        <5>2. Cong(u, 0) /\ Cong(v, 0)
          BY <3>7, <3>23, <5>0, <5>1 DEF Unit
        <5>3. Cong(w, a * u + (-a) * v)
          BY <5>0, <5>1, MomentStep
        <5>4. PICK r1 \in Int : u - 0 = r1 * L
          BY <5>2 DEF Cong
        <5>5. PICK r2 \in Int : v - 0 = r2 * L
          BY <5>2 DEF Cong
        <5>6. PICK r3 \in Int : w - (a * u + (-a) * v) = r3 * L
          BY <5>3 DEF Cong
        <5>7. w - 0 = (w - (a * u + (-a) * v)) + a * (u - 0) - a * (v - 0)
          BY <3>8
        <5>8. r3 * L + a * (r1 * L) - a * (r2 * L) = (r3 + a * r1 - a * r2) * L /\ r3 + a * r1 - a * r2 \in Int
          BY <3>8, PrimeOrder
        <5>9. Cong(w, 0)
          BY <5>4, <5>5, <5>6, <5>7, <5>8 DEF Cong
        <5>10. QED
          BY <5>1, <5>9
      <4>2. QED
        BY <4>1
    <3>24. \A m \in Nat : m \in H
      <4> HIDE DEF H
      <4>1. QED
        BY <3>22, <3>23, InductiveSet
    <3>25. ASSUME NEW m \in 0..n + 1 PROVE Cong(Moment(S, m), Unit(m))
      <4>1. CASE m = 0
        BY <3>9, <3>20, <4>1 DEF Unit
      <4>2. CASE m # 0
        <5>1. m - 1 \in Nat /\ m - 1 <= n /\ (m - 1) + 1 = m
          BY <4>2
        <5>2. m - 1 \in H
          BY <3>24, <5>1
        <5>3. Cong(Moment(S, (m - 1) + 1), 0)
          BY <5>1, <5>2
        <5>4. QED
          BY <4>2, <5>1, <5>3 DEF Unit
      <4>3. QED
        BY <4>1, <4>2
    <3>26. QED
      BY <3>25
  <2>2. QED
    BY <2>1
<1>3. \A n \in Nat : n \in G
  <2> HIDE DEF G
  <2>1. QED
    BY <1>1, <1>2, InductiveSet
<1>4. QED
  BY <1>3
-----------------------------------------------------------------------------
(* Polynomials.                                                            *)

\* A sum of zeros.
LEMMA SumZero ==
    ASSUME NEW n \in Nat, NEW f, \A i \in 1..n : f[i] = 0
    PROVE  SumTo(f, n) = 0
<1>1. CASE n = 0
  BY <1>1, SumEquations
<1>2. CASE n # 0
  <2>1. 1 \in 1..n /\ f[1] = 0 /\ f[1] \in Int
    BY <1>2
  <2>2. QED
    BY <2>1, SumSingle
<1>3. QED
  BY <1>1, <1>2

\* Sums over a set of members are integers ...
LEMMA SumOverInt ==
    ASSUME NEW S \in SUBSET (1..L - 1), NEW f, \A i \in S : f[i] \in Int
    PROVE  SumOver(S, f) \in Int
<1> DEFINE g == [x \in 1..L - 1 |-> IF x \in S THEN f[x] ELSE 0]
<1>1. L - 1 \in Nat /\ \A i \in 1..L - 1 : g[i] \in Int
  BY PrimeOrder
<1>2. SumOver(S, f) = SumTo(g, L - 1)
  BY DEF SumOver
<1> HIDE DEF g
<1>3. QED
  BY <1>1, <1>2, SumInt

\* ... and linear.
LEMMA SumOverLinear ==
    ASSUME NEW S \in SUBSET (1..L - 1), NEW f, NEW g, NEW h, NEW a \in Int, NEW b \in Int,
           \A i \in S : f[i] \in Int /\ g[i] \in Int /\ h[i] \in Int,
           \A i \in S : Cong(h[i], a * f[i] + b * g[i])
    PROVE  Cong(SumOver(S, h), a * SumOver(S, f) + b * SumOver(S, g))
<1> DEFINE F == [x \in 1..L - 1 |-> IF x \in S THEN f[x] ELSE 0]
           G == [x \in 1..L - 1 |-> IF x \in S THEN g[x] ELSE 0]
           H == [x \in 1..L - 1 |-> IF x \in S THEN h[x] ELSE 0]
<1>1. L - 1 \in Nat /\ \A i \in 1..L - 1 : F[i] \in Int /\ G[i] \in Int /\ H[i] \in Int
  BY PrimeOrder
<1>2. ASSUME NEW i \in 1..L - 1 PROVE Cong(H[i], a * F[i] + b * G[i])
  <2>1. CASE i \in S
    BY <2>1
  <2>2. CASE i \notin S
    <3>1. F[i] = 0 /\ G[i] = 0 /\ H[i] = 0
      BY <2>2
    <3>2. a * 0 + b * 0 = 0
      OBVIOUS
    <3>3. QED
      BY <3>1, <3>2, CongRefl
  <2>3. QED
    BY <2>1, <2>2
<1>3. /\ SumOver(S, f) = SumTo(F, L - 1) /\ SumOver(S, g) = SumTo(G, L - 1)
      /\ SumOver(S, h) = SumTo(H, L - 1)
  BY DEF SumOver
<1> HIDE DEF F, G, H
<1>4. QED
  BY <1>1, <1>2, <1>3, SumLinear

\* The value of a polynomial with k coefficients, before it is reduced.
Value(p, k, x) == SumTo([j \in 1..k |-> p[j] * Power(x, j - 1)], k)

\* A polynomial with integer coefficients has integer values.
LEMMA ValueInt ==
    ASSUME NEW k \in Nat, NEW p \in [1..k -> Int], NEW x \in Int
    PROVE  /\ \A j \in 1..k : p[j] \in Int /\ j - 1 \in Nat /\ Power(x, j - 1) \in Int
           /\ Value(p, k, x) \in Int
<1> DEFINE f == [j \in 1..k |-> p[j] * Power(x, j - 1)]
<1>1. \A j \in 1..k : p[j] \in Int /\ j - 1 \in Nat
  OBVIOUS
<1>2. \A j \in 1..k : Power(x, j - 1) \in Int
  BY <1>1, PowerEquations
<1>3. \A j \in 1..k : f[j] \in Int
  BY <1>1, <1>2
<1>4. Value(p, k, x) = SumTo(f, k)
  BY DEF Value
<1> HIDE DEF f
<1>5. Value(p, k, x) \in Int
  BY <1>3, <1>4, SumInt
<1>6. QED
  BY <1>1, <1>2, <1>5

\* evalPolyL gives the reduced value.
LEMMA EvalIsValue ==
    ASSUME NEW k \in Nat, NEW p \in [1..k -> Int], NEW x \in Int
    PROVE  /\ Len(p) = k
           /\ EvalPolyL(p, x) = Value(p, k, x) % L
           /\ EvalPolyL(p, x) \in Scalars /\ EvalPolyL(p, x) \in Int
           /\ Cong(EvalPolyL(p, x), Value(p, k, x))
<1>1. Len(p) = k
  OBVIOUS
<1>2. EvalPolyL(p, x) = Value(p, k, x) % L
  BY <1>1 DEF EvalPolyL, Value
<1>3. Value(p, k, x) \in Int
  BY ValueInt
<1>4. QED
  BY <1>1, <1>2, <1>3, ModRange, CongSym

\* Congruent coefficients, congruent values.
LEMMA ValueCongruent ==
    ASSUME NEW k \in Nat, NEW p \in [1..k -> Int], NEW r \in [1..k -> Int], NEW x \in Int,
           \A j \in 1..k : Cong(p[j], r[j])
    PROVE  Cong(Value(p, k, x), Value(r, k, x))
<1> DEFINE f == [j \in 1..k |-> p[j] * Power(x, j - 1)]
           g == [j \in 1..k |-> r[j] * Power(x, j - 1)]
<1>1. \A j \in 1..k : p[j] \in Int /\ r[j] \in Int /\ Power(x, j - 1) \in Int
  BY ValueInt
<1>2. \A j \in 1..k : f[j] \in Int /\ g[j] \in Int
  BY <1>1
<1>3. \A j \in 1..k : Cong(f[j], g[j])
  BY <1>1, CongScale
<1>4. Value(p, k, x) = SumTo(f, k) /\ Value(r, k, x) = SumTo(g, k)
  BY DEF Value
<1> HIDE DEF f, g
<1>5. QED
  BY <1>2, <1>3, <1>4, SumCongruent

\* The sum of polynomials takes the sum of their values.
LEMMA ValuesAdd ==
    ASSUME NEW S \in SUBSET (1..L - 1), NEW k \in Nat, NEW P \in [S -> [1..k -> Int]],
           NEW c \in [1..k -> Int], NEW x \in Int, NEW y,
           \A j \in 1..k : Cong(c[j], SumOver(S, [i \in S |-> P[i][j]])),
           \A i \in S : y[i] \in Int /\ Cong(y[i], Value(P[i], k, x))
    PROVE  Cong(SumOver(S, y), Value(c, k, x))
<1> DEFINE M == L - 1
           A == [i \in 1..M |-> [j \in 1..k |-> IF i \in S THEN P[i][j] * Power(x, j - 1) ELSE 0]]
           u == [i \in 1..M |-> IF i \in S THEN y[i] ELSE 0]
           v == [j \in 1..k |-> c[j] * Power(x, j - 1)]
<1>0. M \in Nat
  BY PrimeOrder
<1>1. \A j \in 1..k : Power(x, j - 1) \in Int /\ c[j] \in Int
  BY ValueInt
<1>2. \A i \in S : P[i] \in [1..k -> Int] /\ \A j \in 1..k : P[i][j] \in Int
  OBVIOUS
<1>3. A \in [1..M -> [1..k -> Int]]
  BY <1>1, <1>2
<1>4. ASSUME NEW i \in 1..M PROVE u[i] \in Int /\ Cong(u[i], SumTo(A[i], k))
  <2>1. CASE i \in S
    <3>1. A[i] = [j \in 1..k |-> P[i][j] * Power(x, j - 1)] /\ u[i] = y[i]
      BY <2>1
    <3>2. SumTo(A[i], k) = Value(P[i], k, x)
      BY <3>1 DEF Value
    <3>3. QED
      BY <2>1, <3>1, <3>2
  <2>2. CASE i \notin S
    <3>1. \A j \in 1..k : A[i][j] = 0
      BY <2>2
    <3>2. u[i] = 0
      BY <2>2
    <3> HIDE DEF A, u
    <3>3. SumTo(A[i], k) = 0
      BY <3>1, SumZero
    <3>4. QED
      BY <3>2, <3>3, CongRefl
  <2>3. QED
    BY <2>1, <2>2
<1>5. ASSUME NEW j \in 1..k PROVE v[j] \in Int /\ Cong(v[j], SumTo([i \in 1..M |-> A[i][j]], M))
  <2> DEFINE f == [i \in 1..M |-> IF i \in S THEN [n \in S |-> P[n][j]][i] ELSE 0]
             h == [i \in 1..M |-> A[i][j]]
  <2>1. PICK pw \in Int : pw = Power(x, j - 1)
    BY <1>1
  <2>2. \A i \in 1..M : f[i] \in Int /\ h[i] \in Int
    BY <1>2, <1>3
  <2>3. \A i \in 1..M : Cong(h[i], pw * f[i])
    <3>1. \A i \in 1..M : h[i] = pw * f[i]
      BY <1>2, <2>1
    <3> HIDE DEF f, h
    <3>2. QED
      BY <2>2, <3>1, CongRefl
  <2>4. SumOver(S, [n \in S |-> P[n][j]]) = SumTo(f, M)
    BY DEF SumOver
  <2>5. v[j] = c[j] * pw
    BY <2>1
  <2>6. Cong(c[j], SumTo(f, M))
    BY <2>4
  <2> HIDE DEF f, M
  <2>7. SumTo(f, M) \in Int
    BY <1>0, <2>2, SumInt
  <2>8. SumTo(h, M) \in Int /\ Cong(SumTo(h, M), pw * SumTo(f, M))
    <3> HIDE DEF h
    <3>1. QED
      BY <1>0, <2>2, <2>3, SumInt, SumScaled
  <2>9. PICK sf \in Int, sh \in Int, cj \in Int : sf = SumTo(f, M) /\ sh = SumTo(h, M) /\ cj = c[j]
    BY <1>1, <2>7, <2>8
  <2>10. Cong(pw * cj, pw * sf)
    BY <2>6, <2>9, CongScale
  <2>11. Cong(pw * sf, sh)
    BY <2>8, <2>9, CongSym
  <2>12. Cong(pw * cj, sh)
    BY <2>10, <2>11, CongTrans
  <2>13. cj * pw = pw * cj
    OBVIOUS
  <2>14. Cong(v[j], sh) /\ v[j] \in Int
    BY <2>5, <2>9, <2>12, <2>13
  <2>15. QED
    BY <2>9, <2>14
<1>6. SumOver(S, y) = SumTo(u, M) /\ Value(c, k, x) = SumTo(v, k)
  BY DEF SumOver, Value
<1> HIDE DEF A, u, v, M
<1>7. QED
  BY <1>0, <1>3, <1>4, <1>5, <1>6, SumSwap

\* Interpolation at zero: as many shares as the polynomial has coefficients,
\* or more, join to the secret.
LEMMA Interpolation ==
    ASSUME NEW S \in SUBSET (1..L - 1), NEW k \in Nat, 1 <= k, k <= Cardinality(S),
           NEW c \in [1..k -> Int], NEW y,
           \A x \in S : y[x] \in Int /\ Cong(y[x], Value(c, k, x))
    PROVE  Cong(SumOver(S, [x \in S |-> y[x] * Lagrange(x, S)]), c[1])
<1> DEFINE M == L - 1
           A == [x \in 1..M |-> [j \in 1..k |->
                    IF x \in S THEN c[j] * (Power(x, j - 1) * Lagrange(x, S)) ELSE 0]]
           u == [x \in 1..M |-> IF x \in S THEN [z \in S |-> y[z] * Lagrange(z, S)][x] ELSE 0]
           v == [j \in 1..k |-> IF j = 1 THEN c[j] ELSE 0]
<1>0. M \in Nat /\ \A x \in 1..M : x \in Int
  BY PrimeOrder
<1>1. \A j \in 1..k : c[j] \in Int /\ j - 1 \in Nat
  OBVIOUS
<1>2. \A x \in S : Lagrange(x, S) \in Int /\ \A j \in 1..k : Power(x, j - 1) \in Int
  BY <1>0, ValueInt, LagrangeIs
<1>3. A \in [1..M -> [1..k -> Int]]
  BY <1>1, <1>2
<1>4. ASSUME NEW x \in 1..M PROVE u[x] \in Int /\ Cong(u[x], SumTo(A[x], k))
  <2>1. CASE x \in S
    <3> DEFINE f == [j \in 1..k |-> c[j] * Power(x, j - 1)]
    <3>1. PICK l \in Int : l = Lagrange(x, S)
      BY <1>2, <2>1
    <3>2. \A j \in 1..k : f[j] \in Int /\ A[x][j] \in Int
      BY <1>1, <1>2, <1>3, <2>1
    <3>3. \A j \in 1..k : A[x][j] = l * f[j]
      BY <1>1, <1>2, <2>1, <3>1
    <3>4. Value(c, k, x) = SumTo(f, k)
      BY DEF Value
    <3>5. u[x] = y[x] * l
      BY <2>1, <3>1
    <3>6. Value(c, k, x) \in Int
      BY <1>0, ValueInt
    <3> HIDE DEF A, f, u
    <3>7. \A j \in 1..k : Cong(A[x][j], l * f[j])
      BY <3>2, <3>3, CongRefl
    <3>8. Cong(SumTo(A[x], k), l * SumTo(f, k)) /\ SumTo(A[x], k) \in Int
      BY <3>2, <3>7, SumScaled, SumInt
    <3>9. PICK yx \in Int, vx \in Int, s \in Int : yx = y[x] /\ vx = Value(c, k, x) /\ s = SumTo(A[x], k)
      BY <2>1, <3>6, <3>8
    <3>10. Cong(l * yx, l * vx)
      BY <2>1, <3>9, CongScale
    <3>11. Cong(l * vx, s)
      BY <3>4, <3>8, <3>9, CongSym
    <3>12. Cong(l * yx, s) /\ yx * l = l * yx
      BY <3>10, <3>11, CongTrans
    <3>13. QED
      BY <3>5, <3>9, <3>12
  <2>2. CASE x \notin S
    <3>1. \A j \in 1..k : A[x][j] = 0
      BY <2>2
    <3>2. u[x] = 0
      BY <2>2
    <3> HIDE DEF A, u
    <3>3. SumTo(A[x], k) = 0
      BY <3>1, SumZero
    <3>4. QED
      BY <3>2, <3>3, CongRefl
  <2>3. QED
    BY <2>1, <2>2
<1>5. ASSUME NEW j \in 1..k PROVE v[j] \in Int /\ Cong(v[j], SumTo([x \in 1..M |-> A[x][j]], M))
  <2> DEFINE h == [x \in 1..M |-> A[x][j]]
             f == Term(S, j - 1)
  <2>1. PICK cj \in Int : cj = c[j]
    BY <1>1
  <2>2. \A x \in 1..M : f[x] \in Int /\ h[x] \in Int
    <3>1. \A x \in 1..M : f[x] \in Int
      BY <1>1, TermInt
    <3>2. \A x \in 1..M : h[x] \in Int
      BY <1>3
    <3>3. QED
      BY <3>1, <3>2
  <2>3. \A x \in 1..M : h[x] = cj * f[x]
    BY <1>1, <1>2, <2>1 DEF Term
  <2>4. Moment(S, j - 1) = SumTo(f, M)
    BY DEF Moment
  <2>5. Cong(Moment(S, j - 1), Unit(j - 1)) /\ Moment(S, j - 1) \in Int
    <3>1. IsFiniteSet(S)
      <4>1. IsFiniteSet(1..L - 1)
        BY FS_Interval, PrimeOrder
      <4>2. QED
        BY <4>1, FS_Subset
    <3>2. Cardinality(S) \in Nat
      BY <3>1, FS_CardinalityType
    <3>3. PICK n \in Nat : Cardinality(S) = n + 1
      <4>1. Cardinality(S) - 1 \in Nat /\ Cardinality(S) = (Cardinality(S) - 1) + 1
        BY <3>2
      <4>2. QED
        BY <4>1
    <3>4. j - 1 \in 0..n
      BY <3>3
    <3>5. QED
      BY <1>1, <3>3, <3>4, MomentsAre, TermInt
  <2>6. v[j] = cj * Unit(j - 1) /\ Unit(j - 1) \in Int
    <3>1. CASE j = 1
      <4>1. Unit(j - 1) = 1 /\ v[j] = cj
        BY <2>1, <3>1 DEF Unit
      <4>2. QED
        BY <4>1
    <3>2. CASE j # 1
      <4>1. Unit(j - 1) = 0 /\ v[j] = 0
        BY <3>2 DEF Unit
      <4>2. QED
        BY <4>1
    <3>3. QED
      BY <3>1, <3>2
  <2> HIDE DEF h, f, v, M
  <2>7. \A x \in 1..M : Cong(h[x], cj * f[x])
    BY <2>2, <2>3, CongRefl
  <2>8. Cong(SumTo(h, M), cj * SumTo(f, M)) /\ SumTo(h, M) \in Int
    BY <1>0, <2>2, <2>7, SumScaled, SumInt
  <2>9. PICK mo \in Int, un \in Int, s \in Int : mo = Moment(S, j - 1) /\ un = Unit(j - 1) /\ s = SumTo(h, M)
    BY <2>5, <2>6, <2>8
  <2>10. Cong(s, cj * mo)
    BY <2>4, <2>8, <2>9
  <2>11. Cong(cj * mo, cj * un)
    BY <2>5, <2>9, CongScale
  <2>12. Cong(cj * un, s)
    BY <2>10, <2>11, CongTrans, CongSym
  <2>13. Cong(v[j], s) /\ v[j] \in Int
    BY <2>6, <2>9, <2>12
  <2>14. QED
    BY <2>9, <2>13 DEF h
<1>6. SumTo(v, k) = c[1]
  <2>1. 1 \in 1..k /\ v[1] = c[1] /\ v[1] \in Int /\ \A i \in 1..k : i # 1 => v[i] = 0
    OBVIOUS
  <2> HIDE DEF v
  <2>2. QED
    BY <2>1, SumSingle
<1>7. SumOver(S, [x \in S |-> y[x] * Lagrange(x, S)]) = SumTo(u, M)
  BY DEF SumOver
<1> HIDE DEF A, u, v, M
<1>8. Cong(SumTo(u, M), SumTo(v, k))
  BY <1>0, <1>3, <1>4, <1>5, SumSwap
<1>9. QED
  BY <1>6, <1>7, <1>8
-----------------------------------------------------------------------------
(* The inductive invariant of the key material.                            *)

Held == {m \in Seats : file[m] # None}

\* A share file of member m loads: it is a point of a polynomial, whose constant
\* coefficient is the group key if no dealer was missing.
GoodFile(m, f) ==
    /\ f.gen \in 0..rounds
    /\ f.vk \in [1..t[f.gen + 1] -> Scalars] /\ (f.whole => f.vk[1] = group)
    /\ f.y \in Scalars /\ f.pub = f.y % L
    /\ ShareVerifies(f.vk, m, f.y)

FilesGood == \A m \in Held : GoodFile(m, file[m])

\* Files of one generation, by members that heard all dealers, are points of one
\* polynomial.
OnePolynomial ==
    \A m, n \in Held : file[m].gen = file[n].gen /\ file[m].whole /\ file[n].whole =>
        file[m].vk = file[n].vk

\* The resharing under way deals the group key again, if those who deal hold it.
RoundGood ==
    round # None =>
        /\ round.old \subseteq Seats
        /\ round.commits \in [round.old -> [1..t[rounds + 1] -> Scalars]]
        /\ round.subs \in [round.old -> [Seats -> Scalars]]
        /\ round.whole => Combined(round.old)[1] = group
        /\ \A m \in Held : file[m].gen = rounds /\ file[m].whole => file[m].vk = Combined(round.old)

KeyTypes ==
    /\ group \in Scalars
    /\ rounds \in Nat
    /\ t \in Seq(Thresholds) /\ Len(t) = rounds + 1
    /\ file = [m \in Seats |-> file[m]]

KeysInv == KeyTypes /\ FilesGood /\ OnePolynomial /\ RoundGood
-----------------------------------------------------------------------------
(* Shares join, and signers sign what they hold.                           *)

\* x-coordinates are integers between zero and L.
LEMMA SeatsAre == Seats \subseteq 1..L - 1 /\ \A x \in Seats : x \in Int
<1>1. \A x \in 1..L - 1 : x \in Int
  BY PrimeOrder
<1>2. QED
  BY <1>1, KeyParams

\* Every generation has a threshold of two or more.
LEMMA ThresholdOf ==
    ASSUME KeyTypes, NEW g \in 0..rounds
    PROVE  t[g + 1] \in 2..L - 1 /\ t[g + 1] \in Nat
<1>1. g + 1 \in 1..Len(t)
  BY DEF KeyTypes
<1>2. t[g + 1] \in Thresholds
  BY <1>1 DEF KeyTypes
<1>3. t[g + 1] \in 2..L - 1
  BY <1>2, KeyParams
<1>4. 2..L - 1 \subseteq Nat
  BY PrimeOrder
<1>5. QED
  BY <1>3, <1>4

\* A share verifies iff it is congruent to the value of the polynomial.
LEMMA VerifiesIsValue ==
    ASSUME NEW k \in Nat, NEW p \in [1..k -> Scalars], NEW x \in Int, NEW y \in Int
    PROVE  /\ p \in [1..k -> Int]
           /\ ShareVerifies(p, x, y) <=> Cong(y, Value(p, k, x))
<1>1. p \in [1..k -> Int]
  BY ScalarMod
<1>2. Value(p, k, x) \in Int /\ EvalPolyL(p, x) = Value(p, k, x) % L
  BY <1>1, ValueInt, EvalIsValue
<1>3. Cong(y, Value(p, k, x)) <=> y % L = Value(p, k, x) % L
  BY <1>2, CongIsModEqual
<1>4. QED
  BY <1>1, <1>2, <1>3 DEF ShareVerifies

\* What the shares of S join to, before it is reduced.
Join(S) == SumOver(S, [i \in S |-> file[i].y * Lagrange(i, S)])

\* ShamirJoin gives the reduced sum of weighted shares.
LEMMA JoinIs ==
    ASSUME FilesGood, NEW S \in SUBSET Held
    PROVE  /\ S \in SUBSET (1..L - 1)
           /\ \A i \in S : file[i].y \in Int /\ Lagrange(i, S) \in Int /\ Lambda[S][i] = Lagrange(i, S)
           /\ Join(S) \in Int
           /\ ShamirJoin(S, [i \in S |-> file[i].y]) = Join(S) % L
<1>1. S \in SUBSET Seats /\ S \in SUBSET (1..L - 1)
  BY SeatsAre DEF Held
<1>2. \A i \in S : file[i].y \in Int
  BY ScalarMod DEF FilesGood, GoodFile
<1>3. \A i \in S : Lagrange(i, S) \in Int
  BY <1>1, LagrangeIs
<1>4. \A i \in S : Lambda[S][i] = Lagrange(i, S)
  BY <1>1 DEF Lambda
<1> DEFINE f == [i \in S |-> file[i].y * Lagrange(i, S)]
           g == [i \in S |-> [n \in S |-> file[n].y][i] * Lambda[S][i]]
<1>5. f = g
  BY <1>4
<1>6. \A i \in S : f[i] \in Int
  BY <1>2, <1>3
<1>7. Join(S) = SumOver(S, f)
  BY DEF Join
<1>8. ShamirJoin(S, [i \in S |-> file[i].y]) = SumOver(S, g) % L
  BY DEF ShamirJoin
<1> HIDE DEF f, g
<1>9. SumOver(S, f) \in Int
  BY <1>1, <1>6, SumOverInt
<1>10. QED
  BY <1>1, <1>2, <1>3, <1>4, <1>5, <1>7, <1>8, <1>9

\* A quorum of one generation that heard all dealers joins to the secret of the
\* group key.
LEMMA QuorumJoins ==
    ASSUME KeyTypes, FilesGood, OnePolynomial, NEW g \in 0..rounds, NEW S \in WholeQuorums(g)
    PROVE  S \in SUBSET Held /\ Cong(Join(S), group) /\ Join(S) % L = group
<1>1. S \in SUBSET Held /\ (\A i \in S : file[i].gen = g /\ file[i].whole)
      /\ Cardinality(S) >= t[g + 1]
  BY DEF WholeQuorums, Quorums, Holders, Held
<1>2. S \in SUBSET (1..L - 1) /\ Join(S) \in Int /\ \A x \in S : x \in Int
  BY <1>1, JoinIs, SeatsAre DEF Held
<1>3. PICK k \in Nat : k = t[g + 1] /\ 2 <= k
  BY ThresholdOf
<1>4. IsFiniteSet(S) /\ Cardinality(S) \in Nat
  <2>1. IsFiniteSet(1..L - 1)
    BY FS_Interval, PrimeOrder
  <2>2. QED
    BY <1>2, <2>1, FS_Subset, FS_CardinalityType
<1>5. 1 <= k /\ k <= Cardinality(S)
  BY <1>1, <1>3, <1>4
<1>6. PICK m \in S : TRUE
  BY <1>4, <1>5, FS_EmptySet
<1>7. PICK c : c = file[m].vk
  OBVIOUS
<1>8. c \in [1..k -> Scalars] /\ c[1] = group
  BY <1>1, <1>3, <1>6, <1>7 DEF FilesGood, GoodFile
<1>9. c \in [1..k -> Int]
  BY <1>8, ScalarMod
<1> DEFINE y == [i \in S |-> file[i].y]
<1>10. ASSUME NEW x \in S PROVE y[x] \in Int /\ Cong(y[x], Value(c, k, x))
  <2>1. file[x].vk = c
    BY <1>1, <1>6, <1>7 DEF OnePolynomial
  <2>2. ShareVerifies(c, x, file[x].y) /\ file[x].y \in Int
    BY <1>1, <2>1, ScalarMod DEF FilesGood, GoodFile
  <2>3. QED
    BY <1>2, <1>8, <2>2, VerifiesIsValue
<1>11. [x \in S |-> y[x] * Lagrange(x, S)] = [i \in S |-> file[i].y * Lagrange(i, S)]
  OBVIOUS
<1> HIDE DEF y
<1>12. Cong(SumOver(S, [x \in S |-> y[x] * Lagrange(x, S)]), c[1])
  BY <1>2, <1>5, <1>9, <1>10, Interpolation
<1>13. Cong(Join(S), group)
  BY <1>8, <1>11, <1>12 DEF Join
<1>14. group \in Scalars /\ group \in Int /\ group % L = group
  BY ScalarMod DEF KeyTypes
<1>15. QED
  BY <1>1, <1>2, <1>13, <1>14, CongIsModEqual

\* Every partial signature passes, and the aggregate is congruent to the nonce
\* and the challenge times what the shares of the signers join to.
LEMMA RoundIs ==
    ASSUME FilesGood, NEW S \in SUBSET Held, NEW c \in Scalars
    PROVE  \E r \in Scalars, s \in Scalars :
              /\ FrostRound(S, c) = [R |-> r, s |-> s]
              /\ FrostRound(S, c) # None
              /\ Cong(s, r + c * Join(S))
<1> DEFINE h == [i \in S |-> SignShare(i, S, c)]
           f == [i \in S |-> NonceOf(i)]
           g == [i \in S |-> file[i].y * Lagrange(i, S)]
<1>1. /\ S \in SUBSET (1..L - 1) /\ Join(S) \in Int /\ c \in Int
      /\ \A i \in S : file[i].y \in Int /\ Lagrange(i, S) \in Int /\ Lambda[S][i] = Lagrange(i, S)
  BY JoinIs, ScalarMod
<1>2. \A i \in S : NonceOf(i) \in Int
  <2>1. \A i \in S : Nonce[i].d \in Int /\ Nonce[i].e \in Int /\ Nonce[i].rho \in Int
    BY KeyParams, ScalarMod DEF Held
  <2>2. \A i \in S : Nonce[i].d + Nonce[i].rho * Nonce[i].e \in Int
    BY <2>1
  <2>3. QED
    BY <2>2, ModRange DEF NonceOf
<1>3. ASSUME NEW i \in S
      PROVE  /\ SignShare(i, S, c) \in Int
             /\ AddShare(i, S, c, SignShare(i, S, c))
             /\ Cong(SignShare(i, S, c), NonceOf(i) + c * (file[i].y * Lagrange(i, S)))
  <2>1. PICK n \in Int, l \in Int, y \in Int :
          n = NonceOf(i) /\ l = Lagrange(i, S) /\ y = file[i].y
    BY <1>1, <1>2
  <2>2. SignShare(i, S, c) = (n + c * l * y) % L
    BY <1>1, <2>1 DEF SignShare
  <2>3. file[i].pub = y
    BY <2>1, ScalarMod DEF FilesGood, GoodFile
  <2>4. AddShare(i, S, c, SignShare(i, S, c))
    BY <1>1, <2>1, <2>2, <2>3 DEF AddShare
  <2>5. n + c * l * y \in Int /\ n + c * l * y = n + c * (y * l)
    BY <1>1
  <2>6. PICK w \in Int : w = n + c * l * y
    BY <2>5
  <2>7. w % L \in Int /\ Cong(w % L, w)
    BY ModRange, CongSym
  <2>8. QED
    BY <2>1, <2>2, <2>4, <2>5, <2>6, <2>7
<1>4. \A i \in S : f[i] \in Int /\ g[i] \in Int /\ h[i] \in Int
  BY <1>1, <1>2, <1>3
<1>5. PICK a \in Int : a = 1
  OBVIOUS
<1>6. ASSUME NEW i \in S PROVE Cong(h[i], a * f[i] + c * g[i])
  <2>1. h[i] = SignShare(i, S, c) /\ f[i] = NonceOf(i) /\ g[i] = file[i].y * Lagrange(i, S)
    OBVIOUS
  <2>2. a * f[i] = f[i]
    BY <1>4, <1>5
  <2>3. QED
    BY <1>3, <2>1, <2>2
<1>7. Join(S) = SumOver(S, g)
  BY DEF Join
<1>8. FrostRound(S, c) = [R |-> SumOver(S, f) % L, s |-> SumOver(S, h) % L]
  BY <1>3 DEF FrostRound
<1> HIDE DEF f, g, h
<1>9. SumOver(S, f) \in Int /\ SumOver(S, h) \in Int
  BY <1>1, <1>4, SumOverInt
<1>10. Cong(SumOver(S, h), a * SumOver(S, f) + c * SumOver(S, g))
  BY <1>1, <1>4, <1>6, SumOverLinear
<1>11. PICK sf \in Int, sh \in Int, j \in Int :
         sf = SumOver(S, f) /\ sh = SumOver(S, h) /\ j = Join(S)
  BY <1>1, <1>9
<1>12. a * sf = sf /\ c * j \in Int
  BY <1>1, <1>5
<1>13. Cong(sh, sf + c * j)
  BY <1>7, <1>10, <1>11, <1>12
<1>14. PICK r \in Scalars, s \in Scalars : r = sf % L /\ s = sh % L /\ Cong(sf, r) /\ Cong(sh, s)
  BY ModRange
<1>15. r \in Int /\ s \in Int
  BY ScalarMod
<1>16. PICK cj \in Int : cj = c * j
  BY <1>12
<1>17. Cong(sf + cj, r + cj)
  BY <1>14, <1>15, CongAdd, CongRefl
<1>18. Cong(s, sh) /\ Cong(sh, sf + cj) /\ sf + cj \in Int /\ r + cj \in Int
  BY <1>13, <1>14, <1>15, <1>16, CongSym
<1>19. Cong(s, sf + cj)
  BY <1>15, <1>18, CongTrans
<1>20. Cong(s, r + cj)
  BY <1>15, <1>17, <1>18, <1>19, CongTrans
<1>21. FrostRound(S, c) = [R |-> r, s |-> s]
  BY <1>8, <1>11, <1>14
<1>22. FrostRound(S, c) # None
  BY <1>21, ErrorIsNoSignature
<1>23. Cong(s, r + c * Join(S))
  BY <1>11, <1>16, <1>20
<1>24. QED
  BY <1>21, <1>22, <1>23

\* A signature [r, s] with s = r + c * j verifies if j is the group key.
LEMMA SignatureVerifies ==
    ASSUME KeyTypes, NEW r \in Scalars, NEW s \in Scalars, NEW c \in Int
    PROVE  Verifies([R |-> r, s |-> s], c) <=> Cong(s, r + c * group)
<1>1. group \in Int /\ r \in Int /\ s \in Int /\ s % L = s
  BY ScalarMod DEF KeyTypes
<1>2. PICK w \in Int : w = r + c * group
  BY <1>1
<1>3. Cong(s, w) <=> s % L = w % L
  BY <1>1, CongIsModEqual
<1>4. [R |-> r, s |-> s] # None
  BY ErrorIsNoSignature
<1>5. [R |-> r, s |-> s].R = r /\ [R |-> r, s |-> s].s = s
  OBVIOUS
<1>6. Verifies([R |-> r, s |-> s], c) <=> s = w % L
  BY <1>2, <1>4, <1>5 DEF Verifies
<1>7. QED
  BY <1>1, <1>2, <1>3, <1>6

\* A signature of signers S verifies iff their shares join to the secret, for
\* a challenge other than zero; it verifies for every challenge if they do.
LEMMA PlainSignature ==
    ASSUME KeyTypes, FilesGood, NEW S \in SUBSET Held, NEW c \in Scalars
    PROVE  /\ Cong(Join(S), group) => Verifies(FrostRound(S, c), c)
           /\ c # 0 /\ Verifies(FrostRound(S, c), c) => Cong(Join(S), group)
<1>1. PICK r \in Scalars, s \in Scalars :
        FrostRound(S, c) = [R |-> r, s |-> s] /\ Cong(s, r + c * Join(S))
  BY RoundIs
<1>2. PICK j \in Int : j = Join(S)
  BY JoinIs
<1>3. PICK A \in Int : A = group
  BY ScalarMod DEF KeyTypes
<1>4. r \in Int /\ s \in Int /\ c \in Int
  BY ScalarMod
<1>5. Verifies(FrostRound(S, c), c) <=> Cong(s, r + c * A)
  BY <1>1, <1>3, <1>4, SignatureVerifies
<1>6. Cong(s, r + c * j)
  BY <1>1, <1>2
<1>7. PICK cj \in Int, cA \in Int : cj = c * j /\ cA = c * A
  BY <1>4
<1>8. r + cj \in Int /\ r + cA \in Int
  BY <1>4
<1>9. ASSUME Cong(j, A) PROVE Cong(s, r + cA)
  <2>1. Cong(cj, cA)
    BY <1>4, <1>7, <1>9, CongScale
  <2>2. Cong(r + cj, r + cA)
    BY <1>4, <2>1, CongRefl, CongAdd
  <2>3. QED
    BY <1>4, <1>6, <1>7, <1>8, <2>2, CongTrans
<1>10. ASSUME c # 0, Cong(s, r + cA) PROVE Cong(j, A)
  <2>1. Cong(r + cj, r + cA)
    BY <1>4, <1>6, <1>7, <1>8, <1>10, CongSym, CongTrans
  <2>2. PICK q \in Int : (r + cj) - (r + cA) = q * L
    BY <2>1 DEF Cong
  <2>3. (r + cj) - (r + cA) = cj - cA
    BY <1>4
  <2>4. Cong(c * j, c * A)
    BY <1>7, <2>2, <2>3 DEF Cong
  <2>5. ~Cong(c, 0)
    <3>1. 0 \in Scalars
      BY PrimeOrder DEF Scalars
    <3>2. QED
      BY <1>10, <3>1, CongScalars
  <2>6. QED
    BY <1>4, <2>4, <2>5, Cancel
<1>11. QED
  BY <1>2, <1>3, <1>5, <1>7, <1>9, <1>10

\* A blind signature of signers whose shares join to the secret verifies.
LEMMA BlindSignature ==
    ASSUME KeyTypes, FilesGood, NEW S \in SUBSET Held, NEW c \in Scalars, Cong(Join(S), group)
    PROVE  Verifies(BlindRound(S, c), c)
<1>1. PICK a \in Int, b \in Int : a = Blind.a /\ b = Blind.b
  BY KeyParams, ScalarMod
<1>2. c \in Int /\ c + b \in Int
  BY ScalarMod
<1>3. PICK d \in Scalars : d = (c + b) % L /\ Cong(c + b, d)
  BY <1>2, ModRange
<1>4. PICK r \in Scalars, s \in Scalars :
        FrostRound(S, d) = [R |-> r, s |-> s] /\ FrostRound(S, d) # None /\ Cong(s, r + d * Join(S))
  BY RoundIs
<1>5. PICK j \in Int, A \in Int : j = Join(S) /\ A = group
  BY JoinIs, ScalarMod DEF KeyTypes
<1>6. r \in Int /\ s \in Int /\ d \in Int
  BY ScalarMod
<1>7. BlindRound(S, c) = [R |-> (r + a + b * A) % L, s |-> (s + a) % L]
  BY <1>1, <1>3, <1>4, <1>5 DEF BlindRound
<1>8. PICK u \in Int, v \in Int : u = r + a + b * A /\ v = s + a
  BY <1>6
<1>9. PICK R \in Scalars, Z \in Scalars : R = u % L /\ Z = v % L /\ Cong(u, R) /\ Cong(v, Z)
  BY ModRange
<1>10. R \in Int /\ Z \in Int
  BY ScalarMod
<1>11. Cong(v, u + c * A)
  <2>1. PICK q1 \in Int : s - (r + d * j) = q1 * L
    BY <1>4, <1>5 DEF Cong
  <2>2. PICK q2 \in Int : j - A = q2 * L
    BY <1>5 DEF Cong
  <2>3. PICK q3 \in Int : (c + b) - d = q3 * L
    BY <1>3 DEF Cong
  <2>4. (s + a) - ((r + a + b * A) + c * A) = (s - (r + d * j)) + d * (j - A) - ((c + b) - d) * A
    BY <1>2, <1>6
  <2>5. q1 * L + d * (q2 * L) - (q3 * L) * A = (q1 + d * q2 - q3 * A) * L
    BY <1>6, PrimeOrder
  <2>6. q1 + d * q2 - q3 * A \in Int
    BY <1>6
  <2>7. (s + a) - ((r + a + b * A) + c * A) = (q1 + d * q2 - q3 * A) * L
    BY <2>1, <2>2, <2>3, <2>4, <2>5
  <2>8. QED
    BY <1>8, <2>6, <2>7 DEF Cong
<1>12. PICK cA \in Int : cA = c * A
  BY <1>2
<1>13. Cong(u + cA, R + cA)
  BY <1>9, <1>10, CongRefl, CongAdd
<1>14. u + cA \in Int /\ R + cA \in Int
  BY <1>10
<1>15. Cong(Z, u + cA)
  BY <1>9, <1>10, <1>11, <1>12, <1>14, CongSym, CongTrans
<1>16. Cong(Z, R + cA)
  BY <1>10, <1>13, <1>14, <1>15, CongTrans
<1>17. BlindRound(S, c) = [R |-> R, s |-> Z]
  BY <1>7, <1>8, <1>9
<1>18. QED
  BY <1>2, <1>5, <1>12, <1>16, <1>17, SignatureVerifies
-----------------------------------------------------------------------------
(* The ceremonies establish the invariant.                                 *)

\* A secret and k - 1 coefficients make a polynomial with k coefficients.
LEMMA PolynomialIs ==
    ASSUME NEW T, NEW k \in Nat, 2 <= k, NEW s \in T, NEW coeff \in [1..k - 1 -> T]
    PROVE  (<<s>> \o coeff) \in [1..k -> T] /\ (<<s>> \o coeff)[1] = s
<1>1. <<s>> \in Seq(T) /\ coeff \in Seq(T) /\ Len(<<s>>) = 1 /\ Len(coeff) = k - 1
  OBVIOUS
<1>2. <<s>> \o coeff \in Seq(T) /\ Len(<<s>> \o coeff) = k
  BY <1>1
<1>3. \A q \in Seq(T) : q \in [1..Len(q) -> T]
  OBVIOUS
<1>4. (<<s>> \o coeff)[1] = s
  BY <1>1
<1>5. QED
  BY <1>2, <1>3, <1>4

\* Commitments to a polynomial are congruent to it.
LEMMA CommitIs ==
    ASSUME NEW k \in Nat, NEW p \in [1..k -> Int]
    PROVE  /\ Commit(p) \in [1..k -> Scalars]
           /\ \A j \in 1..k : Commit(p)[j] = p[j] % L
           /\ \A x \in Int : Cong(EvalPolyL(p, x), Value(Commit(p), k, x))
<1>1. Len(p) = k
  OBVIOUS
<1>2. Commit(p) = [j \in 1..k |-> p[j] % L]
  BY <1>1 DEF Commit
<1>3. \A j \in 1..k : p[j] \in Int /\ p[j] % L \in Scalars /\ p[j] % L \in Int /\ Cong(p[j], p[j] % L)
  BY ModRange
<1>4. /\ Commit(p) \in [1..k -> Scalars] /\ Commit(p) \in [1..k -> Int]
      /\ \A j \in 1..k : Commit(p)[j] = p[j] % L
  BY <1>2, <1>3
<1>5. ASSUME NEW x \in Int PROVE Cong(EvalPolyL(p, x), Value(Commit(p), k, x))
  <2>1. PICK e \in Int, v \in Int, w \in Int :
          e = EvalPolyL(p, x) /\ v = Value(p, k, x) /\ w = Value(Commit(p), k, x)
    BY <1>4, ValueInt, EvalIsValue
  <2>2. Cong(e, v)
    BY <2>1, EvalIsValue
  <2>3. Cong(v, w)
    BY <1>3, <1>4, <2>1, ValueCongruent
  <2>4. QED
    BY <2>1, <2>2, <2>3, CongTrans
<1>6. QED
  BY <1>4, <1>5

\* Dealing shares that verify establishes the invariant ...
LEMMA DealIsGood ==
    ASSUME NEW k \in Thresholds, NEW vk \in [1..k -> Scalars], NEW y \in [Founders -> Scalars],
           \A m \in Founders : ShareVerifies(vk, m, y[m]),
           Deal(vk, y), t = <<k>>, round = None, rounds = 0
    PROVE  KeysInv
<1>1. 1 \in 1..k
  BY KeyParams
<1>2. KeyTypes
  <2>1. <<k>> \in Seq(Thresholds) /\ Len(<<k>>) = 0 + 1
    OBVIOUS
  <2>2. group \in Scalars
    BY <1>1 DEF Deal
  <2>3. file = [m \in Seats |-> file[m]]
    BY DEF Deal
  <2>4. QED
    BY <2>1, <2>2, <2>3 DEF KeyTypes
<1>3. ASSUME NEW m \in Held PROVE m \in Founders /\ file[m] = ShareFile(y[m], vk, 0, TRUE)
  BY DEF Held, Deal
<1>4. ASSUME NEW m \in Held
      PROVE  /\ file[m].gen = 0 /\ file[m].vk = vk /\ file[m].y = y[m]
             /\ file[m].pub = y[m] % L
  <2>1. \A z : /\ ShareFile(z, vk, 0, TRUE).gen = 0 /\ ShareFile(z, vk, 0, TRUE).vk = vk
               /\ ShareFile(z, vk, 0, TRUE).y = z /\ ShareFile(z, vk, 0, TRUE).pub = z % L
    BY DEF ShareFile
  <2>2. QED
    BY <1>3, <2>1
<1>5. FilesGood
  <2>1. ASSUME NEW m \in Held PROVE GoodFile(m, file[m])
    <3>1. 0 \in 0..rounds /\ t[0 + 1] = k
      OBVIOUS
    <3>2. y[m] \in Scalars /\ ShareVerifies(vk, m, y[m])
      BY <1>3
    <3>3. vk[1] = group
      BY DEF Deal
    <3>4. QED
      BY <1>4, <3>1, <3>2, <3>3 DEF GoodFile
  <2>2. QED
    BY <2>1 DEF FilesGood
<1>6. OnePolynomial
  BY <1>4 DEF OnePolynomial
<1>7. RoundGood
  BY DEF RoundGood
<1>8. QED
  BY <1>2, <1>5, <1>6, <1>7 DEF KeysInv

\* ... and so do both ceremonies.
LEMMA KeysInitInv == KeysInit => KeysInv
<1> SUFFICES ASSUME KeysInit PROVE KeysInv
  OBVIOUS
<1>1. PICK k \in Thresholds :
        (FrostSplit(k) \/ DkgCeremony(k)) /\ t = <<k>> /\ round = None /\ rounds = 0
  BY DEF KeysInit
<1>2. k \in Nat /\ 2 <= k
  <2>1. k \in 2..L - 1
    BY KeyParams
  <2>2. QED
    BY <2>1, PrimeOrder
<1>3. Founders \subseteq Seats /\ Founders \in SUBSET (1..L - 1) /\ \A m \in Founders : m \in Int
  BY KeyParams, SeatsAre
<1>4. Randoms \subseteq Int /\ Secrets \subseteq Int
  <2>1. \A r \in Randoms : r \in Scalars
    BY KeyParams
  <2>2. \A r \in Randoms : r \in Int
    BY <2>1, ScalarMod
  <2>3. QED
    BY <2>2, KeyParams
<1>5. CASE FrostSplit(k)
  <2>1. PICK s \in Secrets, coeff \in Coefficients(k) :
          Deal(Commit(<<s>> \o coeff), [m \in Founders |-> EvalPolyL(<<s>> \o coeff, m)])
    BY <1>5 DEF FrostSplit
  <2>2. PICK p : p = <<s>> \o coeff
    OBVIOUS
  <2>3. p \in [1..k -> Int]
    <3>1. s \in Int /\ coeff \in [1..k - 1 -> Int]
      BY <1>4 DEF Coefficients
    <3>2. QED
      BY <1>2, <2>2, <3>1, PolynomialIs
  <2> DEFINE vk == Commit(p)
             y == [m \in Founders |-> EvalPolyL(p, m)]
  <2>4. vk \in [1..k -> Scalars]
    BY <1>2, <2>3, CommitIs
  <2>5. y \in [Founders -> Scalars]
    BY <1>2, <1>3, <2>3, EvalIsValue
  <2>6. ASSUME NEW m \in Founders PROVE ShareVerifies(vk, m, y[m])
    <3>1. Cong(EvalPolyL(p, m), Value(vk, k, m)) /\ EvalPolyL(p, m) \in Int
      BY <1>2, <1>3, <2>3, CommitIs, EvalIsValue
    <3>2. QED
      BY <1>2, <1>3, <2>4, <3>1, VerifiesIsValue
  <2>7. Deal(vk, y)
    BY <2>1, <2>2
  <2> HIDE DEF vk, y
  <2>8. QED
    BY <1>1, <2>4, <2>5, <2>6, <2>7, DealIsGood
<1>6. CASE DkgCeremony(k)
  <2>1. PICK s \in [Founders -> Randoms], coeff \in [Founders -> Coefficients(k)] :
          LET P == [i \in Founders |-> <<s[i]>> \o coeff[i]]
          IN  Deal([j \in 1..k |-> SumOver(Founders, [i \in Founders |-> P[i][j]]) % L],
                   [m \in Founders |-> SumOver(Founders, [i \in Founders |-> EvalPolyL(P[i], m)]) % L])
    BY <1>6 DEF DkgCeremony
  <2>2. PICK P : P = [i \in Founders |-> <<s[i]>> \o coeff[i]]
    OBVIOUS
  <2>3. P \in [Founders -> [1..k -> Int]]
    <3>1. \A i \in Founders : s[i] \in Int /\ coeff[i] \in [1..k - 1 -> Int]
      BY <1>4 DEF Coefficients
    <3>2. \A i \in Founders : <<s[i]>> \o coeff[i] \in [1..k -> Int]
      BY <1>2, <3>1, PolynomialIs
    <3>3. QED
      BY <2>2, <3>2
  <2> DEFINE vk == [j \in 1..k |-> SumOver(Founders, [i \in Founders |-> P[i][j]]) % L]
             u(m) == [i \in Founders |-> EvalPolyL(P[i], m)]
             y == [m \in Founders |-> SumOver(Founders, u(m)) % L]
  <2>4. ASSUME NEW j \in 1..k
        PROVE  vk[j] \in Scalars /\ Cong(vk[j], SumOver(Founders, [i \in Founders |-> P[i][j]]))
    <3> DEFINE f == [i \in Founders |-> P[i][j]]
    <3>1. \A i \in Founders : f[i] \in Int
      BY <2>3
    <3>2. vk[j] = SumOver(Founders, f) % L
      OBVIOUS
    <3> HIDE DEF f, vk
    <3>3. SumOver(Founders, f) \in Int
      BY <1>3, <3>1, SumOverInt
    <3>4. QED
      BY <3>2, <3>3, ModRange, CongSym DEF f
  <2>5. vk \in [1..k -> Scalars]
    BY <2>4
  <2>6. vk \in [1..k -> Int]
    BY <2>5, ScalarMod
  <2>7. ASSUME NEW m \in Founders
        PROVE  y[m] \in Scalars /\ ShareVerifies(vk, m, y[m])
    <3>1. m \in Int /\ \A i \in Founders : P[i] \in [1..k -> Int]
      BY <1>3, <2>3
    <3>2. \A i \in Founders : u(m)[i] \in Int /\ Cong(u(m)[i], Value(P[i], k, m))
      BY <1>2, <3>1, EvalIsValue
    <3>3. y[m] = SumOver(Founders, u(m)) % L
      OBVIOUS
    <3> HIDE DEF u, y, vk
    <3>4. SumOver(Founders, u(m)) \in Int
      BY <1>3, <3>2, SumOverInt
    <3>5. Cong(SumOver(Founders, u(m)), Value(vk, k, m))
      BY <1>2, <1>3, <2>3, <2>4, <2>6, <3>1, <3>2, ValuesAdd
    <3>6. PICK a \in Int, b \in Int : a = SumOver(Founders, u(m)) /\ b = Value(vk, k, m)
      BY <1>2, <2>6, <3>1, <3>4, ValueInt
    <3>7. a % L \in Scalars /\ a % L \in Int /\ Cong(a % L, a)
      BY ModRange, CongSym
    <3>8. Cong(a % L, b)
      BY <3>5, <3>6, <3>7, CongTrans
    <3>9. y[m] \in Scalars /\ y[m] \in Int /\ Cong(y[m], Value(vk, k, m))
      BY <3>3, <3>6, <3>7, <3>8
    <3>10. QED
      BY <1>2, <2>5, <3>1, <3>9, VerifiesIsValue
  <2>8. y \in [Founders -> Scalars]
    BY <2>7
  <2>9. Deal(vk, y)
    BY <2>1, <2>2
  <2> HIDE DEF vk, y
  <2>10. QED
    BY <1>1, <2>5, <2>7, <2>8, <2>9, DealIsGood
<1>7. QED
  BY <1>1, <1>5, <1>6
-----------------------------------------------------------------------------
(* Resharing keeps the invariant.                                          *)

\* Congruent terms, congruent sums over a set of members.
LEMMA SumOverCongruent ==
    ASSUME NEW S \in SUBSET (1..L - 1), NEW f, NEW h,
           \A i \in S : f[i] \in Int /\ h[i] \in Int /\ Cong(h[i], f[i])
    PROVE  Cong(SumOver(S, h), SumOver(S, f))
<1> DEFINE F == [x \in 1..L - 1 |-> IF x \in S THEN f[x] ELSE 0]
           H == [x \in 1..L - 1 |-> IF x \in S THEN h[x] ELSE 0]
<1>1. L - 1 \in Nat /\ \A i \in 1..L - 1 : F[i] \in Int /\ H[i] \in Int
  BY PrimeOrder
<1>2. Cong(0, 0)
  BY CongRefl
<1>3. \A i \in 1..L - 1 : Cong(H[i], F[i])
  BY <1>2
<1>4. SumOver(S, f) = SumTo(F, L - 1) /\ SumOver(S, h) = SumTo(H, L - 1)
  BY DEF SumOver
<1> HIDE DEF F, H
<1>5. QED
  BY <1>1, <1>3, <1>4, SumCongruent

\* The old members, a quorum, deal their weighted shares.
LEMMA ReshareKeeps ==
    ASSUME KeysInv, NEW g \in 0..rounds, NEW k \in Thresholds, NEW old \in Quorums(g), Reshare(old, k)
    PROVE  KeysInv'
<1>0. KeyTypes /\ FilesGood /\ OnePolynomial
  BY DEF KeysInv
<1>1. /\ group' = group /\ file' = file /\ rounds' = rounds + 1 /\ t' = Append(t, k)
      /\ rounds \in Nat /\ group \in Scalars
      /\ t \in Seq(Thresholds) /\ Len(t) = rounds + 1
  BY <1>0 DEF Reshare, KeyTypes
<1>2. /\ \A n \in 0..rounds : t'[n + 1] = t[n + 1]
      /\ t'[rounds' + 1] = k /\ k \in Nat /\ 2 <= k /\ rounds' \in Nat
  <2>1. \A n \in 0..rounds : t'[n + 1] = t[n + 1]
    BY <1>1
  <2>2. t'[rounds' + 1] = k /\ rounds' \in Nat
    BY <1>1
  <2>3. k \in 2..L - 1
    BY KeyParams
  <2>4. k \in Nat /\ 2 <= k
    BY <2>3, PrimeOrder
  <2>5. QED
    BY <2>1, <2>2, <2>4
<1>3. Held' = Held
  BY <1>1 DEF Held
<1>4. KeyTypes'
  <2>1. t' \in Seq(Thresholds) /\ Len(t') = rounds' + 1
    BY <1>1
  <2>2. (file = [m \in Seats |-> file[m]])'
    BY <1>0, <1>1 DEF KeyTypes
  <2>3. QED
    BY <1>1, <1>2, <2>1, <2>2 DEF KeyTypes
<1>5. \A m \in Held : file[m].gen \in 0..rounds
  BY <1>0 DEF FilesGood, GoodFile
<1>6. FilesGood'
  <2>1. ASSUME NEW m \in Held PROVE GoodFile(m, file[m])'
    <3>1. GoodFile(m, file[m])
      BY <1>0 DEF FilesGood
    <3>2. file[m].gen \in 0..rounds' /\ t'[file[m].gen + 1] = t[file[m].gen + 1]
      BY <1>1, <1>2, <1>5
    <3>3. QED
      BY <1>1, <3>1, <3>2 DEF GoodFile, ShareVerifies, EvalPolyL, Power
  <2>2. QED
    BY <1>3, <2>1 DEF FilesGood
<1>7. OnePolynomial'
  BY <1>0, <1>1, <1>3 DEF OnePolynomial
<1>8. RoundGood'
  <2>0. /\ old \in SUBSET Held /\ old \in SUBSET Seats /\ old \in SUBSET (1..L - 1)
        /\ Join(old) \in Int
        /\ \A i \in old : file[i].y \in Int /\ Lagrange(i, old) \in Int /\ Lambda[old][i] = Lagrange(i, old)
    <3>1. old \in SUBSET Held
      BY DEF Quorums, Holders, Held
    <3>2. QED
      BY <1>0, <3>1, JoinIs DEF Held
  <2>1. PICK coeff \in [old -> Coefficients(k)] :
          LET p == [i \in old |-> ReshareSplit(i, old, coeff[i])]
          IN  round' = [old |-> old, commits |-> [i \in old |-> Commit(p[i])],
                        subs |-> [i \in old |-> [j \in Seats |-> EvalPolyL(p[i], j)]],
                        whole |-> \A i \in old : file[i].whole]
    BY DEF Reshare
  <2>2. PICK p : p = [i \in old |-> ReshareSplit(i, old, coeff[i])]
    OBVIOUS
  <2>3. /\ round'.old = old /\ round'.commits = [i \in old |-> Commit(p[i])]
        /\ round'.subs = [i \in old |-> [j \in Seats |-> EvalPolyL(p[i], j)]]
        /\ round'.whole = (\A i \in old : file[i].whole)
    BY <2>1, <2>2
  <2>4. ASSUME NEW i \in old
        PROVE  /\ p[i] \in [1..k -> Int] /\ p[i][1] \in Int
               /\ Cong(p[i][1], file[i].y * Lagrange(i, old))
    <3>1. PICK w \in Int : w = file[i].y * Lagrange(i, old)
      BY <2>0
    <3>2. Lambda[old][i] * file[i].y = w
      BY <2>0, <3>1
    <3>3. PICK z \in Int : z = w % L /\ Cong(z, w)
      BY ModRange, CongSym
    <3>4. p[i] = <<z>> \o coeff[i]
      BY <2>2, <3>2, <3>3 DEF ReshareSplit
    <3>5. \A r \in Randoms : r \in Int
      BY KeyParams, ScalarMod
    <3>6. PICK co \in [1..k - 1 -> Int] : co = coeff[i]
      BY <3>5 DEF Coefficients
    <3>6a. k \in Nat /\ 2 <= k
      BY <1>2
    <3>7. (<<z>> \o co) \in [1..k -> Int] /\ (<<z>> \o co)[1] = z
      BY <3>6a, PolynomialIs
    <3>8. QED
      BY <3>1, <3>3, <3>4, <3>6, <3>7
  <2>5. \A i \in old : /\ Commit(p[i]) \in [1..k -> Scalars] /\ Commit(p[i])[1] = p[i][1] % L
                       /\ \A j \in Seats : EvalPolyL(p[i], j) \in Scalars
    <3>1. 1 \in 1..k
      BY <1>2
    <3>2. \A i \in old : Commit(p[i]) \in [1..k -> Scalars] /\ Commit(p[i])[1] = p[i][1] % L
      BY <1>2, <2>4, <3>1, CommitIs
    <3>3. \A i \in old : \A j \in Seats : EvalPolyL(p[i], j) \in Scalars
      BY <1>2, <2>4, EvalIsValue, SeatsAre
    <3>4. QED
      BY <3>2, <3>3
  <2>6. round'.commits \in [round'.old -> [1..t'[rounds' + 1] -> Scalars]]
    BY <1>2, <2>3, <2>5
  <2>7. round'.subs \in [round'.old -> [Seats -> Scalars]]
    BY <2>3, <2>5
  <2>8. ASSUME round'.whole PROVE Combined(round.old)'[1] = group
    <3>0. Join(old) % L = group
      <4>1. old \in WholeQuorums(g)
        BY <2>3, <2>8 DEF WholeQuorums
      <4>2. QED
        BY <1>0, <4>1, QuorumJoins
    <3> DEFINE h == [i \in old |-> round'.commits[i][1]]
               f == [i \in old |-> file[i].y * Lagrange(i, old)]
    <3>1. 1 \in 1..t'[rounds' + 1]
      BY <1>2
    <3>2. Combined(round.old)'[1] = SumOver(round'.old, [i \in round'.old |-> round'.commits[i][1]]) % L
      BY <3>1 DEF Combined
    <3>3. Combined(round.old)'[1] = SumOver(old, h) % L
      BY <2>3, <3>2
    <3>4. ASSUME NEW i \in old PROVE h[i] \in Int /\ f[i] \in Int /\ Cong(h[i], f[i])
      <4>1. PICK a \in Int, b \in Int : a = p[i][1] /\ b = file[i].y * Lagrange(i, old) /\ Cong(a, b)
        BY <2>0, <2>4
      <4>2. h[i] = a % L /\ f[i] = b
        BY <2>3, <2>5, <4>1
      <4>3. a % L \in Int /\ Cong(a % L, a)
        BY ModRange, CongSym
      <4>4. Cong(a % L, b)
        BY <4>1, <4>3, CongTrans
      <4>5. QED
        BY <4>2, <4>3, <4>4
    <3>5. Join(old) = SumOver(old, f)
      BY DEF Join
    <3> HIDE DEF f, h
    <3>6. Cong(SumOver(old, h), SumOver(old, f)) /\ SumOver(old, h) \in Int
      BY <2>0, <3>4, SumOverCongruent, SumOverInt
    <3>7. QED
      BY <2>0, <3>0, <3>3, <3>5, <3>6, CongIsModEqual
  <2>9. \A m \in Held : file[m].gen # rounds'
    BY <1>1, <1>5
  <2>10. QED
    BY <1>1, <1>3, <2>0, <2>3, <2>6, <2>7, <2>8, <2>9 DEF RoundGood
<1>9. QED
  BY <1>4, <1>6, <1>7, <1>8 DEF KeysInv

\* A member keeps what verifies: a share of the polynomial combined from the
\* dealers it heard.
LEMMA CombineKeeps ==
    ASSUME KeysInv, NEW j \in Seats, Combine(j)
    PROVE  KeysInv'
<1>0. KeyTypes /\ FilesGood /\ OnePolynomial
  BY DEF KeysInv
<1>1. /\ group' = group /\ round' = round /\ rounds' = rounds /\ t' = t /\ round # None
      /\ rounds \in Nat
  BY <1>0 DEF Combine, KeyTypes
<1>2. /\ round.old \subseteq Seats /\ round.old \in SUBSET (1..L - 1)
      /\ round.commits \in [round.old -> [1..t[rounds + 1] -> Scalars]]
      /\ round.subs \in [round.old -> [Seats -> Scalars]]
      /\ round.whole => Combined(round.old)[1] = group
      /\ \A m \in Held : file[m].gen = rounds /\ file[m].whole => file[m].vk = Combined(round.old)
  BY <1>1, SeatsAre DEF KeysInv, RoundGood
<1>3. PICK k \in Nat : k = t[rounds + 1] /\ 2 <= k
  <2>1. rounds \in 0..rounds
    BY <1>1
  <2>2. QED
    BY <1>0, <2>1, ThresholdOf
<1>4. PICK D, subs :
         /\ D \in SUBSET round.old
         /\ \A i \in D : subs[i] \in Int
         /\ ReshareCombine(j, D, subs) # None
         /\ file' = [file EXCEPT ![j] = ReshareCombine(j, D, subs)]
  <2>1a. PICK D \in SUBSET round.old \ {{}} : \E i \in D, off \in {0, 1} :
           LET new == ReshareCombine(j, D, [n \in D |->
                        IF n = i THEN (round.subs[n][j] + off) % L ELSE round.subs[n][j]])
           IN  /\ D # round.old => Cardinality(Astray) < MaxAstray
               /\ new # None
               /\ file' = [file EXCEPT ![j] = new]
    BY DEF Combine
  <2>1. PICK i \in D, off \in {0, 1} :
          LET s == [n \in D |->
                      IF n = i THEN (round.subs[n][j] + off) % L ELSE round.subs[n][j]]
          IN  ReshareCombine(j, D, s) # None /\ file' = [file EXCEPT ![j] = ReshareCombine(j, D, s)]
    BY <2>1a
  <2>2. PICK s : s = [n \in D |->
                      IF n = i THEN (round.subs[n][j] + off) % L ELSE round.subs[n][j]]
    OBVIOUS
  <2>3. ASSUME NEW n \in D PROVE s[n] \in Int
    <3>1. round.subs[n][j] \in Int
      BY <1>2, ScalarMod
    <3>2. (round.subs[n][j] + off) % L \in Int
      BY <3>1, ModRange
    <3>3. QED
      BY <2>2, <3>1, <3>2
  <2>4. QED
    BY <2>1, <2>2, <2>3
<1> DEFINE whole == round.whole /\ D = round.old
<1>5. /\ \A i \in D : ShareVerifies(round.commits[i], j, subs[i])
      /\ ReshareCombine(j, D, subs) = ShareFile(SumOver(D, subs) % L, Combined(D), rounds, whole)
  BY <1>4 DEF ReshareCombine, Reshared
<1>5a. D \in SUBSET (1..L - 1)
  BY <1>2, <1>4
<1>6. j \in Int
  BY SeatsAre
<1>7. PICK commits \in [D -> [1..k -> Int]] :
         commits = [i \in D |-> round.commits[i]] /\ \A i \in D : commits[i] \in [1..k -> Scalars]
  <2>1. \A i \in D : round.commits[i] \in [1..k -> Scalars]
    BY <1>2, <1>3, <1>4
  <2>2. \A i \in D : round.commits[i] \in [1..k -> Int]
    BY <2>1, ScalarMod
  <2>3. PICK c : c = [i \in D |-> round.commits[i]]
    OBVIOUS
  <2>4. c \in [D -> [1..k -> Int]] /\ \A i \in D : c[i] \in [1..k -> Scalars]
    BY <2>1, <2>2, <2>3
  <2>5. QED
    BY <2>3, <2>4
<1>7a. PICK vk : vk = Combined(D)
  OBVIOUS
<1>8. ASSUME NEW n \in 1..k
      PROVE  /\ vk[n] \in Scalars
             /\ Cong(vk[n], SumOver(D, [i \in D |-> commits[i][n]]))
  <2> DEFINE f == [i \in D |-> round.commits[i][n]]
  <2>1. \A i \in D : f[i] \in Int
    BY <1>7
  <2>2. vk[n] = SumOver(D, f) % L
    BY <1>3, <1>7a DEF Combined
  <2>3. f = [i \in D |-> commits[i][n]]
    BY <1>7
  <2> HIDE DEF f
  <2>4. SumOver(D, f) \in Int
    BY <1>5a, <2>1, SumOverInt
  <2>5. QED
    BY <2>2, <2>3, <2>4, ModRange, CongSym
<1>9. vk \in [1..k -> Scalars] /\ vk \in [1..k -> Int]
  <2>1. vk = [n \in 1..k |-> vk[n]]
    BY <1>3, <1>7a DEF Combined
  <2>2. vk \in [1..k -> Scalars]
    BY <1>8, <2>1
  <2>3. QED
    BY <2>2, ScalarMod
<1>10. ASSUME NEW i \in D PROVE Cong(subs[i], Value(commits[i], k, j))
  <2>1. commits[i] \in [1..k -> Scalars] /\ subs[i] \in Int /\ ShareVerifies(commits[i], j, subs[i])
    BY <1>4, <1>5, <1>7
  <2>2. QED
    BY <1>3, <1>6, <2>1, VerifiesIsValue
<1>11. PICK a \in Int : a = SumOver(D, subs)
  BY <1>4, <1>5a, SumOverInt
<1>12. Cong(a, Value(vk, k, j))
  <2>1. \A n \in 1..k : Cong(vk[n], SumOver(D, [i \in D |-> commits[i][n]]))
    BY <1>8
  <2>2. \A i \in D : subs[i] \in Int /\ Cong(subs[i], Value(commits[i], k, j))
    BY <1>4, <1>10
  <2>3. k \in Nat /\ commits \in [D -> [1..k -> Int]] /\ vk \in [1..k -> Int]
    BY <1>3, <1>7, <1>9
  <2>4. Cong(SumOver(D, subs), Value(vk, k, j))
    BY <1>5a, <1>6, <2>1, <2>2, <2>3, ValuesAdd
  <2>5. QED
    BY <1>11, <2>4
<1>13. a % L \in Scalars /\ a % L \in Int /\ ShareVerifies(vk, j, a % L)
  <2>1. a % L \in Scalars /\ a % L \in Int /\ Cong(a % L, a)
    BY ModRange, CongSym
  <2>2. PICK v \in Int : v = Value(vk, k, j)
    BY <1>3, <1>6, <1>9, ValueInt
  <2>3. Cong(a % L, v)
    BY <1>12, <2>1, <2>2, CongTrans
  <2>4. QED
    BY <1>3, <1>6, <1>9, <2>1, <2>2, <2>3, VerifiesIsValue
<1>14. /\ file' = [file EXCEPT ![j] = ShareFile(a % L, vk, rounds, whole)]
       /\ ShareFile(a % L, vk, rounds, whole) # None
  BY <1>4, <1>5, <1>7a, <1>11
<1>15. PICK new : /\ new = ShareFile(a % L, vk, rounds, whole) /\ new.gen = rounds
                  /\ new.vk = vk /\ new.y = a % L /\ new.pub = (a % L) % L
                  /\ new.whole => round.whole /\ D = round.old
  <2>1. \A z, v, w : /\ ShareFile(z, v, rounds, w).gen = rounds /\ ShareFile(z, v, rounds, w).vk = v
                     /\ ShareFile(z, v, rounds, w).y = z /\ ShareFile(z, v, rounds, w).pub = z % L
                     /\ ShareFile(z, v, rounds, w).whole = w
    BY DEF ShareFile
  <2>2. PICK new : new = ShareFile(a % L, vk, rounds, whole)
    OBVIOUS
  <2>3. new.whole = whole
    BY <2>1, <2>2
  <2>4. new.whole => round.whole /\ D = round.old
    BY <2>3
  <2> HIDE DEF whole
  <2>5. QED
    BY <2>1, <2>2, <2>4
<1> HIDE DEF whole
<1>16. /\ file'[j] = new /\ (\A m \in Seats : m # j => file'[m] = file[m])
       /\ file' = [m \in Seats |-> file'[m]]
       /\ Held' = Held \cup {j}
  <2>1. file = [m \in Seats |-> file[m]] /\ file' = [file EXCEPT ![j] = new] /\ new # None
    BY <1>0, <1>14, <1>15 DEF KeyTypes
  <2>2. file' = [m \in Seats |-> IF m = j THEN new ELSE file[m]]
    BY <2>1
  <2>3. /\ file'[j] = new /\ (\A m \in Seats : m # j => file'[m] = file[m])
        /\ file' = [m \in Seats |-> file'[m]]
    BY <2>2
  <2>4. QED
    BY <2>1, <2>3 DEF Held
<1>17. Combined(round.old)' = Combined(round.old) /\ (new.whole => vk = Combined(round.old))
       /\ (new.whole => vk[1] = group)
  BY <1>1, <1>2, <1>7a, <1>15 DEF Combined
<1>18. KeyTypes'
  BY <1>0, <1>1, <1>16 DEF KeyTypes
<1>19. FilesGood'
  <2>1. ASSUME NEW m \in Held' PROVE GoodFile(m, file[m])'
    <3>1. CASE m = j
      <4>1. rounds \in 0..rounds
        BY <1>1
      <4>2. (/\ file[m].gen \in 0..rounds
             /\ file[m].vk \in [1..t[file[m].gen + 1] -> Scalars]
             /\ (file[m].whole => file[m].vk[1] = group)
             /\ file[m].y \in Scalars /\ file[m].pub = file[m].y % L)'
        BY <1>1, <1>3, <1>9, <1>13, <1>15, <1>16, <1>17, <3>1, <4>1
      <4>3. ShareVerifies(file'[m].vk, m, file'[m].y)
        BY <1>13, <1>15, <1>16, <3>1
      <4>4. QED
        BY <4>2, <4>3 DEF GoodFile, ShareVerifies, EvalPolyL, Power
    <3>2. CASE m # j
      <4>1. m \in Held /\ m \in Seats /\ file'[m] = file[m]
        BY <1>16, <3>2 DEF Held
      <4>2. GoodFile(m, file[m])
        BY <1>0, <4>1 DEF FilesGood
      <4>3. QED
        BY <1>1, <4>1, <4>2 DEF GoodFile, ShareVerifies, EvalPolyL, Power
    <3>3. QED
      BY <3>1, <3>2
  <2>2. QED
    BY <2>1 DEF FilesGood
<1>20. \A m \in Held' : file'[m].gen = rounds /\ file'[m].whole => file'[m].vk = Combined(round.old)
  BY <1>2, <1>15, <1>16, <1>17 DEF Held
<1>21. OnePolynomial'
  <2>1. ASSUME NEW m \in Held', NEW n \in Held', file'[m].gen = file'[n].gen,
               file'[m].whole, file'[n].whole
        PROVE  file'[m].vk = file'[n].vk
    <3>1. CASE m = j \/ n = j
      BY <1>15, <1>16, <1>20, <2>1, <3>1
    <3>2. CASE m # j /\ n # j
      <4>1. m \in Held /\ n \in Held /\ file'[m] = file[m] /\ file'[n] = file[n]
        BY <1>16, <3>2 DEF Held
      <4>2. QED
        BY <1>0, <2>1, <4>1 DEF OnePolynomial
    <3>3. QED
      BY <3>1, <3>2
  <2>2. QED
    BY <2>1 DEF OnePolynomial
<1>22. RoundGood'
  BY <1>1, <1>2, <1>17, <1>20 DEF RoundGood
<1>23. QED
  BY <1>18, <1>19, <1>21, <1>22 DEF KeysInv

\* Every file is a point of the polynomial that it is committed to, and those of
\* one generation by members that heard all dealers (and whose dealers had) are
\* points of one polynomial under the group key: through any ceremony, any number
\* of resharings, finished or interrupted, and lost or garbled messages.
THEOREM KeysInvariant == KeysSpec => []KeysInv
<1>1. KeysInit => KeysInv
  BY KeysInitInv
<1>2. KeysInv /\ [KeysNext]_keyVars => KeysInv'
  <2> SUFFICES ASSUME KeysInv, [KeysNext]_keyVars PROVE KeysInv'
    OBVIOUS
  <2>1. ASSUME NEW g \in 0..rounds, NEW k \in Thresholds, NEW old \in Quorums(g), Reshare(old, k)
        PROVE  KeysInv'
    BY <2>1, ReshareKeeps
  <2>2. ASSUME NEW j \in Seats, Combine(j) PROVE KeysInv'
    BY <2>2, CombineKeeps
  <2>3. CASE UNCHANGED keyVars
    <3>1. group' = group /\ file' = file /\ round' = round /\ rounds' = rounds /\ t' = t
      BY <2>3 DEF keyVars
    <3>2. Held' = Held /\ Combined(round.old)' = Combined(round.old)
      BY <3>1 DEF Held, Combined
    <3>3. FilesGood' <=> FilesGood
      BY <3>1, <3>2 DEF FilesGood, GoodFile, ShareVerifies, EvalPolyL, Power
    <3>4. (KeyTypes' <=> KeyTypes) /\ (OnePolynomial' <=> OnePolynomial) /\ (RoundGood' <=> RoundGood)
      BY <3>1, <3>2 DEF KeyTypes, OnePolynomial, RoundGood
    <3>5. QED
      BY <3>3, <3>4 DEF KeysInv
  <2>4. QED
    BY <2>1, <2>2, <2>3 DEF KeysNext
<1>3. QED
  BY <1>1, <1>2, PTL DEF KeysSpec
-----------------------------------------------------------------------------
(* What the invariant gives.                                               *)

\* A good file loads, and only the share in it makes an accepted signature.
LEMMA InvFilesLoad == ASSUME KeysInv PROVE FilesLoad
<1>1. ASSUME NEW m \in Held
      PROVE  /\ ShareVerifies(file[m].vk, m, file[m].y) /\ file[m].y \in Scalars
             /\ file[m].pub = file[m].y
  BY ScalarMod DEF KeysInv, FilesGood, GoodFile
<1>2. QED
  BY <1>1 DEF FilesLoad, Held, AddShare, SignShare

\* A quorum joins to the secret and signs under the group key.
LEMMA InvKeyKept == ASSUME KeysInv PROVE KeyKept
<1>0. KeyTypes /\ FilesGood /\ OnePolynomial
  BY DEF KeysInv
<1> SUFFICES ASSUME NEW g \in 0..rounds, NEW S \in WholeQuorums(g)
             PROVE  /\ ShamirJoin(S, [i \in S |-> file[i].y]) = group
                    /\ \A c \in Challenges :
                         Verifies(FrostRound(S, c), c) /\ Verifies(BlindRound(S, c), c)
  BY DEF KeyKept
<1>1. S \in SUBSET Held /\ Cong(Join(S), group) /\ Join(S) % L = group
  BY <1>0, QuorumJoins
<1>2. ShamirJoin(S, [i \in S |-> file[i].y]) = group
  BY <1>0, <1>1, JoinIs
<1>3. ASSUME NEW c \in Challenges
      PROVE  Verifies(FrostRound(S, c), c) /\ Verifies(BlindRound(S, c), c)
  <2>1. c \in Scalars
    BY KeyParams
  <2>2. QED
    BY <1>0, <1>1, <2>1, PlainSignature, BlindSignature
<1>4. QED
  BY <1>2, <1>3

\* Any signers: the signature verifies iff the shares join to the secret.
LEMMA InvSignsIffJoins == ASSUME KeysInv PROVE SignsIffJoins
<1>0. KeyTypes /\ FilesGood
  BY DEF KeysInv
<1>1. ASSUME NEW S \in SUBSET Held, NEW c \in Challenges \ {0}
      PROVE  /\ FrostRound(S, c) # None
             /\ Verifies(FrostRound(S, c), c) <=>
                  ShamirJoin(S, [i \in S |-> file[i].y]) = group
  <2>1. c \in Scalars /\ c # 0
    BY KeyParams
  <2>2. FrostRound(S, c) # None
    BY <1>0, <2>1, RoundIs
  <2>3. Verifies(FrostRound(S, c), c) <=> Cong(Join(S), group)
    BY <1>0, <2>1, PlainSignature
  <2>4. Join(S) \in Int /\ ShamirJoin(S, [i \in S |-> file[i].y]) = Join(S) % L
    BY <1>0, JoinIs
  <2>5. group \in Int /\ group % L = group
    BY <1>0, ScalarMod DEF KeyTypes
  <2>6. Cong(Join(S), group) <=> Join(S) % L = group % L
    BY <2>4, <2>5, CongIsModEqual
  <2>7. QED
    BY <2>2, <2>3, <2>4, <2>5, <2>6
<1>2. QED
  BY <1>1 DEF SignsIffJoins, Held

\* Every share file that a ceremony or ReshareCombine leaves behind loads, and
\* a partial signature made with another share is refused by AddShare.
THEOREM FilesAlwaysLoad == KeysSpec => []FilesLoad
<1>1. KeysInv => FilesLoad
  BY InvFilesLoad
<1>2. QED
  BY <1>1, KeysInvariant, PTL

\* The trust anchor never changes: every quorum of one generation that combined
\* with all dealers, as its dealers did before, joins to the secret of the group
\* key, and its plain and blind signatures verify.
THEOREM KeyIsKept == KeysSpec => []KeyKept
<1>1. KeysInv => KeyKept
  BY InvKeyKept
<1>2. QED
  BY <1>1, KeysInvariant, PTL

\* FrostRound gives a signature to any two or more signers, and it verifies iff
\* their shares join to the secret: too few, or of two generations, do not.
THEOREM SignatureIffJoin == KeysSpec => []SignsIffJoins
<1>1. KeysInv => SignsIffJoins
  BY InvSignsIffJoins
<1>2. QED
  BY <1>1, KeysInvariant, PTL
=============================================================================
