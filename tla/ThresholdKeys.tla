--------------------------- MODULE ThresholdKeys ----------------------------
(***************************************************************************)
(* The council's key material and its arithmetic: the ceremonies that deal *)
(* shares (FrostSplit, DkgCeremony of frost.go), resharing to a new set of *)
(* members under the same group key (reshare.go), signing with what the    *)
(* share files hold (FrostRound, BlindRound) and joining shares (shamir.go, *)
(* the same interpolation over another prime).                             *)
(*                                                                         *)
(* The group has prime order: a point is the scalar that B is multiplied   *)
(* with, so that adding points and multiplying them by scalars is          *)
(* arithmetic modulo L, and two points encode alike iff the scalars agree. *)
(* Hashes (binding factors, challenges) and random scalars are arbitrary.  *)
(* A member is its x-coordinate.  Signing changes no file: it is an        *)
(* operator; a resharing is a state machine, since members combine on      *)
(* their own, from the dealers they heard: one that is interrupted leaves  *)
(* files of two generations, and of different polynomials.                 *)
(***************************************************************************)
EXTENDS Integers, Sequences, FiniteSets

CONSTANTS
    L,          \* the order of the group, a prime
    Founders,   \* members of the first ceremony
    Seats,      \* the x-coordinates of all members there will ever be
    Thresholds, \* thresholds a ceremony or a resharing may choose
    Secrets,    \* clamped scalars a dealer's seed may give (they exceed L)
    Randoms,    \* scalars that randomScalar may give
    Nonce,      \* Nonce[m]: [d, e, rho] of a signer in a session
    Blind,      \* [a, b]: a user's blinders
    Challenges, \* values of a challenge
    MaxRounds,  \* bound on resharings
    MaxAstray,  \* bound on members that combine without all dealers
    None        \* no file, no round, an error

Scalars == 0..L - 1

\* L is a prime: every scalar but zero has an inverse.
ASSUME PrimeOrder ==
    /\ L \in Nat \ {0, 1}
    /\ \A k \in 1..L - 1 : \E i \in Scalars : (k * i) % L = 1

ASSUME KeyParams ==
    /\ Founders \subseteq Seats /\ Seats \subseteq 1..L - 1
    /\ Randoms \subseteq Scalars /\ Secrets \subseteq Nat /\ Thresholds \subseteq 2..L - 1
    /\ Nonce \in [Seats -> [d : Scalars, e : Scalars, rho : Scalars]]
    /\ Blind \in [a : Scalars, b : Scalars]
    /\ Challenges \subseteq Scalars /\ MaxRounds \in Nat /\ MaxAstray \in Nat

\* An error is no signature.
ASSUME ErrorIsNoSignature == \A r, s \in Scalars : [R |-> r, s |-> s] # None

VARIABLES
    group,      \* the group key A
    file,       \* file[m]: the share file [y, pub, vk, gen, whole], or None
    round,      \* the resharing under way: [old, commits, subs, whole], or None
    rounds,     \* resharings started
    t           \* t[g]: the threshold of generation g (history)

\* whole is history: every dealer was heard, in this resharing by the member and
\* in the earlier ones by those who deal.
keyVars == <<group, file, round, rounds, t>>
-----------------------------------------------------------------------------
(* Polynomials                                                             *)

\* f[1] + ... + f[n], and f[1] * ... * f[n].
SumTo(f, n) ==
    LET sum[i \in 0..n] == IF i = 0 THEN 0 ELSE sum[i - 1] + f[i] IN sum[n]
ProductTo(f, n) ==
    LET prod[i \in 0..n] == IF i = 0 THEN 1 ELSE prod[i - 1] * f[i] IN prod[n]

\* Over a set of members, in the order of their x-coordinates.
SumOver(S, f) == SumTo([x \in 1..L - 1 |-> IF x \in S THEN f[x] ELSE 0], L - 1)
ProductOver(S, f) == ProductTo([x \in 1..L - 1 |-> IF x \in S THEN f[x] ELSE 1], L - 1)

\* The running power xp of evalPolyL.
Power(x, n) ==
    LET xp[i \in 0..n] == IF i = 0 THEN 1 ELSE (xp[i - 1] * x) % L IN xp[n]

\* ModInverse.
Inverses == [k \in 1..L - 1 |-> CHOOSE i \in Scalars : (k * i) % L = 1]

\* A polynomial is <<secret, c1, ...>>; evalPolyL.
EvalPolyL(poly, x) ==
    SumTo([j \in 1..Len(poly) |-> poly[j] * Power(x, j - 1)], Len(poly)) % L

\* Feldman commitments to a polynomial.
Commit(poly) == [j \in 1..Len(poly) |-> poly[j] % L]

ShareVerifies(commit, x, share) == EvalPolyL(commit, x) = share % L

Lagrange(xi, xs) ==
    LET others == xs \ {xi}
        num == ProductOver(others, [x \in others |-> x]) % L
        den == ProductOver(others, [x \in others |-> x - xi]) % L
    IN  (num * Inverses[den]) % L

\* The coefficients of every signing set.
Lambda == [xs \in SUBSET Seats |-> [x \in xs |-> Lagrange(x, xs)]]

\* ShamirJoin: Lagrange at zero, of the points with these x-coordinates.
ShamirJoin(xs, y) == SumOver(xs, [x \in xs |-> y[x] * Lambda[xs][x]]) % L
-----------------------------------------------------------------------------
(* Ceremonies                                                              *)

\* The coefficients that are drawn beside the secret.
Coefficients(k) == [1..k - 1 -> Randoms]

ShareFile(y, vk, gen, whole) ==
    [y |-> y, pub |-> y % L, vk |-> vk, gen |-> gen, whole |-> whole]

Deal(vk, y) ==
    /\ group = vk[1]
    /\ file = [m \in Seats |-> IF m \in Founders THEN ShareFile(y[m], vk, 0, TRUE) ELSE None]

\* FrostSplit: the dealer's scalar and fresh coefficients.
FrostSplit(k) ==
    \E s \in Secrets, coeff \in Coefficients(k) :
        LET p == <<s>> \o coeff
        IN  Deal(Commit(p), [m \in Founders |-> EvalPolyL(p, m)])

\* DkgCeremony: every member deals, shares and commitments are added up.
DkgCeremony(k) ==
    \E s \in [Founders -> Randoms], coeff \in [Founders -> Coefficients(k)] :
        LET polys == [i \in Founders |-> <<s[i]>> \o coeff[i]]
            vk == [j \in 1..k |-> SumOver(Founders, [i \in Founders |-> polys[i][j]]) % L]
        IN  Deal(vk, [m \in Founders |->
                        SumOver(Founders, [i \in Founders |-> EvalPolyL(polys[i], m)]) % L])

KeysInit ==
    /\ \E k \in Thresholds :
         /\ FrostSplit(k) \/ DkgCeremony(k)
         /\ t = <<k>>
    /\ round = None
    /\ rounds = 0

\* Generation g is t's entry g + 1.
Holders(g) == {m \in Seats : file[m] # None /\ file[m].gen = g}

Quorums(g) == {S \in SUBSET Holders(g) : Cardinality(S) >= t[g + 1]}

\* Those whose members, and the dealers before them, heard every dealer.
WholeQuorums(g) == {S \in Quorums(g) : \A m \in S : file[m].whole}
-----------------------------------------------------------------------------
(* Resharing                                                               *)

\* Mutant of ReshareSplit: the share is not weighted.
ReshareSplitPlain(i, old, coeff) == <<file[i].y % L>> \o coeff

\* ReshareSplit: the weighted share is the secret of a fresh polynomial.
ReshareSplit(i, old, coeff) == <<(Lambda[old][i] * file[i].y) % L>> \o coeff

\* The members of old deal again; a share that is zero is refused as bad.
Reshare(old, k) ==
    /\ rounds < MaxRounds
    /\ \A i \in old : file[i].y > 0
    /\ \E coeff \in [old -> Coefficients(k)] :
         LET p == [i \in old |-> ReshareSplit(i, old, coeff[i])]
         IN  round' = [old |-> old, commits |-> [i \in old |-> Commit(p[i])],
                       subs |-> [i \in old |-> [j \in Seats |-> EvalPolyL(p[i], j)]],
                       whole |-> \A i \in old : file[i].whole]
    /\ rounds' = rounds + 1
    /\ t' = Append(t, k)
    /\ UNCHANGED <<group, file>>

\* The summed commitments of the dealers in D.
Combined(D) ==
    [n \in 1..t[rounds + 1] |-> SumOver(D, [i \in D |-> round.commits[i][n]]) % L]

\* The file made of these dealers' sub-shares.
Reshared(D, subs) ==
    ShareFile(SumOver(D, subs) % L, Combined(D), rounds, round.whole /\ D = round.old)

\* Mutant of ReshareCombine: sub-shares are taken on trust.
ReshareCombineTrusting(j, D, subs) == Reshared(D, subs)

\* ReshareCombine: the sum of verified sub-shares, under summed commitments.  It
\* does not know how many dealers there are.
ReshareCombine(j, D, subs) ==
    IF \E i \in D : ~ShareVerifies(round.commits[i], j, subs[i]) THEN None
    ELSE Reshared(D, subs)

\* Members whose file is not what the resharings would have given them.
Astray == {m \in Seats : file[m] # None /\ ~file[m].whole}

\* A member combines what reached it: commitments and sub-shares of some of the
\* dealers (with one of the two missing it is refused), one of them garbled, or
\* none.
Combine(j) ==
    /\ round # None
    /\ \E D \in SUBSET round.old \ {{}} : \E i \in D, off \in {0, 1} :
         LET new == ReshareCombine(j, D, [n \in D |->
                        IF n = i THEN (round.subs[n][j] + off) % L ELSE round.subs[n][j]])
         IN  /\ D # round.old => Cardinality(Astray) < MaxAstray
             /\ new # None
             /\ file' = [file EXCEPT ![j] = new]
    /\ UNCHANGED <<group, round, rounds, t>>

\* Whoever takes part in a resharing, they hold shares of one generation.
KeysNext ==
    \/ \E g \in 0..rounds, k \in Thresholds :
         \E old \in {S \in Quorums(g) : Cardinality(S) = t[g + 1]} : Reshare(old, k)
    \/ \E j \in Seats : Combine(j)

KeysSpec == KeysInit /\ [][KeysNext]_keyVars
-----------------------------------------------------------------------------
(* Signing                                                                 *)

\* d + rho * e: a signer's part of the nonce.
NonceOf(i) == (Nonce[i].d + Nonce[i].rho * Nonce[i].e) % L

SignShare(i, S, c) == (NonceOf(i) + c * Lambda[S][i] * file[i].y) % L

\* Mutant of AddShare: the partial signature is not weighted.
AddShareUnweighted(i, S, c, z) == z = (NonceOf(i) + c * file[i].pub) % L

\* AddShare checks a partial signature against commitment and public share.
AddShare(i, S, c, z) == z = (NonceOf(i) + c * Lambda[S][i] * file[i].pub) % L

\* Both rounds and the aggregation, with challenge c: [R, s], or None.
FrostRound(S, c) ==
    IF \E i \in S : ~AddShare(i, S, c, SignShare(i, S, c)) THEN None
    ELSE [R |-> SumOver(S, [i \in S |-> NonceOf(i)]) % L,
          s |-> SumOver(S, [i \in S |-> SignShare(i, S, c)]) % L]

\* BlindSetup: the signers see c + b.  Unblind: R gains a and b keys, s gains a.
BlindRound(S, c) ==
    LET sig == FrostRound(S, (c + Blind.b) % L)
    IN  IF sig = None THEN None
        ELSE [R |-> (sig.R + Blind.a + Blind.b * group) % L, s |-> (sig.s + Blind.a) % L]

\* ed25519.Verify against the group key.
Verifies(sig, c) == sig # None /\ sig.s = (sig.R + c * group) % L
-----------------------------------------------------------------------------
(* Properties                                                              *)

\* The trust anchor never changes: after any ceremony, any number of finished
\* or interrupted resharings and lost or garbled messages, every quorum of
\* members of one generation joins to the secret of the group key, and its
\* signatures, plain and blind, verify under that key, provided that each of
\* them, and of the dealers before them, combined with all dealers of its round.
KeyKept ==
    \A g \in 0..rounds : \A S \in WholeQuorums(g) :
        /\ ShamirJoin(S, [i \in S |-> file[i].y]) = group
        /\ \A c \in Challenges :
             Verifies(FrostRound(S, c), c) /\ Verifies(BlindRound(S, c), c)

\* What signers sign is what they hold: whichever two or more members sign,
\* too few, or with shares of different generations, every partial signature
\* is accepted, and the result verifies iff their shares join to the secret.
SignsIffJoins ==
    \A S \in {X \in SUBSET {m \in Seats : file[m] # None} : Cardinality(X) > 1} :
        \A c \in Challenges \ {0} :
            /\ FrostRound(S, c) # None
            /\ Verifies(FrostRound(S, c), c) <=>
                 ShamirJoin(S, [i \in S |-> file[i].y]) = group

\* Every share file loads (FrostShareFile.Signer: the share is in range and
\* verifies against its commitments), and a partial signature made with any
\* other share is refused: a file or a sub-share that was garbled, at
\* whichever resharing, never goes unnoticed.
FilesLoad ==
    \A m \in {x \in Seats : file[x] # None} :
        /\ ShareVerifies(file[m].vk, m, file[m].y)
        /\ file[m].y \in Scalars
        /\ \A c \in Challenges \ {0}, z \in Scalars :
             AddShare(m, {m}, c, z) => z = SignShare(m, {m}, c)
-----------------------------------------------------------------------------
(* Claims of the documentation that the code does not keep                 *)

\* reshare.go on ReshareCombine: "The group key is unchanged".  The members of a
\* generation hold a key of their own if a dealer did not reach them, and nobody
\* is told.
GenerationKeepsKey ==
    \A g \in 0..rounds : \A S \in Quorums(g) :
        ShamirJoin(S, [i \in S |-> file[i].y]) = group

\* frost.go, frostSelfCheck: "2 signers must fail" where the threshold is 3.
FewSignersFail ==
    \A S \in SUBSET Holders(0) :
        Cardinality(S) \in 2..t[1] - 1 => \A c \in Challenges : FrostRound(S, c) = None
=============================================================================
