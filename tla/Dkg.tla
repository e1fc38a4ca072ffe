-------------------------------- MODULE Dkg ---------------------------------
(***************************************************************************)
(* The pairwise distributed key generation (dkg.go, dkg-net of             *)
(* cmd/council).  Member n dials every higher member in turn and exchanges *)
(* commitments and shares with it; it waits for the lower members to dial  *)
(* it, and finishes once all N-1 exchanges are recorded.                   *)
(*                                                                         *)
(* The polynomial of a member is drawn when its process starts, so it is   *)
(* named by the run that drew it; shares always verify against honestly    *)
(* made commitments.  The group key of a member is the set of polynomials  *)
(* it combined.  A member may crash or abort and be started again: the     *)
(* session id is derived from the member list alone, so old and new runs   *)
(* of a ceremony talk to each other.                                       *)
(***************************************************************************)
EXTENDS Naturals

CONSTANTS
    N,          \* members M1..MN
    MayBeLate,  \* TRUE: a member may be started after the dial window
    MaxRuns,    \* bound on process starts per member
    MaxLosses   \* bound on connections lost

ASSUME MembersAtLeastTwo == N \in Nat /\ N >= 2
ASSUME LateBoolean == MayBeLate \in BOOLEAN
ASSUME DkgBounds == MaxRuns \in Nat \ {0} /\ MaxLosses \in Nat

Members == 1..N

VARIABLES
    st,     \* st[n]: "off", "dial", "wait", "done", "gone" or "abort"
    run,    \* run[n]: number of the current run of member n
    got,    \* got[n][p]: the run of p whose material n recorded, or 0
    call,   \* call[n]: progress of n's outgoing exchange
    errc,   \* errc[n]: a connection of n's listener has failed
    losses

vars == <<st, run, got, call, errc, losses>>

Listening(p) == st[p] \in {"dial", "wait"}

Running(p) == Listening(p) \/ st[p] = "done"

NoCall == [stage |-> "none", run |-> 0]

Stages == {"none", "sent", "recorded", "replied", "eof", "reset"}

Nothing == [p \in Members |-> 0]

\* The peer that the dial loop of n is at: 0 when it is through.
Target(n) ==
    LET open == {p \in Members : p > n /\ got[n][p] = 0}
    IN  IF open = {} THEN 0 ELSE CHOOSE p \in open : \A q \in open : p <= q

\* Mutant of Complete: counts N exchanges.
CompleteAll(n) == \A p \in Members : got[n][p] # 0

\* The N-1 exchanges that RunOn counts are done.
Complete(n) == \A p \in Members \ {n} : got[n][p] # 0

\* DkgFinalize: the group key is the sum of the polynomials that n combined, its
\* own and those it recorded.
Group(n) == [p \in Members |-> IF p = n THEN run[n] ELSE got[n][p]]

Init ==
    /\ st = [n \in Members |-> "off"]
    /\ run = [n \in Members |-> 0]
    /\ got = [n \in Members |-> Nothing]
    /\ call = [n \in Members |-> NoCall]
    /\ errc = [n \in Members |-> FALSE]
    /\ losses = 0

\* Calls to p end when its process does: with an EOF or with a reset.  (A frame
\* handled after the end of its sender is as one handled just before, or a
\* duplicate.)
EndCalls(p) == \E f \in {"eof", "reset"} :
    call' = [n \in Members |->
               IF n = p THEN NoCall
               ELSE IF Target(n) = p /\ call[n].stage \in {"sent", "recorded"}
                    THEN [call[n] EXCEPT !.stage = f] ELSE call[n]]
-----------------------------------------------------------------------------
(* One member                                                              *)

\* A fresh polynomial, its commitments and the shares of it.
DkgGenerate(n) == run' = [run EXCEPT ![n] = @ + 1]

\* Mutant of Start: the exchanges of an earlier run are kept.
StartResuming(n) ==
    /\ st[n] \in {"off", "abort"}
    /\ run[n] < MaxRuns
    /\ DkgGenerate(n)
    /\ st' = [st EXCEPT ![n] = "dial"]
    /\ call' = [call EXCEPT ![n] = NoCall]
    /\ errc' = [errc EXCEPT ![n] = FALSE]
    /\ UNCHANGED <<got, losses>>

\* NewDkgNode and the start of RunOn.
Start(n) ==
    /\ st[n] \in {"off", "abort"}
    /\ run[n] < MaxRuns
    /\ DkgGenerate(n)
    /\ st' = [st EXCEPT ![n] = "dial"]
    /\ got' = [got EXCEPT ![n] = Nothing]
    /\ call' = [call EXCEPT ![n] = NoCall]
    /\ errc' = [errc EXCEPT ![n] = FALSE]
    /\ UNCHANGED losses

\* exchange: dialCouncil succeeds, the frame is sent.
Dial(n) ==
    /\ st[n] = "dial" /\ call[n].stage = "none"
    /\ Target(n) # 0 /\ Listening(Target(n))
    /\ call' = [call EXCEPT ![n] = [stage |-> "sent", run |-> run[n]]]
    /\ UNCHANGED <<st, run, got, errc, losses>>

\* dialWithRetry: the peer did not listen for the whole window.
DialTimeout(n) ==
    /\ st[n] = "dial" /\ call[n].stage = "none"
    /\ Target(n) # 0 /\ ~Listening(Target(n))
    /\ st[Target(n)] = "off" => MayBeLate
    /\ st' = [st EXCEPT ![n] = "abort"]
    /\ EndCalls(n)
    /\ UNCHANGED <<run, got, errc, losses>>

\* handleFrame of the peer, up to the reply: recordPeer, which refuses a
\* second exchange; the error goes to the peer's own errc.
ServePeer(n) ==
    LET p == Target(n)
    IN  /\ call[n].stage = "sent"
        /\ Listening(p)
        /\ IF got[p][n] = 0
             THEN /\ got' = [got EXCEPT ![p][n] = run[n]]
                  /\ call' = [call EXCEPT ![n].stage = "recorded"]
                  /\ UNCHANGED errc
             ELSE /\ errc' = [errc EXCEPT ![p] = TRUE]
                  /\ call' = [call EXCEPT ![n].stage = "eof"]
                  /\ UNCHANGED got
        /\ UNCHANGED <<st, run, losses>>

\* The same after RunOn has closed the listener: the goroutines of connections
\* that were accepted go on, and recordPeer answers them.
ServeLate(n) ==
    /\ call[n].stage = "sent"
    /\ st[Target(n)] = "done"
    /\ call' = [call EXCEPT ![n].stage = "eof"]
    /\ UNCHANGED <<st, run, got, errc, losses>>

\* The peer writes its reply.
WriteReply(n) ==
    /\ call[n].stage = "recorded"
    /\ Running(Target(n))
    /\ call' = [call EXCEPT ![n] = [stage |-> "replied", run |-> run[Target(n)]]]
    /\ UNCHANGED <<st, run, got, errc, losses>>

\* exchange returns: recordPeer on the dialing side.
Receive(n) ==
    /\ st[n] = "dial" /\ call[n].stage = "replied"
    /\ got' = [got EXCEPT ![n][Target(n)] = call[n].run]
    /\ call' = [call EXCEPT ![n] = NoCall]
    /\ UNCHANGED <<st, run, errc, losses>>

\* dialWithRetry on a failed exchange: a *net.OpError is tried again while the
\* window lasts, everything else ends the ceremony.
Retry(n) ==
    /\ st[n] = "dial" /\ call[n].stage = "reset"
    /\ call' = [call EXCEPT ![n] = NoCall]
    /\ UNCHANGED <<st, run, got, errc, losses>>

FailExchange(n) ==
    /\ st[n] = "dial" /\ call[n].stage \in {"eof", "reset"}
    /\ EndCalls(n)
    /\ st' = [st EXCEPT ![n] = "abort"]
    /\ UNCHANGED <<run, got, errc, losses>>

\* The dial loop is through: poll the count.
StartWaiting(n) ==
    /\ st[n] = "dial" /\ Target(n) = 0
    /\ st' = [st EXCEPT ![n] = "wait"]
    /\ UNCHANGED <<run, got, call, errc, losses>>

\* finish: DkgFinalize over all pieces; the share file is written.
Finish(n) ==
    /\ st[n] = "wait" /\ Complete(n)
    /\ st' = [st EXCEPT ![n] = "done"]
    /\ UNCHANGED <<run, got, call, errc, losses>>

\* RunOn sees an error of its listener before the count is complete.
FailListener(n) ==
    /\ st[n] = "wait" /\ ~Complete(n) /\ errc[n]
    /\ st' = [st EXCEPT ![n] = "abort"]
    /\ EndCalls(n)
    /\ UNCHANGED <<run, got, errc, losses>>

\* main returns after the share file is written, whatever its goroutines do.
ExitProcess(n) ==
    /\ st[n] = "done"
    /\ st' = [st EXCEPT ![n] = "gone"]
    /\ EndCalls(n)
    /\ UNCHANGED <<run, got, errc, losses>>
-----------------------------------------------------------------------------
(* Faults                                                                  *)

LoseConnection(n) ==
    /\ losses < MaxLosses
    /\ losses' = losses + 1
    /\ call[n].stage \in {"sent", "recorded", "replied"}
    /\ call' = [call EXCEPT ![n].stage = "reset"]
    /\ UNCHANGED <<st, run, got, errc>>

Crash(n) ==
    /\ Listening(n)
    /\ run[n] < MaxRuns
    /\ st' = [st EXCEPT ![n] = "off"]
    /\ EndCalls(n)
    /\ UNCHANGED <<run, got, errc, losses>>

Step(n) ==
    \/ Dial(n) \/ ServePeer(n) \/ ServeLate(n) \/ WriteReply(n) \/ Receive(n)
    \/ FailExchange(n) \/ StartWaiting(n) \/ Finish(n) \/ FailListener(n)

Next == \E n \in Members :
    \/ Start(n) \/ Step(n) \/ Retry(n) \/ DialTimeout(n) \/ ExitProcess(n)
    \/ LoseConnection(n) \/ Crash(n)

Spec == Init /\ [][Next]_vars

\* Every member is started, a running member goes on, and a dial loop that
\* finds nobody stops at the end of its window.
FairSpec == Spec /\ \A n \in Members : WF_vars(Step(n) \/ DialTimeout(n)) /\ WF_vars(Start(n))
-----------------------------------------------------------------------------
(* Properties                                                              *)

Finished(n) == st[n] \in {"done", "gone"}

\* Type correctness; what is recorded comes from a run that took place.
TypeOK ==
    /\ st \in [Members -> {"off", "dial", "wait", "done", "gone", "abort"}]
    /\ run \in [Members -> 0..MaxRuns]
    /\ got \in [Members -> [Members -> 0..MaxRuns]]
    /\ call \in [Members -> [stage : Stages, run : 0..MaxRuns]]
    /\ errc \in [Members -> BOOLEAN]
    /\ losses \in 0..MaxLosses
    /\ \A n, p \in Members : got[n][p] <= run[p]

\* Members that finished used each other's latest material, so that once all
\* have finished they hold one group key: restarts, lost replies and retries
\* in between may end a ceremony, but never complete it with members that
\* combined different polynomials.
PairAgrees ==
    \A n, m \in Members :
        n # m /\ Finished(n) /\ Finished(m) => got[n][m] = run[m]

\* Neither a lost connection nor a crash, and nobody had to start again.
NoFault ==
    /\ losses = 0
    /\ \A n \in Members : run[n] <= 1 /\ (st[n] = "off" => run[n] = 0)

\* As long as there is no fault and no process exits, every member ends with
\* its share: dialing upwards only, each member serving while it dials, cannot
\* deadlock.
Completes ==
    []NoFault => \A n \in Members : <>(Finished(n) \/ \E p \in Members : st[p] = "gone")
-----------------------------------------------------------------------------
(* Claims of the documentation that the code does not keep                 *)

\* Run: "Returns the group public key (must be identical on every member)".
GroupIdentical ==
    \A n, m \in Members : Finished(n) /\ Finished(m) => Group(n) = Group(m)

\* finish: the group key is combined "once all N-1 pairs are done": with no
\* restart and no lost connection, no member is left without its share.
NoneLeftBehind ==
    losses = 0 /\ (\A n \in Members : run[n] = 1) => \A n \in Members : st[n] # "abort"

\* Topology: "one connection per pair, no deadlock": RunOn returns.
RunReturns == \A n \in Members : Listening(n) ~> ~Listening(n)
=============================================================================
