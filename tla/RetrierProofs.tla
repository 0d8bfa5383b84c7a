--------------------------- MODULE RetrierProofs ---------------------------
(***************************************************************************)
(* What Retrier.Do guarantees for every Retrier value and every operation, *)
(* not only for the three Retrier values of the repository, and what the   *)
(* checks before uninstall and upgrade, the requests of which run in Do,   *)
(* guarantee for any pods.                                                 *)
(***************************************************************************)
EXTENDS Retrier, NodePreflight, TLAPS

\* The loop starts, and every step of it stays, in LoopInv.
LEMMA LoopInvInductive ==
    /\ Init => LoopInv
    /\ LoopInv /\ [Next]_vars => LoopInv'
<1> USE RetrierAssumption
<1>1. ASSUME Init PROVE LoopInv
  <2> USE <1>1 DEF Init
  <2>1. r \in RetrierType
    OBVIOUS
  <2>2. r.steps \in Nat /\ r.maxAttempts \in Nat
    BY <2>1 DEF RetrierType
  <2>3. ret \in [done : BOOLEAN, err : BOOLEAN] /\ lastErr \in BOOLEAN
    BY Zenon
  <2>4. TypeOK
    BY <2>2, <2>3 DEF TypeOK, StreakCap
  <2>5. 0 <= r.maxAttempts
    BY <2>2
  <2> QED BY <2>2, <2>4, <2>5 DEF LoopInv, InLoop, Limited
<1>2. ASSUME LoopInv, [Next]_vars PROVE LoopInv'
  <2> USE <1>2 DEF LoopInv, TypeOK, RetrierType, InLoop, Limited, StreakCap
  <2>1. CASE CtxExpires
    BY <2>1 DEF CtxExpires
  <2>2. CASE LoopHead
    BY <2>2 DEF LoopHead
  <2>3. ASSUME NEW o \in Outcomes, Operate(o) PROVE LoopInv'
    BY <2>3 DEF Operate
  <2>4. CASE Handle
    <3> USE DEF HandlerAttempts, HandlerRejects, ConditionDone
    <3>1. CASE HandlerRejects(ret.err)
      BY <2>4, <3>1 DEF Handle
    <3>2. CASE ~HandlerRejects(ret.err)
      BY <2>4, <3>2 DEF Handle
    <3> QED BY <3>1, <3>2
  <2>5. CASE Backoff
    BY <2>5 DEF Backoff
  <2>6. CASE Return
    BY <2>6 DEF Return
  <2>7. CASE UNCHANGED vars
    BY <2>7 DEF vars
  <2> QED BY <1>2, <2>1, <2>2, <2>3, <2>4, <2>5, <2>6, <2>7 DEF Next, Loop
<1> QED BY <1>1, <1>2

\* The inductive invariant of Do's loop, and with it the types, whatever the Retrier's
\* limits are: the handler's count is the length of the current streak of errors.
THEOREM LoopIsConsistent == Spec => []LoopInv
<1> QED BY LoopInvInductive, PTL DEF Spec

\* For every limit, Do gives up on errors exactly after maxAttempts + 1
\* consecutive ones (NewMaxConsecutiveErrorHandler).
THEOREM GivesUpOnlyOnStreak == Spec => []GivesUpOnStreak
<1>1. LoopInv => GivesUpOnStreak
  BY RetrierAssumption DEF LoopInv, GivesUpOnStreak, TypeOK, RetrierType, InLoop
<1> QED BY <1>1, LoopInvInductive, PTL DEF Spec

\* For every Retrier and whatever operations return, done together with an error
\* included: Do returns nil only over a call that was done, and over an error only
\* when a handler let it pass within its limit.
THEOREM SuccessIsRealForAnyOperation == Spec => []SuccessIsReal
<1> DEFINE Inv == LoopInv /\ SuccessIsReal
<1>1. Init => Inv
  BY LoopInvInductive DEF Init, SuccessIsReal
<1>2. ASSUME Inv, [Next]_vars PROVE Inv'
  <2>1. LoopInv'
    BY <1>2, LoopInvInductive
  <2> USE <1>2, RetrierAssumption
      DEF LoopInv, TypeOK, RetrierType, InLoop, Limited, SuccessIsReal
  <2>2. CASE CtxExpires \/ LoopHead \/ Backoff \/ Return \/ UNCHANGED vars
    BY <2>1, <2>2 DEF CtxExpires, LoopHead, Backoff, Return, vars
  <2>3. ASSUME NEW o \in Outcomes, Operate(o) PROVE Inv'
    BY <2>1, <2>3 DEF Operate
  <2>4. CASE Handle
    BY <2>1, <2>4 DEF Handle, HandlerAttempts, HandlerRejects, ConditionDone, StreakCap
  <2> QED BY <1>2, <2>2, <2>3, <2>4 DEF Next, Loop
<1>3. Inv => SuccessIsReal
  OBVIOUS
<1> QED BY <1>1, <1>2, <1>3, PTL DEF Spec

\* How far Do is from its end once its context has expired, and how far it is from the
\* end of a round.
AfterExpiry(where) ==
    CASE where = "op" -> 5 [] where = "handle" -> 4 [] where = "backoff" -> 3
      [] where = "head" -> 2 [] where = "exit" -> 1 [] OTHER -> 0
OfRound(where) ==
    CASE where = "head" -> 5 [] where = "op" -> 4 [] where = "handle" -> 3
      [] where = "backoff" -> 2 [] where = "exit" -> 1 [] OTHER -> 0

\* Once its deadline has passed Do calls the operation at most once more and returns,
\* whatever operation and handler answer: a timer that fires together with the deadline
\* leads to the head of the loop, and from there to the end. With the fairness of
\* FairSpec this is why DoReturns holds for every Retrier with a deadline.
THEOREM ExpiredIsLastRound ==
    Spec => [][ctx = "expired" => AfterExpiry(pc') < AfterExpiry(pc)]_vars
<1>1. ASSUME Next, ctx = "expired" PROVE AfterExpiry(pc') < AfterExpiry(pc)
  BY <1>1
  DEF Next, Loop, CtxExpires, LoopHead, Operate, Handle, Backoff, Return, AfterExpiry
<1>2. [Next]_vars => [ctx = "expired" => AfterExpiry(pc') < AfterExpiry(pc)]_vars
  BY <1>1
<1> QED BY <1>2, PTL DEF Spec

\* A limited Do also returns without a deadline: each of its steps gets on with the
\* round, or begins one with a step less (Backoff.Steps), however often the operation
\* answers neither done nor with an error that the handler refuses.
THEOREM LimitedRoundsRunOut ==
    Spec => [][Limited => \/ ctx = "live" /\ ctx' = "expired"
                          \/ left' < left
                          \/ left' = left /\ OfRound(pc') < OfRound(pc)]_vars
<1> DEFINE Shorter ==
        Limited => \/ ctx = "live" /\ ctx' = "expired"
                   \/ left' < left
                   \/ left' = left /\ OfRound(pc') < OfRound(pc)
<1>1. ASSUME LoopInv, Next PROVE Shorter
  <2>1. left \in Nat /\ (Limited /\ pc = "backoff" => left >= 1)
    BY <1>1, RetrierAssumption DEF LoopInv, TypeOK, RetrierType
  <2>2. CASE CtxExpires
    BY <2>2 DEF CtxExpires
  <2>3. CASE LoopHead \/ Handle \/ Return
    BY <2>3 DEF LoopHead, Handle, Return, OfRound
  <2>4. CASE Backoff
    BY <2>1, <2>4 DEF Backoff, OfRound
  <2>5. ASSUME NEW o \in Outcomes, Operate(o) PROVE Shorter
    BY <2>5 DEF Operate, OfRound
  <2> QED BY <1>1, <2>2, <2>3, <2>4, <2>5 DEF Next, Loop
<1>2. LoopInv /\ [Next]_vars => [Shorter]_vars
  BY <1>1
<1> QED BY <1>2, LoopIsConsistent, PTL DEF Spec

-----------------------------------------------------------------------------
\* The inductive invariant behind CordonedStaysDrained: a node that counts as cordoned
\* since the listing has not been schedulable in between, so nothing could be bound.
DrainInv == PreflightTypeOK /\ (cordoned => node # "schedulable") /\ CordonedStaysDrained

\* For any pods, no step of the cluster or of the command binds a workload to a node
\* that has stayed cordoned (IsDrained, IsUnscheduled).
LEMMA DrainInvHolds == PreflightSpec => []DrainInv
<1> USE DEF DrainInv, PreflightTypeOK, PodsChecked, Workload, CordonedStaysDrained
<1>1. PreflightInit => DrainInv
  BY DEF PreflightInit
<1>2. ASSUME DrainInv, [PreflightNext]_preflightVars PROVE DrainInv'
  <2>1. ASSUME NEW p \in Pods, Bind(p) PROVE DrainInv'
    BY <1>2, <2>1 DEF Bind
  <2>2. ASSUME NEW p \in Pods, Evict(p) PROVE DrainInv'
    BY <1>2, <2>2 DEF Evict
  <2>3. ASSUME NEW n \in {"schedulable", "unschedulable", "gone"}, SetNode(n)
        PROVE  DrainInv'
    BY <1>2, <2>3 DEF SetNode
  <2>4. ASSUME NEW k \in {"running", "stopped", "unknown"}, SetKubelet(k)
        PROVE  DrainInv'
    BY <1>2, <2>4 DEF SetKubelet
  <2>5. ASSUME NEW s \in SUBSET Phases, Start(s) PROVE DrainInv'
    BY <1>2, <2>5 DEF Start
  <2>6. CASE CheckDrained
    BY <1>2, <2>6 DEF CheckDrained, IsDrained, StaticPodsFilter, StaticPodNames, DaemonSetFilter
  <2>7. CASE CheckUnscheduled
    BY <1>2, <2>7 DEF CheckUnscheduled
  <2>8. CASE Finish
    BY <1>2, <2>8 DEF Finish
  <2>9. CASE UNCHANGED preflightVars
    BY <1>2, <2>9 DEF preflightVars
  <2> QED BY <1>2, <2>1, <2>2, <2>3, <2>4, <2>5, <2>6, <2>7, <2>8, <2>9 DEF PreflightNext, Command, Cluster
<1> QED BY <1>1, <1>2, PTL DEF PreflightSpec

\* However many pods come and go, a node that stays cordoned from the listing of
\* its pods on has no workload when the flow starts (IsDrained, IsUnscheduled).
THEOREM CordonedIsDrained == PreflightSpec => []CordonedStaysDrained
<1>1. DrainInv => CordonedStaysDrained
  BY DEF DrainInv
<1> QED BY <1>1, DrainInvHolds, PTL
=============================================================================
