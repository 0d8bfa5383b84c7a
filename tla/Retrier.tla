------------------------------ MODULE Retrier ------------------------------
(***************************************************************************)
(* internal/retry: Retrier.Do, which every API read, node wait and network *)
(* request of nodeadm goes through, and the handler                        *)
(* NewMaxConsecutiveErrorHandler that kubernetes.WaitFor installs.         *)
(*                                                                         *)
(* The loop itself is wait.ExponentialBackoffWithContext of                *)
(* k8s.io/apimachinery, which is not part of the repository: LoopHead,     *)
(* Backoff and CtxExpires model it from how Do uses it.                    *)
(***************************************************************************)
EXTENDS Naturals

CONSTANTS
    Retriers,   \* the Retrier values in use, as records of RetrierType
    Outcomes    \* the outcomes [done, err] the operation may return

\* The fields of Retrier that steer the loop. steps = 0 is the "no limit" value
\* of Backoff.Steps, handler is "none" when HandleError is nil, maxAttempts is
\* the argument of NewMaxConsecutiveErrorHandler, and timeout says that the
\* context Do runs under has a deadline (Timeout # 0, or the caller's own).
RetrierType ==
    [steps : Nat, handler : {"none", "maxConsecutive"}, maxAttempts : Nat, timeout : BOOLEAN]

ASSUME RetrierAssumption ==
    /\ Retriers \subseteq RetrierType
    /\ Outcomes \subseteq [done : BOOLEAN, err : BOOLEAN]

VARIABLES
    r,         \* the receiver of Do
    pc,        \* where the loop is
    left,      \* backoff.Steps of the copy the loop decrements
    ctx,       \* "live" or "expired" (deadline passed or caller cancelled)
    ret,       \* what the operation returned last
    lastErr,   \* Do's lastErr # nil
    attempts,  \* the handler's closure variable
    result,    \* what Do returned
    streak     \* history: errors the operation returned in a row, up to now

vars == <<r, pc, left, ctx, ret, lastErr, attempts, result, streak>>

Limited == r.steps # 0

\* `streak` and, without a handler, nothing else counts failures without a
\* limit; StreakCap bounds the history variable one above what is told apart.
StreakCap == r.maxAttempts + 2

TypeOK ==
    /\ r \in Retriers
    /\ pc \in {"head", "op", "handle", "backoff", "exit", "returned"}
    /\ left \in 0..r.steps
    /\ ctx \in {"live", "expired"}
    /\ ret \in [done : BOOLEAN, err : BOOLEAN]
    /\ lastErr \in BOOLEAN
    /\ attempts \in 0..(r.maxAttempts + 1)
    /\ result \in {"none", "nil", "nonRetryable", "interrupted", "interruptedWrapped"}
    /\ streak \in 0..StreakCap

\* Do has copied the backoff; Steps = 0 became math.MaxInt, which no run of
\* the loop uses up, and is kept as "not limited" here.
Init ==
    /\ r \in Retriers
    /\ pc = "head"
    /\ left = r.steps
    /\ ctx = "live"
    /\ ret = [done |-> FALSE, err |-> FALSE]
    /\ lastErr = FALSE
    /\ attempts = 0
    /\ result = "none"
    /\ streak = 0

\* The deadline passes, or the caller cancels, at any time during the loop.
CtxExpires ==
    /\ r.timeout
    /\ ctx = "live"
    /\ pc # "returned"
    /\ ctx' = "expired"
    /\ UNCHANGED <<r, pc, left, ret, lastErr, attempts, result, streak>>

\* Top of the loop: no steps left ends it, then the context is looked at.
LoopHead ==
    /\ pc = "head"
    /\ pc' = IF (Limited /\ left = 0) \/ ctx = "expired" THEN "exit" ELSE "op"
    /\ result' = IF pc' = "exit" THEN "interrupted" ELSE result
    /\ UNCHANGED <<r, left, ctx, ret, lastErr, attempts, streak>>

\* done, err := op(ctx); a non-nil error is remembered. With the context
\* expired (it may expire after LoopHead looked) the operation still runs.
Operate(o) ==
    /\ pc = "op"
    /\ ret' = o
    /\ lastErr' = (lastErr \/ o.err)
    /\ streak' = IF ~o.err THEN 0 ELSE IF streak < StreakCap THEN streak + 1 ELSE streak
    /\ pc' = "handle"
    /\ UNCHANGED <<r, left, ctx, attempts, result>>

\* The closure of NewMaxConsecutiveErrorHandler: nil resets the count, an
\* error raises it, and above maxAttempts the loop is told to stop.
HandlerAttemptsNoReset(err) == IF err THEN attempts + 1 ELSE attempts  \* mutant
HandlerAttempts(err) == IF err THEN attempts + 1 ELSE 0
HandlerRejects(err) == r.handler = "maxConsecutive" /\ HandlerAttempts(err) > r.maxAttempts

\* Whether the condition function reports "done" to the loop. A handler that
\* lets the error pass has overwritten err with nil by the time it is tested.
ConditionDoneIgnoresErr == ret.done  \* mutant: the error is not tested at all
ConditionDone == ret.done /\ (r.handler # "none" \/ ~ret.err)

\* The rest of the condition function, after the operation.
Handle ==
    /\ pc = "handle"
    /\ attempts' = IF r.handler = "maxConsecutive" THEN HandlerAttempts(ret.err) ELSE attempts
    /\ \/ /\ HandlerRejects(ret.err)
          /\ pc' = "exit" /\ result' = "nonRetryable"
       \/ /\ ~HandlerRejects(ret.err) /\ ConditionDone
          /\ pc' = "exit" /\ result' = "nil"
       \/ /\ ~HandlerRejects(ret.err) /\ ~ConditionDone
          /\ pc' = "backoff" /\ UNCHANGED result
    /\ UNCHANGED <<r, left, ctx, ret, lastErr, streak>>

BackoffIgnoresCtx ==  \* mutant: neither the steps nor the context end the wait
    /\ pc = "backoff"
    /\ pc' = "op"
    /\ UNCHANGED <<r, left, result, ctx, ret, lastErr, attempts, streak>>

\* Between two rounds: the last step ends the loop, an expired context may
\* end the wait, and otherwise the timer fires and one step is used up.
Backoff ==
    /\ pc = "backoff"
    /\ \/ /\ Limited /\ left = 1
          /\ pc' = "exit" /\ result' = "interrupted" /\ UNCHANGED left
       \/ /\ ~(Limited /\ left = 1) /\ ctx = "expired"
          /\ pc' = "exit" /\ result' = "interrupted"
          /\ left' = IF Limited THEN left - 1 ELSE left
       \/ /\ ~(Limited /\ left = 1)
          /\ pc' = "head" /\ UNCHANGED result
          /\ left' = IF Limited THEN left - 1 ELSE left
    /\ UNCHANGED <<r, ctx, ret, lastErr, attempts, streak>>

\* After the loop: an interruption is wrapped around the last error, if any.
Return ==
    /\ pc = "exit"
    /\ pc' = "returned"
    /\ result' = IF result = "interrupted" /\ lastErr THEN "interruptedWrapped" ELSE result
    /\ UNCHANGED <<r, left, ctx, ret, lastErr, attempts, streak>>

Loop == LoopHead \/ (\E o \in Outcomes : Operate(o)) \/ Handle \/ Backoff \/ Return

Next == CtxExpires \/ Loop

Spec == Init /\ [][Next]_vars

\* The loop runs in the calling goroutine, operations return (they are given
\* the context), and a deadline, where there is one, passes.
FairSpec == Spec /\ WF_vars(Loop) /\ WF_vars(CtxExpires)

-----------------------------------------------------------------------------
\* A nil result means that the operation said, in its last call, that it was done.
\* That call had an error only where a handler is installed and the streak of errors
\* is still within its limit: err is overwritten by the handler's nil before it is
\* tested, so Do then returns nil over the error and does not "return false to retry
\* the operation", as the comment above the test has it. Without a handler, nil is
\* never returned over an error.
SuccessIsReal ==
    result = "nil" =>
        /\ ret.done
        /\ ret.err => r.handler = "maxConsecutive" /\ streak <= r.maxAttempts

\* With the handler of WaitFor, the loop gives up on errors exactly when the
\* operation has failed maxAttempts + 1 times in a row, across any number of
\* rounds and however many failures came before the last success.
GivesUpOnStreak ==
    /\ result = "nonRetryable" => streak = r.maxAttempts + 1
    /\ (r.handler = "maxConsecutive" /\ streak > r.maxAttempts)
          => pc = "handle" \/ result = "nonRetryable"

\* The inductive invariant behind TypeOK and GivesUpOnStreak: inside the loop
\* nothing has been returned yet, a limited loop that reached the operation has
\* a step left, and the handler's count is the true streak except between the
\* operation and the handler, where it lags by the outcome just returned.
InLoop == pc \in {"head", "op", "handle", "backoff"}
LoopInv ==
    /\ TypeOK
    /\ InLoop => result = "none"
    /\ pc = "exit" => result \in {"nil", "nonRetryable", "interrupted"}
    /\ (Limited /\ pc \in {"op", "handle", "backoff"}) => left >= 1
    /\ InLoop => attempts <= r.maxAttempts
    /\ (r.handler = "maxConsecutive" /\ pc # "handle") => streak = attempts
    /\ (r.handler = "maxConsecutive" /\ pc = "handle")
          => streak = (IF ret.err THEN attempts + 1 ELSE 0)
    /\ (r.handler = "maxConsecutive" /\ ~InLoop /\ attempts > r.maxAttempts)
          => result = "nonRetryable"
    /\ result = "nonRetryable"
          => r.handler = "maxConsecutive" /\ streak = r.maxAttempts + 1
    /\ result = "nil" => ret.done

\* Every call of Do returns: Timeout or Steps end the loop.
DoReturns == <>(pc = "returned")
=============================================================================
