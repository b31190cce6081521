--------------------------- MODULE ResilientStack ---------------------------
(***************************************************************************)
(* Requests through all the policies of packages/resilience, layered as    *)
(* docs/packages/resilience.md shows under "With Bulkhead and Rate         *)
(* Limiter": the limiter admits a request, the bulkhead gives it a slot,   *)
(* Timeout races it against a timer, and inside the race Retry calls the   *)
(* service through a circuit breaker that all requests share.              *)
(*                                                                         *)
(* Timeout does not stop what it gives up on: Retry's loop goes on calling *)
(* while the bulkhead has already handed the request's slot to the next.   *)
(* One action is what runs from one timer, answer or arrival to the next.  *)
(***************************************************************************)
EXTENDS RateLimiter, Bulkhead, CircuitBreaker

CONSTANT MaxAttempts    \* policy.maxAttempts; a policy that retries at all

ASSUME AttemptsAssumption ==
    MaxAttempts \in Nat \ {0, 1} /\ Attempts = Callers \X (1..MaxAttempts)

VARIABLES
    stage,      \* how far each request has come
    loop,       \* Retry's loop for each request
    attempt,    \* attempt
    result,     \* how the request's promise settled
    served      \* ghost: attempts the service has served for the request

requestVars == <<stage, loop, attempt, result, served>>
vars == <<limiterVars, bulkheadVars, breakerVars, requestVars>>

TypeOK ==
    /\ LimiterTypeOK /\ BulkheadTypeOK /\ BreakerTypeOK
    /\ stage \in [Callers -> {"new", "admitted", "inside", "done"}]
    /\ loop \in [Callers -> {"off", "calling", "delaying", "over"}]
    /\ attempt \in [Callers -> 0..MaxAttempts]
    /\ result \in [Callers -> {"pending", "limited", "full", "ok", "error", "timeout"}]
    /\ served \in [Callers -> 0..MaxAttempts]

Init ==
    /\ LimiterInit /\ BulkheadInit /\ BreakerInit
    /\ stage = [r \in Callers |-> "new"]
    /\ loop = [r \in Callers |-> "off"]
    /\ attempt = [r \in Callers |-> 0]
    /\ result = [r \in Callers |-> "pending"]
    /\ served = [r \in Callers |-> 0]

\* The request ends before it reaches the service.
TurnedAway(r, why) ==
    /\ stage' = [stage EXCEPT ![r] = "done"]
    /\ result' = [result EXCEPT ![r] = why]

\* The limiter is asked.
Arrive(r) ==
    /\ stage[r] = "new"
    /\ \E n \in Amounts :
         \/ Grant(n) /\ stage' = [stage EXCEPT ![r] = "admitted"] /\ UNCHANGED result
         \/ TurnDown(n) /\ TurnedAway(r, "limited")
    /\ UNCHANGED <<bulkheadVars, breakerVars, loop, attempt, served>>

\* The bulkhead is asked.
Ask(r) ==
    /\ stage[r] = "admitted"
    /\ \/ /\ Acquire(r) \/ Enqueue(r)
          /\ stage' = [stage EXCEPT ![r] = "inside"] /\ UNCHANGED result
       \/ RejectFull(r) /\ TurnedAway(r, "full")
    /\ UNCHANGED <<limiterVars, breakerVars, loop, attempt, served>>

\* The race inside the bulkhead is over: its slot goes on.
Ends(r, how) ==
    /\ Release(r)
    /\ stage' = [stage EXCEPT ![r] = "done"]
    /\ result' = [result EXCEPT ![r] = how]
Racing(r) == stage[r] = "inside" /\ place[r] = "running"

\* The loop ends with this outcome; nobody listens once the timer has won.
LoopEnds(r, how) ==
    /\ loop' = [loop EXCEPT ![r] = "over"]
    /\ IF Racing(r) THEN Ends(r, how)
       ELSE UNCHANGED <<bulkheadVars, stage, result>>

\* Retry's catch block, after attempt n.
AttemptFails(r, n) ==
    IF n < MaxAttempts
    THEN /\ loop' = [loop EXCEPT ![r] = "delaying"]
         /\ UNCHANGED <<bulkheadVars, stage, result>>
    ELSE LoopEnds(r, "error")

\* The slot is granted: the first attempt is made, then the timer starts.
Start(r) ==
    /\ Run(r)
    /\ attempt' = [attempt EXCEPT ![r] = 1]
    /\ \/ Enter(<<r, 1>>) /\ loop' = [loop EXCEPT ![r] = "calling"]
       \/ /\ Refuses /\ UNCHANGED breakerVars
          /\ loop' = [loop EXCEPT ![r] = "delaying"]
    /\ UNCHANGED <<limiterVars, stage, result, served>>

\* The delay is over: the next attempt enters the breaker or is refused.
TryAgain(r) ==
    /\ loop[r] = "delaying"
    /\ attempt' = [attempt EXCEPT ![r] = @ + 1]
    /\ \/ /\ Enter(<<r, attempt[r] + 1>>)
          /\ loop' = [loop EXCEPT ![r] = "calling"]
          /\ UNCHANGED <<bulkheadVars, stage, result>>
       \/ /\ Refuses /\ UNCHANGED breakerVars
          /\ AttemptFails(r, attempt[r] + 1)
    /\ UNCHANGED <<limiterVars, served>>

\* Mutant: only the loop's own end releases the slot.
LeakOnTimeout(r) ==
    /\ Racing(r)
    /\ stage' = [stage EXCEPT ![r] = "done"]
    /\ result' = [result EXCEPT ![r] = "timeout"]
    /\ UNCHANGED <<limiterVars, bulkheadVars, breakerVars, loop, attempt, served>>
\* The timer wins the race.
TimesOut(r) ==
    /\ Racing(r)
    /\ Ends(r, "timeout")
    /\ UNCHANGED <<limiterVars, breakerVars, loop, attempt, served>>

\* Mutant: an answer is not told apart from a failure.
AnswerRetried(r) ==
    /\ OnSuccess(<<r, attempt[r]>>)
    /\ served' = [served EXCEPT ![r] = @ + 1]
    /\ AttemptFails(r, attempt[r])
    /\ UNCHANGED <<limiterVars, attempt>>
Answers(r) ==
    /\ OnSuccess(<<r, attempt[r]>>)
    /\ served' = [served EXCEPT ![r] = @ + 1]
    /\ LoopEnds(r, "ok")
    /\ UNCHANGED <<limiterVars, attempt>>

Fails(r) ==
    /\ OnFailure(<<r, attempt[r]>>)
    /\ AttemptFails(r, attempt[r])
    /\ UNCHANGED <<limiterVars, attempt, served>>

Environment ==
    \/ LimiterTick /\ UNCHANGED <<bulkheadVars, breakerVars, requestVars>>
    \/ (BreakerTick \/ Toggle) /\ UNCHANGED <<limiterVars, bulkheadVars, requestVars>>

Next ==
    \/ Environment
    \/ \E r \in Callers :
         \/ Arrive(r) \/ Ask(r) \/ Start(r) \/ TryAgain(r)
         \/ TimesOut(r) \/ Answers(r) \/ Fails(r)

Spec == Init /\ [][Next]_vars

(* The event loop runs continuations, delays end and timers fire.  Nothing *)
(* is asked of the service, whose calls may hang.                          *)
Fairness ==
    \A r \in Callers : /\ WF_vars(Ask(r)) /\ WF_vars(Start(r))
                       /\ WF_vars(TryAgain(r)) /\ WF_vars(TimesOut(r))
FairSpec == Spec /\ Fairness

-----------------------------------------------------------------------------
(* A caller can trust the outcome it is told.  "ok" means that the service *)
(* served the request, exactly once however often Retry called; any other  *)
(* outcome but a timeout means that it did not and will not.               *)
OutcomeTold ==
    \A r \in Callers :
        /\ served[r] <= 1
        /\ result[r] = "ok" => served[r] = 1
        /\ result[r] \in {"limited", "full", "error"} => served[r] = 0

(* Every request that arrives is answered, the ones in the bulkhead's      *)
(* queue included, although the service may never answer a call.           *)
AlwaysSettles ==
    \A r \in Callers : stage[r] # "new" ~> stage[r] = "done"

(* docs/packages/resilience.md:87: "at most 10 simultaneous calls": the    *)
(* service behind a bulkhead never works on more calls than the limit.     *)
ServiceProtected == Cardinality(inCall) <= MaxConcurrent
=============================================================================
