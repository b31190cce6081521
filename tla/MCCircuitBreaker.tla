--------------------------- MODULE MCCircuitBreaker ---------------------------
(***************************************************************************)
(* The breaker alone, beside what its documentation says of it: an option  *)
(* successThreshold, which the code does not have.                         *)
(***************************************************************************)
EXTENDS CircuitBreaker

CONSTANT SuccessThreshold   \* of docs/packages/resilience.md:19

VARIABLE row        \* ghost: successes since the last failure, up to SuccessThreshold

\* Counts the successes that no failure came between.
InARow ==
    row' = IF \E c \in Attempts : OnFailure(c) THEN 0
           ELSE IF \E c \in Attempts : OnSuccess(c) /\ row < SuccessThreshold THEN row + 1
           ELSE row

MCSpec ==
    /\ BreakerInit /\ row = 0
    /\ [][BreakerNext /\ InARow]_<<breakerVars, row>>
    /\ WF_breakerVars(BreakerTick)

\* docs/packages/resilience.md:19 and :29: "close again after 2 consecutive
\* successes", and "OPEN (failing fast) -> HALF-OPEN (testing recovery) ->
\* CLOSED". The breaker closes only by trials, as many as the threshold says:
\* not so, onSuccess (CircuitBreaker.ts:43-46) closes it after one success, in
\* whatever state it is, the success of a call from before it opened included.
ClosesAfterTrials ==
    [][state # "CLOSED" /\ state' = "CLOSED" =>
         state = "HALF_OPEN" /\ row' = SuccessThreshold]_<<breakerVars, row>>
=============================================================================
