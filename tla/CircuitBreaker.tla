--------------------------- MODULE CircuitBreaker ---------------------------
(***************************************************************************)
(* CircuitBreaker of packages/resilience and the service behind it.        *)
(*                                                                         *)
(* execute decides at once whether the call goes through, and counts its   *)
(* outcome only when the call settles: any number of calls are in between, *)
(* started before the breaker opened, or as trials of a half-open one.     *)
(***************************************************************************)
EXTENDS Integers

CONSTANTS
    Attempts,       \* calls of execute that can be in progress
    Threshold,      \* failureThreshold
    ResetTimeout,   \* resetTimeoutMs, in clock ticks
    FailureCap      \* bound: failures stop counting here

ASSUME ThresholdAssumption == Threshold \in Nat \ {0}
ASSUME ResetAssumption == ResetTimeout \in Nat
ASSUME BreakerCapAssumption == FailureCap \in Nat /\ FailureCap >= Threshold

VARIABLES
    state,      \* state
    failures,   \* failures
    since,      \* time since lastFailureTime, up to ResetTimeout + 1
    inCall,     \* calls whose fn has not settled
    up          \* the service behind fn answers

breakerVars == <<state, failures, since, inCall, up>>

BreakerStates == {"CLOSED", "OPEN", "HALF_OPEN"}

BreakerTypeOK ==
    /\ state \in BreakerStates
    /\ failures \in Nat
    /\ since \in 0..ResetTimeout + 1
    /\ inCall \subseteq Attempts
    /\ up \in BOOLEAN

BreakerInit ==
    /\ state = "CLOSED"
    /\ failures = 0
    /\ since = 0
    /\ inCall = {}
    /\ up = TRUE

Rested == since > ResetTimeout

\* execute lets the call through.
Enter(c) ==
    /\ state = "OPEN" => Rested
    /\ state' = IF state = "OPEN" THEN "HALF_OPEN" ELSE state
    /\ inCall' = inCall \cup {c}
    /\ UNCHANGED <<failures, since, up>>

\* execute throws CircuitBreakerOpenError.
Refuses == state = "OPEN" /\ ~Rested
Refuse(c) == Refuses /\ UNCHANGED breakerVars

\* The call fulfils: onSuccess, in whatever state the breaker is by now.
OnSuccess(c) ==
    /\ c \in inCall /\ up
    /\ failures' = 0
    /\ state' = "CLOSED"
    /\ inCall' = inCall \ {c}
    /\ UNCHANGED <<since, up>>

\* The call rejects: onFailure.
OnFailure(c) ==
    /\ c \in inCall /\ ~up
    /\ failures' = IF failures < FailureCap THEN failures + 1 ELSE failures
    /\ since' = 0
    /\ state' = IF failures' >= Threshold THEN "OPEN" ELSE state
    /\ inCall' = inCall \ {c}
    /\ UNCHANGED up

BreakerTick ==
    /\ since <= ResetTimeout
    /\ since' = since + 1
    /\ UNCHANGED <<state, failures, inCall, up>>

Toggle == up' = ~up /\ UNCHANGED <<state, failures, since, inCall>>

Execute(c) == Enter(c) \/ Refuse(c)
Settle(c) == OnSuccess(c) \/ OnFailure(c)
BreakerNext == BreakerTick \/ Toggle \/ \E c \in Attempts : Execute(c) \/ Settle(c)

BreakerSpec == BreakerInit /\ [][BreakerNext]_breakerVars

-----------------------------------------------------------------------------
(* The state and the counter agree however calls overlap: the breaker is   *)
(* closed exactly while fewer than Threshold failures have come in since   *)
(* the last success. A half-open breaker therefore still holds them all,   *)
(* and the first trial that fails opens it again; one success, of a trial  *)
(* or of an earlier call, closes it.                                       *)
StateMatchesCount == state = "CLOSED" <=> failures < Threshold
=============================================================================
