----------------------------- MODULE RateLimiter -----------------------------
(***************************************************************************)
(* RateLimiter of packages/resilience: a token bucket that is refilled,    *)
(* from the clock, only when acquire is called.  A unit is what flows in   *)
(* during one tick of the clock, refillRatePerSecond / 1000 of a token     *)
(* when a tick is a millisecond.  The time since lastRefill stops counting *)
(* where the bucket is full whatever was left in it.                       *)
(***************************************************************************)
EXTENDS Integers

CONSTANTS
    Max,        \* maxTokens, in units
    Amounts     \* the amounts callers ask for, in units

ASSUME MaxAssumption == Max \in Nat
ASSUME AmountsAssumption == Amounts \subseteq Nat

VARIABLES
    tokens,     \* tokens
    elapsed,    \* Date.now() - lastRefill, up to Max
    refused     \* ghost: what the last acquire was refused, or 0

limiterVars == <<tokens, elapsed, refused>>

LimiterTypeOK ==
    /\ tokens \in 0..Max
    /\ elapsed \in 0..Max
    /\ refused \in Amounts \cup {0}

LimiterInit ==
    /\ tokens = Max
    /\ elapsed = 0
    /\ refused = 0

\* What refill leaves in the bucket.
Refilled == IF tokens + elapsed < Max THEN tokens + elapsed ELSE Max

\* Mutant: a refused caller pays all the same.
PaysAnyway(n) ==
    /\ n > Refilled
    /\ tokens' = 0
    /\ elapsed' = 0
    /\ refused' = n
TurnDown(n) ==
    /\ n > Refilled
    /\ tokens' = Refilled
    /\ elapsed' = 0
    /\ refused' = n

Grant(n) ==
    /\ n <= Refilled
    /\ tokens' = Refilled - n
    /\ elapsed' = 0
    /\ refused' = 0

LimiterTick ==
    /\ elapsed' = IF elapsed < Max THEN elapsed + 1 ELSE elapsed
    /\ UNCHANGED <<tokens, refused>>

LimiterNext == LimiterTick \/ \E n \in Amounts : Grant(n) \/ TurnDown(n)
LimiterSpec == LimiterInit /\ [][LimiterNext]_limiterVars

-----------------------------------------------------------------------------
(* Refilling only when asked makes no difference to any caller: the        *)
(* limiter is a bucket that fills continuously, which grants a request     *)
(* whenever it holds enough and charges nothing for a refusal.             *)
Bucket == INSTANCE TokenBucket WITH level <- Refilled
ImplementsBucket == Bucket!Spec
=============================================================================
