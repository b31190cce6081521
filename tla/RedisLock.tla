----------------------------- MODULE RedisLock -----------------------------
(***************************************************************************)
(* packages/cache-redis RedisLock: one lock key in Redis, taken by         *)
(* processes that may run on different machines, crash, or work longer     *)
(* than the key lives. A process is between the execution of its SET and   *)
(* the reply ("granted"), in its callback ("working"), or between the      *)
(* callback and the execution of its DEL ("releasing").                    *)
(***************************************************************************)
EXTENDS Integers, FiniteSets

CONSTANTS
    Holders,        \* processes that use the lock
    NoHolder,       \* value of the key when it does not exist
    LockTtl         \* ttlMs, in ticks

ASSUME LockAssumption == NoHolder \notin Holders /\ LockTtl \in Nat \ {0}

VARIABLES
    key,            \* whose lockValue the key holds
    left,           \* ticks until the key expires
    stage,          \* where each withLock is
    held,           \* ticks since the SET of each process was executed
    late            \* ghost: since the lock was last unused, some process has
                    \* outlived its key

lockVars == <<key, left, stage, held, late>>

Using == {p \in Holders : stage[p] # "idle"}
Inside == {p \in Holders : stage[p] = "working"}

LockTypeOK ==
    /\ key \in Holders \cup {NoHolder}
    /\ left \in 0..LockTtl
    /\ stage \in [Holders -> {"idle", "granted", "working", "releasing"}]
    /\ held \in [Holders -> 0..LockTtl]
    /\ late \in BOOLEAN

LockInit ==
    /\ key = NoHolder /\ left = 0
    /\ stage = [p \in Holders |-> "idle"]
    /\ held = [p \in Holders |-> 0]
    /\ late = FALSE

GoOn(p, s) == stage' = [stage EXCEPT ![p] = s]

\* p leaves withLock; its ticks are forgotten.
Leave(p) ==
    /\ GoOn(p, "idle")
    /\ held' = [held EXCEPT ![p] = 0]
    /\ late' = (late /\ Using # {p})

\* Mutant: the time to live in a larger unit than PX expects.
AcquireUnitMutant(p) ==
    /\ stage[p] = "idle" /\ key = NoHolder
    /\ key' = p /\ left' = 2 * LockTtl
    /\ GoOn(p, "granted")
    /\ UNCHANGED <<held, late>>
\* Mutant: SET without NX.
AcquireMutant(p) ==
    /\ stage[p] = "idle"
    /\ key' = p /\ left' = LockTtl
    /\ GoOn(p, "granted")
    /\ UNCHANGED <<held, late>>
\* acquire: SET NX PX is executed.
Acquire(p) ==
    /\ stage[p] = "idle" /\ key = NoHolder
    /\ key' = p /\ left' = LockTtl
    /\ GoOn(p, "granted")
    /\ UNCHANGED <<held, late>>

\* The key exists: SET answers null and withLock throws.
Refused(p) == stage[p] = "idle" /\ key # NoHolder /\ UNCHANGED lockVars

\* The reply of the SET, and the call of work.
Enter(p) == stage[p] = "granted" /\ GoOn(p, "working") /\ UNCHANGED <<key, left, held, late>>

\* work has settled; finally sends the DEL.
EndWork(p) == stage[p] = "working" /\ GoOn(p, "releasing") /\ UNCHANGED <<key, left, held, late>>

\* release: the DEL is executed, whoever holds the key.
Release(p) ==
    /\ stage[p] = "releasing"
    /\ key' = NoHolder /\ left' = 0
    /\ Leave(p)

\* The process crashes, or a command fails: the key stays.
Abandon(p) == stage[p] # "idle" /\ Leave(p) /\ UNCHANGED <<key, left>>

Elapsed(p) == IF stage[p] # "idle" /\ held[p] < LockTtl THEN held[p] + 1 ELSE held[p]
\* Mutant: SET without PX.
LockTickMutant ==
    /\ \E p \in Using : held[p] < LockTtl
    /\ held' = [p \in Holders |-> Elapsed(p)]
    /\ late' = (late \/ \E p \in Using : Elapsed(p) = LockTtl)
    /\ UNCHANGED <<key, left, stage>>
\* A unit of time. The key expires; a process that still relies on it by
\* then is late.
LockTick ==
    /\ key # NoHolder \/ \E p \in Using : held[p] < LockTtl
    /\ left' = IF left = 0 THEN 0 ELSE left - 1
    /\ key' = IF left' = 0 THEN NoHolder ELSE key
    /\ held' = [p \in Holders |-> Elapsed(p)]
    /\ late' = (late \/ \E p \in Using : Elapsed(p) = LockTtl)
    /\ UNCHANGED stage

LockNext ==
    \/ LockTick
    \/ \E p \in Holders :
          \/ Acquire(p) \/ Refused(p) \/ Enter(p)
          \/ EndWork(p) \/ Release(p) \/ Abandon(p)

\* Time passes. No process owes anything: work may never settle.
LockSpec == LockInit /\ [][LockNext]_lockVars /\ WF_lockVars(LockTick)

\* As long as no process outlives its key, at most one is in its callback
\* (docs/packages/cache-redis.md:104 says so without the condition): release
\* (line 74) compares nothing, so a late process removes the next one's key.
OneInside == late \/ Cardinality(Inside) <= 1

\* The lock never stays taken for ever, although holders crash or hang
\* (comment, line 24).
LockComesFree == []<>(key = NoHolder)
=============================================================================
