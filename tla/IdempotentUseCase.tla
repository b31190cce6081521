-------------------------- MODULE IdempotentUseCase --------------------------
(***************************************************************************)
(* IdempotentUseCase of packages/application over InMemoryIdempotencyStore: *)
(* the requests that carry one idempotency key.  Keys share nothing, so    *)
(* one entry of the store stands for all of them.                          *)
(*                                                                         *)
(* Every call of the store is awaited: a request acts on what it read one  *)
(* microtask, or one whole execution of the inner use case, ago.  The      *)
(* entry is a lock while its result is null; both expire with their time   *)
(* to live, and neither says which request created it.                     *)
(***************************************************************************)
EXTENDS Integers

CONSTANTS
    Requests,   \* calls of execute with the key, retries of a client included
    Ttl,        \* ttlMs, in clock ticks
    MaxRun      \* how long the inner use case takes at most

ASSUME TtlAssumption == Ttl \in Nat
ASSUME RunAssumption == MaxRun \in Nat

VARIABLES
    entry,      \* the key's StoreEntry: absent, locked (result null) or stored
    left,       \* expiresAt - Date.now(), and -1 once that is negative
    phase,      \* how far each request has come
    runFor,     \* time since the request acquired the key
    owed        \* ghost: what is left of the time to live of the last Result

idemVars == <<entry, left, phase, runFor, owed>>

Phases == {"new", "missed", "refused", "running", "executed", "cached",
           "conflict", "failed"}

IdemTypeOK ==
    /\ entry \in {"absent", "locked", "stored"}
    /\ left \in -1..Ttl
    /\ phase \in [Requests -> Phases]
    /\ runFor \in [Requests -> 0..MaxRun]
    /\ owed \in -1..Ttl

IdemInit ==
    /\ entry = "absent"
    /\ left = -1
    /\ phase = [r \in Requests |-> "new"]
    /\ runFor = [r \in Requests |-> 0]
    /\ owed = -1

Live == entry # "absent" /\ left >= 0
Running(r) == phase[r] = "running"
Goes(r, to) == phase' = [phase EXCEPT ![r] = to]

\* getResult, before and after the attempt to acquire the key.
Hit == Live /\ entry = "stored"

Lookup(r) ==
    /\ phase[r] = "new"
    /\ Goes(r, IF Hit THEN "cached" ELSE "missed")
    /\ UNCHANGED <<entry, left, runFor, owed>>

\* Mutant of tryAcquire: an entry without a result counts as free.
AcquireUnlessStored(r) ==
    /\ phase[r] = "missed"
    /\ ~Hit
    /\ entry' = "locked" /\ left' = Ttl
    /\ Goes(r, "running")
    /\ runFor' = [runFor EXCEPT ![r] = 0]
    /\ UNCHANGED owed
\* tryAcquire creates or replaces the entry, and the inner use case starts.
TryAcquire(r) ==
    /\ phase[r] = "missed"
    /\ ~Live
    /\ entry' = "locked" /\ left' = Ttl
    /\ Goes(r, "running")
    /\ runFor' = [runFor EXCEPT ![r] = 0]
    /\ UNCHANGED owed

TurnedDown(r) ==
    /\ phase[r] = "missed"
    /\ Live
    /\ Goes(r, "refused")
    /\ UNCHANGED <<entry, left, runFor, owed>>

LookAgain(r) ==
    /\ phase[r] = "refused"
    /\ Goes(r, IF Hit THEN "cached" ELSE "conflict")
    /\ UNCHANGED <<entry, left, runFor, owed>>

\* Mutants of storeResult: the time to live is not reset, or is added on.
KeepExpiry(r) ==
    /\ Running(r)
    /\ entry' = "stored"
    /\ left' = IF entry = "absent" THEN Ttl ELSE left
    /\ owed' = Ttl
    /\ Goes(r, "executed")
    /\ UNCHANGED runFor
AddExpiry(r) ==
    /\ Running(r)
    /\ entry' = "stored"
    /\ left' = IF entry = "absent" THEN Ttl ELSE left + Ttl
    /\ owed' = Ttl
    /\ Goes(r, "executed")
    /\ UNCHANGED runFor
\* The inner use case returns a Result, which storeResult puts into whatever
\* entry there is, or into a new one.
StoreResult(r) ==
    /\ Running(r)
    /\ entry' = "stored"
    /\ left' = Ttl
    /\ owed' = Ttl
    /\ Goes(r, "executed")
    /\ UNCHANGED runFor

\* Mutant: the lock stays.
Forget(r) ==
    /\ Running(r)
    /\ Goes(r, "failed")
    /\ UNCHANGED <<entry, left, runFor, owed>>
\* The inner use case throws: release deletes whatever entry there is.
Release(r) ==
    /\ Running(r)
    /\ entry' = "absent" /\ left' = -1
    /\ Goes(r, "failed")
    /\ UNCHANGED <<runFor, owed>>

\* cleanup drops the entry once it has expired.
Cleanup ==
    /\ entry # "absent" /\ ~Live
    /\ entry' = "absent"
    /\ UNCHANGED <<left, phase, runFor, owed>>

Less(t) == IF t >= 0 THEN t - 1 ELSE t
\* Time passes, for as long as no execution outstays MaxRun.
IdemTick ==
    /\ \A r \in Requests : Running(r) => runFor[r] < MaxRun
    /\ left' = Less(left) /\ owed' = Less(owed)
    /\ runFor' = [r \in Requests |-> IF Running(r) THEN runFor[r] + 1 ELSE runFor[r]]
    /\ UNCHANGED <<entry, phase>>

Execute(r) ==
    \/ Lookup(r) \/ TryAcquire(r) \/ TurnedDown(r) \/ LookAgain(r)
    \/ StoreResult(r) \/ Release(r)

IdemNext == Cleanup \/ IdemTick \/ \E r \in Requests : Execute(r)

IdemSpec == IdemInit /\ [][IdemNext]_idemVars

-----------------------------------------------------------------------------
(* A key is never left locked by a request that is gone: behind every lock *)
(* that still counts is the running request that took it, which will store *)
(* its result or release the key.                                          *)
LockHasOwner ==
    Live /\ entry = "locked" =>
        \E r \in Requests : Running(r) /\ left = Ttl - runFor[r]

(* Duplicates that come in while a request is being executed never execute *)
(* beside it, as long as no execution outlasts its lock.                   *)
OneAtATime == \A r, s \in Requests : Running(r) /\ Running(s) => r = s

(* docs/packages/application.md:124: "Re-submitting the same               *)
(* `idempotencyKey` returns the cached result without re-executing": the   *)
(* inner use case does not start while the time to live of the last Result *)
(* lasts.                                                                  *)
NoReexecution ==
    [][\A r \in Requests : ~Running(r) /\ Running(r)' => owed < 0]_idemVars
=============================================================================
