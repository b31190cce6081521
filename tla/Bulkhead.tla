------------------------------ MODULE Bulkhead ------------------------------
(***************************************************************************)
(* Bulkhead of packages/resilience: at most MaxConcurrent executions at a  *)
(* time, at most MaxQueue callers waiting for a slot, the others rejected. *)
(*                                                                         *)
(* execute awaits acquireSlot, so a caller that has a slot calls its       *)
(* function only in a later microtask; releaseSlot hands its slot to the   *)
(* first waiter without giving it back, or lowers the counter.             *)
(***************************************************************************)
EXTENDS Integers, FiniteSets, Sequences

CONSTANTS
    Callers,        \* callers of execute
    MaxConcurrent,
    MaxQueue

ASSUME CallersAssumption == IsFiniteSet(Callers)
ASSUME LimitAssumption == MaxConcurrent \in Nat /\ MaxQueue \in Nat

VARIABLES
    active,   \* active
    queue,    \* queue: the waiters, by caller
    place     \* where each call of execute is

bulkheadVars == <<active, queue, place>>

Places == {"idle", "queued", "granted", "running"}

BulkheadTypeOK ==
    /\ active \in Nat
    /\ queue \in Seq(Callers)
    /\ place \in [Callers -> Places]

BulkheadInit ==
    /\ active = 0
    /\ queue = <<>>
    /\ place = [c \in Callers |-> "idle"]

\* acquireSlot finds a free slot.
Acquire(c) ==
    /\ place[c] = "idle"
    /\ active < MaxConcurrent
    /\ active' = active + 1
    /\ place' = [place EXCEPT ![c] = "granted"]
    /\ UNCHANGED queue

\* acquireSlot queues the caller; a caller the full queue rejects stays out.
Enqueue(c) ==
    /\ place[c] = "idle"
    /\ active >= MaxConcurrent
    /\ Len(queue) < MaxQueue
    /\ queue' = Append(queue, c)
    /\ place' = [place EXCEPT ![c] = "queued"]
    /\ UNCHANGED active

RejectFull(c) ==
    /\ place[c] = "idle"
    /\ active >= MaxConcurrent
    /\ Len(queue) >= MaxQueue
    /\ UNCHANGED bulkheadVars

\* The continuation of await acquireSlot() calls the function.
Run(c) ==
    /\ place[c] = "granted"
    /\ place' = [place EXCEPT ![c] = "running"]
    /\ UNCHANGED <<active, queue>>

\* Mutant: the slot is given back and handed over as well.
GiveBack(c) ==
    /\ place[c] = "running"
    /\ active' = active - 1
    /\ IF queue = <<>>
       THEN place' = [place EXCEPT ![c] = "idle"] /\ UNCHANGED queue
       ELSE /\ queue' = Tail(queue)
            /\ place' = [place EXCEPT ![c] = "idle", ![Head(queue)] = "granted"]
\* Mutant: the slot is handed to the caller that came last (pop for shift).
HandsToLast(c) ==
    /\ place[c] = "running"
    /\ IF queue = <<>>
       THEN /\ active' = active - 1
            /\ place' = [place EXCEPT ![c] = "idle"]
            /\ UNCHANGED queue
       ELSE /\ queue' = SubSeq(queue, 1, Len(queue) - 1)
            /\ place' = [place EXCEPT ![c] = "idle", ![queue[Len(queue)]] = "granted"]
            /\ UNCHANGED active
\* The function settles, either way, and finally releases the slot.
Release(c) ==
    /\ place[c] = "running"
    /\ IF queue = <<>>
       THEN /\ active' = active - 1
            /\ place' = [place EXCEPT ![c] = "idle"]
            /\ UNCHANGED queue
       ELSE /\ queue' = Tail(queue)
            /\ place' = [place EXCEPT ![c] = "idle", ![Head(queue)] = "granted"]
            /\ UNCHANGED active

AcquireSlot(c) == Acquire(c) \/ Enqueue(c) \/ RejectFull(c)
BulkheadNext == \E c \in Callers : AcquireSlot(c) \/ Run(c) \/ Release(c)

BulkheadSpec == BulkheadInit /\ [][BulkheadNext]_bulkheadVars

-----------------------------------------------------------------------------
Holders == {c \in Callers : place[c] \in {"granted", "running"}}

(* The counter is the number of calls that own a slot, from the moment     *)
(* acquireSlot grants it to the moment releaseSlot hands it on: no slot    *)
(* is lost or counted twice, and no more than MaxConcurrent are out.       *)
SlotsAccounted ==
    /\ active = Cardinality(Holders)
    /\ active <= MaxConcurrent

(* A caller waits only while every slot is taken, so that the release of   *)
(* one is certain to find it.                                              *)
NoIdleSlot == queue # <<>> => active >= MaxConcurrent

(* The queue holds exactly the callers that wait, each once, and no more   *)
(* of them than its limit.                                                 *)
QueueExact ==
    /\ Len(queue) <= MaxQueue
    /\ \A c \in Callers : place[c] = "queued" <=> \E i \in 1..Len(queue) : queue[i] = c
    /\ \A i, j \in 1..Len(queue) : queue[i] = queue[j] => i = j

(* The bulkhead is a counting semaphore with a first-come, first-served    *)
(* line: nobody overtakes a waiter and no slot stays free beside one.      *)
Semaphore == INSTANCE CountingSemaphore
    WITH Calls <- Callers, Slots <- MaxConcurrent, holders <- Holders, line <- queue
ImplementsSemaphore == Semaphore!Spec
=============================================================================
