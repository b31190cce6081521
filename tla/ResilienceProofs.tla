--------------------------- MODULE ResilienceProofs ---------------------------
(* Safety of the policies of packages/resilience, each on its own and all  *)
(* of them layered: for every set of requests and all values of the limits *)
(* and thresholds.                                                         *)
EXTENDS ResilientStack, FiniteSetTheorems, SequenceTheorems, TLAPS

-----------------------------------------------------------------------------
(* The bulkhead.                                                           *)
(* The four invariants support each other: the head of the queue is a      *)
(* caller that owns no slot (QueueExact), so that handing it the released  *)
(* one keeps the count, and nobody waits beside a free slot (NoIdleSlot),  *)
(* so that the counter goes down only when the queue is empty.             *)
PoolInv == BulkheadTypeOK /\ SlotsAccounted /\ NoIdleSlot /\ QueueExact

LEMMA HoldersFinite ==
    /\ Holders \subseteq Callers
    /\ IsFiniteSet(Holders)
    /\ Cardinality(Holders) \in Nat
<1>1. Holders \subseteq Callers
  BY DEF Holders
<1> QED
  BY <1>1, CallersAssumption, FS_Subset, FS_CardinalityType

(* A caller that comes in adds one holder.                                 *)
LEMMA HoldersGain ==
    ASSUME PoolInv, NEW c \in Callers, c \notin Holders, Holders' = Holders \cup {c}
    PROVE  Cardinality(Holders') = Cardinality(Holders) + 1
BY HoldersFinite, FS_AddElement

(* A caller that leaves takes one away.                                    *)
LEMMA HoldersLoss ==
    ASSUME PoolInv, NEW c \in Holders, NEW S, S = Holders \ {c}
    PROVE  IsFiniteSet(S) /\ Cardinality(S) = Cardinality(Holders) - 1
BY HoldersFinite, FS_RemoveElement

LEMMA AppendFacts ==
    ASSUME queue \in Seq(Callers), NEW c \in Callers, queue' = Append(queue, c)
    PROVE  /\ queue' \in Seq(Callers) /\ queue' # <<>>
           /\ Len(queue') = Len(queue) + 1
           /\ \A i \in 1..Len(queue) : queue'[i] = queue[i]
           /\ queue'[Len(queue) + 1] = c
OBVIOUS

LEMMA TailFacts ==
    ASSUME queue \in Seq(Callers), queue # <<>>, queue' = Tail(queue)
    PROVE  /\ queue' \in Seq(Callers)
           /\ Len(queue) \in Nat \ {0} /\ Len(queue') = Len(queue) - 1
           /\ \A i \in 1..Len(queue') : queue'[i] = queue[i + 1]
           /\ Head(queue) = queue[1] /\ Head(queue) \in Callers
OBVIOUS

(* The queue holds only callers that wait, so its head owns no slot.       *)
LEMMA HeadWaits ==
    ASSUME PoolInv, queue # <<>>
    PROVE  /\ Head(queue) \in Callers /\ place[Head(queue)] = "queued"
           /\ Head(queue) \notin Holders
<1>1. Head(queue) = queue[1] /\ Head(queue) \in Callers /\ 1 \in 1..Len(queue)
  BY DEF PoolInv, BulkheadTypeOK
<1>2. place[Head(queue)] = "queued"
  BY <1>1 DEF PoolInv, QueueExact
<1> QED
  BY <1>1, <1>2 DEF Holders

LEMMA EnqueueInv ==
    ASSUME PoolInv, NEW c \in Callers, Enqueue(c)
    PROVE  PoolInv'
<1> USE DEF PoolInv
<1>1. /\ queue' \in Seq(Callers) /\ queue' # <<>>
      /\ Len(queue') = Len(queue) + 1
      /\ \A i \in 1..Len(queue) : queue'[i] = queue[i]
      /\ queue'[Len(queue) + 1] = c
  BY AppendFacts DEF Enqueue, BulkheadTypeOK
<1>2. Len(queue) \in Nat
  BY DEF BulkheadTypeOK
<1>3. /\ place' \in [Callers -> Places] /\ active' = active
      /\ place'[c] = "queued" /\ \A d \in Callers : d # c => place'[d] = place[d]
  BY DEF Enqueue, BulkheadTypeOK, Places
<1>4. Holders' = Holders
  BY <1>3 DEF Holders, Enqueue
<1>5. BulkheadTypeOK'
  BY <1>1, <1>3 DEF BulkheadTypeOK
<1>6. SlotsAccounted' /\ NoIdleSlot'
  BY <1>3, <1>4 DEF SlotsAccounted, NoIdleSlot, Enqueue
<1>7. \A i \in 1..Len(queue) : queue[i] # c
  BY DEF QueueExact, Enqueue
<1>8. QueueExact'
  <2>1. Len(queue') <= MaxQueue
    BY <1>1, <1>2, LimitAssumption DEF Enqueue
  <2>2. ASSUME NEW d \in Callers
        PROVE  place'[d] = "queued" <=> \E i \in 1..Len(queue') : queue'[i] = d
    <3>1. CASE d = c
      BY <3>1, <1>1, <1>2, <1>3
    <3>2. CASE d # c
      <4>1. (\E i \in 1..Len(queue') : queue'[i] = d)
              <=> (\E i \in 1..Len(queue) : queue[i] = d)
        BY <3>2, <1>1, <1>2
      <4> QED
        BY <4>1, <3>2, <1>3 DEF QueueExact
    <3> QED
      BY <3>1, <3>2
  <2>3. ASSUME NEW i \in 1..Len(queue'), NEW j \in 1..Len(queue'), queue'[i] = queue'[j]
        PROVE  i = j
    <3>1. \A k \in 1..Len(queue') : k \in 1..Len(queue) \/ k = Len(queue) + 1
      BY <1>1, <1>2
    <3> QED
      BY <3>1, <2>3, <1>1, <1>7 DEF QueueExact
  <2> QED
    BY <2>1, <2>2, <2>3 DEF QueueExact
<1> QED
  BY <1>5, <1>6, <1>8

LEMMA ReleaseInv ==
    ASSUME PoolInv, NEW c \in Callers, Release(c)
    PROVE  PoolInv'
<1> USE DEF PoolInv
<1>1. c \in Holders
  BY DEF Release, Holders
<1>2. CASE queue = <<>>
  <2>1. /\ active' = active - 1 /\ queue' = queue
        /\ place' \in [Callers -> Places]
        /\ place'[c] = "idle" /\ place[c] = "running"
        /\ \A d \in Callers : d # c => place'[d] = place[d]
    BY <1>2 DEF Release, BulkheadTypeOK, Places
  <2>2. Holders' = Holders \ {c}
    BY <2>1 DEF Holders
  <2>3. Cardinality(Holders') = Cardinality(Holders) - 1
    BY <1>1, <2>2, HoldersLoss
  <2>4. IsFiniteSet(Holders) /\ Cardinality(Holders) \in Nat /\ Cardinality(Holders) # 0
    BY <1>1, HoldersFinite, FS_EmptySet
  <2>5. BulkheadTypeOK' /\ SlotsAccounted'
    BY <2>1, <2>3, <2>4, LimitAssumption DEF BulkheadTypeOK, SlotsAccounted
  <2>6. NoIdleSlot' /\ QueueExact'
    BY <1>2, <2>1 DEF NoIdleSlot, QueueExact
  <2> QED
    BY <2>5, <2>6
<1>3. CASE queue # <<>>
  <2> DEFINE h == Head(queue)
  <2>1. h \in Callers /\ place[h] = "queued" /\ h \notin Holders
    BY <1>3, HeadWaits
  <2>2. /\ queue' \in Seq(Callers)
        /\ Len(queue) \in Nat \ {0} /\ Len(queue') = Len(queue) - 1
        /\ \A i \in 1..Len(queue') : queue'[i] = queue[i + 1]
        /\ h = queue[1]
    BY <1>3, TailFacts DEF Release, BulkheadTypeOK
  <2>3. /\ active' = active /\ h # c
        /\ place' \in [Callers -> Places]
        /\ place'[c] = "idle" /\ place'[h] = "granted" /\ place[c] = "running"
        /\ \A d \in Callers : d # c /\ d # h => place'[d] = place[d]
    BY <1>3, <2>1 DEF Release, BulkheadTypeOK, Places
  <2> HIDE DEF h
  <2>4. Holders' = (Holders \ {c}) \cup {h}
    BY <2>1, <2>3 DEF Holders
  <2>5. Cardinality(Holders') = Cardinality(Holders)
    <3> DEFINE S == Holders \ {c}
    <3>1. IsFiniteSet(S) /\ Cardinality(S) = Cardinality(Holders) - 1
      BY <1>1, HoldersLoss
    <3>2. h \notin S
      BY <2>1
    <3>3. Cardinality(S \cup {h}) = Cardinality(S) + 1
      BY <3>1, <3>2, FS_AddElement
    <3> QED
      BY <3>1, <3>3, <2>4, HoldersFinite
  <2>6. BulkheadTypeOK'
    BY <2>2, <2>3 DEF BulkheadTypeOK
  <2>7. SlotsAccounted' /\ NoIdleSlot'
    BY <1>3, <2>3, <2>5 DEF SlotsAccounted, NoIdleSlot
  <2>8. ASSUME NEW d \in Callers
        PROVE  place'[d] = "queued" <=> \E i \in 1..Len(queue') : queue'[i] = d
    <3>1. (\E i \in 1..Len(queue') : queue'[i] = d)
             <=> (\E i \in 2..Len(queue) : queue[i] = d)
      <4>1. ASSUME NEW i \in 2..Len(queue) PROVE i - 1 \in 1..Len(queue') /\ queue'[i - 1] = queue[i]
        BY <2>2
      <4>2. ASSUME NEW i \in 1..Len(queue') PROVE i + 1 \in 2..Len(queue) /\ queue'[i] = queue[i + 1]
        BY <2>2
      <4> QED
        BY <4>1, <4>2
    <3>2. CASE d = h
      BY <3>2, <3>1, <2>2, <2>3 DEF QueueExact
    <3>3. CASE d # h
      <4>1. (\E i \in 2..Len(queue) : queue[i] = d)
              <=> (\E i \in 1..Len(queue) : queue[i] = d)
        BY <3>3, <2>2
      <4>2. place[d] = "queued" <=> \E i \in 1..Len(queue) : queue[i] = d
        BY DEF QueueExact
      <4> QED
        BY <4>1, <4>2, <3>1, <3>3, <2>3
    <3> QED
      BY <3>2, <3>3
  <2>9. ASSUME NEW i \in 1..Len(queue'), NEW j \in 1..Len(queue'), queue'[i] = queue'[j]
        PROVE  i = j
    <3>1. i + 1 \in 1..Len(queue) /\ j + 1 \in 1..Len(queue) /\ queue[i + 1] = queue[j + 1]
      BY <2>9, <2>2
    <3>2. i + 1 = j + 1
      BY <3>1 DEF QueueExact
    <3> QED
      BY <3>2
  <2>10. Len(queue') <= MaxQueue
    BY <2>2, LimitAssumption DEF QueueExact
  <2>11. QueueExact'
    BY <2>8, <2>9, <2>10 DEF QueueExact
  <2> QED
    BY <2>6, <2>7, <2>11
<1> QED
  BY <1>2, <1>3

LEMMA PoolNextInv == PoolInv /\ [BulkheadNext]_bulkheadVars => PoolInv'
<1> SUFFICES ASSUME PoolInv, [BulkheadNext]_bulkheadVars PROVE PoolInv'
  OBVIOUS
<1>1. ASSUME NEW c \in Callers, Acquire(c) PROVE PoolInv'
  <2>1. /\ active' = active + 1 /\ active < MaxConcurrent /\ queue' = queue
        /\ place' \in [Callers -> Places] /\ place'[c] = "granted" /\ place[c] = "idle"
        /\ \A d \in Callers : d # c => place'[d] = place[d]
    BY <1>1 DEF PoolInv, Acquire, BulkheadTypeOK, Places
  <2>2. c \notin Holders /\ Holders' = Holders \cup {c}
    BY <2>1 DEF Holders
  <2>3. Cardinality(Holders') = Cardinality(Holders) + 1
    BY <2>2, HoldersGain
  <2>4. BulkheadTypeOK' /\ SlotsAccounted'
    BY <2>1, <2>3, LimitAssumption DEF PoolInv, BulkheadTypeOK, SlotsAccounted
  <2>5. queue = <<>>
    BY <2>1, LimitAssumption DEF PoolInv, NoIdleSlot, BulkheadTypeOK
  <2>6. NoIdleSlot'
    BY <2>1, <2>5 DEF NoIdleSlot
  <2>7. QueueExact'
    BY <2>1 DEF PoolInv, QueueExact
  <2> QED
    BY <2>4, <2>6, <2>7 DEF PoolInv
<1>2. ASSUME NEW c \in Callers, Run(c) PROVE PoolInv'
  <2>1. /\ UNCHANGED <<active, queue>>
        /\ place' \in [Callers -> Places] /\ place'[c] = "running" /\ place[c] = "granted"
        /\ \A d \in Callers : d # c => place'[d] = place[d]
    BY <1>2 DEF PoolInv, Run, BulkheadTypeOK, Places
  <2>2. Holders' = Holders
    BY <2>1 DEF Holders
  <2> QED
    BY <2>1, <2>2 DEF PoolInv, BulkheadTypeOK, SlotsAccounted, NoIdleSlot, QueueExact
<1>3. ASSUME NEW c \in Callers, RejectFull(c) PROVE PoolInv'
  BY <1>3 DEF PoolInv, RejectFull, bulkheadVars, BulkheadTypeOK, SlotsAccounted, NoIdleSlot, QueueExact, Holders
<1>4. CASE UNCHANGED bulkheadVars
  BY <1>4 DEF PoolInv, bulkheadVars, BulkheadTypeOK, SlotsAccounted, NoIdleSlot, QueueExact, Holders
<1> QED
  BY <1>1, <1>2, <1>3, <1>4, EnqueueInv, ReleaseInv DEF BulkheadNext, AcquireSlot

LEMMA PoolInitInv == BulkheadInit => PoolInv
<1> SUFFICES ASSUME BulkheadInit PROVE PoolInv
  OBVIOUS
<1>1. Holders = {}
  BY DEF BulkheadInit, Holders
<1>2. Cardinality(Holders) = 0
  BY <1>1, FS_EmptySet
<1> QED
  BY <1>2, LimitAssumption
  DEF BulkheadInit, PoolInv, BulkheadTypeOK, Places, SlotsAccounted, NoIdleSlot, QueueExact

(* Slots are conserved, nobody waits beside a free one, and the queue is   *)
(* exactly the callers that wait.                                          *)
THEOREM BulkheadSafe == BulkheadSpec => [](SlotsAccounted /\ NoIdleSlot /\ QueueExact)
<1>1. PoolInv => SlotsAccounted /\ NoIdleSlot /\ QueueExact
  BY DEF PoolInv
<1> QED
  BY <1>1, PoolInitInv, PoolNextInv, PTL DEF BulkheadSpec

-----------------------------------------------------------------------------
(* Every step of the bulkhead is one of the semaphore or leaves it alone.  *)
LEMMA PoolStepRefines ==
    PoolInv /\ [BulkheadNext]_bulkheadVars => [Semaphore!Next]_<<Holders, queue>>
<1> SUFFICES ASSUME PoolInv, [BulkheadNext]_bulkheadVars PROVE [Semaphore!Next]_<<Holders, queue>>
  OBVIOUS
<1>1. ASSUME NEW c \in Callers, Acquire(c) PROVE Semaphore!Enter(c)
  <2>1. c \notin Holders /\ Holders' = Holders \cup {c}
    BY <1>1 DEF Acquire, Holders, PoolInv, BulkheadTypeOK
  <2>2. queue = <<>> /\ queue' = queue
    BY <1>1, LimitAssumption DEF Acquire, PoolInv, NoIdleSlot, BulkheadTypeOK
  <2>3. Cardinality(Holders) < MaxConcurrent
    BY <1>1 DEF Acquire, PoolInv, SlotsAccounted
  <2> QED
    BY <2>1, <2>2, <2>3 DEF Semaphore!Enter, Semaphore!Cardinality, Cardinality
<1>2. ASSUME NEW c \in Callers, Enqueue(c) PROVE Semaphore!Join(c)
  <2>1. c \notin Holders /\ Holders' = Holders
    BY <1>2 DEF Enqueue, Holders, PoolInv, BulkheadTypeOK
  <2>2. c \notin Semaphore!Waiting
    BY <1>2 DEF Enqueue, PoolInv, QueueExact, Semaphore!Waiting
  <2>3. Cardinality(Holders) >= MaxConcurrent
    BY <1>2 DEF Enqueue, PoolInv, SlotsAccounted
  <2> QED
    BY <1>2, <2>1, <2>2, <2>3 DEF Enqueue, Semaphore!Join, Semaphore!Cardinality, Cardinality
<1>3. ASSUME NEW c \in Callers, Release(c) PROVE Semaphore!Leave(c)
  <2>1. c \in Holders
    BY <1>3 DEF Release, Holders
  <2>2. CASE queue = <<>>
    <3>1. Holders' = Holders \ {c} /\ queue' = queue
      BY <1>3, <2>2 DEF Release, Holders, PoolInv, BulkheadTypeOK
    <3> QED
      BY <2>1, <2>2, <3>1 DEF Semaphore!Leave
  <2>3. CASE queue # <<>>
    <3>1. Head(queue) \in Callers /\ place[Head(queue)] = "queued"
      BY <2>3, HeadWaits
    <3>2. /\ place'[c] = "idle" /\ place'[Head(queue)] = "granted"
          /\ \A d \in Callers : d # c /\ d # Head(queue) => place'[d] = place[d]
          /\ queue' = Tail(queue) /\ place[c] = "running"
      BY <1>3, <2>3, <3>1 DEF Release, PoolInv, BulkheadTypeOK
    <3>3. Holders' = (Holders \ {c}) \cup {Head(queue)}
      BY <3>1, <3>2 DEF Holders
    <3> QED
      BY <2>1, <2>3, <3>2, <3>3 DEF Semaphore!Leave
  <2> QED
    BY <2>2, <2>3
<1>4. ASSUME NEW c \in Callers, Run(c) PROVE UNCHANGED <<Holders, queue>>
  BY <1>4 DEF Run, Holders, PoolInv, BulkheadTypeOK
<1>5. ASSUME UNCHANGED bulkheadVars PROVE UNCHANGED <<Holders, queue>>
  BY <1>5 DEF bulkheadVars, Holders
<1> QED
  BY <1>1, <1>2, <1>3, <1>4, <1>5 DEF BulkheadNext, AcquireSlot, RejectFull, Semaphore!Next

(* The bulkhead implements a first-come, first-served counting semaphore.  *)
THEOREM BulkheadRefinesSemaphore == BulkheadSpec => ImplementsSemaphore
<1>1. BulkheadInit => Semaphore!Init
  BY DEF BulkheadInit, Semaphore!Init, Holders
<1> QED
  BY <1>1, PoolInitInv, PoolNextInv, PoolStepRefines, PTL
  DEF BulkheadSpec, ImplementsSemaphore, Semaphore!Spec

-----------------------------------------------------------------------------
(* The circuit breaker.                                                    *)
CountInv == BreakerTypeOK /\ StateMatchesCount

LEMMA CountInitInv == BreakerInit => CountInv
BY ThresholdAssumption, ResetAssumption
DEF BreakerInit, CountInv, BreakerTypeOK, BreakerStates, StateMatchesCount

LEMMA CountNextInv == CountInv /\ [BreakerNext]_breakerVars => CountInv'
<1> SUFFICES ASSUME CountInv, [BreakerNext]_breakerVars PROVE CountInv'
  OBVIOUS
<1> USE ThresholdAssumption, ResetAssumption, BreakerCapAssumption
    DEF CountInv, BreakerTypeOK, BreakerStates, StateMatchesCount
<1>1. CASE BreakerTick
  BY <1>1 DEF BreakerTick
<1>2. CASE Toggle
  <2>1. up' \in BOOLEAN
    BY <1>2, Zenon DEF Toggle
  <2> QED
    BY <1>2, <2>1 DEF Toggle
<1>3. ASSUME NEW c \in Attempts, Enter(c) PROVE CountInv'
  BY <1>3 DEF Enter
<1>4. ASSUME NEW c \in Attempts, OnSuccess(c) PROVE CountInv'
  BY <1>4 DEF OnSuccess
<1>5. ASSUME NEW c \in Attempts, OnFailure(c) PROVE CountInv'
  \* The counter keeps its value only at the cap, where the breaker is not
  \* closed, and otherwise counts up to or past the threshold together with
  \* the state.
  <2>1. failures' \in Nat /\ since' \in 0..ResetTimeout + 1 /\ inCall' \subseteq Attempts
    BY <1>5 DEF OnFailure
  <2>2. CASE failures' >= Threshold
    BY <1>5, <2>1, <2>2 DEF OnFailure
  <2>3. CASE failures' < Threshold
    BY <1>5, <2>1, <2>3 DEF OnFailure
  <2> QED
    BY <2>1, <2>2, <2>3
<1>6. CASE UNCHANGED breakerVars
  BY <1>6 DEF breakerVars
<1> QED
  BY <1>1, <1>2, <1>3, <1>4, <1>5, <1>6 DEF BreakerNext, Execute, Refuse, Settle

(* Closed means fewer than Threshold failures since the last success, and  *)
(* only that: a failed trial of a half-open breaker always opens it again. *)
THEOREM StateFollowsCount == BreakerSpec => []StateMatchesCount
<1>1. CountInv => StateMatchesCount
  BY DEF CountInv
<1> QED
  BY <1>1, CountInitInv, CountNextInv, PTL DEF BreakerSpec

(* The failure of a trial reopens a half-open breaker at once.             *)
THEOREM FailedTrialReopens ==
    BreakerSpec => [][\A c \in Attempts : state = "HALF_OPEN" /\ OnFailure(c) => state' = "OPEN"]_breakerVars
<1>1. CountInv /\ [BreakerNext]_breakerVars =>
        [\A c \in Attempts : state = "HALF_OPEN" /\ OnFailure(c) => state' = "OPEN"]_breakerVars
  <2> SUFFICES ASSUME CountInv, NEW c \in Attempts, state = "HALF_OPEN", OnFailure(c)
               PROVE  state' = "OPEN"
    OBVIOUS
  <2>1. failures >= Threshold
    BY ThresholdAssumption DEF CountInv, BreakerTypeOK, StateMatchesCount
  <2>2. failures' >= Threshold
    BY <2>1, ThresholdAssumption, BreakerCapAssumption DEF OnFailure, CountInv, BreakerTypeOK
  <2> QED
    BY <2>2 DEF OnFailure
<1> QED
  BY <1>1, CountInitInv, CountNextInv, PTL DEF BreakerSpec

-----------------------------------------------------------------------------
(* The rate limiter.                                                       *)
LEMMA LimiterNextType == LimiterTypeOK /\ [LimiterNext]_limiterVars => LimiterTypeOK'
<1> SUFFICES ASSUME LimiterTypeOK, [LimiterNext]_limiterVars PROVE LimiterTypeOK'
  OBVIOUS
<1> USE MaxAssumption, AmountsAssumption DEF LimiterTypeOK
<1>1. ASSUME NEW n \in Amounts, Grant(n) \/ TurnDown(n) PROVE LimiterTypeOK'
  <2>1. n \in Nat /\ Refilled \in 0..Max
    BY DEF Refilled
  <2> QED
    BY <1>1, <2>1 DEF Grant, TurnDown
<1>2. CASE LimiterTick
  BY <1>2 DEF LimiterTick
<1>3. CASE UNCHANGED limiterVars
  BY <1>3 DEF limiterVars
<1> QED
  BY <1>1, <1>2, <1>3 DEF LimiterNext

LEMMA LimiterInitType == LimiterInit => LimiterTypeOK
BY MaxAssumption DEF LimiterInit, LimiterTypeOK

(* Refilling on demand implements a bucket that fills continuously.        *)
THEOREM LimiterRefinesBucket == LimiterSpec => ImplementsBucket
<1>1. LimiterInit => Bucket!Init
  BY MaxAssumption DEF LimiterInit, Bucket!Init, Refilled
<1>2. LimiterTypeOK /\ [LimiterNext]_limiterVars => [Bucket!Next]_<<Refilled, refused>>
  <2> SUFFICES ASSUME LimiterTypeOK, [LimiterNext]_limiterVars
               PROVE  [Bucket!Next]_<<Refilled, refused>>
    OBVIOUS
  <2> USE MaxAssumption, AmountsAssumption DEF LimiterTypeOK
  <2>1. ASSUME NEW n \in Amounts, Grant(n) PROVE Bucket!Take(n)
    BY <2>1 DEF Grant, Refilled, Bucket!Take
  <2>2. ASSUME NEW n \in Amounts, TurnDown(n) PROVE Bucket!TurnDown(n)
    BY <2>2 DEF TurnDown, Refilled, Bucket!TurnDown
  <2>3. CASE LimiterTick
    BY <2>3 DEF LimiterTick, Refilled, Bucket!Next, Bucket!Flow
  <2>4. CASE UNCHANGED limiterVars
    BY <2>4 DEF limiterVars, Refilled
  <2> QED
    BY <2>1, <2>2, <2>3, <2>4 DEF LimiterNext, Bucket!Next
<1> QED
  BY <1>1, <1>2, LimiterInitType, LimiterNextType, PTL
  DEF LimiterSpec, ImplementsBucket, Bucket!Spec

-----------------------------------------------------------------------------
(* The layers together.  A request is in one place at a time: its loop     *)
(* starts when it gets its slot, is over for good when it ends, and a call *)
(* in the breaker belongs to the attempt its loop is waiting for.          *)
RequestTypeOK ==
    /\ stage \in [Callers -> {"new", "admitted", "inside", "done"}]
    /\ loop \in [Callers -> {"off", "calling", "delaying", "over"}]
    /\ attempt \in [Callers -> 0..MaxAttempts]
    /\ result \in [Callers -> {"pending", "limited", "full", "ok", "error", "timeout"}]
    /\ served \in [Callers -> 0..MaxAttempts]

Placed(r) ==
    /\ place[r] # "idle" => stage[r] = "inside"
    /\ stage[r] # "done" => result[r] = "pending"
    /\ place[r] \in {"queued", "granted"} => loop[r] = "off"
    /\ stage[r] \in {"new", "admitted"} => loop[r] = "off"
Looping(r) ==
    /\ loop[r] \in {"off", "delaying"} => attempt[r] < MaxAttempts
    /\ loop[r] # "over" => served[r] = 0
    /\ served[r] <= 1
Told(r) ==
    /\ result[r] = "ok" => served[r] = 1
    /\ result[r] = "error" => loop[r] = "over" /\ served[r] = 0
    /\ result[r] \in {"limited", "full"} => loop[r] = "off"
RequestInv == \A r \in Callers : Placed(r) /\ Looping(r) /\ Told(r)

CallsAwaited ==
    \A r \in Callers, n \in 1..MaxAttempts :
        <<r, n>> \in inCall => loop[r] = "calling" /\ n = attempt[r]

LayersInv ==
    LimiterTypeOK /\ PoolInv /\ CountInv /\ RequestTypeOK /\ RequestInv /\ CallsAwaited

(* A release moves the caller out and at most one waiter up.               *)
LEMMA ReleasePlaces ==
    ASSUME PoolInv, NEW r \in Callers, Release(r)
    PROVE  /\ place'[r] = "idle"
           /\ \A d \in Callers : d # r =>
                place'[d] = place[d] \/ (place[d] = "queued" /\ place'[d] = "granted")
<1>1. CASE queue = <<>>
  BY <1>1 DEF Release, PoolInv, BulkheadTypeOK
<1>2. CASE queue # <<>>
  <2>1. Head(queue) \in Callers /\ place[Head(queue)] = "queued"
    BY <1>2, HeadWaits
  <2> QED
    BY <1>2, <2>1 DEF Release, PoolInv, BulkheadTypeOK
<1> QED
  BY <1>1, <1>2

(* What every way out of Retry's loop has in common.                       *)
LEMMA LoopEndsStep ==
    ASSUME LayersInv, NEW r \in Callers, NEW how \in {"ok", "error"}, LoopEnds(r, how)
    PROVE  /\ loop' = [loop EXCEPT ![r] = "over"]
           /\ stage' \in [Callers -> {"new", "admitted", "inside", "done"}]
           /\ result' \in [Callers -> {"pending", "limited", "full", "ok", "error", "timeout"}]
           /\ \A d \in Callers : d # r => stage'[d] = stage[d] /\ result'[d] = result[d]
           /\ \A d \in Callers : d # r =>
                place'[d] = place[d] \/ (place[d] = "queued" /\ place'[d] = "granted")
           /\ \/ stage'[r] = "done" /\ result'[r] = how /\ place'[r] = "idle"
              \/ ~Racing(r) /\ stage'[r] = stage[r] /\ result'[r] = result[r] /\ place'[r] = place[r]
           /\ [BulkheadNext]_bulkheadVars
<1>1. CASE Racing(r)
  <2>1. /\ place'[r] = "idle"
        /\ \A d \in Callers : d # r =>
             place'[d] = place[d] \/ (place[d] = "queued" /\ place'[d] = "granted")
    BY <1>1, ReleasePlaces DEF LoopEnds, Ends, LayersInv
  <2>2. /\ loop' = [loop EXCEPT ![r] = "over"]
        /\ stage' = [stage EXCEPT ![r] = "done"]
        /\ result' = [result EXCEPT ![r] = how]
        /\ Release(r)
    BY <1>1 DEF LoopEnds, Ends
  <2> QED
    BY <2>1, <2>2 DEF LayersInv, RequestTypeOK, BulkheadNext
<1>2. CASE ~Racing(r)
  BY <1>2 DEF LoopEnds, LayersInv, RequestTypeOK, bulkheadVars
<1> QED
  BY <1>1, <1>2

(* Each step of the layers is a step of each policy, or leaves it alone.   *)
StepOfEach ==
    /\ [LimiterNext]_limiterVars
    /\ [BulkheadNext]_bulkheadVars
    /\ [BreakerNext]_breakerVars

LEMMA AttemptCalls ==
    ASSUME NEW r \in Callers, NEW n \in 1..MaxAttempts
    PROVE  <<r, n>> \in Attempts
BY AttemptsAssumption

(* Retry's catch block, after the attempt that the loop waited for.        *)
LEMMA AttemptFailsStep ==
    ASSUME LayersInv, NEW r \in Callers, NEW n \in 1..MaxAttempts,
           attempt' \in [Callers -> 0..MaxAttempts], attempt'[r] = n,
           \A d \in Callers : d # r => attempt'[d] = attempt[d],
           served' = served, served[r] = 0,
           stage[r] = "inside" \/ stage[r] = "done", loop[r] # "off", loop[r] # "over",
           AttemptFails(r, n)
    PROVE  /\ RequestTypeOK' /\ RequestInv'
           /\ [BulkheadNext]_bulkheadVars
           /\ loop'[r] # "calling" /\ \A d \in Callers : d # r => loop'[d] = loop[d]
<1> USE DEF LayersInv, RequestTypeOK, RequestInv, Placed, Looping, Told
<1>1. CASE n < MaxAttempts
  <2>1. /\ loop' = [loop EXCEPT ![r] = "delaying"]
        /\ UNCHANGED <<active, queue, place, stage, result, served>>
    BY <1>1 DEF AttemptFails, bulkheadVars
  <2> QED
    BY <1>1, <2>1 DEF bulkheadVars
<1>2. CASE ~(n < MaxAttempts)
  <2>1. LoopEnds(r, "error")
    BY <1>2 DEF AttemptFails
  <2>2. /\ loop' = [loop EXCEPT ![r] = "over"]
        /\ stage' \in [Callers -> {"new", "admitted", "inside", "done"}]
        /\ result' \in [Callers -> {"pending", "limited", "full", "ok", "error", "timeout"}]
        /\ \A d \in Callers : d # r => stage'[d] = stage[d] /\ result'[d] = result[d]
        /\ \A d \in Callers : d # r =>
             place'[d] = place[d] \/ (place[d] = "queued" /\ place'[d] = "granted")
        /\ \/ stage'[r] = "done" /\ result'[r] = "error" /\ place'[r] = "idle"
           \/ stage'[r] = stage[r] /\ result'[r] = result[r] /\ place'[r] = place[r]
        /\ [BulkheadNext]_bulkheadVars
    BY <2>1, LoopEndsStep
  <2>3. RequestTypeOK'
    BY <2>2
  <2>4. ASSUME NEW d \in Callers PROVE Placed(d)' /\ Looping(d)' /\ Told(d)'
    <3>1. CASE d = r
      BY <2>2, <3>1
    <3>2. CASE d # r
      BY <2>2, <3>2
    <3> QED
      BY <3>1, <3>2
  <2> QED
    BY <2>2, <2>3, <2>4
<1> QED
  BY <1>1, <1>2

LEMMA FailsInv ==
    ASSUME LayersInv, NEW r \in Callers, Fails(r)
    PROVE  StepOfEach /\ RequestTypeOK' /\ RequestInv' /\ CallsAwaited'
<1> DEFINE n == attempt[r]
<1>1. <<r, n>> \in inCall /\ inCall' = inCall \ {<<r, n>>} /\ OnFailure(<<r, n>>)
  BY DEF Fails, OnFailure
<1>2. <<r, n>> \in Attempts
  BY <1>1 DEF LayersInv, CountInv, BreakerTypeOK
<1>3. n \in 1..MaxAttempts
  BY <1>2, AttemptsAssumption
<1>4. loop[r] = "calling" /\ served[r] = 0
  BY <1>1, <1>3 DEF LayersInv, CallsAwaited, RequestInv, Looping
<1>5. stage[r] = "inside" \/ stage[r] = "done"
  BY <1>4 DEF LayersInv, RequestInv, Placed, RequestTypeOK
<1>6. /\ RequestTypeOK' /\ RequestInv' /\ [BulkheadNext]_bulkheadVars
      /\ loop'[r] # "calling" /\ \A d \in Callers : d # r => loop'[d] = loop[d]
  <2>1. /\ attempt' = attempt /\ served' = served /\ AttemptFails(r, n)
    BY DEF Fails
  <2> QED
    BY <2>1, <1>3, <1>4, <1>5, AttemptFailsStep DEF LayersInv, RequestTypeOK
<1>7. CallsAwaited'
  <2>1. ASSUME NEW d \in Callers, NEW m \in 1..MaxAttempts, <<d, m>> \in inCall'
        PROVE  loop'[d] = "calling" /\ m = attempt'[d]
    <3>1. <<d, m>> \in inCall /\ <<d, m>> # <<r, n>>
      BY <1>1, <2>1
    <3>2. loop[d] = "calling" /\ m = attempt[d]
      BY <3>1 DEF LayersInv, CallsAwaited
    <3>3. d # r
      BY <3>1, <3>2
    <3> QED
      BY <3>2, <3>3, <1>6 DEF Fails
  <2> QED
    BY <2>1 DEF CallsAwaited
<1>8. StepOfEach
  BY <1>1, <1>2, <1>6 DEF StepOfEach, BreakerNext, Settle, Fails
<1> QED
  BY <1>6, <1>7, <1>8

LEMMA AnswersInv ==
    ASSUME LayersInv, NEW r \in Callers, Answers(r)
    PROVE  StepOfEach /\ RequestTypeOK' /\ RequestInv' /\ CallsAwaited'
<1> DEFINE n == attempt[r]
<1>1. <<r, n>> \in inCall /\ inCall' = inCall \ {<<r, n>>} /\ OnSuccess(<<r, n>>)
  BY DEF Answers, OnSuccess
<1>2. <<r, n>> \in Attempts
  BY <1>1 DEF LayersInv, CountInv, BreakerTypeOK
<1>3. n \in 1..MaxAttempts
  BY <1>2, AttemptsAssumption
<1>4. loop[r] = "calling" /\ served[r] = 0
  BY <1>1, <1>3 DEF LayersInv, CallsAwaited, RequestInv, Looping
<1>5. /\ served' = [served EXCEPT ![r] = 1] /\ attempt' = attempt
  BY <1>4 DEF Answers
<1>6. /\ loop' = [loop EXCEPT ![r] = "over"]
      /\ stage' \in [Callers -> {"new", "admitted", "inside", "done"}]
      /\ result' \in [Callers -> {"pending", "limited", "full", "ok", "error", "timeout"}]
      /\ \A d \in Callers : d # r => stage'[d] = stage[d] /\ result'[d] = result[d]
      /\ \A d \in Callers : d # r =>
           place'[d] = place[d] \/ (place[d] = "queued" /\ place'[d] = "granted")
      /\ \/ stage'[r] = "done" /\ result'[r] = "ok" /\ place'[r] = "idle"
         \/ stage'[r] = stage[r] /\ result'[r] = result[r] /\ place'[r] = place[r]
      /\ [BulkheadNext]_bulkheadVars
  BY LoopEndsStep DEF Answers
<1>7. RequestTypeOK'
  BY <1>5, <1>6, AttemptsAssumption DEF LayersInv, RequestTypeOK
<1>8. ASSUME NEW d \in Callers PROVE Placed(d)' /\ Looping(d)' /\ Told(d)'
  <2> USE DEF LayersInv, RequestTypeOK, RequestInv, Placed, Looping, Told
  <2>1. CASE d = r
    BY <2>1, <1>4, <1>5, <1>6
  <2>2. CASE d # r
    BY <2>2, <1>5, <1>6
  <2> QED
    BY <2>1, <2>2
<1>9. CallsAwaited'
  <2>1. ASSUME NEW d \in Callers, NEW m \in 1..MaxAttempts, <<d, m>> \in inCall'
        PROVE  loop'[d] = "calling" /\ m = attempt'[d]
    <3>1. <<d, m>> \in inCall /\ <<d, m>> # <<r, n>>
      BY <1>1, <2>1
    <3>2. loop[d] = "calling" /\ m = attempt[d]
      BY <3>1 DEF LayersInv, CallsAwaited
    <3>3. d # r
      BY <3>1, <3>2
    <3> QED
      BY <3>2, <3>3, <1>5, <1>6 DEF LayersInv, RequestTypeOK
  <2> QED
    BY <2>1 DEF CallsAwaited
<1>10. StepOfEach
  BY <1>1, <1>2, <1>6 DEF StepOfEach, BreakerNext, Settle, Answers
<1> QED
  BY <1>7, <1>8, <1>9, <1>10 DEF RequestInv

LEMMA TryAgainInv ==
    ASSUME LayersInv, NEW r \in Callers, TryAgain(r)
    PROVE  StepOfEach /\ RequestTypeOK' /\ RequestInv' /\ CallsAwaited'
<1> DEFINE n == attempt[r] + 1
<1>1. loop[r] = "delaying" /\ served[r] = 0 /\ n \in 1..MaxAttempts
  BY AttemptsAssumption
  DEF TryAgain, LayersInv, RequestTypeOK, RequestInv, Looping
<1>2. stage[r] = "inside" \/ stage[r] = "done"
  BY <1>1 DEF LayersInv, RequestInv, Placed, RequestTypeOK
<1>3. /\ attempt' = [attempt EXCEPT ![r] = n] /\ served' = served
      /\ attempt' \in [Callers -> 0..MaxAttempts] /\ attempt'[r] = n
      /\ \A d \in Callers : d # r => attempt'[d] = attempt[d]
      /\ UNCHANGED limiterVars
  BY <1>1 DEF TryAgain, LayersInv, RequestTypeOK
<1>4. <<r, n>> \in Attempts
  BY <1>1, AttemptCalls
<1> HIDE DEF n
<1>5. CASE Enter(<<r, n>>) /\ loop' = [loop EXCEPT ![r] = "calling"]
                           /\ UNCHANGED <<bulkheadVars, stage, result>>
  <2>1. UNCHANGED <<active, queue, place, stage, result>>
    BY <1>5 DEF bulkheadVars
  <2>2. RequestTypeOK' /\ RequestInv'
    <3> USE DEF LayersInv, RequestTypeOK, RequestInv, Placed, Looping, Told
    <3>1. RequestTypeOK'
      BY <1>3, <1>5, <2>1
    <3>2. ASSUME NEW d \in Callers PROVE Placed(d)' /\ Looping(d)' /\ Told(d)'
      <4>1. CASE d = r
        BY <4>1, <1>1, <1>2, <1>3, <1>5, <2>1
      <4>2. CASE d # r
        BY <4>2, <1>3, <1>5, <2>1
      <4> QED
        BY <4>1, <4>2
    <3> QED
      BY <3>1, <3>2
  <2>3. CallsAwaited'
    <3>1. ASSUME NEW d \in Callers, NEW m \in 1..MaxAttempts, <<d, m>> \in inCall'
          PROVE  loop'[d] = "calling" /\ m = attempt'[d]
      <4>1. <<d, m>> \in inCall \/ (d = r /\ m = n)
        BY <1>5, <3>1 DEF Enter
      <4>2. <<d, m>> \in inCall => loop[d] = "calling" /\ m = attempt[d]
        BY DEF LayersInv, CallsAwaited
      <4> QED
        BY <4>1, <4>2, <1>1, <1>3, <1>5 DEF LayersInv, RequestTypeOK
    <3> QED
      BY <3>1 DEF CallsAwaited
  <2> QED
    BY <1>3, <1>4, <1>5, <2>2, <2>3 DEF StepOfEach, BreakerNext, Execute
<1>6. CASE UNCHANGED breakerVars /\ AttemptFails(r, n)
  <2>1. /\ RequestTypeOK' /\ RequestInv' /\ [BulkheadNext]_bulkheadVars
        /\ loop'[r] # "calling" /\ \A d \in Callers : d # r => loop'[d] = loop[d]
    BY <1>1, <1>2, <1>3, <1>6, AttemptFailsStep
  <2>2. CallsAwaited'
    BY <1>1, <1>3, <1>6, <2>1 DEF LayersInv, CallsAwaited, breakerVars
  <2> QED
    BY <1>3, <1>6, <2>1, <2>2 DEF StepOfEach
<1> QED
  BY <1>5, <1>6 DEF TryAgain, n

LEMMA TimesOutInv ==
    ASSUME LayersInv, NEW r \in Callers, TimesOut(r)
    PROVE  StepOfEach /\ RequestTypeOK' /\ RequestInv' /\ CallsAwaited'
<1>1. /\ Release(r) /\ stage[r] = "inside" /\ place[r] = "running"
      /\ stage' = [stage EXCEPT ![r] = "done"]
      /\ result' = [result EXCEPT ![r] = "timeout"]
      /\ UNCHANGED <<limiterVars, breakerVars>>
      /\ UNCHANGED <<loop, attempt, served>>
  BY DEF TimesOut, Ends, Racing
<1>2. /\ place'[r] = "idle"
      /\ \A d \in Callers : d # r =>
           place'[d] = place[d] \/ (place[d] = "queued" /\ place'[d] = "granted")
  BY <1>1, ReleasePlaces DEF LayersInv
<1>3. RequestTypeOK' /\ RequestInv'
  <2> USE DEF LayersInv, RequestTypeOK, RequestInv, Placed, Looping, Told
  <2>1. RequestTypeOK'
    BY <1>1
  <2>2. ASSUME NEW d \in Callers PROVE Placed(d)' /\ Looping(d)' /\ Told(d)'
    <3>1. CASE d = r
      BY <3>1, <1>1, <1>2
    <3>2. CASE d # r
      BY <3>2, <1>1, <1>2
    <3> QED
      BY <3>1, <3>2
  <2> QED
    BY <2>1, <2>2
<1>4. CallsAwaited'
  BY <1>1 DEF LayersInv, CallsAwaited, breakerVars
<1>5. StepOfEach
  BY <1>1 DEF StepOfEach, BulkheadNext
<1> QED
  BY <1>3, <1>4, <1>5

(* Arriving and asking the bulkhead are steps of one request that leave    *)
(* the breaker and the other requests alone.                               *)
LEMMA EntryInv ==
    ASSUME LayersInv, NEW r \in Callers, Arrive(r) \/ Ask(r)
    PROVE  StepOfEach /\ RequestTypeOK' /\ RequestInv' /\ CallsAwaited'
<1> USE DEF LayersInv, RequestTypeOK, RequestInv, Placed, Looping, Told
<1>1. CASE Arrive(r)
  <2>1. /\ [LimiterNext]_limiterVars
        /\ UNCHANGED <<bulkheadVars, breakerVars>>
        /\ UNCHANGED <<loop, attempt, served>>
        /\ stage[r] = "new"
        /\ \/ stage' = [stage EXCEPT ![r] = "admitted"] /\ result' = result
           \/ /\ stage' = [stage EXCEPT ![r] = "done"]
              /\ result' = [result EXCEPT ![r] = "limited"]
    BY <1>1 DEF Arrive, TurnedAway, LimiterNext
  <2>2. place' = place /\ inCall' = inCall
    BY <2>1 DEF bulkheadVars, breakerVars
  <2>3. place[r] = "idle"
    BY <2>1 DEF PoolInv, BulkheadTypeOK
  <2>4. RequestTypeOK' /\ RequestInv' /\ CallsAwaited'
    BY <2>1, <2>2, <2>3 DEF CallsAwaited
  <2> QED
    BY <2>1, <2>4 DEF StepOfEach
<1>2. CASE Ask(r)
  <2>1. /\ UNCHANGED <<limiterVars, breakerVars>>
        /\ UNCHANGED <<loop, attempt, served>>
        /\ stage[r] = "admitted"
    BY <1>2 DEF Ask
  <2>2. [BulkheadNext]_bulkheadVars
    BY <1>2 DEF Ask, BulkheadNext, AcquireSlot
  <2>3. \/ /\ stage' = [stage EXCEPT ![r] = "inside"] /\ result' = result
           /\ \A d \in Callers : d # r => place'[d] = place[d]
           /\ place'[r] \in {"granted", "queued"}
        \/ /\ stage' = [stage EXCEPT ![r] = "done"]
           /\ result' = [result EXCEPT ![r] = "full"]
           /\ place' = place /\ place[r] = "idle"
    BY <1>2 DEF Ask, Acquire, Enqueue, RejectFull, TurnedAway, bulkheadVars,
                PoolInv, BulkheadTypeOK
  <2>4. inCall' = inCall
    BY <2>1 DEF breakerVars
  <2>5. RequestTypeOK'
    BY <2>1, <2>3
  <2>6. ASSUME NEW d \in Callers PROVE Placed(d)' /\ Looping(d)' /\ Told(d)'
    <3>1. CASE d = r
      BY <3>1, <2>1, <2>3
    <3>2. CASE d # r
      BY <3>2, <2>1, <2>3
    <3> QED
      BY <3>1, <3>2
  <2>7. CallsAwaited'
    BY <2>1, <2>4 DEF CallsAwaited
  <2> QED
    BY <2>1, <2>2, <2>5, <2>6, <2>7 DEF StepOfEach
<1> QED
  BY <1>1, <1>2

(* The first attempt enters the breaker or is refused there at once.       *)
LEMMA StartInv ==
    ASSUME LayersInv, NEW r \in Callers, Start(r)
    PROVE  StepOfEach /\ RequestTypeOK' /\ RequestInv' /\ CallsAwaited'
<1>1. /\ UNCHANGED limiterVars /\ UNCHANGED <<stage, result, served>>
      /\ place[r] = "granted" /\ place'[r] = "running"
      /\ \A d \in Callers : d # r => place'[d] = place[d]
      /\ attempt' = [attempt EXCEPT ![r] = 1]
  BY DEF Start, Run, LayersInv, PoolInv, BulkheadTypeOK
<1>2. [BulkheadNext]_bulkheadVars
  BY DEF Start, BulkheadNext
<1>3. 1 \in 1..MaxAttempts /\ 1 < MaxAttempts /\ <<r, 1>> \in Attempts
  BY AttemptsAssumption, AttemptCalls
<1>4. loop[r] = "off"
  BY <1>1 DEF LayersInv, RequestInv, Placed
<1>5. \/ Enter(<<r, 1>>) /\ loop' = [loop EXCEPT ![r] = "calling"]
      \/ UNCHANGED breakerVars /\ loop' = [loop EXCEPT ![r] = "delaying"]
  BY DEF Start
<1>6. RequestTypeOK'
  BY <1>1, <1>3, <1>5 DEF LayersInv, RequestTypeOK
<1>7. ASSUME NEW d \in Callers PROVE Placed(d)' /\ Looping(d)' /\ Told(d)'
  <2> USE DEF LayersInv, RequestTypeOK, RequestInv, Placed, Looping, Told
  <2>1. CASE d = r
    BY <2>1, <1>1, <1>3, <1>4, <1>5
  <2>2. CASE d # r
    BY <2>2, <1>1, <1>5
  <2> QED
    BY <2>1, <2>2
<1>8. ASSUME NEW d \in Callers, NEW m \in 1..MaxAttempts, <<d, m>> \in inCall'
      PROVE  loop'[d] = "calling" /\ m = attempt'[d]
  <2>1. \/ <<d, m>> \in inCall
        \/ d = r /\ m = 1 /\ loop' = [loop EXCEPT ![r] = "calling"]
    BY <1>5, <1>8 DEF Enter, breakerVars
  <2>2. <<d, m>> \in inCall => loop[d] = "calling" /\ m = attempt[d]
    BY DEF LayersInv, CallsAwaited
  <2> QED
    BY <2>1, <2>2, <1>1, <1>4, <1>5 DEF LayersInv, RequestTypeOK
<1>9. [BreakerNext]_breakerVars
  BY <1>3, <1>5 DEF BreakerNext, Execute
<1> QED
  BY <1>1, <1>2, <1>6, <1>7, <1>8, <1>9 DEF StepOfEach, RequestInv, CallsAwaited

LEMMA LayersStep == LayersInv /\ [Next]_vars => StepOfEach /\ LayersInv'
<1> SUFFICES ASSUME LayersInv, [Next]_vars PROVE StepOfEach /\ LayersInv'
  OBVIOUS
<1>1. StepOfEach /\ RequestTypeOK' /\ RequestInv' /\ CallsAwaited'
  <2>1. CASE Environment
    <3>1. UNCHANGED <<bulkheadVars, requestVars>> /\ inCall' = inCall /\ StepOfEach
      BY <2>1
      DEF Environment, StepOfEach, LimiterNext, BreakerNext, BreakerTick, Toggle, breakerVars
    <3> QED
      BY <3>1 DEF bulkheadVars, requestVars, LayersInv, RequestTypeOK, RequestInv,
                  Placed, Looping, Told, CallsAwaited
  <2>2. CASE UNCHANGED vars
    <3>1. UNCHANGED <<limiterVars, bulkheadVars, breakerVars, requestVars>> /\ StepOfEach
      BY <2>2 DEF vars, StepOfEach
    <3> QED
      BY <3>1 DEF bulkheadVars, breakerVars, requestVars, LayersInv, RequestTypeOK,
                  RequestInv, Placed, Looping, Told, CallsAwaited
  <2> QED
    BY <2>1, <2>2, EntryInv, StartInv, TryAgainInv, TimesOutInv, AnswersInv, FailsInv DEF Next
<1>2. LimiterTypeOK' /\ PoolInv' /\ CountInv'
  BY <1>1, LimiterNextType, PoolNextInv, CountNextInv DEF StepOfEach, LayersInv
<1> QED
  BY <1>1, <1>2 DEF LayersInv

LEMMA LayersInit == Init => LayersInv
<1> SUFFICES ASSUME Init PROVE LayersInv
  OBVIOUS
<1>1. LimiterTypeOK /\ PoolInv /\ CountInv
  BY LimiterInitType, PoolInitInv, CountInitInv DEF Init
<1>2. RequestTypeOK
  BY AttemptsAssumption DEF Init, RequestTypeOK
<1>3. RequestInv /\ CallsAwaited
  BY AttemptsAssumption
  DEF Init, BulkheadInit, BreakerInit, RequestInv, Placed, Looping, Told, CallsAwaited
<1> QED
  BY <1>1, <1>2, <1>3 DEF LayersInv

(* The outcome a caller is told is true: "ok" means served exactly once,   *)
(* and only a timeout leaves open whether the service served it.           *)
THEOREM OutcomesTold == Spec => []OutcomeTold
<1>1. LayersInv => OutcomeTold
  BY DEF LayersInv, RequestInv, Looping, Told, RequestTypeOK, OutcomeTold
<1> QED
  BY <1>1, LayersInit, LayersStep, PTL DEF Spec

(* Every policy keeps its own promise inside the layers: the composition   *)
(* implements each of their specifications.                                *)
THEOREM LayersImplementPolicies ==
    Spec => LimiterSpec /\ BulkheadSpec /\ BreakerSpec
<1>1. Init => LimiterInit /\ BulkheadInit /\ BreakerInit
  BY DEF Init
<1>2. StepOfEach => /\ [LimiterNext]_limiterVars
                    /\ [BulkheadNext]_bulkheadVars
                    /\ [BreakerNext]_breakerVars
  BY DEF StepOfEach
<1> QED
  BY <1>1, <1>2, LayersInit, LayersStep, PTL
  DEF Spec, LimiterSpec, BulkheadSpec, BreakerSpec

(* Type correctness of the layers for every number of callers and every    *)
(* limit, threshold and bucket.                                            *)
THEOREM LayersTypeCorrect == Spec => []TypeOK
<1>1. LayersInv => TypeOK
  BY DEF LayersInv, PoolInv, CountInv, RequestTypeOK, TypeOK
<1> QED
  BY <1>1, LayersInit, LayersStep, PTL DEF Spec

(* So slots are conserved and nobody waits beside a free one, whatever the *)
(* timers, retries and the breaker do.                                     *)
THEOREM LayersKeepSlots ==
    Spec => [](SlotsAccounted /\ NoIdleSlot) /\ []StateMatchesCount /\ ImplementsSemaphore
            /\ ImplementsBucket
BY LayersImplementPolicies, BulkheadSafe, StateFollowsCount, BulkheadRefinesSemaphore,
   LimiterRefinesBucket, PTL
(* A loop that goes on has the slot of its request, unless Timeout has     *)
(* given up on it.                                                         *)
Slotted ==
    \A r \in Callers : loop[r] \in {"calling", "delaying"} =>
                            place[r] = "running" \/ result[r] = "timeout"

LEMMA LoopEndsSlotted ==
    ASSUME LayersInv, Slotted, NEW r \in Callers, NEW how \in {"ok", "error"}, LoopEnds(r, how)
    PROVE  Slotted'
<1>1. /\ loop' = [loop EXCEPT ![r] = "over"]
      /\ \A d \in Callers : d # r => result'[d] = result[d]
      /\ \A d \in Callers : d # r =>
           place'[d] = place[d] \/ (place[d] = "queued" /\ place'[d] = "granted")
  BY LoopEndsStep
<1> QED
  BY <1>1 DEF Slotted, LayersInv, RequestTypeOK

(* An attempt of a loop that waited for it has failed or been refused.     *)
LEMMA AttemptFailsSlotted ==
    ASSUME LayersInv, Slotted, NEW r \in Callers, NEW n, AttemptFails(r, n),
           loop[r] \in {"calling", "delaying"}
    PROVE  Slotted'
<1>1. CASE n < MaxAttempts
  <2>1. /\ loop' = [loop EXCEPT ![r] = "delaying"]
        /\ UNCHANGED <<place, result>>
    BY <1>1 DEF AttemptFails, bulkheadVars
  <2> QED
    BY <2>1 DEF Slotted, LayersInv, RequestTypeOK
<1>2. CASE ~(n < MaxAttempts)
  BY <1>2, LoopEndsSlotted DEF AttemptFails
<1> QED
  BY <1>1, <1>2

LEMMA SlottedStep == LayersInv /\ Slotted /\ [Next]_vars => Slotted'
<1> SUFFICES ASSUME LayersInv, Slotted, [Next]_vars PROVE Slotted'
  OBVIOUS
<1>1. ASSUME NEW r \in Callers, Arrive(r) \/ Ask(r) PROVE Slotted'
  <2>1. /\ loop' = loop /\ loop[r] = "off"
        /\ \A d \in Callers : d # r => result'[d] = result[d] /\ place'[d] = place[d]
    BY <1>1 DEF Arrive, Ask, Acquire, Enqueue, RejectFull, TurnedAway, bulkheadVars,
                LayersInv, RequestTypeOK, RequestInv, Placed, PoolInv, BulkheadTypeOK
  <2> QED
    BY <2>1 DEF Slotted
<1>2. ASSUME NEW r \in Callers, Start(r) PROVE Slotted'
  <2>1. /\ result' = result /\ place'[r] = "running"
        /\ \A d \in Callers : d # r => place'[d] = place[d] /\ loop'[d] = loop[d]
    BY <1>2 DEF Start, Run, LayersInv, PoolInv, BulkheadTypeOK, RequestTypeOK
  <2> QED
    BY <2>1 DEF Slotted
<1>3. ASSUME NEW r \in Callers, TryAgain(r) PROVE Slotted'
  <2>1. CASE loop' = [loop EXCEPT ![r] = "calling"] /\ UNCHANGED <<bulkheadVars, stage, result>>
    <3>1. UNCHANGED <<place, result>> /\ loop[r] = "delaying"
      BY <1>3, <2>1 DEF TryAgain, bulkheadVars
    <3> QED
      BY <2>1, <3>1 DEF Slotted, LayersInv, RequestTypeOK
  <2>2. CASE AttemptFails(r, attempt[r] + 1)
    BY <1>3, <2>2, AttemptFailsSlotted DEF TryAgain
  <2> QED
    BY <1>3, <2>1, <2>2 DEF TryAgain
<1>4. ASSUME NEW r \in Callers, TimesOut(r) PROVE Slotted'
  <2>1. /\ loop' = loop /\ result' = [result EXCEPT ![r] = "timeout"]
        /\ \A d \in Callers : d # r =>
             place'[d] = place[d] \/ (place[d] = "queued" /\ place'[d] = "granted")
    BY <1>4, ReleasePlaces DEF TimesOut, Ends, LayersInv
  <2> QED
    BY <2>1 DEF Slotted, LayersInv, RequestTypeOK
<1>5. ASSUME NEW r \in Callers, Answers(r) PROVE Slotted'
  BY <1>5, LoopEndsSlotted DEF Answers
<1>6. ASSUME NEW r \in Callers, Fails(r) PROVE Slotted'
  <2>1. /\ <<r, attempt[r]>> \in inCall /\ AttemptFails(r, attempt[r])
    BY <1>6 DEF Fails, OnFailure
  <2>2. attempt[r] \in 1..MaxAttempts
    BY <2>1, AttemptsAssumption DEF LayersInv, CountInv, BreakerTypeOK
  <2>3. loop[r] = "calling"
    BY <2>1, <2>2 DEF LayersInv, CallsAwaited
  <2> QED
    BY <2>1, <2>3, AttemptFailsSlotted
<1>7. CASE Environment \/ UNCHANGED vars
  BY <1>7 DEF Environment, vars, bulkheadVars, requestVars, Slotted
<1> QED
  BY <1>1, <1>2, <1>3, <1>4, <1>5, <1>6, <1>7 DEF Next

InTime == {c \in inCall : result[c[1]] # "timeout"}
ServiceProtectedInTime == Cardinality(InTime) <= MaxConcurrent

(* What docs/packages/resilience.md:87 promises holds of the calls whose   *)
(* request has not timed out: each belongs to a request that holds a slot. *)
(* The calls beyond the limit are those of loops that Timeout gave up on.  *)
THEOREM ProtectedFromCallsInTime == Spec => []ServiceProtectedInTime
<1>1. Init => Slotted
  BY DEF Init, Slotted
<1>2. LayersInv /\ Slotted => ServiceProtectedInTime
  <2> SUFFICES ASSUME LayersInv, Slotted PROVE ServiceProtectedInTime
    OBVIOUS
  <2>1. ASSUME NEW c \in InTime
        PROVE  c[1] \in Holders /\ c = <<c[1], attempt[c[1]]>>
    <3>1. c \in Attempts /\ c \in inCall /\ result[c[1]] # "timeout"
      BY <2>1 DEF InTime, LayersInv, CountInv, BreakerTypeOK
    <3>2. PICK r \in Callers, n \in 1..MaxAttempts : c = <<r, n>>
      BY <3>1, AttemptsAssumption
    <3>3. loop[r] = "calling" /\ n = attempt[r]
      BY <3>1, <3>2 DEF LayersInv, CallsAwaited
    <3> QED
      BY <3>1, <3>2, <3>3 DEF Slotted, Holders
  <2> DEFINE caller == [c \in InTime |-> c[1]]
  <2>2. caller \in Injection(InTime, Holders)
    BY <2>1 DEF Injection, IsInjective
  <2>3. IsFiniteSet(InTime) /\ Cardinality(InTime) <= Cardinality(Holders)
    BY <2>2, HoldersFinite, FS_Injection
  <2>4. Cardinality(Holders) <= MaxConcurrent
    BY DEF LayersInv, PoolInv, SlotsAccounted
  <2> QED
    BY <2>3, <2>4, HoldersFinite, FS_CardinalityType, LimitAssumption DEF ServiceProtectedInTime
<1> QED
  BY <1>1, <1>2, LayersInit, LayersStep, SlottedStep, PTL DEF Spec
=============================================================================
