--------------------------- MODULE DeliveryProofs ---------------------------
(***************************************************************************)
(* Safety of the outbox relay for every set of messages, every number of   *)
(* overlapping poll cycles and every value of the options; and of the use  *)
(* case that meets its duplicates, IdempotentUseCase, for every number of  *)
(* requests and every time to live.                                        *)
(***************************************************************************)
EXTENDS OutboxRelay, IdempotentUseCase, FiniteSetTheorems, TLAPS

(***************************************************************************)
(* OutboxRelay                                                             *)
(***************************************************************************)
(* A saturating counter of the model stays a natural number, and either    *)
(* keeps its value at the cap or counts one up.                            *)
LEMMA SaturateNat ==
    ASSUME NEW n \in Nat, NEW cap
    PROVE  /\ Saturate(n, cap) \in Nat
           /\ Saturate(n, cap) \in {n, n + 1}
           /\ cap \in Nat /\ n < cap => Saturate(n, cap) = n + 1
BY DEF Saturate

(* The place of a newly saved message in the store is a natural number.    *)
LEMMA PlaceNat == Cardinality(Saved) \in Nat
<1>1. Saved \subseteq Ids
  BY DEF Saved
<1> QED
  BY <1>1, FiniteAssumption, FS_Subset, FS_CardinalityType

LEMMA NoSnapType == NoSnap \in [Ids -> [attempts : Nat, age : Nat]]
BY DEF NoSnap

LEMMA InitTypeOK == Init => TypeOK
<1> SUFFICES ASSUME Init PROVE TypeOK
  OBVIOUS
<1>1. snap \in [Cycles -> [Ids -> [attempts : Nat, age : Nat]]]
  BY NoSnapType DEF Init
<1> QED
  BY <1>1 DEF Init, TypeOK, Pcs, InFlight

(* RecordAttempt keeps the types of the two fields it writes.              *)
LEMMA RecordAttemptType ==
    ASSUME attempts \in [Ids -> Nat], age \in [Ids -> Nat],
           NEW m \in Ids, RecordAttempt(m)
    PROVE  /\ attempts' \in [Ids -> Nat]
           /\ age' \in [Ids -> Nat]
<1>1. Saturate(attempts[m], AttemptCap) \in Nat
  BY SaturateNat
<1> QED
  BY <1>1 DEF RecordAttempt

LEMMA NextTypeOK == TypeOK /\ [Next]_vars => TypeOK'
<1> SUFFICES ASSUME TypeOK, [Next]_vars PROVE TypeOK'
  OBVIOUS
<1> USE DEF TypeOK, Pcs, InFlight
<1>1. ASSUME NEW m \in Ids, Save(m) PROVE TypeOK'
  BY <1>1, PlaceNat DEF Save, cycle
<1>2. CASE Start \/ Stop \/ Toggle
  BY <1>2 DEF Start, Stop, Toggle, store, cycle
<1>3. CASE Tick
  <2>1. age' \in [Ids -> Nat]
    BY <1>3, SaturateNat DEF Tick, Older
  <2>2. ASSUME NEW c \in Cycles, NEW m \in Ids
        PROVE  snap'[c][m] \in [attempts : Nat, age : Nat]
    BY <1>3, SaturateNat DEF Tick, Older
  <2>3. snap' \in [Cycles -> [Ids -> [attempts : Nat, age : Nat]]]
    BY <1>3, <2>2 DEF Tick
  <2> QED
    BY <1>3, <2>1, <2>3 DEF Tick
<1>4. CASE Crash
  <2>1. snap' \in [Cycles -> [Ids -> [attempts : Nat, age : Nat]]]
    BY <1>4, NoSnapType DEF Crash
  <2>2. UNCHANGED <<savedAt, published, attempts, age, delivered, brokerUp>>
    BY <1>4 DEF Crash, store
  <2>3. /\ pc' \in [Cycles -> Pcs]
        /\ cur' \in [Cycles -> Ids \cup {None}]
        /\ \A c \in Cycles : pc'[c] = "idle"
    BY <1>4 DEF Crash
  <2>4. /\ running' \in BOOLEAN /\ healthy' \in BOOLEAN
        /\ bad' \in [Cycles -> BOOLEAN]
    BY <1>4, Zenon DEF Crash
  <2>5. todo' \in [Cycles -> SUBSET Ids] /\ crashes' \in Nat
    BY <1>4 DEF Crash
  <2> QED
    BY <2>1, <2>2, <2>3, <2>4, <2>5
<1>5. ASSUME NEW c \in Cycles, Poll(c) PROVE TypeOK'
  <2>1. snap' \in [Cycles -> [Ids -> [attempts : Nat, age : Nat]]]
    BY <1>5 DEF Poll, NoSnap
  <2>2. Batch \subseteq Ids
    BY DEF Batch, Unpublished, Saved
  <2> QED
    BY <1>5, <2>1, <2>2 DEF Poll, store
<1>6. ASSUME NEW c \in Cycles, Bury(c) \/ BackOff(c) \/ Publish(c) PROVE TypeOK'
  <2>1. PICK m \in Ids : Advance(c, m)
    BY <1>6 DEF Bury, BackOff, Publish
  <2>2. /\ todo' \in [Cycles -> SUBSET Ids]
        /\ snap' \in [Cycles -> [Ids -> [attempts : Nat, age : Nat]]]
    BY <2>1 DEF Advance, NoSnap
  <2>3. /\ attempts' \in [Ids -> Nat]
        /\ age' \in [Ids -> Nat]
    BY <1>6, RecordAttemptType DEF Bury, BackOff, Publish, store
  <2>4. /\ cur' \in [Cycles -> Ids \cup {None}]
        /\ pc' \in [Cycles -> Pcs]
        /\ \A d \in Cycles : pc'[d] \in InFlight => cur'[d] \in Ids
    <3>1. CASE Bury(c) \/ BackOff(c)
      BY <1>6, <3>1 DEF Bury, BackOff
    <3>2. CASE Publish(c)
      BY <3>2 DEF Publish
    <3> QED
      BY <1>6, <3>1, <3>2
  <2> QED
    BY <1>6, <2>2, <2>3, <2>4 DEF Bury, BackOff, Publish, store
<1>7. ASSUME NEW c \in Cycles, Finish(c) PROVE TypeOK'
  BY <1>7 DEF Finish, store
<1>8. ASSUME NEW c \in Cycles, Accept(c) \/ Reject(c) PROVE TypeOK'
  <2>1. delivered' \in [Ids -> Nat]
    <3>1. cur[c] \in Ids
      BY <1>8 DEF Accept, Reject
    <3>2. Saturate(delivered[cur[c]], DeliveryCap) \in Nat
      BY <3>1, SaturateNat
    <3> QED
      BY <1>8, <3>1, <3>2 DEF Accept, Reject
  <2> QED
    BY <1>8, <2>1 DEF Accept, Reject, store
<1>9. ASSUME NEW c \in Cycles, MarkAsPublished(c) \/ MarkAsFailed(c) PROVE TypeOK'
  <2>1. /\ attempts' \in [Ids -> Nat]
        /\ age' \in [Ids -> Nat]
    BY <1>9, RecordAttemptType DEF MarkAsPublished, MarkAsFailed
  <2> QED
    BY <1>9, <2>1 DEF MarkAsPublished, MarkAsFailed
<1>10. CASE UNCHANGED vars
  BY <1>10 DEF vars, store, cycle
<1> QED
  BY <1>1, <1>2, <1>3, <1>4, <1>5, <1>6, <1>7, <1>8, <1>9, <1>10
  DEF Next, Proceed, Settle

(* Every variable keeps its type: the batches hold only ids of the store,  *)
(* and a cycle is suspended at one of the awaits of runOnce.               *)
THEOREM TypeCorrect == Spec => []TypeOK
BY InitTypeOK, NextTypeOK, PTL DEF Spec

-----------------------------------------------------------------------------
(* A cycle whose publication was accepted has a delivery to show for it.   *)
AcceptedWasDelivered ==
    \A c \in Cycles : pc[c] = "accepted" => delivered[cur[c]] > 0
DeliveryInv == PublishedWasDelivered /\ AcceptedWasDelivered

LEMMA NextDeliveryInv == TypeOK /\ DeliveryInv /\ [Next]_vars => DeliveryInv'
<1> SUFFICES ASSUME TypeOK, DeliveryInv, [Next]_vars PROVE DeliveryInv'
  OBVIOUS
<1> USE DEF DeliveryInv, PublishedWasDelivered, AcceptedWasDelivered
<1>1. ASSUME NEW m \in Ids, Save(m) PROVE DeliveryInv'
  BY <1>1 DEF Save, cycle
<1>2. CASE Start \/ Stop \/ Toggle \/ Tick
  BY <1>2 DEF Start, Stop, Toggle, Tick, store, cycle
<1>3. CASE Crash
  BY <1>3 DEF Crash, store
<1>4. ASSUME NEW c \in Cycles,
             Poll(c) \/ Bury(c) \/ BackOff(c) \/ Publish(c) \/ Finish(c)
      PROVE  DeliveryInv'
  <2>1. /\ UNCHANGED <<published, delivered>>
        /\ pc' = pc \/ pc' = [pc EXCEPT ![c] = "loop"] \/ pc' = [pc EXCEPT ![c] = "idle"]
                      \/ pc' = [pc EXCEPT ![c] = "publishing"]
        /\ \A d \in Cycles : d # c => cur'[d] = cur[d]
        /\ pc[c] # "accepted"
    BY <1>4 DEF Poll, Bury, BackOff, Publish, Finish, store, TypeOK
  <2> QED
    BY <2>1 DEF TypeOK
<1>5. ASSUME NEW c \in Cycles, Accept(c) PROVE DeliveryInv'
  <2>1. cur[c] \in Ids
    BY <1>5 DEF Accept, TypeOK, InFlight
  <2>2. /\ Saturate(delivered[cur[c]], DeliveryCap) > 0
        /\ Saturate(delivered[cur[c]], DeliveryCap) \in Nat
    BY <2>1, CapAssumption DEF Saturate, TypeOK
  <2>3. \A m \in Ids : delivered[m] > 0 => delivered'[m] > 0
    BY <1>5, <2>2 DEF Accept, TypeOK
  <2> QED
    BY <1>5, <2>1, <2>2, <2>3 DEF Accept, store, TypeOK, InFlight
<1>6. ASSUME NEW c \in Cycles, Reject(c) PROVE DeliveryInv'
  BY <1>6 DEF Reject, store, TypeOK
<1>7. ASSUME NEW c \in Cycles, MarkAsPublished(c) PROVE DeliveryInv'
  <2>1. \A m \in Ids : published'[m] => published[m] \/ m = cur[c]
    BY <1>7, Zenon DEF MarkAsPublished, TypeOK
  <2>2. delivered[cur[c]] > 0
    BY <1>7 DEF MarkAsPublished
  <2>3. PublishedWasDelivered'
    BY <1>7, <2>1, <2>2 DEF MarkAsPublished
  <2> QED
    BY <1>7, <2>3 DEF MarkAsPublished, TypeOK
<1>8. ASSUME NEW c \in Cycles, MarkAsFailed(c) PROVE DeliveryInv'
  BY <1>8 DEF MarkAsFailed, TypeOK
<1>9. CASE UNCHANGED vars
  BY <1>9 DEF vars, store, cycle
<1> QED
  BY <1>1, <1>2, <1>3, <1>4, <1>5, <1>6, <1>7, <1>8, <1>9
  DEF Next, Proceed, Settle

(* No message is recorded as published that the broker never accepted,     *)
(* however many cycles overlap: markAsPublished follows publish.           *)
THEOREM PublishedSafe == Spec => []PublishedWasDelivered
<1>1. Init => DeliveryInv
  BY DEF Init, DeliveryInv, PublishedWasDelivered, AcceptedWasDelivered
<1>2. DeliveryInv => PublishedWasDelivered
  BY DEF DeliveryInv
<1> QED
  BY <1>1, <1>2, TypeCorrect, NextDeliveryInv, PTL DEF Spec

-----------------------------------------------------------------------------
(* The rest is about a relay whose poll cycles do not overlap: a batch     *)
(* that is processed within one poll interval.                             *)
Sequential == \A c, d \in Cycles : c = d

(* What the batch says about a message it still holds is what the store    *)
(* says, and the message in flight has left the batch.                     *)
FreshBatch ==
    \A c \in Cycles : \A m \in todo[c] :
        /\ ~published[m]
        /\ snap[c][m].attempts = attempts[m]
        /\ snap[c][m].age = age[m]
InFlightApart ==
    \A c \in Cycles : pc[c] \in InFlight => cur[c] \notin todo[c]
NeverTried == \A m \in Ids : attempts[m] = 0 => age[m] = 0
BatchInv == FreshBatch /\ InFlightApart /\ NeverTried

LEMMA RecordAttemptPositive ==
    ASSUME attempts \in [Ids -> Nat], age \in [Ids -> Nat],
           NEW m \in Ids, RecordAttempt(m)
    PROVE  /\ attempts'[m] > 0 /\ attempts'[m] >= attempts[m] /\ age'[m] = 0
           /\ attempts[m] < MaxAttempts => attempts'[m] = attempts[m] + 1
           /\ \A n \in Ids : n # m => attempts'[n] = attempts[n] /\ age'[n] = age[n]
<1>1. /\ Saturate(attempts[m], AttemptCap) > 0
      /\ Saturate(attempts[m], AttemptCap) >= attempts[m]
      /\ attempts[m] < MaxAttempts => Saturate(attempts[m], AttemptCap) = attempts[m] + 1
  BY CapAssumption, MaxAttemptsAssumption DEF Saturate
<1> QED
  BY <1>1 DEF RecordAttempt

LEMMA NextBatchInv ==
    ASSUME Sequential
    PROVE  TypeOK /\ BatchInv /\ [Next]_vars => BatchInv'
<1> SUFFICES ASSUME TypeOK, BatchInv, [Next]_vars PROVE BatchInv'
  OBVIOUS
<1> USE DEF BatchInv, FreshBatch, InFlightApart, NeverTried
<1>1. ASSUME NEW m \in Ids, Save(m) PROVE BatchInv'
  BY <1>1 DEF Save, cycle
<1>2. CASE Start \/ Stop \/ Toggle
  BY <1>2 DEF Start, Stop, Toggle, store, cycle
<1>3. CASE Tick
  <2>1. ASSUME NEW c \in Cycles, NEW m \in todo[c]
        PROVE  /\ snap'[c][m].attempts = attempts[m]
               /\ snap'[c][m].age = age'[m]
    BY <1>3 DEF Tick, TypeOK
  <2>2. \A m \in Ids : attempts[m] = 0 => age'[m] = 0
    BY <1>3 DEF Tick
  <2>3. UNCHANGED <<published, attempts, todo, pc, cur>>
    BY <1>3 DEF Tick
  <2> QED
    BY <2>1, <2>2, <2>3
<1>4. CASE Crash
  <2>1. /\ \A c \in Cycles : todo'[c] = {}
        /\ \A c \in Cycles : pc'[c] \notin InFlight
        /\ UNCHANGED <<attempts, age>>
    BY <1>4 DEF Crash, store, InFlight
  <2> QED
    BY <2>1
<1>5. ASSUME NEW c \in Cycles, Poll(c) PROVE BatchInv'
  <2>1. Batch \subseteq Ids /\ \A m \in Batch : ~published[m]
    BY DEF Batch, Unpublished, Saved
  <2>2. \A m \in Batch : snap'[c][m] = [attempts |-> attempts[m], age |-> age[m]]
    BY <1>5, <2>1 DEF Poll, TypeOK
  <2>3. todo'[c] = Batch /\ pc'[c] \notin InFlight /\ UNCHANGED store
    BY <1>5 DEF Poll, TypeOK, InFlight
  <2>4. \A d \in Cycles : d = c
    BY DEF Sequential
  <2>5. ASSUME NEW m \in todo'[c]
        PROVE  /\ snap'[c][m].attempts = attempts'[m]
               /\ snap'[c][m].age = age'[m]
    <3>1. attempts' = attempts /\ age' = age
      BY <2>3 DEF store
    <3>2. snap'[c][m] = [attempts |-> attempts[m], age |-> age[m]]
      BY <2>2, <2>3
    <3> HIDE DEF BatchInv, FreshBatch, InFlightApart, NeverTried
    <3> QED
      BY <3>1, <3>2
  <2>6. \A m \in todo'[c] : ~published'[m]
    BY <2>1, <2>3, Zenon DEF store
  <2>7. FreshBatch'
    BY <2>4, <2>5, <2>6
  <2>8. InFlightApart' /\ NeverTried'
    BY <2>3, <2>4 DEF store
  <2> QED
    BY <2>7, <2>8
<1>6. ASSUME NEW c \in Cycles, Bury(c) PROVE BatchInv'
  <2>1. PICK m \in Ids : Oldest(c, m) /\ RecordAttempt(m) /\ Advance(c, m)
    BY <1>6 DEF Bury
  <2>2. todo'[c] = todo[c] \ {m} /\ pc' = pc /\ pc[c] \notin InFlight /\ published' = published
    BY <1>6, <2>1 DEF Bury, Advance, TypeOK, InFlight
  <2>3. \A n \in todo'[c] : n \in Ids /\ n # m /\ snap'[c][n] = snap[c][n]
    BY <2>1, <2>2 DEF Advance, TypeOK
  <2>4. /\ attempts'[m] > 0
        /\ \A n \in Ids : n # m => attempts'[n] = attempts[n] /\ age'[n] = age[n]
    BY <2>1, RecordAttemptPositive DEF TypeOK
  <2>5. \A d \in Cycles : d = c
    BY DEF Sequential
  <2>6. FreshBatch'
    BY <2>2, <2>3, <2>4, <2>5
  <2>7. NeverTried'
    BY <2>4
  <2> QED
    BY <2>2, <2>5, <2>6, <2>7
<1>7. ASSUME NEW c \in Cycles, BackOff(c) \/ Publish(c) PROVE BatchInv'
  <2>1. PICK m \in Ids : Oldest(c, m) /\ Advance(c, m)
                         /\ (pc'[c] \in InFlight => cur'[c] = m)
    BY <1>7 DEF BackOff, Publish, TypeOK, InFlight
  <2>2. todo'[c] = todo[c] \ {m} /\ UNCHANGED <<published, attempts, age>>
    BY <1>7, <2>1 DEF BackOff, Publish, Advance, TypeOK, store
  <2>3. \A n \in todo'[c] : n \in Ids /\ snap'[c][n] = snap[c][n]
    BY <2>1, <2>2 DEF Advance, TypeOK
  <2>4. \A d \in Cycles : d = c
    BY DEF Sequential
  <2> QED
    BY <2>1, <2>2, <2>3, <2>4
<1>8. ASSUME NEW c \in Cycles, Finish(c) \/ Accept(c) \/ Reject(c) PROVE BatchInv'
  <2>1. /\ UNCHANGED <<published, attempts, age, todo, snap, cur>>
        /\ pc'[c] \in InFlight => pc[c] \in InFlight
    BY <1>8 DEF Finish, Accept, Reject, TypeOK, InFlight, store
  <2>2. \A d \in Cycles : d = c
    BY DEF Sequential
  <2> QED
    BY <2>1, <2>2
<1>9. ASSUME NEW c \in Cycles, MarkAsPublished(c) \/ MarkAsFailed(c) PROVE BatchInv'
  <2>1. /\ cur[c] \in Ids /\ cur[c] \notin todo[c] /\ RecordAttempt(cur[c])
        /\ UNCHANGED <<todo, snap>> /\ pc'[c] \notin InFlight
    BY <1>9 DEF MarkAsPublished, MarkAsFailed, TypeOK, InFlight
  <2>2. \A m \in Ids : m # cur[c] => published'[m] = published[m]
    BY <1>9, Zenon DEF MarkAsPublished, MarkAsFailed, TypeOK
  <2>3. /\ attempts'[cur[c]] > 0
        /\ \A n \in Ids : n # cur[c] => attempts'[n] = attempts[n] /\ age'[n] = age[n]
    BY <2>1, RecordAttemptPositive DEF TypeOK
  <2>4. \A d \in Cycles : d = c
    BY DEF Sequential
  <2>5. \A m \in todo[c] : m \in Ids /\ m # cur[c]
    BY <2>1 DEF TypeOK
  <2>6. FreshBatch'
    BY <2>1, <2>2, <2>3, <2>4, <2>5
  <2>7. NeverTried'
    BY <2>3
  <2> QED
    BY <2>1, <2>4, <2>6, <2>7
<1>10. CASE UNCHANGED vars
  BY <1>10 DEF vars, store, cycle
<1> QED
  BY <1>1, <1>2, <1>3, <1>4, <1>5, <1>6, <1>7, <1>8, <1>9, <1>10
  DEF Next, Proceed, Settle

LEMMA SequentialBatches ==
    ASSUME Sequential
    PROVE  Spec => [](TypeOK /\ BatchInv)
<1>1. Init => BatchInv
  BY DEF Init, BatchInv, FreshBatch, InFlightApart, NeverTried, InFlight
<1>2. TypeOK /\ BatchInv /\ [Next]_vars => BatchInv'
  BY NextBatchInv
<1> QED
  BY <1>1, <1>2, TypeCorrect, PTL DEF Spec

(* Only Publish makes the call, for a message of the batch.                *)
LEMMA PublishesStep ==
    ASSUME TypeOK, Next, NEW c \in Cycles, NEW m \in Ids, Publishes(c, m)
    PROVE  m \in todo[c] /\ Eligible(c, m)
<1>1. PICK d \in Cycles : Publish(d) /\ d = c
  <2>1. CASE \E n \in Ids : Save(n)
    BY <2>1 DEF Publishes, Save, cycle
  <2>2. CASE Start \/ Stop \/ Toggle \/ Tick \/ Crash
    BY <2>2 DEF Publishes, Start, Stop, Toggle, Tick, Crash, cycle
  <2>3. ASSUME NEW d \in Cycles, Poll(d) \/ Bury(d) \/ BackOff(d) \/ Finish(d)
                                  \/ Accept(d) \/ Reject(d)
                                  \/ MarkAsPublished(d) \/ MarkAsFailed(d)
        PROVE  FALSE
    BY <2>3 DEF Publishes, Poll, Bury, BackOff, Finish, Accept, Reject,
                MarkAsPublished, MarkAsFailed, TypeOK
  <2>4. ASSUME NEW d \in Cycles, Publish(d), d # c PROVE FALSE
    BY <2>4 DEF Publishes, Publish, TypeOK
  <2> QED
    BY <2>1, <2>2, <2>3, <2>4 DEF Next, Proceed, Settle
<1>2. PICK n \in Ids : Oldest(c, n) /\ Eligible(c, n) /\ cur' = [cur EXCEPT ![c] = n]
  BY <1>1 DEF Publish
<1>3. cur'[c] = n
  BY <1>2 DEF TypeOK
<1> QED
  BY <1>2, <1>3 DEF Publishes, Oldest

(* Without overlap no message is published again once it is recorded as    *)
(* published, and every retry waits for its back-off.                      *)
THEOREM SequentialNoRepublish ==
    ASSUME Sequential
    PROVE  Spec => NoRepublish
<1>1. TypeOK /\ BatchInv /\ [Next]_vars =>
        [\A c \in Cycles, m \in Ids : Publishes(c, m) => ~published[m]]_vars
  BY PublishesStep DEF BatchInv, FreshBatch
<1> QED
  BY <1>1, SequentialBatches, PTL DEF Spec, NoRepublish

THEOREM SequentialBackoff ==
    ASSUME Sequential
    PROVE  Spec => BackoffRespected
<1>1. ASSUME TypeOK, BatchInv, Next, NEW c \in Cycles, NEW m \in Ids, Publishes(c, m)
      PROVE  attempts[m] = 0 \/ age[m] >= Backoff(attempts[m])
  <2>1. m \in todo[c] /\ Eligible(c, m)
    BY <1>1, PublishesStep
  <2> QED
    BY <1>1, <2>1 DEF BatchInv, FreshBatch, Eligible
<1>2. TypeOK /\ BatchInv /\ [Next]_vars =>
        [\A c \in Cycles, m \in Ids :
           Publishes(c, m) => attempts[m] = 0 \/ age[m] >= Backoff(attempts[m])]_vars
  BY <1>1
<1> QED
  BY <1>2, SequentialBatches, PTL DEF Spec, BackoffRespected

-----------------------------------------------------------------------------
(* How often the broker gets a message, however many cycles overlap.  The  *)
(* cycles that may still publish it, and those whose publication has       *)
(* settled without a record of the attempt:                                *)
MayDeliver(m) ==
    {c \in Cycles : \/ m \in todo[c] /\ snap[c][m].attempts < MaxAttempts
                    \/ pc[c] = "publishing" /\ cur[c] = m}
InDoubt(m) == {c \in Cycles : pc[c] \in {"accepted", "rejected"} /\ cur[c] = m}
Lost == Cardinality(Cycles) * crashes

(* As long as a message has attempts left, each delivery is a recorded     *)
(* attempt, one in doubt or one that a crash has lost.  From then on no    *)
(* further cycle may deliver it.                                           *)
Bound(m) ==
    /\ attempts[m] < MaxAttempts =>
           delivered[m] <= attempts[m] + Cardinality(InDoubt(m)) + Lost
    /\ attempts[m] >= MaxAttempts =>
           delivered[m] + Cardinality(MayDeliver(m))
               <= MaxAttempts + (Cardinality(Cycles) - 1) + Lost
OldSnaps == \A c \in Cycles, m \in Ids : snap[c][m].attempts <= attempts[m]
BoundInv == InFlightApart /\ OldSnaps /\ \A m \in Ids : Bound(m)

LEMMA SetsOfCycles ==
    ASSUME NEW S \in SUBSET Cycles, NEW T \in SUBSET Cycles
    PROVE  /\ Cardinality(S) \in Nat /\ Cardinality(T) \in Nat /\ Cardinality(Cycles) \in Nat
           /\ Cardinality(S) <= Cardinality(Cycles)
           /\ S \subseteq T => Cardinality(S) <= Cardinality(T)
           /\ S \cap T = {} => Cardinality(S) + Cardinality(T) <= Cardinality(Cycles)
           /\ \A c \in S : Cardinality(S \ {c}) = Cardinality(S) - 1
           /\ \A c \in Cycles \ S : Cardinality(S \cup {c}) = Cardinality(S) + 1
<1>1. /\ IsFiniteSet(S) /\ IsFiniteSet(T) /\ IsFiniteSet(S \cup T)
      /\ Cardinality(S) \in Nat /\ Cardinality(T) \in Nat /\ Cardinality(Cycles) \in Nat
  BY CyclesAssumption, FS_Subset, FS_CardinalityType
<1>2. Cardinality(S) <= Cardinality(Cycles) /\ Cardinality(S \cup T) <= Cardinality(Cycles)
  BY CyclesAssumption, FS_Subset
<1>3. S \subseteq T => Cardinality(S) <= Cardinality(T)
  BY <1>1, FS_Subset
<1>4. S \cap T = {} => Cardinality(S \cup T) = Cardinality(S) + Cardinality(T)
  <2>1. Cardinality(S \cup T) = Cardinality(S) + Cardinality(T) - Cardinality(S \cap T)
    BY <1>1, FS_Union
  <2>2. S \cap T = {} => Cardinality(S \cap T) = 0
    BY FS_EmptySet
  <2> QED
    BY <1>1, <2>1, <2>2
<1>5. \A c \in S : Cardinality(S \ {c}) = Cardinality(S) - 1
  BY <1>1, FS_RemoveElement
<1>6. \A c \in Cycles \ S : Cardinality(S \cup {c}) = Cardinality(S) + 1
  BY <1>1, FS_AddElement
<1> QED
  BY <1>1, <1>2, <1>3, <1>4, <1>5, <1>6

LEMMA CyclesOf ==
    ASSUME TypeOK, InFlightApart, NEW m \in Ids
    PROVE  /\ MayDeliver(m) \in SUBSET Cycles /\ InDoubt(m) \in SUBSET Cycles
           /\ MayDeliver(m) \cap InDoubt(m) = {}
           /\ Lost \in Nat
<1>1. MayDeliver(m) \cap InDoubt(m) = {}
  BY DEF MayDeliver, InDoubt, InFlightApart, InFlight
<1>2. Cardinality(Cycles) \in Nat /\ crashes \in Nat
  BY SetsOfCycles DEF TypeOK
<1>3. Lost \in Nat
  BY <1>2 DEF Lost
<1> QED
  BY <1>1, <1>3 DEF MayDeliver, InDoubt

(* A step that neither delivers the message nor uses an attempt it has     *)
(* left, and that lets no cycle deliver it that could not before.          *)
LEMMA BoundKept ==
    ASSUME TypeOK, TypeOK', InFlightApart, InFlightApart', NEW m \in Ids, Bound(m),
           delivered'[m] = delivered[m], crashes' = crashes,
           \/ attempts'[m] = attempts[m]
           \/ attempts[m] >= MaxAttempts /\ attempts'[m] >= attempts[m],
           attempts[m] < MaxAttempts => InDoubt(m) \subseteq InDoubt(m)',
           attempts[m] >= MaxAttempts => MayDeliver(m)' \subseteq MayDeliver(m)
    PROVE  Bound(m)'
<1>1. /\ MayDeliver(m) \in SUBSET Cycles /\ InDoubt(m) \in SUBSET Cycles
      /\ MayDeliver(m)' \in SUBSET Cycles /\ InDoubt(m)' \in SUBSET Cycles
      /\ Lost \in Nat /\ Lost' = Lost
  BY CyclesOf DEF MayDeliver, InDoubt, Lost
<1>2. /\ attempts[m] < MaxAttempts => Cardinality(InDoubt(m)) <= Cardinality(InDoubt(m)')
      /\ attempts[m] >= MaxAttempts => Cardinality(MayDeliver(m)') <= Cardinality(MayDeliver(m))
      /\ Cardinality(InDoubt(m)) \in Nat /\ Cardinality(InDoubt(m)') \in Nat
      /\ Cardinality(MayDeliver(m)) \in Nat /\ Cardinality(MayDeliver(m)') \in Nat
      /\ Cardinality(Cycles) \in Nat
  BY <1>1, SetsOfCycles
<1>3. /\ attempts[m] \in Nat /\ attempts'[m] \in Nat /\ delivered[m] \in Nat /\ MaxAttempts \in Nat
  BY MaxAttemptsAssumption DEF TypeOK
<1> QED
  BY <1>1, <1>2, <1>3 DEF Bound

LEMMA AttemptsGrow ==
    ASSUME TypeOK, NEW m \in Ids, RecordAttempt(m)
    PROVE  \A n \in Ids : attempts'[n] \in Nat /\ attempts[n] \in Nat /\ attempts'[n] >= attempts[n]
<1>1. attempts \in [Ids -> Nat] /\ age \in [Ids -> Nat]
  BY DEF TypeOK
<1>2. attempts' \in [Ids -> Nat]
  BY <1>1, RecordAttemptType
<1>3. attempts'[m] >= attempts[m] /\ \A n \in Ids : n # m => attempts'[n] = attempts[n]
  BY <1>1, RecordAttemptPositive
<1> QED
  BY <1>1, <1>2, <1>3

(* The message in flight has left its batch, and a batch knows of no more  *)
(* attempts than the store, with any number of cycles.                     *)
LEMMA NextApart ==
    ASSUME TypeOK, InFlightApart, OldSnaps, [Next]_vars
    PROVE  InFlightApart' /\ OldSnaps'
<1> USE DEF InFlightApart, OldSnaps
<1>1. ASSUME NEW m \in Ids, Save(m) PROVE InFlightApart' /\ OldSnaps'
  BY <1>1 DEF Save, cycle
<1>2. CASE Start \/ Stop \/ Toggle \/ UNCHANGED vars
  BY <1>2 DEF Start, Stop, Toggle, store, cycle, vars
<1>3. CASE Tick
  <2>1. \A c \in Cycles, m \in Ids : snap'[c][m].attempts = snap[c][m].attempts
    BY <1>3 DEF Tick
  <2> QED
    BY <1>3, <2>1 DEF Tick
<1>4. CASE Crash
  <2>1. \A c \in Cycles, m \in Ids : snap'[c][m].attempts = 0
    BY <1>4 DEF Crash, NoSnap
  <2>2. \A c \in Cycles : pc'[c] \notin InFlight
    BY <1>4 DEF Crash, InFlight
  <2>3. attempts' = attempts /\ \A m \in Ids : attempts[m] \in Nat
    BY <1>4 DEF Crash, store, TypeOK
  <2> QED
    BY <2>1, <2>2, <2>3
<1>5. ASSUME NEW c \in Cycles, Poll(c) PROVE InFlightApart' /\ OldSnaps'
  <2>1. /\ pc'[c] \notin InFlight /\ attempts' = attempts /\ cur' = cur
        /\ \A d \in Cycles : d # c => pc'[d] = pc[d] /\ todo'[d] = todo[d] /\ snap'[d] = snap[d]
    BY <1>5 DEF Poll, TypeOK, InFlight, store
  <2>2. \A m \in Ids : snap'[c][m].attempts \in {0, attempts[m]}
    BY <1>5 DEF Poll, TypeOK, NoSnap
  <2>3. \A m \in Ids : attempts[m] \in Nat
    BY DEF TypeOK
  <2> QED
    BY <2>1, <2>2, <2>3
<1>6. ASSUME NEW c \in Cycles, Bury(c) \/ BackOff(c) \/ Publish(c)
      PROVE  InFlightApart' /\ OldSnaps'
  <2>1. PICK m \in Ids : /\ Oldest(c, m) /\ Advance(c, m)
                         /\ pc'[c] \in InFlight => cur'[c] = m
    BY <1>6 DEF Bury, BackOff, Publish, TypeOK, InFlight
  <2>2. /\ todo'[c] = todo[c] \ {m}
        /\ \A d \in Cycles : d # c => todo'[d] = todo[d] /\ snap'[d] = snap[d]
        /\ snap'[c][m].attempts = 0
        /\ \A n \in Ids : n # m => snap'[c][n] = snap[c][n]
    BY <2>1 DEF Advance, TypeOK, NoSnap
  <2>3. \A d \in Cycles : d # c => pc'[d] = pc[d] /\ cur'[d] = cur[d]
    BY <1>6 DEF Bury, BackOff, Publish, TypeOK
  <2>4. \A n \in Ids : attempts'[n] \in Nat /\ attempts[n] \in Nat /\ attempts'[n] >= attempts[n]
    <3>1. CASE Bury(c)
      <4>1. PICK n \in Ids : RecordAttempt(n)
        BY <3>1 DEF Bury
      <4> QED
        BY <4>1, AttemptsGrow
    <3>2. CASE BackOff(c) \/ Publish(c)
      BY <3>2 DEF BackOff, Publish, store, TypeOK
    <3> QED
      BY <1>6, <3>1, <3>2
  <2>5. InFlightApart'
    BY <2>1, <2>2, <2>3
  <2>6. \A d \in Cycles, n \in Ids : snap[d][n].attempts \in Nat
    BY DEF TypeOK
  <2>7. OldSnaps'
    BY <2>2, <2>4, <2>6
  <2> QED
    BY <2>5, <2>7
<1>7. ASSUME NEW c \in Cycles, Finish(c) \/ Accept(c) \/ Reject(c)
      PROVE  InFlightApart' /\ OldSnaps'
  <2>1. /\ UNCHANGED <<attempts, todo, snap, cur>>
        /\ \A d \in Cycles : pc'[d] \in InFlight => pc[d] \in InFlight
    BY <1>7 DEF Finish, Accept, Reject, TypeOK, InFlight, store
  <2> QED
    BY <2>1
<1>8. ASSUME NEW c \in Cycles, MarkAsPublished(c) \/ MarkAsFailed(c)
      PROVE  InFlightApart' /\ OldSnaps'
  <2>1. /\ cur[c] \in Ids /\ RecordAttempt(cur[c]) /\ UNCHANGED <<todo, snap>>
        /\ pc'[c] \notin InFlight
        /\ \A d \in Cycles : d # c => pc'[d] = pc[d] /\ cur'[d] = cur[d]
    BY <1>8 DEF MarkAsPublished, MarkAsFailed, TypeOK, InFlight
  <2>2. \A n \in Ids : attempts'[n] \in Nat /\ attempts[n] \in Nat /\ attempts'[n] >= attempts[n]
    BY <2>1, AttemptsGrow
  <2>3. \A d \in Cycles, n \in Ids : snap[d][n].attempts \in Nat
    BY DEF TypeOK
  <2> QED
    BY <2>1, <2>2, <2>3
<1> QED
  BY <1>1, <1>2, <1>3, <1>4, <1>5, <1>6, <1>7, <1>8
  DEF Next, Proceed, Settle

(* The broker accepts the message: the cycle that published it is one that *)
(* may deliver it no longer, and one in doubt.                             *)
LEMMA AcceptBound ==
    ASSUME TypeOK, TypeOK', InFlightApart, InFlightApart', NEW c \in Cycles, Accept(c),
           NEW m \in Ids, Bound(m)
    PROVE  Bound(m)'
<1>1. /\ pc[c] = "publishing" /\ cur[c] \in Ids /\ pc' = [pc EXCEPT ![c] = "accepted"]
      /\ UNCHANGED <<attempts, todo, snap, cur, crashes>>
      /\ delivered' = [delivered EXCEPT ![cur[c]] = Saturate(@, DeliveryCap)]
  BY DEF Accept, store, TypeOK, InFlight
<1>2. /\ pc'[c] = "accepted" /\ \A d \in Cycles : d # c => pc'[d] = pc[d]
  BY <1>1 DEF TypeOK
<1>3. CASE cur[c] # m
  <2>1. delivered'[m] = delivered[m]
    BY <1>1, <1>3 DEF TypeOK
  <2>2. InDoubt(m)' = InDoubt(m) /\ MayDeliver(m)' = MayDeliver(m)
    BY <1>1, <1>2, <1>3 DEF InDoubt, MayDeliver
  <2> QED
    BY <1>1, <2>1, <2>2, BoundKept
<1>4. CASE cur[c] = m
  <2>1. delivered[m] \in Nat /\ delivered'[m] \in Nat /\ delivered'[m] <= delivered[m] + 1
    <3>1. Saturate(delivered[m], DeliveryCap) \in {delivered[m], delivered[m] + 1}
      BY SaturateNat DEF TypeOK
    <3>2. delivered'[m] = Saturate(delivered[m], DeliveryCap) /\ delivered[m] \in Nat
      BY <1>1, <1>4 DEF TypeOK
    <3> QED
      BY <3>1, <3>2
  <2>2. c \in Cycles \ InDoubt(m) /\ c \in MayDeliver(m)
    BY <1>1, <1>4 DEF InDoubt, MayDeliver
  <2>3. InDoubt(m)' = InDoubt(m) \cup {c}
    BY <1>1, <1>2, <1>4 DEF InDoubt
  <2>4. MayDeliver(m)' = MayDeliver(m) \ {c}
    <3>1. m \notin todo'[c]
      BY <1>1, <1>2, <1>4 DEF InFlightApart, InFlight
    <3>2. c \notin MayDeliver(m)'
      BY <1>2, <3>1 DEF MayDeliver
    <3>3. \A d \in Cycles \ {c} : d \in MayDeliver(m)' <=> d \in MayDeliver(m)
      BY <1>1, <1>2 DEF MayDeliver
    <3> QED
      BY <3>2, <3>3 DEF MayDeliver
  <2>5. /\ MayDeliver(m) \in SUBSET Cycles /\ InDoubt(m) \in SUBSET Cycles
        /\ Lost \in Nat /\ Lost' = Lost
    BY <1>1, CyclesOf DEF Lost
  <2>6. /\ Cardinality(InDoubt(m)') = Cardinality(InDoubt(m)) + 1
        /\ Cardinality(MayDeliver(m)') = Cardinality(MayDeliver(m)) - 1
        /\ Cardinality(InDoubt(m)) \in Nat /\ Cardinality(MayDeliver(m)) \in Nat
        /\ Cardinality(Cycles) \in Nat
    BY <2>2, <2>3, <2>4, <2>5, SetsOfCycles
  <2>7. attempts'[m] = attempts[m] /\ attempts[m] \in Nat /\ MaxAttempts \in Nat
    BY <1>1, MaxAttemptsAssumption DEF TypeOK
  <2> QED
    BY <2>1, <2>5, <2>6, <2>7 DEF Bound
<1> QED
  BY <1>3, <1>4

(* The attempt of a publication in doubt is recorded.                      *)
LEMMA RecordBound ==
    ASSUME TypeOK, TypeOK', InFlightApart, InFlightApart', NEW c \in Cycles,
           MarkAsPublished(c) \/ MarkAsFailed(c), NEW m \in Ids, Bound(m)
    PROVE  Bound(m)'
<1>1. /\ pc[c] \in {"accepted", "rejected"} /\ cur[c] \in Ids /\ RecordAttempt(cur[c])
      /\ UNCHANGED <<todo, snap, crashes, delivered>>
      /\ pc'[c] = "loop" /\ \A d \in Cycles : d # c => pc'[d] = pc[d] /\ cur'[d] = cur[d]
  BY DEF MarkAsPublished, MarkAsFailed, TypeOK, InFlight
<1>2. MayDeliver(m)' = MayDeliver(m)
  <2>1. ASSUME NEW d \in Cycles PROVE d \in MayDeliver(m)' <=> d \in MayDeliver(m)
    BY <1>1 DEF MayDeliver
  <2> QED
    BY <2>1 DEF MayDeliver
<1>3. CASE cur[c] # m
  <2>1. attempts'[m] = attempts[m]
    BY <1>1, <1>3, RecordAttemptPositive DEF TypeOK
  <2>2. InDoubt(m) \subseteq InDoubt(m)'
    BY <1>1, <1>3 DEF InDoubt
  <2> QED
    BY <1>1, <1>2, <2>1, <2>2, BoundKept
<1>4. CASE cur[c] = m
  <2>1. /\ attempts[m] < MaxAttempts => attempts'[m] = attempts[m] + 1
        /\ attempts'[m] >= attempts[m]
    BY <1>1, <1>4, RecordAttemptPositive DEF TypeOK
  <2>2. c \in InDoubt(m) /\ InDoubt(m)' = InDoubt(m) \ {c}
    BY <1>1, <1>4 DEF InDoubt
  <2>3. /\ MayDeliver(m) \in SUBSET Cycles /\ InDoubt(m) \in SUBSET Cycles
        /\ MayDeliver(m) \cap InDoubt(m) = {} /\ Lost \in Nat /\ Lost' = Lost
    BY <1>1, CyclesOf DEF Lost
  <2>4. /\ Cardinality(InDoubt(m)') = Cardinality(InDoubt(m)) - 1
        /\ Cardinality(MayDeliver(m)) + Cardinality(InDoubt(m)) <= Cardinality(Cycles)
        /\ Cardinality(InDoubt(m)) \in Nat /\ Cardinality(MayDeliver(m)) \in Nat
        /\ Cardinality(Cycles) \in Nat
    BY <2>2, <2>3, SetsOfCycles
  <2>5. /\ attempts[m] \in Nat /\ attempts'[m] \in Nat /\ MaxAttempts \in Nat
        /\ delivered'[m] = delivered[m] /\ delivered[m] \in Nat
    BY <1>1, MaxAttemptsAssumption DEF TypeOK
  <2> QED
    BY <1>2, <2>1, <2>3, <2>4, <2>5 DEF Bound
<1> QED
  BY <1>3, <1>4

(* A crash loses what was in flight in every cycle.                        *)
LEMMA CrashBound ==
    ASSUME TypeOK, InFlightApart, Crash, NEW m \in Ids, Bound(m)
    PROVE  Bound(m)'
<1>1. /\ UNCHANGED <<attempts, delivered>> /\ crashes' = crashes + 1
      /\ \A c \in Cycles : pc'[c] = "idle" /\ todo'[c] = {}
  BY DEF Crash, store
<1>2. MayDeliver(m)' = {} /\ InDoubt(m)' = {} /\ Cardinality({}) = 0
  BY <1>1, FS_EmptySet DEF MayDeliver, InDoubt
<1>3. Cardinality(Cycles) \in Nat /\ crashes \in Nat
  BY SetsOfCycles DEF TypeOK
<1>4. Lost' = Lost + Cardinality(Cycles) /\ Lost \in Nat
  BY <1>1, <1>3 DEF Lost
<1>5. /\ Cardinality(InDoubt(m)) \in Nat /\ Cardinality(MayDeliver(m)) \in Nat
      /\ Cardinality(InDoubt(m)) <= Cardinality(Cycles)
  BY CyclesOf, SetsOfCycles
<1>6. /\ attempts[m] \in Nat /\ delivered[m] \in Nat /\ MaxAttempts \in Nat
  BY MaxAttemptsAssumption DEF TypeOK
<1> QED
  BY <1>1, <1>2, <1>3, <1>4, <1>5, <1>6 DEF Bound

LEMMA NextBoundInv == TypeOK /\ BoundInv /\ [Next]_vars => BoundInv'
<1> SUFFICES ASSUME TypeOK, BoundInv, [Next]_vars, NEW m \in Ids PROVE Bound(m)'
  BY NextApart DEF BoundInv
<1>1. TypeOK' /\ InFlightApart /\ InFlightApart' /\ OldSnaps /\ Bound(m)
  BY NextTypeOK, NextApart DEF BoundInv
<1>2. CASE (\E n \in Ids : Save(n)) \/ Start \/ Stop \/ Toggle \/ UNCHANGED vars
  <2>1. UNCHANGED <<attempts, delivered, crashes, pc, todo, snap, cur>>
    BY <1>2 DEF Save, Start, Stop, Toggle, store, cycle, vars
  <2>2. InDoubt(m)' = InDoubt(m) /\ MayDeliver(m)' = MayDeliver(m)
    BY <2>1 DEF InDoubt, MayDeliver
  <2> QED
    BY <1>1, <2>1, <2>2, BoundKept
<1>3. CASE Tick
  <2>1. /\ UNCHANGED <<attempts, delivered, crashes, pc, todo, cur>>
        /\ \A c \in Cycles : snap'[c][m].attempts = snap[c][m].attempts
    BY <1>3 DEF Tick
  <2>2. InDoubt(m)' = InDoubt(m) /\ MayDeliver(m)' = MayDeliver(m)
    BY <2>1 DEF InDoubt, MayDeliver
  <2> QED
    BY <1>1, <2>1, <2>2, BoundKept
<1>4. CASE Crash
  BY <1>1, <1>4, CrashBound
<1>5. ASSUME NEW c \in Cycles, Poll(c) PROVE Bound(m)'
  <2>1. /\ UNCHANGED <<attempts, delivered, crashes, cur>> /\ pc[c] = "idle" /\ pc'[c] = "loop"
        /\ \A d \in Cycles : d # c => pc'[d] = pc[d] /\ todo'[d] = todo[d] /\ snap'[d] = snap[d]
    BY <1>5 DEF Poll, TypeOK, store
  <2>2. m \in todo'[c] => snap'[c][m].attempts = attempts[m]
    BY <1>5 DEF Poll, TypeOK
  <2>3. InDoubt(m)' = InDoubt(m)
    BY <2>1 DEF InDoubt
  <2>4. attempts[m] >= MaxAttempts => MayDeliver(m)' \subseteq MayDeliver(m)
    <3>1. ASSUME attempts[m] >= MaxAttempts PROVE c \notin MayDeliver(m)'
      <4>1. attempts[m] \in Nat /\ MaxAttempts \in Nat
        BY MaxAttemptsAssumption DEF TypeOK
      <4>2. m \in todo'[c] => ~(snap'[c][m].attempts < MaxAttempts)
        BY <2>2, <3>1, <4>1
      <4> QED
        BY <2>1, <4>2 DEF MayDeliver
    <3>2. \A d \in Cycles \ {c} : d \in MayDeliver(m)' => d \in MayDeliver(m)
      BY <2>1 DEF MayDeliver
    <3> QED
      BY <3>1, <3>2 DEF MayDeliver
  <2> QED
    BY <1>1, <2>1, <2>3, <2>4, BoundKept
<1>6. ASSUME NEW c \in Cycles, Bury(c) \/ BackOff(c) \/ Publish(c) PROVE Bound(m)'
  <2>1. PICK n \in Ids :
          /\ n \in todo[c] /\ Advance(c, n)
          /\ \/ Bury(c) /\ snap[c][n].attempts >= MaxAttempts /\ RecordAttempt(n)
             \/ /\ UNCHANGED store
                /\ pc'[c] = "publishing" => cur'[c] = n /\ snap[c][n].attempts < MaxAttempts
    BY <1>6 DEF Bury, BackOff, Publish, Oldest, TypeOK
  <2>2. /\ UNCHANGED <<delivered, crashes>> /\ pc[c] = "loop" /\ pc'[c] \in {"loop", "publishing"}
        /\ \A d \in Cycles : d # c => pc'[d] = pc[d] /\ cur'[d] = cur[d]
    BY <1>6 DEF Bury, BackOff, Publish, TypeOK
  <2>3. /\ todo'[c] = todo[c] \ {n}
        /\ \A d \in Cycles : d # c => todo'[d] = todo[d] /\ snap'[d] = snap[d]
        /\ m # n => snap'[c][m] = snap[c][m]
    BY <2>1 DEF Advance, TypeOK
  <2>4. InDoubt(m)' = InDoubt(m)
    BY <2>2 DEF InDoubt
  <2>5. MayDeliver(m)' \subseteq MayDeliver(m)
    <3>1. c \in MayDeliver(m)' => c \in MayDeliver(m)
      <4>1. Bury(c) => pc'[c] = "loop"
        BY <2>2 DEF Bury
      <4> QED
        BY <2>1, <2>2, <2>3, <4>1 DEF MayDeliver
    <3>2. \A d \in Cycles \ {c} : d \in MayDeliver(m)' => d \in MayDeliver(m)
      BY <2>2, <2>3 DEF MayDeliver
    <3> QED
      BY <3>1, <3>2 DEF MayDeliver
  <2>6. \/ attempts'[m] = attempts[m]
        \/ attempts[m] >= MaxAttempts /\ attempts'[m] >= attempts[m]
    <3>1. CASE UNCHANGED store
      BY <3>1 DEF store
    <3>2. CASE snap[c][n].attempts >= MaxAttempts /\ RecordAttempt(n)
      <4>1. /\ snap[c][n].attempts \in Nat /\ attempts[n] \in Nat /\ MaxAttempts \in Nat
            /\ snap[c][n].attempts <= attempts[n]
        BY <1>1, MaxAttemptsAssumption DEF TypeOK, OldSnaps
      <4>2. attempts[n] >= MaxAttempts
        BY <3>2, <4>1
      <4>3. /\ attempts'[n] >= attempts[n] /\ \A k \in Ids : k # n => attempts'[k] = attempts[k]
        BY <3>2, RecordAttemptPositive DEF TypeOK
      <4> QED
        BY <4>2, <4>3
    <3> QED
      BY <2>1, <3>1, <3>2
  <2> QED
    BY <1>1, <2>2, <2>4, <2>5, <2>6, BoundKept
<1>7. ASSUME NEW c \in Cycles, Finish(c) \/ Reject(c) PROVE Bound(m)'
  <2>1. /\ UNCHANGED <<attempts, delivered, crashes, todo, snap, cur>>
        /\ \/ pc[c] = "loop" /\ pc'[c] = "idle"
           \/ pc[c] \in {"publishing", "accepted"} /\ pc'[c] = "rejected"
        /\ \A d \in Cycles : d # c => pc'[d] = pc[d]
    BY <1>7 DEF Finish, Reject, TypeOK, store
  <2>2. InDoubt(m) \subseteq InDoubt(m)' /\ MayDeliver(m)' \subseteq MayDeliver(m)
    BY <2>1 DEF InDoubt, MayDeliver
  <2> QED
    BY <1>1, <2>1, <2>2, BoundKept
<1>8. ASSUME NEW c \in Cycles, Accept(c) PROVE Bound(m)'
  BY <1>1, <1>8, AcceptBound
<1>9. ASSUME NEW c \in Cycles, MarkAsPublished(c) \/ MarkAsFailed(c) PROVE Bound(m)'
  BY <1>1, <1>9, RecordBound
<1> QED
  BY <1>2, <1>3, <1>4, <1>5, <1>6, <1>7, <1>8, <1>9
  DEF Next, Proceed, Settle

(* The broker gets a message at most once for each attempt, once more for  *)
(* every other cycle with an old batch, and once more per cycle for each   *)
(* crash (runOnce, markAsPublished and markAsFailed).                      *)
THEOREM DeliveriesSafe == Spec => []DeliveriesBounded
<1>1. Init => BoundInv
  <2> SUFFICES ASSUME Init PROVE BoundInv
    OBVIOUS
  <2>1. /\ \A m \in Ids : attempts[m] = 0 /\ delivered[m] = 0
        /\ \A c \in Cycles : pc[c] = "idle"
        /\ \A c \in Cycles, m \in Ids : snap[c][m].attempts = 0
    BY DEF Init, NoSnap
  <2>2. InFlightApart /\ OldSnaps
    BY <2>1 DEF InFlightApart, OldSnaps, InFlight
  <2>3. ASSUME NEW m \in Ids PROVE Bound(m)
    <3>1. Lost \in Nat /\ InDoubt(m) \in SUBSET Cycles
      BY <2>2, InitTypeOK, CyclesOf
    <3>2. Cardinality(InDoubt(m)) \in Nat
      BY <3>1, SetsOfCycles
    <3> QED
      BY <2>1, <3>1, <3>2, MaxAttemptsAssumption DEF Bound
  <2> QED
    BY <2>2, <2>3 DEF BoundInv
<1>2. TypeOK /\ BoundInv => DeliveriesBounded
  <2> SUFFICES ASSUME TypeOK, BoundInv, NEW m \in Ids
               PROVE  delivered[m] <= MaxAttempts + (Cardinality(Cycles) - 1) + Lost
    BY DEF DeliveriesBounded, Lost
  <2>1. /\ MayDeliver(m) \in SUBSET Cycles /\ InDoubt(m) \in SUBSET Cycles /\ Lost \in Nat
    BY CyclesOf DEF BoundInv
  <2>2. /\ Cardinality(InDoubt(m)) \in Nat /\ Cardinality(MayDeliver(m)) \in Nat
        /\ Cardinality(InDoubt(m)) <= Cardinality(Cycles) /\ Cardinality(Cycles) \in Nat
    BY <2>1, SetsOfCycles
  <2>3. /\ attempts[m] \in Nat /\ delivered[m] \in Nat /\ MaxAttempts \in Nat /\ Bound(m)
    BY MaxAttemptsAssumption DEF TypeOK, BoundInv
  <2> QED
    BY <2>1, <2>2, <2>3 DEF Bound
<1> QED
  BY <1>1, <1>2, TypeCorrect, NextBoundInv, PTL DEF Spec

(***************************************************************************)
(* IdempotentUseCase                                                       *)
(***************************************************************************)
LEMMA InitType == IdemInit => IdemTypeOK
BY TtlAssumption, RunAssumption DEF IdemInit, IdemTypeOK, Phases

LEMMA NextType == IdemTypeOK /\ [IdemNext]_idemVars => IdemTypeOK'
<1> SUFFICES ASSUME IdemTypeOK, [IdemNext]_idemVars PROVE IdemTypeOK'
  OBVIOUS
<1> USE TtlAssumption, RunAssumption DEF IdemTypeOK, Phases
<1>1. CASE Cleanup
  BY <1>1 DEF Cleanup
<1>2. CASE IdemTick
  BY <1>2 DEF IdemTick, Less, Running
<1>3. ASSUME NEW r \in Requests, Execute(r) PROVE IdemTypeOK'
  <2>1. CASE Lookup(r)
    BY <2>1 DEF Lookup, Goes
  <2>2. CASE TryAcquire(r)
    BY <2>2 DEF TryAcquire, Goes
  <2>3. CASE TurnedDown(r)
    BY <2>3 DEF TurnedDown, Goes
  <2>4. CASE LookAgain(r)
    BY <2>4 DEF LookAgain, Goes
  <2>5. CASE StoreResult(r)
    BY <2>5 DEF StoreResult, Goes
  <2>6. CASE Release(r)
    BY <2>6 DEF Release, Goes
  <2> QED
    BY <1>3, <2>1, <2>2, <2>3, <2>4, <2>5, <2>6 DEF Execute
<1>4. CASE UNCHANGED idemVars
  BY <1>4 DEF idemVars
<1> QED
  BY <1>1, <1>2, <1>3, <1>4 DEF IdemNext

(* Type correctness of the store's entry and of every request.             *)
THEOREM IdemTypeCorrect == IdemSpec => []IdemTypeOK
BY InitType, NextType, PTL DEF IdemSpec

-----------------------------------------------------------------------------
(* Starvation.  A message that no cycle holds stands behind BatchSize dead *)
(* ones that nobody will publish: they fill every batch from then on.      *)
Spent(n) ==
    /\ savedAt[n] # 0 /\ ~published[n] /\ Dead(n)
    /\ \A c \in Cycles : /\ pc[c] \in InFlight => cur[c] # n
                         /\ n \in todo[c] => snap[c][n].attempts >= MaxAttempts
Untouched(m) ==
    /\ savedAt[m] # 0 /\ ~published[m]
    /\ \A c \in Cycles : m \notin todo[c] /\ (pc[c] \in InFlight => cur[c] # m)
Behind(m, D) ==
    /\ Cardinality(D) >= BatchSize
    /\ \A n \in D : savedAt[n] < savedAt[m] /\ Spent(n)
Starved(m) == Untouched(m) /\ \E D \in SUBSET Ids : Behind(m, D)

(* What the store does for message k, a message of a cycle.                *)
LEMMA AttemptsKeepDead ==
    ASSUME TypeOK, NEW k \in Ids, RecordAttempt(k)
    PROVE  /\ \A n \in Ids : Dead(n) => Dead(n)'
           /\ \A n \in Ids \ {k} : attempts'[n] = attempts[n]
<1>1. \A n \in Ids : attempts'[n] = IF n = k THEN Saturate(attempts[n], AttemptCap) ELSE attempts[n]
  BY DEF RecordAttempt, TypeOK
<1>2. ASSUME NEW n \in Ids, Dead(n) PROVE Dead(n)'
  <2>1. attempts[n] \in Nat /\ attempts[n] >= MaxAttempts
    BY <1>2 DEF TypeOK, Dead
  <2>2. attempts'[n] \in {attempts[n], attempts[n] + 1}
    BY <1>1, <2>1, SaturateNat
  <2> QED
    BY <2>1, <2>2, MaxAttemptsAssumption DEF Dead
<1> QED
  BY <1>1, <1>2

(* A batch read while m is behind D does not hold m.                       *)
LEMMA BatchWithout ==
    ASSUME TypeOK, NEW m \in Ids, NEW D \in SUBSET Ids, Behind(m, D)
    PROVE  m \notin Batch
<1> SUFFICES ASSUME m \in Batch PROVE FALSE
  OBVIOUS
<1> DEFINE older == {n \in Unpublished : savedAt[n] < savedAt[m]}
<1>1. Cardinality(older) < BatchSize
  BY DEF Batch
<1>2. D \subseteq older /\ older \subseteq Ids
  BY DEF Behind, Spent, Unpublished, Saved
<1>3. IsFiniteSet(older) /\ Cardinality(older) \in Nat
  BY <1>2, FiniteAssumption, FS_Subset, FS_CardinalityType
<1>4. Cardinality(D) \in Nat /\ Cardinality(D) <= Cardinality(older)
  BY <1>2, <1>3, FS_Subset, FS_CardinalityType
<1> QED
  BY <1>1, <1>3, <1>4, BatchSizeAssumption DEF Behind

(* Whatever a cycle takes out of its batch, it is done with it.            *)
LEMMA AdvanceKeeps ==
    ASSUME TypeOK, NEW c \in Cycles, NEW k \in Ids, Advance(c, k)
    PROVE  \A d \in Cycles, n \in Ids :
              n \in todo'[d] => n \in todo[d] /\ snap'[d][n] = snap[d][n]
<1>1. \A d \in Cycles : todo'[d] = IF d = c THEN todo[d] \ {k} ELSE todo[d]
  BY DEF Advance, TypeOK
<1>2. \A d \in Cycles, n \in Ids : (d # c \/ n # k) => snap'[d][n] = snap[d][n]
  BY DEF Advance, TypeOK
<1> QED
  BY <1>1, <1>2

(* The steps that neither save, nor publish, nor let a cycle take or hold  *)
(* anything new.                                                           *)
Shrinks ==
    /\ \A d \in Cycles, n \in Ids :
          n \in todo'[d] => n \in todo[d] /\ snap'[d][n].attempts = snap[d][n].attempts
    /\ \A d \in Cycles : pc'[d] \in InFlight => pc[d] \in InFlight /\ cur'[d] = cur[d]

LEMMA ShrinksStarved ==
    ASSUME TypeOK, NEW m \in Ids, NEW D \in SUBSET Ids, Untouched(m), Behind(m, D),
           Shrinks,
           \A n \in Ids : savedAt[n] # 0 => savedAt'[n] = savedAt[n],
           \A n \in D \cup {m} : ~published'[n],
           UNCHANGED attempts \/ \E k \in Ids \ {m} : RecordAttempt(k)
    PROVE  Untouched(m)' /\ Behind(m, D)' /\ attempts'[m] = attempts[m]
<1>1. \A n \in Ids : Dead(n) => Dead(n)'
  BY AttemptsKeepDead DEF Dead
<1>2. attempts'[m] = attempts[m]
  BY AttemptsKeepDead
<1>3. Untouched(m)'
  BY DEF Untouched, Shrinks
<1>4. ASSUME NEW n \in D PROVE savedAt'[n] < savedAt'[m] /\ Spent(n)'
  BY <1>1, <1>4 DEF Behind, Spent, Untouched, Shrinks
<1> QED
  BY <1>2, <1>3, <1>4 DEF Behind

LEMMA StarvedStep ==
    ASSUME TypeOK, [Next]_vars, NEW m \in Ids, NEW D \in SUBSET Ids,
           Untouched(m), Behind(m, D)
    PROVE  Untouched(m)' /\ Behind(m, D)' /\ attempts'[m] = attempts[m]
<1>0. \A c \in Cycles : cur[c] \in Ids \cup {None}
  BY DEF TypeOK
<1>1. ASSUME NEW k \in Ids, Save(k)
      PROVE  Untouched(m)' /\ Behind(m, D)' /\ attempts'[m] = attempts[m]
  <2>1. /\ UNCHANGED <<published, attempts, pc, todo, snap, cur>>
        /\ \A n \in Ids : savedAt[n] # 0 => savedAt'[n] = savedAt[n]
    BY <1>1 DEF Save, cycle, TypeOK
  <2> QED
    BY <2>1, ShrinksStarved DEF Shrinks, Untouched, Behind, Spent
<1>2. CASE Start \/ Stop \/ Toggle \/ UNCHANGED vars
  <2>1. UNCHANGED <<savedAt, published, attempts, pc, todo, snap, cur>>
    BY <1>2 DEF Start, Stop, Toggle, vars, store, cycle
  <2> QED
    BY <2>1, ShrinksStarved DEF Shrinks, Untouched, Behind, Spent
<1>3. CASE Tick
  <2>1. UNCHANGED <<savedAt, published, attempts, pc, todo, cur>>
    BY <1>3 DEF Tick
  <2>2. \A d \in Cycles, n \in Ids : snap'[d][n].attempts = snap[d][n].attempts
    BY <1>3 DEF Tick
  <2> QED
    BY <2>1, <2>2, ShrinksStarved DEF Shrinks, Untouched, Behind, Spent
<1>4. CASE Crash
  <2>1. /\ UNCHANGED <<savedAt, published, attempts>>
        /\ \A d \in Cycles : todo'[d] = {} /\ pc'[d] \notin InFlight
    BY <1>4 DEF Crash, store, InFlight
  <2> QED
    BY <2>1, ShrinksStarved DEF Shrinks, Untouched, Behind, Spent
<1>5. ASSUME NEW c \in Cycles, Poll(c)
      PROVE  Untouched(m)' /\ Behind(m, D)' /\ attempts'[m] = attempts[m]
  <2>1. /\ UNCHANGED <<savedAt, published, attempts, cur>>
        /\ \A d \in Cycles : pc'[d] \in InFlight => pc[d] \in InFlight
    BY <1>5 DEF Poll, store, InFlight, TypeOK
  <2>2. \A d \in Cycles : todo'[d] = IF d = c THEN Batch ELSE todo[d]
    BY <1>5 DEF Poll, TypeOK
  <2>3. \A d \in Cycles, n \in Ids :
           n \in todo'[d] => snap'[d][n].attempts = IF d = c THEN attempts[n] ELSE snap[d][n].attempts
    BY <1>5, <2>2 DEF Poll, TypeOK
  <2>4. m \notin Batch
    BY BatchWithout
  <2>5. Untouched(m)'
    BY <2>1, <2>2, <2>4 DEF Untouched
  <2>6. ASSUME NEW n \in D PROVE savedAt'[n] < savedAt'[m] /\ Spent(n)'
    BY <2>1, <2>2, <2>3, <2>6 DEF Behind, Spent, Dead
  <2> QED
    BY <2>1, <2>5, <2>6 DEF Behind
<1>6. ASSUME NEW c \in Cycles, Bury(c) \/ BackOff(c)
      PROVE  Untouched(m)' /\ Behind(m, D)' /\ attempts'[m] = attempts[m]
  <2>1. PICK k \in Ids : /\ k \in todo[c] /\ Advance(c, k)
                         /\ UNCHANGED attempts \/ RecordAttempt(k)
    BY <1>6 DEF Bury, BackOff, Oldest, store
  <2>2. k # m
    BY <2>1 DEF Untouched
  <2>3. UNCHANGED <<savedAt, published, pc, cur>>
    BY <1>6 DEF Bury, BackOff, store
  <2>4. Shrinks
    BY <2>1, <2>3, AdvanceKeeps DEF Shrinks
  <2> QED
    BY <2>1, <2>2, <2>3, <2>4, ShrinksStarved DEF Untouched, Behind, Spent
<1>7. ASSUME NEW c \in Cycles, Publish(c)
      PROVE  Untouched(m)' /\ Behind(m, D)' /\ attempts'[m] = attempts[m]
  <2>1. PICK k \in Ids : /\ k \in todo[c] /\ Advance(c, k)
                         /\ snap[c][k].attempts < MaxAttempts
                         /\ cur' = [cur EXCEPT ![c] = k]
    BY <1>7 DEF Publish, Oldest
  <2>2. k # m /\ k \notin D
    BY <2>1, MaxAttemptsAssumption DEF Untouched, Behind, Spent, TypeOK
  <2>3. /\ UNCHANGED <<savedAt, published, attempts>>
        /\ \A d \in Cycles : pc'[d] \in InFlight => d = c \/ (pc[d] \in InFlight /\ cur'[d] = cur[d])
        /\ cur'[c] = k
    BY <1>7, <2>1 DEF Publish, store, TypeOK
  <2>4. \A d \in Cycles, n \in Ids :
           n \in todo'[d] => n \in todo[d] /\ snap'[d][n] = snap[d][n]
    BY <2>1, AdvanceKeeps
  <2>5. Untouched(m)'
    BY <2>2, <2>3, <2>4 DEF Untouched
  <2>6. ASSUME NEW n \in D PROVE savedAt'[n] < savedAt'[m] /\ Spent(n)'
    BY <2>2, <2>3, <2>4, <2>6 DEF Behind, Spent, Dead
  <2> QED
    BY <2>3, <2>5, <2>6 DEF Behind
<1>8. ASSUME NEW c \in Cycles, Finish(c) \/ Accept(c) \/ Reject(c)
      PROVE  Untouched(m)' /\ Behind(m, D)' /\ attempts'[m] = attempts[m]
  <2>1. /\ UNCHANGED <<savedAt, published, attempts, todo, snap, cur>>
        /\ \A d \in Cycles : pc'[d] \in InFlight => pc[d] \in InFlight
    BY <1>8 DEF Finish, Accept, Reject, store, InFlight, TypeOK
  <2> QED
    BY <2>1, ShrinksStarved DEF Shrinks, Untouched, Behind, Spent
<1>9. ASSUME NEW c \in Cycles, MarkAsPublished(c) \/ MarkAsFailed(c)
      PROVE  Untouched(m)' /\ Behind(m, D)' /\ attempts'[m] = attempts[m]
  <2> DEFINE k == cur[c]
  <2>1. /\ k \in Ids /\ pc[c] \in InFlight /\ RecordAttempt(k)
        /\ UNCHANGED <<savedAt, todo, snap>>
        /\ \A d \in Cycles : pc'[d] \in InFlight => pc[d] \in InFlight /\ cur'[d] = cur[d]
        /\ \A n \in Ids : n # k => published'[n] = published[n]
    BY <1>9 DEF MarkAsPublished, MarkAsFailed, InFlight, TypeOK
  <2>2. k # m /\ k \notin D
    BY <2>1 DEF Untouched, Behind, Spent
  <2> HIDE DEF k
  <2>3. Shrinks
    BY <2>1 DEF Shrinks
  <2>4. \A n \in D \cup {m} : ~published'[n]
    BY <2>1, <2>2 DEF Untouched, Behind, Spent
  <2> QED
    BY <2>1, <2>2, <2>3, <2>4, ShrinksStarved
<1> QED
  BY <1>1, <1>2, <1>3, <1>4, <1>5, <1>6, <1>7, <1>8, <1>9 DEF Next, Proceed, Settle

StarvedForGood ==
    \A m \in Ids : Starved(m) => Starved(m)' /\ attempts'[m] = attempts[m]

(* EveryMessageAttempted fails for good, and not only late: a message that *)
(* stands behind BatchSize dead ones is never read into a batch again,     *)
(* whatever the broker, the timer, crashes and other cycles do             *)
(* (getUnpublished; runOnce counts a dead message and leaves it there).    *)
THEOREM StarvationIsPermanent == Spec => [][StarvedForGood]_vars
<1>1. TypeOK /\ [Next]_vars => [StarvedForGood]_vars
  <2> SUFFICES ASSUME TypeOK, [Next]_vars, NEW m \in Ids, Starved(m)
               PROVE  Starved(m)' /\ attempts'[m] = attempts[m]
    BY DEF StarvedForGood
  <2>1. PICK D \in SUBSET Ids : Behind(m, D)
    BY DEF Starved
  <2> QED
    BY <2>1, StarvedStep DEF Starved
<1> QED
  BY <1>1, TypeCorrect, PTL DEF Spec

-----------------------------------------------------------------------------
(* A request changes at most its own phase, and only TryAcquire makes it   *)
(* a running one.                                                          *)
LEMMA OwnPhase ==
    ASSUME IdemTypeOK, NEW r \in Requests, Execute(r), NEW s \in Requests, s # r
    PROVE  phase'[s] = phase[s] /\ runFor'[s] = runFor[s]
BY DEF IdemTypeOK, Execute, Lookup, TryAcquire, TurnedDown, LookAgain, StoreResult,
       Release, Goes

(* What the steps that neither start nor end an execution do to r.         *)
LEMMA Waits ==
    ASSUME IdemTypeOK, NEW r \in Requests, Lookup(r) \/ TurnedDown(r) \/ LookAgain(r)
    PROVE  /\ ~Running(r) /\ ~Running(r)'
           /\ UNCHANGED <<entry, left, runFor, owed>>
BY DEF IdemTypeOK, Lookup, TurnedDown, LookAgain, Goes, Running

(* Behind every lock that counts is its owner, even when executions        *)
(* outlast their locks: a lock is only taken by a request that starts to   *)
(* run, and whoever stops running replaces it by a result or deletes it.   *)
THEOREM LocksAreOwned == IdemSpec => []LockHasOwner
<1>1. IdemInit => LockHasOwner
  BY DEF IdemInit, LockHasOwner, Live
<1>2. IdemTypeOK /\ LockHasOwner /\ [IdemNext]_idemVars => LockHasOwner'
  <2> SUFFICES ASSUME IdemTypeOK, LockHasOwner, [IdemNext]_idemVars,
                      Live', entry' = "locked"
               PROVE  \E r \in Requests : Running(r)' /\ left' = Ttl - runFor'[r]
    BY DEF LockHasOwner
  <2> USE TtlAssumption
  <2>1. CASE Cleanup
    BY <2>1 DEF Cleanup
  <2>2. CASE IdemTick
    <3>1. Live /\ entry = "locked" /\ left' = left - 1
      BY <2>2 DEF IdemTick, Less, Live, IdemTypeOK
    <3>2. PICK r \in Requests : Running(r) /\ left = Ttl - runFor[r]
      BY <3>1 DEF LockHasOwner
    <3>3. Running(r)' /\ runFor'[r] = runFor[r] + 1
      BY <2>2, <3>2 DEF IdemTick, Running
    <3>4. left \in Int /\ runFor[r] \in Int
      BY DEF IdemTypeOK
    <3> QED
      BY <3>1, <3>2, <3>3, <3>4
  <2>3. ASSUME NEW r \in Requests, Execute(r)
        PROVE  \E s \in Requests : Running(s)' /\ left' = Ttl - runFor'[s]
    <3>1. CASE Lookup(r) \/ TurnedDown(r) \/ LookAgain(r)
      <4>1. ~Running(r) /\ UNCHANGED <<entry, left>>
        BY <3>1, Waits
      <4>2. PICK s \in Requests : Running(s) /\ left = Ttl - runFor[s]
        BY <4>1 DEF LockHasOwner, Live
      <4>3. s # r
        BY <4>1, <4>2
      <4> QED
        BY <2>3, <4>1, <4>2, <4>3, OwnPhase DEF Running
    <3>2. CASE TryAcquire(r)
      <4>1. Running(r)' /\ runFor'[r] = 0 /\ left' = Ttl
        BY <3>2 DEF TryAcquire, Goes, Running, IdemTypeOK
      <4> QED
        BY <4>1
    <3>3. CASE StoreResult(r) \/ Release(r)
      BY <3>3 DEF StoreResult, Release
    <3> QED
      BY <2>3, <3>1, <3>2, <3>3 DEF Execute
  <2>4. CASE UNCHANGED idemVars
    BY <2>4 DEF idemVars, LockHasOwner, Live, Running
  <2> QED
    BY <2>1, <2>2, <2>3, <2>4 DEF IdemNext
<1> QED
  BY <1>1, <1>2, InitType, NextType, PTL DEF IdemSpec

-----------------------------------------------------------------------------
(* The inductive invariant behind exclusion, for executions that do not    *)
(* outlast their locks: a request that runs still has the key locked, so   *)
(* it is alone, and what the store owes of the last result it holds.       *)
RunnersHold == \A r \in Requests : Running(r) => entry = "locked" /\ left = Ttl - runFor[r]
ResultKept == owed >= 0 => entry = "stored" /\ left = owed
HeldInv == IdemTypeOK /\ OneAtATime /\ RunnersHold /\ ResultKept

LEMMA HeldInit == IdemInit => HeldInv
BY InitType DEF IdemInit, HeldInv, OneAtATime, RunnersHold, ResultKept, Running

(* While a request runs its lock counts, so nobody else gets the key.      *)
LEMMA RunnerIsLive ==
    ASSUME HeldInv, MaxRun <= Ttl, NEW r \in Requests, Running(r)
    PROVE  Live
<1>1. entry = "locked" /\ left = Ttl - runFor[r]
  BY DEF HeldInv, RunnersHold
<1>2. runFor[r] \in 0..MaxRun
  BY DEF HeldInv, IdemTypeOK
<1> QED
  BY <1>1, <1>2, TtlAssumption, RunAssumption DEF Live

LEMMA HeldStep ==
    ASSUME MaxRun <= Ttl, HeldInv, [IdemNext]_idemVars PROVE HeldInv'
<1>0. IdemTypeOK /\ IdemTypeOK'
  BY NextType DEF HeldInv
<1> USE TtlAssumption, RunAssumption
<1>1. CASE Cleanup
  <2>1. \A r \in Requests : ~Running(r)
    BY <1>1, RunnerIsLive DEF Cleanup
  <2>2. owed < 0
    BY <1>0, <1>1 DEF Cleanup, Live, HeldInv, ResultKept, IdemTypeOK
  <2>3. phase' = phase /\ owed' = owed
    BY <1>1 DEF Cleanup
  <2> QED
    BY <1>0, <2>1, <2>2, <2>3
    DEF HeldInv, OneAtATime, RunnersHold, ResultKept, Running, IdemTypeOK
<1>2. CASE IdemTick
  <2>1. phase' = phase /\ entry' = entry /\ left' = Less(left) /\ owed' = Less(owed)
    BY <1>2 DEF IdemTick
  <2>2. OneAtATime'
    BY <2>1 DEF HeldInv, OneAtATime, Running
  <2>3. ASSUME NEW r \in Requests, Running(r)'
        PROVE  entry' = "locked" /\ left' = Ttl - runFor'[r]
    <3>1. Running(r)
      BY <2>1, <2>3 DEF Running
    <3>2. entry = "locked" /\ left = Ttl - runFor[r] /\ left >= 0
      BY <3>1, RunnerIsLive DEF HeldInv, RunnersHold, Live
    <3>3. runFor'[r] = runFor[r] + 1
      BY <1>2, <3>1 DEF IdemTick
    <3>4. left \in Int /\ runFor[r] \in Int
      BY <1>0 DEF IdemTypeOK
    <3> QED
      BY <2>1, <3>2, <3>3, <3>4 DEF Less
  <2>4. ResultKept'
    BY <1>0, <2>1 DEF HeldInv, ResultKept, Less, IdemTypeOK
  <2> QED
    BY <1>0, <2>2, <2>3, <2>4 DEF HeldInv, RunnersHold
<1>3. ASSUME NEW r \in Requests, Execute(r) PROVE HeldInv'
  <2>1. CASE Lookup(r) \/ TurnedDown(r) \/ LookAgain(r)
    <3>1. ~Running(r)' /\ UNCHANGED <<entry, left, owed>>
      BY <2>1, <1>0, Waits
    <3>2. \A s \in Requests : Running(s)' => Running(s) /\ runFor'[s] = runFor[s]
      BY <1>0, <1>3, <3>1, OwnPhase DEF Running
    <3> QED
      BY <1>0, <3>1, <3>2 DEF HeldInv, OneAtATime, RunnersHold, ResultKept
  <2>2. CASE TryAcquire(r)
    <3>1. \A s \in Requests : ~Running(s)
      BY <2>2, RunnerIsLive DEF TryAcquire
    <3>2. /\ entry' = "locked" /\ left' = Ttl /\ owed' = owed
          /\ runFor'[r] = 0
          /\ \A s \in Requests : Running(s)' => s = r
      BY <1>0, <2>2, <3>1 DEF TryAcquire, Goes, Running, IdemTypeOK
    <3>3. owed < 0
      BY <1>0, <2>2 DEF TryAcquire, Live, HeldInv, ResultKept, IdemTypeOK
    <3> QED
      BY <1>0, <3>2, <3>3 DEF HeldInv, OneAtATime, RunnersHold, ResultKept, IdemTypeOK
  <2>3. CASE StoreResult(r) \/ Release(r)
    <3>1. Running(r) /\ ~Running(r)'
      BY <1>0, <2>3 DEF StoreResult, Release, Goes, Running, IdemTypeOK
    <3>2. \A s \in Requests : ~Running(s)'
      BY <1>0, <1>3, <3>1, OwnPhase DEF HeldInv, OneAtATime, Running
    <3>3. ResultKept'
      <4>1. CASE StoreResult(r)
        BY <4>1 DEF StoreResult, ResultKept
      <4>2. CASE Release(r)
        <5>1. owed' = owed /\ owed \in Int
          BY <4>2, <1>0 DEF Release, IdemTypeOK
        <5>2. entry = "locked"
          BY <3>1 DEF HeldInv, RunnersHold
        <5> QED
          BY <5>1, <5>2 DEF HeldInv, ResultKept
      <4> QED
        BY <2>3, <4>1, <4>2
    <3> QED
      BY <1>0, <3>2, <3>3 DEF HeldInv, OneAtATime, RunnersHold
  <2> QED
    BY <1>3, <2>1, <2>2, <2>3 DEF Execute
<1>4. CASE UNCHANGED idemVars
  BY <1>0, <1>4 DEF idemVars, HeldInv, OneAtATime, RunnersHold, ResultKept, Running
<1> QED
  BY <1>1, <1>2, <1>3, <1>4 DEF IdemNext

(* Duplicates never execute side by side when no execution outlasts the    *)
(* time to live of its lock.                                               *)
THEOREM ExecutedAlone ==
    ASSUME MaxRun <= Ttl
    PROVE  IdemSpec => []OneAtATime
<1>1. HeldInv => OneAtATime
  BY DEF HeldInv
<1>2. HeldInv /\ [IdemNext]_idemVars => HeldInv'
  BY HeldStep
<1> QED
  BY <1>1, <1>2, HeldInit, PTL DEF IdemSpec

(* Under the same condition a key is not executed again while its last     *)
(* result is to be remembered, whatever fails or expires in between.       *)
THEOREM ResultsAreKept ==
    ASSUME MaxRun <= Ttl
    PROVE  IdemSpec => NoReexecution
<1>1. HeldInv /\ [IdemNext]_idemVars =>
        \A r \in Requests : ~Running(r) /\ Running(r)' => owed < 0
  <2> SUFFICES ASSUME HeldInv, [IdemNext]_idemVars, NEW r \in Requests,
                      ~Running(r), Running(r)'
               PROVE  owed < 0
    OBVIOUS
  <2>1. IdemTypeOK
    BY DEF HeldInv
  <2>2. ~Live
    <3>1. phase' # phase
      BY DEF Running
    <3>2. PICK s \in Requests : Execute(s)
      BY <3>1 DEF IdemNext, Cleanup, IdemTick, idemVars
    <3>3. s = r
      BY <2>1, <3>2, OwnPhase DEF Running
    <3>4. TryAcquire(r)
      BY <2>1, <3>2, <3>3, Waits DEF Execute, StoreResult, Release
    <3> QED
      BY <3>4 DEF TryAcquire
  <2> QED
    BY <2>1, <2>2 DEF HeldInv, ResultKept, Live, IdemTypeOK
<1>2. HeldInv /\ [IdemNext]_idemVars => HeldInv'
  BY HeldStep
<1> QED
  BY <1>1, <1>2, HeldInit, PTL DEF IdemSpec, NoReexecution
=============================================================================
