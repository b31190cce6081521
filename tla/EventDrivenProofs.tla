------------------------- MODULE EventDrivenProofs -------------------------
(***************************************************************************)
(* Proofs about the composition: every variable of the seven parts stays   *)
(* in its range, and neither queue runs a handler twice without a race,    *)
(* for every value of the constants.                                       *)
(***************************************************************************)
EXTENDS MCEventDriven, RabbitProofs, ConsumerProofs, ServiceProofs, FiniteSetTheorems

(***************************************************************************)
(* SagaTransaction: a step is recorded once, and each rollback calls the   *)
(* compensation of a step at most once, misused or not.                    *)
(***************************************************************************)
Called(s) == {r \in spent : s \notin Ahead(r)}

SagaBounds ==
    /\ SagaRange
    /\ IsFiniteSet(Recorded) /\ Cardinality(Recorded) = Len(completedSteps)
    /\ late \subseteq Recorded
    /\ \A r \in Rollbacks : OnceEach(undoing[r])
    /\ \A s \in Steps : calls[s] <= Cardinality(Called(s))

LEMMA SetsOfRollbacks ==
    ASSUME NEW S \in SUBSET Rollbacks
    PROVE  /\ Cardinality(S) \in Nat /\ Cardinality(S) <= Cardinality(Rollbacks)
           /\ Cardinality(Rollbacks) \in Nat
           /\ \A T \in SUBSET S : Cardinality(T) <= Cardinality(S) /\ Cardinality(T) \in Nat
           /\ \A r \in S : Cardinality(S \ {r}) = Cardinality(S) - 1
<1>1. IsFiniteSet(S) /\ Cardinality(S) <= Cardinality(Rollbacks)
  BY SagaAssumption, FS_Subset
<1>2. Cardinality(S) \in Nat /\ Cardinality(Rollbacks) \in Nat
  BY <1>1, SagaAssumption, FS_CardinalityType
<1>3. \A T \in SUBSET S : Cardinality(T) <= Cardinality(S) /\ Cardinality(T) \in Nat
  BY <1>1, FS_Subset, FS_CardinalityType
<1>4. \A r \in S : Cardinality(S \ {r}) = Cardinality(S) - 1
  BY <1>1, FS_RemoveElement
<1> QED
  BY <1>1, <1>2, <1>3, <1>4

LEMMA BoundsType == SagaBounds => SagaTypeOK
<1> SUFFICES ASSUME SagaBounds PROVE SagaTypeOK
  OBVIOUS
<1>1. ASSUME NEW s \in Steps PROVE calls[s] \in 0..Cardinality(Rollbacks)
  <2>1. Called(s) \in SUBSET Rollbacks
    BY DEF Called, SagaBounds, SagaRange
  <2>2. /\ Cardinality(Called(s)) \in Nat /\ Cardinality(Called(s)) <= Cardinality(Rollbacks)
        /\ Cardinality(Rollbacks) \in Nat
    BY <2>1, SetsOfRollbacks
  <2>3. calls[s] \in Nat /\ calls[s] <= Cardinality(Called(s))
    BY DEF SagaBounds, SagaRange
  <2> QED
    BY <2>2, <2>3
<1>2. calls \in [Steps -> 0..Cardinality(Rollbacks)]
  BY <1>1 DEF SagaBounds, SagaRange
<1> QED
  BY <1>2 DEF SagaBounds, SagaRange, SagaTypeOK

\* A rollback calls a compensation that it has not called before.
LEMMA CompensateBounds ==
    ASSUME SagaBounds, NEW r \in Rollbacks, NEW seq \in Seq(Steps), OnceEach(seq),
           Compensate(r, seq), spent' = spent \cup {r},
           r \in spent => \A i \in 1..Len(seq) : seq[i] \in Ahead(r)
    PROVE  /\ \A q \in Rollbacks : OnceEach(undoing'[q])
           /\ \A s \in Steps : calls'[s] <= Cardinality(Called(s)')
<1>1. undoing'[r] = seq /\ \A q \in Rollbacks \ {r} : undoing'[q] = undoing[q]
  BY DEF Compensate, SagaBounds, SagaRange
<1>2. calls' = IF seq = <<>> THEN calls ELSE [calls EXCEPT ![Head(seq)] = @ + 1]
  BY DEF Compensate
<1>3. /\ spent \subseteq Rollbacks /\ calls \in [Steps -> Nat]
      /\ \A s \in Steps : calls[s] <= Cardinality(Called(s))
  BY DEF SagaBounds, SagaRange
<1>4. Ahead(r)' = {seq[i] : i \in 2..Len(seq)} /\ \A q \in Rollbacks \ {r} : Ahead(q)' = Ahead(q)
  BY <1>1 DEF Ahead
<1>5. ASSUME NEW s \in Steps
      PROVE  /\ Called(s) \subseteq Called(s)' /\ Called(s)' \subseteq Rollbacks
             /\ Cardinality(Called(s)) \in Nat /\ Cardinality(Called(s)') \in Nat
             /\ Cardinality(Called(s)) <= Cardinality(Called(s)')
  <2>1. Called(s) \subseteq Called(s)' /\ Called(s)' \subseteq Rollbacks
    BY <1>3, <1>4 DEF Called
  <2> QED
    BY <2>1, SetsOfRollbacks
<1>6. ASSUME NEW s \in Steps, seq # <<>>, s = Head(seq)
      PROVE  Cardinality(Called(s)') >= Cardinality(Called(s)) + 1
  <2>1. Len(seq) \in Nat \ {0} /\ s = seq[1]
    BY <1>6, EmptySeq, HeadTailProperties
  <2>2. s \notin Ahead(r)'
    BY <1>4, <2>1 DEF OnceEach
  <2>3. r \in Called(s)' /\ r \notin Called(s)
    BY <2>1, <2>2 DEF Called
  <2>4. Called(s) \subseteq Called(s)' \ {r} /\ Called(s)' \in SUBSET Rollbacks
    BY <1>5, <2>3
  <2>5. Cardinality(Called(s)' \ {r}) = Cardinality(Called(s)') - 1
    BY <2>3, <2>4, SetsOfRollbacks
  <2>6. Cardinality(Called(s)) <= Cardinality(Called(s)' \ {r})
        /\ Cardinality(Called(s)' \ {r}) \in Nat
    BY <2>4, SetsOfRollbacks
  <2> QED
    BY <1>5, <2>5, <2>6
<1>7. ASSUME NEW s \in Steps PROVE calls'[s] <= Cardinality(Called(s)')
  <2>1. CASE seq # <<>> /\ s = Head(seq)
    <3>1. calls'[s] = calls[s] + 1
      BY <1>2, <1>3, <2>1
    <3> QED
      BY <1>3, <1>5, <1>6, <2>1, <3>1
  <2>2. CASE ~(seq # <<>> /\ s = Head(seq))
    <3>1. calls'[s] = calls[s]
      BY <1>2, <1>3, <2>2
    <3> QED
      BY <1>3, <1>5, <3>1
  <2> QED
    BY <2>1, <2>2
<1> QED
  BY <1>1, <1>7 DEF SagaBounds

LEMMA SagaBoundsStep == SagaBounds /\ [SagaNext]_sagaVars => SagaBounds'
<1> SUFFICES ASSUME SagaBounds, [SagaNext]_sagaVars PROVE SagaBounds'
  OBVIOUS
<1>1. SagaRange /\ SagaRange'
  BY SagaRangeStep DEF SagaBounds
<1>2. ASSUME UNCHANGED <<undoing, spent, calls, completedSteps, late>> PROVE SagaBounds'
  <2>1. Recorded' = Recorded /\ \A s \in Steps : Called(s)' = Called(s)
    BY <1>2 DEF Recorded, Called, Ahead
  <2>2. \A r \in Rollbacks : OnceEach(undoing'[r])
    BY <1>2 DEF SagaBounds
  <2>3. \A s \in Steps : calls'[s] <= Cardinality(Called(s)')
    BY <1>2, <2>1 DEF SagaBounds
  <2> QED
    BY <1>1, <1>2, <2>1, <2>2, <2>3 DEF SagaBounds
<1>3. CASE Commit \/ UNCHANGED sagaVars
  BY <1>2, <1>3 DEF Commit, sagaVars
<1>4. ASSUME NEW s \in Steps, Step(s) \/ ActionRejects(s) PROVE SagaBounds'
  BY <1>2, <1>4 DEF Step, ActionRejects
<1>5. ASSUME NEW s \in Steps, ActionResolves(s) PROVE SagaBounds'
  <2>1. s \in acting /\ completedSteps' = Append(completedSteps, s) /\ late' \subseteq late \cup {s}
    BY <1>5 DEF ActionResolves
  <2>2. s \notin Recorded /\ Recorded' = Recorded \cup {s}
    BY <1>1, <1>5, <2>1, RecordedStep
  <2>3. Len(completedSteps') = Len(completedSteps) + 1
    BY <1>1, <2>1, SeqMonotonic, AppendProperties DEF SagaRange
  <2>4. IsFiniteSet(Recorded') /\ Cardinality(Recorded') = Cardinality(Recorded) + 1
    BY <2>2, FS_AddElement DEF SagaBounds
  <2>5. UNCHANGED <<undoing, spent, calls>>
    BY <1>5 DEF ActionResolves
  <2>6. /\ \A r \in Rollbacks : OnceEach(undoing'[r])
        /\ \A t \in Steps : calls'[t] <= Cardinality(Called(t)')
    BY <2>5 DEF SagaBounds, Called, Ahead
  <2> QED
    BY <1>1, <2>1, <2>2, <2>3, <2>4, <2>6 DEF SagaBounds
<1>6. ASSUME NEW r \in Rollbacks, NEW seq \in Seq(Steps), OnceEach(seq), Compensate(r, seq),
             spent' = spent \cup {r}, UNCHANGED <<completedSteps, late>>,
             r \in spent => \A i \in 1..Len(seq) : seq[i] \in Ahead(r)
      PROVE  SagaBounds'
  <2>1. /\ \A q \in Rollbacks : OnceEach(undoing'[q])
        /\ \A s \in Steps : calls'[s] <= Cardinality(Called(s)')
    BY <1>6, CompensateBounds
  <2>2. Recorded' = Recorded
    BY <1>6 DEF Recorded
  <2> QED
    BY <1>1, <1>6, <2>1, <2>2 DEF SagaBounds
<1>7. ASSUME NEW r \in Rollbacks, Rollback(r) PROVE SagaBounds'
  <2>1. completedSteps \in Seq(Steps) /\ OnceEach(completedSteps)
    BY <1>1, SeqMonotonic DEF SagaRange
  <2>2. Reverse(completedSteps) \in Seq(Steps) /\ OnceEach(Reverse(completedSteps))
    BY <2>1, ReverseOnce
  <2> QED
    BY <1>6, <1>7, <2>2 DEF Rollback
<1>8. ASSUME NEW r \in Rollbacks, CompensationSettles(r) PROVE SagaBounds'
  <2>1. /\ undoing[r] \in Seq(Steps) /\ undoing[r] # <<>> /\ OnceEach(undoing[r])
    BY <1>1, <1>8 DEF CompensationSettles, SagaBounds, SagaRange
  <2>2. /\ Tail(undoing[r]) \in Seq(Steps) /\ OnceEach(Tail(undoing[r]))
        /\ \A i \in 1..Len(Tail(undoing[r])) :
              i + 1 \in 1..Len(undoing[r]) /\ Tail(undoing[r])[i] = undoing[r][i + 1]
    BY <2>1, TailOnce, Zenon
  <2>3. \A i \in 1..Len(Tail(undoing[r])) : Tail(undoing[r])[i] \in Ahead(r)
    <3>1. \A i \in 1..Len(Tail(undoing[r])) : i + 1 \in 2..Len(undoing[r])
      BY <2>2
    <3> QED
      BY <2>2, <3>1 DEF Ahead
  <2>4. r \in spent
    BY <1>1, <1>8 DEF CompensationSettles, SagaRange
  <2>5. spent' = spent \cup {r} /\ UNCHANGED <<completedSteps, late>> /\ Compensate(r, Tail(undoing[r]))
    BY <1>8, <2>4 DEF CompensationSettles
  <2> QED
    BY <1>6, <2>2, <2>3, <2>5
<1>9. ASSUME NEW r \in Rollbacks, RollbackEnds(r) PROVE SagaBounds'
  BY <1>2, <1>9 DEF RollbackEnds
<1> QED
  BY <1>3, <1>4, <1>5, <1>7, <1>8, <1>9 DEF SagaNext

LEMMA SagaBoundsStart == SagaInit => SagaBounds
<1> SUFFICES ASSUME SagaInit PROVE SagaBounds
  OBVIOUS
<1>1. /\ Len(completedSteps) = 0 /\ completedSteps \in Seq(Steps \ (fresh \cup acting))
      /\ undoing \in [Rollbacks -> Seq(Steps)] /\ \A r \in Rollbacks : Len(undoing[r]) = 0
  BY EmptySeq DEF SagaInit
<1>2. OnceEach(completedSteps) /\ \A r \in Rollbacks : OnceEach(undoing[r])
  BY <1>1 DEF OnceEach
<1>3. Recorded = {} /\ late = {}
  BY <1>1 DEF Recorded, SagaInit
<1>4. calls \in [Steps -> Nat] /\ misused \in BOOLEAN
  BY DEF SagaInit
<1>5. SagaRange
  BY <1>1, <1>2, <1>4 DEF SagaInit, SagaRange
<1>6. ASSUME NEW s \in Steps PROVE calls[s] <= Cardinality(Called(s))
  <2>1. Called(s) = {} /\ calls[s] = 0
    BY DEF SagaInit, Called
  <2> QED
    BY <2>1, FS_EmptySet
<1> QED
  BY <1>1, <1>2, <1>3, <1>5, <1>6, FS_EmptySet DEF SagaBounds

(***************************************************************************)
(* The composition: each part keeps its invariant, and the others stand    *)
(* still.                                                                  *)
(***************************************************************************)
PartsInv ==
    /\ part \in Parts
    /\ RabbitInv /\ KafkaInv /\ SqsInv /\ SagaBounds /\ StoreInv /\ StreamInv /\ ReplyInv

LEMMA PartsStart == Init => PartsInv
<1> SUFFICES ASSUME Init PROVE PartsInv
  OBVIOUS
<1>1. StoreInv
  BY StoreAssumption DEF Init, StoreInit, StoreInv, StoreTypeOK, FoundByCorrelation, Absent
<1>2. ReplyInv
  BY DEF Init, ReplyInit, ReplyInv, ReplyTypeOK, WaitsWhereRepliesGo
<1>3. /\ part \in Parts
      /\ RabbitInit /\ KafkaInit /\ SqsInit /\ SagaInit /\ EsInit
  BY DEF Init
<1>4. RabbitInv /\ KafkaInv /\ SqsInv /\ SagaBounds /\ StreamInv
  BY <1>3, RabbitStarts, KafkaStarts, SqsStarts, SagaBoundsStart, StreamStart
<1> QED
  BY <1>1, <1>2, <1>3, <1>4 DEF PartsInv

\* A step of the composition is one of each part, or leaves it alone.
StepOfEach ==
    /\ [RabbitNext]_rabbitVars /\ [KafkaNext]_kafkaVars /\ [SqsNext]_sqsVars
    /\ [SagaNext]_sagaVars /\ [StoreNext]_storeVars /\ [EsNext]_esVars /\ [ReplyNext]_replyVars

LEMMA StepIsOfEach == [Next]_vars => part' = part /\ StepOfEach
<1>1. CASE Next
  BY <1>1, Zenon DEF Next, StepOfEach
<1>2. CASE UNCHANGED vars
  BY <1>2 DEF vars, StepOfEach
<1> QED
  BY <1>1, <1>2

LEMMA PartsStep == PartsInv /\ [Next]_vars => PartsInv'
<1> SUFFICES ASSUME PartsInv, [Next]_vars PROVE PartsInv'
  OBVIOUS
<1>1. part' = part /\ StepOfEach
  BY StepIsOfEach DEF PartsInv
<1>2. RabbitInv' /\ KafkaInv' /\ SqsInv'
  BY <1>1, RabbitStep, KafkaStep, SqsStep DEF PartsInv, StepOfEach
<1>3. SagaBounds' /\ StoreInv' /\ StreamInv' /\ ReplyInv'
  BY <1>1, SagaBoundsStep, StoreStep, StreamStep, ReplyStep DEF PartsInv, StepOfEach
<1> QED
  BY <1>1, <1>2, <1>3 DEF PartsInv

\* Every variable of the consumers, sagas, processes, streams and requests
\* stays in its range: no id list exceeds its limit, and a compensation is
\* called at most once in each rollback (runCompensations, lines 61-75).
THEOREM PartsTypeCorrect == Spec => []TypeOK
<1>1. PartsInv => TypeOK
  BY InvType, BoundsType DEF PartsInv, TypeOK, KafkaInv, SqsInv, StoreInv, StreamInv, ReplyInv
<1> QED
  BY <1>1, PartsStart, PartsStep, PTL DEF Spec

\* With either queue, a handler runs for an event whose id is remembered only
\* if the event was being handled in another delivery when it was called.
THEOREM PartsRunOnce == Spec => []SecondRun
<1>1. PartsInv => SecondRun
  BY DEF PartsInv, SecondRun, RabbitInv, SqsInv
<1> QED
  BY <1>1, PartsStart, PartsStep, PTL DEF Spec

\* The composition implements the specification of every part, with its
\* fairness.
THEOREM PartsAsSpecified ==
    Spec => /\ RabbitSpec /\ KafkaSpec /\ SqsSpec
            /\ SagaSpec /\ StoreSpec /\ EsSpec /\ ReplySpec
<1>1. Init => /\ RabbitInit /\ KafkaInit /\ SqsInit
              /\ SagaInit /\ StoreInit /\ EsInit /\ ReplyInit
  BY Zenon DEF Init
<1>2. [Next]_vars => /\ [RabbitNext]_rabbitVars /\ [KafkaNext]_kafkaVars /\ [SqsNext]_sqsVars
                     /\ [SagaNext]_sagaVars /\ [StoreNext]_storeVars /\ [EsNext]_esVars
                     /\ [ReplyNext]_replyVars
  BY StepIsOfEach DEF StepOfEach
<1> QED
  BY <1>1, <1>2, PTL
  DEF Spec, RabbitSpec, KafkaSpec, SqsSpec, SagaSpec, StoreSpec, EsSpec, ReplySpec

\* So each part keeps its promise in the composition that is model-checked.
\* With RabbitMQ (sendToDeadLetterQueue, lines 250-285) an event with which a
\* handler failed is kept only where somebody has bound a dead-letter queue,
\* and no event is promised anything with more than one channel; with Kafka
\* and SQS an event is lost only where KafkaPromise and SqsPromise say so.
\* Sagas compensate, processes and requests are found, and streams and
\* projections agree.
THEOREM PartsKeepPromises ==
    Spec => /\ RabbitKeepsEvents /\ KafkaKeepsEvents /\ SqsKeepsEvents
            /\ []CompensatedOnce /\ []FoundByCorrelation /\ []WaitsWhereRepliesGo
            /\ []StreamAgrees /\ []ViewIsReplay
            /\ [][AcknowledgedAction]_rabbitVars
BY PartsAsSpecified, RabbitImplements, RabbitAcknowledgesHandled, KafkaImplements, SqsImplements, SagaCompensates,
   ProcessFound, RequestReachable, StreamsAgree, ViewReplays, PTL
=============================================================================
