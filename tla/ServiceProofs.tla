--------------------------- MODULE ServiceProofs ---------------------------
(***************************************************************************)
(* Proofs about ProcessStore, RequestReply, SagaTransaction and            *)
(* EventSourcing, for any number of processes, requests, steps, rollbacks, *)
(* writers and events.                                                     *)
(***************************************************************************)
EXTENDS ProcessStore, RequestReply, SagaTransaction, EventSourcing, SequenceTheorems, TLAPS

(***************************************************************************)
(* ProcessStore: the property is inductive with the types.                 *)
(***************************************************************************)
StoreInv == StoreTypeOK /\ FoundByCorrelation

\* An id that another process holds is contested from the save on, and none
\* stops being so while it is held.
LEMMA StoreStep == StoreInv /\ [StoreNext]_storeVars => StoreInv'
<1> SUFFICES ASSUME StoreInv, [StoreNext]_storeVars PROVE StoreInv'
  OBVIOUS
<1> USE StoreAssumption DEF StoreInv, StoreTypeOK, FoundByCorrelation
<1>1. ASSUME NEW p \in Processes, NEW c \in Correlations \cup {Nothing}, SaveProcess(p, c)
      PROVE  StoreInv'
  <2>1. StoreTypeOK'
    BY <1>1 DEF SaveProcess, Contest
  <2>2. ASSUME NEW q \in Processes, byId'[q] \in Correlations \ contested'
        PROVE  byCorrelation'[byId'[q]] = q
    <3>1. CASE q = p
      BY <1>1, <2>2, <3>1 DEF SaveProcess
    <3>2. CASE q # p
      <4>1. byId'[q] = byId[q] /\ byId'[p] = c
        BY <1>1, <3>2 DEF SaveProcess
      <4>2. byId[q] # c /\ byId[q] \notin contested
        BY <1>1, <2>2, <3>2, <4>1 DEF SaveProcess, Contest
      <4> QED
        BY <1>1, <2>2, <4>1, <4>2 DEF SaveProcess
    <3> QED
      BY <3>1, <3>2
  <2> QED
    BY <2>1, <2>2
<1>2. ASSUME NEW p \in Processes, DeleteProcess(p) PROVE StoreInv'
  <2>1. StoreTypeOK'
    BY <1>2 DEF DeleteProcess, Contest
  <2>2. ASSUME NEW q \in Processes, byId'[q] \in Correlations \ contested'
        PROVE  byCorrelation'[byId'[q]] = q
    <3>1. q # p /\ byId'[q] = byId[q]
      BY <1>2, <2>2 DEF DeleteProcess
    <3> QED
      BY <1>2, <2>2, <3>1 DEF DeleteProcess, Contest
  <2> QED
    BY <2>1, <2>2
<1>3. CASE UNCHANGED storeVars
  BY <1>3 DEF storeVars
<1> QED
  BY <1>1, <1>2, <1>3 DEF StoreNext

\* A process is found under its correlation id unless the id was given to two
\* at a time (InMemoryProcessStore.ts:47), for any number of processes.
THEOREM ProcessFound == StoreSpec => []FoundByCorrelation
<1>1. StoreInit => StoreInv
  BY StoreAssumption DEF StoreInit, StoreInv, StoreTypeOK, FoundByCorrelation, Absent
<1>2. StoreInv => FoundByCorrelation
  BY DEF StoreInv
<1> QED
  BY <1>1, <1>2, StoreStep, PTL DEF StoreSpec

(***************************************************************************)
(* RequestReply: a timer that runs is that of a request that waits.        *)
(***************************************************************************)
ReplyInv ==
    /\ ReplyTypeOK
    /\ timers \subseteq waiting \ cancelled
    /\ WaitsWhereRepliesGo

\* Whoever takes an entry out finds its own request there, or an id that was
\* registered anew.
LEMMA ReplyStep == ReplyInv /\ [ReplyNext]_replyVars => ReplyInv'
<1> SUFFICES ASSUME ReplyInv, [ReplyNext]_replyVars PROVE ReplyInv'
  OBVIOUS
<1> USE RequestAssumption DEF ReplyInv, ReplyTypeOK, WaitsWhereRepliesGo
<1>1. ASSUME NEW r \in Requests, NEW i \in CorrIds, AwaitReply(r, i) PROVE ReplyInv'
  BY <1>1 DEF AwaitReply, Open
<1>2. ASSUME NEW r \in Requests, Timer(r) PROVE ReplyInv'
  BY <1>2 DEF Timer, Open
<1>3. ASSUME NEW i \in CorrIds, DeliverReply(i) PROVE ReplyInv'
  BY <1>3 DEF DeliverReply, Open
<1>4. ASSUME NEW I \in SUBSET CorrIds, Cancel(I) PROVE ReplyInv'
  BY <1>4 DEF Cancel, Open
<1>5. CASE UNCHANGED replyVars
  BY <1>5 DEF replyVars
<1> QED
  BY <1>1, <1>2, <1>3, <1>4, <1>5 DEF ReplyNext

\* A request that waits is registered under its id unless another registered
\* under it meanwhile (RequestReplyBroker.ts:25), for any number of requests.
THEOREM RequestReachable == ReplySpec => []WaitsWhereRepliesGo
<1>1. ReplyInit => ReplyInv
  BY DEF ReplyInit, ReplyInv, ReplyTypeOK, WaitsWhereRepliesGo
<1>2. ReplyInv => WaitsWhereRepliesGo
  BY DEF ReplyInv
<1> QED
  BY <1>1, <1>2, ReplyStep, PTL DEF ReplySpec

(***************************************************************************)
(* SagaTransaction: while neither commit nor rollback came twice, a step   *)
(* recorded before the rollback is compensated by now, or is still ahead   *)
(* of the rollback.                                                        *)
(***************************************************************************)
OnceEach(seq) == \A i, j \in 1..Len(seq) : seq[i] = seq[j] => i = j
Ahead(r)      == {undoing[r][i] : i \in 2..Len(undoing[r])}
CalledFor(S)  == \A s \in Steps : calls[s] = IF s \in S THEN 1 ELSE 0

SagaRange ==
    /\ status \in {"running", "committed", "compensating", "compensated"}
    /\ fresh \subseteq Steps /\ acting \subseteq Steps \ fresh
    /\ completedSteps \in Seq(Steps \ (fresh \cup acting)) /\ OnceEach(completedSteps)
    /\ undoing \in [Rollbacks -> Seq(Steps)]
    /\ rolling \subseteq spent /\ spent \subseteq Rollbacks
    /\ calls \in [Steps -> Nat]
    /\ misused \in BOOLEAN

SagaInv ==
    /\ SagaRange
    /\ ~misused =>
        /\ status \in {"running", "committed"} => spent = {} /\ late = {} /\ CalledFor({})
        /\ status = "compensated" => rolling = {} /\ spent # {} /\ CalledFor(Recorded \ late)
        /\ status = "compensating" =>
               \E r \in Rollbacks :
                   /\ rolling = {r} /\ OnceEach(undoing[r])
                   /\ \A i \in 1..Len(undoing[r]) : undoing[r][i] \in Recorded \ late
                   /\ CalledFor((Recorded \ late) \ Ahead(r))

\* Reverse keeps the elements and repeats none.
LEMMA ReverseOnce ==
    ASSUME NEW S, NEW seq \in Seq(S), OnceEach(seq)
    PROVE  /\ Reverse(seq) \in Seq(S) /\ OnceEach(Reverse(seq))
           /\ Len(Reverse(seq)) = Len(seq)
           /\ \A i \in 1..Len(seq) : Reverse(seq)[i] = seq[Len(seq) - i + 1]
           /\ {Reverse(seq)[i] : i \in 1..Len(seq)} = {seq[i] : i \in 1..Len(seq)}
<1>1. Reverse(seq) = [i \in 1..Len(seq) |-> seq[Len(seq) - i + 1]]
  BY DEF Reverse
<1>2. Reverse(seq) \in Seq(S) /\ Len(Reverse(seq)) = Len(seq)
  BY <1>1
<1>3. \A i \in 1..Len(seq) : Reverse(seq)[i] = seq[Len(seq) - i + 1]
  BY <1>1
<1>4. OnceEach(Reverse(seq))
  <2> SUFFICES ASSUME NEW i \in 1..Len(seq), NEW j \in 1..Len(seq), Reverse(seq)[i] = Reverse(seq)[j]
               PROVE  i = j
    BY <1>2 DEF OnceEach
  <2>1. Len(seq) - i + 1 \in 1..Len(seq) /\ Len(seq) - j + 1 \in 1..Len(seq)
    OBVIOUS
  <2> QED
    BY <1>3, <2>1 DEF OnceEach
<1>5. \A i \in 1..Len(seq) : \E j \in 1..Len(seq) : seq[i] = Reverse(seq)[j]
  <2> SUFFICES ASSUME NEW i \in 1..Len(seq) PROVE \E j \in 1..Len(seq) : seq[i] = Reverse(seq)[j]
    OBVIOUS
  <2>1. Len(seq) - i + 1 \in 1..Len(seq) /\ Len(seq) - (Len(seq) - i + 1) + 1 = i
    OBVIOUS
  <2> QED
    BY <1>3, <2>1
<1>6. \A i \in 1..Len(seq) : \E j \in 1..Len(seq) : Reverse(seq)[i] = seq[j]
  BY <1>3
<1>7. {Reverse(seq)[i] : i \in 1..Len(seq)} = {seq[i] : i \in 1..Len(seq)}
  <2> SUFFICES ASSUME NEW x
               PROVE  (\E i \in 1..Len(seq) : x = Reverse(seq)[i]) <=> (\E i \in 1..Len(seq) : x = seq[i])
    OBVIOUS
  <2> QED
    BY <1>5, <1>6, Zenon
<1> QED
  BY <1>2, <1>3, <1>4, <1>7

\* What is left after the first is injective too, and the first of it was next.
LEMMA TailOnce ==
    ASSUME NEW S, NEW seq \in Seq(S), seq # <<>>, OnceEach(seq)
    PROVE  /\ Tail(seq) \in Seq(S) /\ OnceEach(Tail(seq))
           /\ Len(Tail(seq)) = Len(seq) - 1
           /\ \A i \in 1..Len(Tail(seq)) : i + 1 \in 1..Len(seq) /\ Tail(seq)[i] = seq[i + 1]
           /\ {seq[i] : i \in 2..Len(seq)} =
                  {Tail(seq)[i] : i \in 2..Len(Tail(seq))}
                      \cup (IF Tail(seq) = <<>> THEN {} ELSE {Head(Tail(seq))})
           /\ Tail(seq) # <<>> => Head(Tail(seq)) \notin {Tail(seq)[i] : i \in 2..Len(Tail(seq))}
<1> DEFINE t == Tail(seq)
<1>1. t \in Seq(S) /\ Len(t) = Len(seq) - 1 /\ Len(seq) \in Nat
  BY HeadTailProperties
<1>2. \A i \in 1..Len(t) : i + 1 \in 1..Len(seq) /\ t[i] = seq[i + 1]
  BY <1>1
<1>3. OnceEach(t)
  <2> SUFFICES ASSUME NEW i \in 1..Len(t), NEW j \in 1..Len(t), t[i] = t[j] PROVE i = j
    BY DEF OnceEach
  <2> QED
    BY <1>1, <1>2 DEF OnceEach
<1>4. t # <<>> => Head(t) = t[1] /\ 1 \in 1..Len(t)
  BY <1>1
<1>5. t = <<>> => Len(t) = 0
  BY EmptySeq
<1>6. \A i \in 2..Len(seq) : (i = 2 /\ t # <<>> /\ seq[i] = t[1]) \/ (i - 1 \in 2..Len(t) /\ seq[i] = t[i - 1])
  <2> SUFFICES ASSUME NEW i \in 2..Len(seq)
               PROVE  (i = 2 /\ t # <<>> /\ seq[i] = t[1]) \/ (i - 1 \in 2..Len(t) /\ seq[i] = t[i - 1])
    OBVIOUS
  <2>1. i - 1 \in 1..Len(t) /\ seq[i] = t[i - 1]
    BY <1>1, <1>2
  <2> QED
    BY <1>1, <1>5, <2>1
<1>7. \A i \in 2..Len(t) : i + 1 \in 2..Len(seq) /\ t[i] = seq[i + 1] /\ t[i] # t[1]
  BY <1>1, <1>2, <1>3 DEF OnceEach
<1>8. t # <<>> => 2 \in 2..Len(seq) /\ t[1] = seq[2]
  BY <1>1, <1>2, <1>4
<1>9. {seq[i] : i \in 2..Len(seq)} = {t[i] : i \in 2..Len(t)} \cup (IF t = <<>> THEN {} ELSE {Head(t)})
  BY <1>4, <1>6, <1>7, <1>8
<1>10. t # <<>> => Head(t) \notin {t[i] : i \in 2..Len(t)}
  BY <1>4, <1>7
<1> QED
  BY <1>1, <1>2, <1>3, <1>9, <1>10

\* Recording a step adds it to what was recorded.
LEMMA RecordedStep ==
    ASSUME SagaRange, NEW s \in acting, ActionResolves(s)
    PROVE  /\ completedSteps' \in Seq(Steps \ (fresh' \cup acting')) /\ OnceEach(completedSteps')
           /\ s \notin Recorded /\ Recorded' = Recorded \cup {s}
<1> DEFINE T == Steps \ (fresh \cup acting)
           U == Steps \ (fresh \cup (acting \ {s}))
<1>1. T \subseteq U /\ s \in U
  BY DEF SagaRange
<1>2. completedSteps \in Seq(U) /\ Len(completedSteps) \in Nat
  BY <1>1, SeqMonotonic, LenProperties DEF SagaRange
<1>3. completedSteps' = Append(completedSteps, s) /\ acting' = acting \ {s} /\ fresh' = fresh
  BY DEF ActionResolves
<1> HIDE DEF U
<1>4. /\ completedSteps' \in Seq(U) /\ Len(completedSteps') = Len(completedSteps) + 1
      /\ \A i \in 1..Len(completedSteps) : completedSteps'[i] = completedSteps[i]
      /\ completedSteps'[Len(completedSteps) + 1] = s
  BY <1>1, <1>2, <1>3, AppendProperties
<1>5. \A i \in 1..Len(completedSteps) : completedSteps[i] # s
  BY DEF SagaRange
<1>6. OnceEach(completedSteps')
  <2>1. \A i, j \in 1..Len(completedSteps) : completedSteps[i] = completedSteps[j] => i = j
    BY DEF OnceEach, SagaRange
  <2> SUFFICES ASSUME NEW i \in 1..Len(completedSteps) + 1, NEW j \in 1..Len(completedSteps) + 1,
                      completedSteps'[i] = completedSteps'[j]
               PROVE  i = j
    BY <1>4 DEF OnceEach
  <2>2. \A k \in 1..Len(completedSteps) + 1 :
           k \in 1..Len(completedSteps) \/ k = Len(completedSteps) + 1
    BY <1>2
  <2> QED
    BY <1>4, <1>5, <2>1, <2>2
<1>7. s \notin Recorded
  BY <1>5 DEF Recorded
<1>8. Recorded' = Recorded \cup {s}
  <2> SUFFICES ASSUME NEW x
               PROVE  (\E i \in 1..Len(completedSteps') : x = completedSteps'[i])
                          <=> (\E i \in 1..Len(completedSteps) : x = completedSteps[i]) \/ x = s
    BY DEF Recorded
  <2> QED
    BY <1>2, <1>4
<1> QED
  BY <1>3, <1>4, <1>6, <1>7, <1>8 DEF U

\* A compensation is called for a step of the sequence, if there is one.
LEMMA CompensateRange ==
    ASSUME SagaRange, NEW r \in Rollbacks, NEW seq \in Seq(Steps), Compensate(r, seq)
    PROVE  undoing' \in [Rollbacks -> Seq(Steps)] /\ calls' \in [Steps -> Nat]
<1>1. CASE seq = <<>>
  BY <1>1 DEF SagaRange, Compensate
<1>2. CASE seq # <<>>
  <2>1. Head(seq) \in Steps
    BY <1>2, HeadTailProperties
  <2> QED
    BY <1>2, <2>1 DEF SagaRange, Compensate
<1> QED
  BY <1>1, <1>2

\* Every step keeps the ranges.
LEMMA SagaRangeStep == SagaRange /\ [SagaNext]_sagaVars => SagaRange'
<1> SUFFICES ASSUME SagaRange, [SagaNext]_sagaVars PROVE SagaRange'
  OBVIOUS
<1>1. CASE Commit
  <2>1. misused' \in BOOLEAN
    BY <1>1, Zenon DEF Commit
  <2> QED
    BY <1>1, <2>1 DEF Commit, SagaRange, OnceEach
<1>2. ASSUME NEW s \in Steps, Step(s) PROVE SagaRange'
  <2>1. fresh' \cup acting' = fresh \cup acting /\ fresh' \subseteq Steps /\ acting' \subseteq Steps \ fresh'
    BY <1>2 DEF Step, SagaRange
  <2> QED
    BY <1>2, <2>1 DEF Step, SagaRange, OnceEach
<1>3. ASSUME NEW s \in Steps, ActionResolves(s) PROVE SagaRange'
  <2>1. s \in acting
    BY <1>3 DEF ActionResolves
  <2> QED
    BY <1>3, <2>1, RecordedStep DEF ActionResolves, SagaRange
<1>4. ASSUME NEW s \in Steps, ActionRejects(s) PROVE SagaRange'
  <2>1. completedSteps \in Seq(Steps \ (fresh \cup (acting \ {s})))
    BY SeqMonotonic DEF SagaRange
  <2> QED
    BY <1>4, <2>1 DEF ActionRejects, SagaRange, OnceEach
<1>5. ASSUME NEW r \in Rollbacks, Rollback(r) PROVE SagaRange'
  <2>1. misused' \in BOOLEAN
    BY <1>5, Zenon DEF Rollback
  <2>2. completedSteps \in Seq(Steps)
    BY SeqMonotonic DEF SagaRange
  <2>3. Reverse(completedSteps) \in Seq(Steps)
    BY <2>2, ReverseOnce DEF SagaRange
  <2>4. undoing' \in [Rollbacks -> Seq(Steps)] /\ calls' \in [Steps -> Nat]
    BY <1>5, <2>3, CompensateRange DEF Rollback
  <2> QED
    BY <1>5, <2>1, <2>4 DEF Rollback, SagaRange, OnceEach
<1>6. ASSUME NEW r \in Rollbacks, CompensationSettles(r) PROVE SagaRange'
  <2>1. Tail(undoing[r]) \in Seq(Steps)
    BY <1>6, HeadTailProperties DEF CompensationSettles, SagaRange
  <2>2. undoing' \in [Rollbacks -> Seq(Steps)] /\ calls' \in [Steps -> Nat]
    BY <1>6, <2>1, CompensateRange DEF CompensationSettles
  <2> QED
    BY <1>6, <2>2 DEF CompensationSettles, SagaRange, OnceEach
<1>7. ASSUME NEW r \in Rollbacks, RollbackEnds(r) PROVE SagaRange'
  BY <1>7 DEF RollbackEnds, SagaRange, OnceEach
<1>8. CASE UNCHANGED sagaVars
  BY <1>8 DEF sagaVars, SagaRange, OnceEach
<1> QED
  BY <1>1, <1>2, <1>3, <1>4, <1>5, <1>6, <1>7, <1>8 DEF SagaNext

\* The first rollback starts with the compensation of the last step recorded.
LEMMA RollbackStep ==
    ASSUME SagaRange, late = {}, CalledFor({}), NEW r \in Rollbacks, Rollback(r)
    PROVE  /\ OnceEach(undoing'[r])
           /\ \A i \in 1..Len(undoing'[r]) : undoing'[r][i] \in Recorded
           /\ CalledFor(Recorded \ Ahead(r))'
<1> DEFINE seq == Reverse(completedSteps)
<1>1. completedSteps \in Seq(Steps)
  BY SeqMonotonic DEF SagaRange
<1>2. /\ seq \in Seq(Steps) /\ OnceEach(seq) /\ Len(seq) = Len(completedSteps)
      /\ {seq[i] : i \in 1..Len(completedSteps)} = Recorded
  <2>1. OnceEach(completedSteps)
    BY DEF SagaRange
  <2>2. /\ seq \in Seq(Steps) /\ OnceEach(seq) /\ Len(seq) = Len(completedSteps)
        /\ {seq[i] : i \in 1..Len(completedSteps)} = {completedSteps[i] : i \in 1..Len(completedSteps)}
    BY <1>1, <2>1, ReverseOnce
  <2> QED
    BY <2>2 DEF Recorded
<1>3. undoing'[r] = seq /\ Recorded' = Recorded
  BY <1>2 DEF Rollback, Compensate, SagaRange, Recorded
<1>4. calls' = IF seq = <<>> THEN calls ELSE [calls EXCEPT ![Head(seq)] = @ + 1]
  BY DEF Rollback, Compensate
<1> HIDE DEF seq
<1>5. \A i \in 1..Len(seq) : seq[i] \in Recorded
  BY <1>2
<1>6. ASSUME NEW s \in Steps PROVE calls'[s] = IF s \in Recorded \ Ahead(r)' THEN 1 ELSE 0
  <2>1. calls[s] = 0 /\ calls \in [Steps -> Nat]
    BY DEF CalledFor, SagaRange
  <2>2. CASE seq = <<>>
    BY <1>2, <1>4, <2>1, <2>2
  <2>3. CASE seq # <<>>
    <3>1. Len(seq) \in Nat \ {0} /\ Head(seq) = seq[1] /\ seq[1] \in Steps
      BY <1>2, <2>3, EmptySeq, HeadTailProperties
    <3>2. calls'[s] = IF s = seq[1] THEN 1 ELSE 0
      BY <1>4, <2>1, <2>3, <3>1
    <3>3. seq[1] \in Recorded /\ \A i \in 2..Len(seq) : seq[i] # seq[1]
      BY <1>2, <1>5, <3>1 DEF OnceEach
    <3>4. s \in Recorded => s = seq[1] \/ \E i \in 2..Len(seq) : s = seq[i]
      BY <1>2, <3>1
    <3>5. s \in Ahead(r)' <=> \E i \in 2..Len(seq) : s = seq[i]
      BY <1>3 DEF Ahead
    <3> QED
      BY <3>2, <3>3, <3>4, <3>5
  <2> QED
    BY <2>2, <2>3
<1> QED
  BY <1>2, <1>3, <1>5, <1>6 DEF CalledFor, Rollback

\* The rollback goes on to the next step, which leaves those ahead.
LEMMA SettlesStep ==
    ASSUME SagaRange, NEW r \in Rollbacks, CompensationSettles(r), NEW R,
           OnceEach(undoing[r]), \A i \in 1..Len(undoing[r]) : undoing[r][i] \in R,
           CalledFor(R \ Ahead(r))
    PROVE  /\ OnceEach(undoing'[r])
           /\ \A i \in 1..Len(undoing'[r]) : undoing'[r][i] \in R
           /\ \A s \in Steps : calls'[s] = IF s \in R \ Ahead(r)' THEN 1 ELSE 0
<1> DEFINE seq == undoing[r]
           t   == Tail(seq)
<1>1. seq \in Seq(Steps) /\ seq # <<>> /\ OnceEach(seq) /\ calls \in [Steps -> Nat]
  BY DEF SagaRange, CompensationSettles
<1>2. /\ t \in Seq(Steps) /\ OnceEach(t)
      /\ \A i \in 1..Len(t) : i + 1 \in 1..Len(seq) /\ t[i] = seq[i + 1]
      /\ {seq[i] : i \in 2..Len(seq)} = {t[i] : i \in 2..Len(t)} \cup (IF t = <<>> THEN {} ELSE {Head(t)})
      /\ t # <<>> => Head(t) \notin {t[i] : i \in 2..Len(t)}
  <2> HIDE DEF seq
  <2>1. /\ Tail(seq) \in Seq(Steps) /\ OnceEach(Tail(seq))
        /\ \A i \in 1..Len(Tail(seq)) : i + 1 \in 1..Len(seq) /\ Tail(seq)[i] = seq[i + 1]
        /\ {seq[i] : i \in 2..Len(seq)} =
               {Tail(seq)[i] : i \in 2..Len(Tail(seq))}
                   \cup (IF Tail(seq) = <<>> THEN {} ELSE {Head(Tail(seq))})
        /\ Tail(seq) # <<>> => Head(Tail(seq)) \notin {Tail(seq)[i] : i \in 2..Len(Tail(seq))}
    BY <1>1, TailOnce, Zenon
  <2> QED
    BY <2>1, Zenon
<1>3. undoing'[r] = t
  BY DEF CompensationSettles, Compensate, SagaRange
<1>4. calls' = IF t = <<>> THEN calls ELSE [calls EXCEPT ![Head(t)] = @ + 1]
  BY DEF CompensationSettles, Compensate
<1>5. Ahead(r) = Ahead(r)' \cup (IF t = <<>> THEN {} ELSE {Head(t)})
  BY <1>2, <1>3 DEF Ahead
<1>6. t # <<>> => Head(t) \notin Ahead(r)'
  BY <1>2, <1>3 DEF Ahead
<1>7. t # <<>> => Head(t) \in R /\ Head(t) \in Steps
  <2> SUFFICES ASSUME t # <<>> PROVE Head(t) \in R /\ Head(t) \in Steps
    OBVIOUS
  <2>1. Len(t) \in Nat \ {0} /\ Head(t) = t[1] /\ Head(t) \in Steps
    BY <1>2, EmptySeq, HeadTailProperties
  <2> QED
    BY <1>2, <2>1
<1> HIDE DEF t
<1>8. ASSUME NEW s \in Steps PROVE calls'[s] = IF s \in R \ Ahead(r)' THEN 1 ELSE 0
  <2>1. calls[s] = IF s \in R \ Ahead(r) THEN 1 ELSE 0
    BY DEF CalledFor
  <2> QED
    BY <1>1, <1>4, <1>5, <1>6, <1>7, <2>1
<1> QED
  BY <1>2, <1>3, <1>8

\* Every step keeps what the rollback relies on.
LEMMA SagaStep == SagaInv /\ [SagaNext]_sagaVars => SagaInv'
<1> SUFFICES ASSUME SagaInv, [SagaNext]_sagaVars PROVE SagaInv'
  OBVIOUS
<1>0. SagaRange /\ SagaRange'
  BY SagaRangeStep DEF SagaInv
<1> SUFFICES ASSUME ~misused' PROVE
        /\ status' \in {"running", "committed"} => spent' = {} /\ late' = {} /\ CalledFor({})'
        /\ status' = "compensated" => rolling' = {} /\ spent' # {} /\ CalledFor(Recorded \ late)'
        /\ status' = "compensating" =>
               \E r \in Rollbacks :
                   /\ rolling' = {r} /\ OnceEach(undoing'[r])
                   /\ \A i \in 1..Len(undoing'[r]) : undoing'[r][i] \in Recorded' \ late'
                   /\ CalledFor((Recorded \ late) \ Ahead(r))'
  BY <1>0, Zenon DEF SagaInv
<1>1. CASE Commit
  <2>1. ~misused /\ status = "running"
    BY <1>1, Zenon DEF Commit
  <2> QED
    BY <1>1, <2>1 DEF Commit, SagaInv, CalledFor
<1>2. ASSUME NEW s \in Steps, Step(s) \/ ActionRejects(s) PROVE SagaInv'
  <2>1. UNCHANGED <<status, completedSteps, undoing, rolling, spent, calls, late, misused>>
    BY <1>2 DEF Step, ActionRejects
  <2> QED
    BY <1>0, <2>1 DEF SagaInv, CalledFor, Recorded, Ahead, OnceEach
<1>3. ASSUME NEW s \in Steps, ActionResolves(s) PROVE SagaInv'
  <2>1. UNCHANGED <<status, undoing, rolling, spent, calls, misused>> /\ s \in acting
    BY <1>3 DEF ActionResolves
  <2>2. s \notin Recorded /\ Recorded' = Recorded \cup {s}
    BY <1>0, <1>3, <2>1, RecordedStep
  <2>3. spent # {} => Recorded' \ late' = (Recorded \ late)
    BY <1>3, <2>2 DEF ActionResolves
  <2>4. CASE status \in {"running", "committed"}
    BY <1>0, <1>3, <2>1, <2>4 DEF SagaInv, CalledFor, ActionResolves
  <2>5. CASE status = "compensated"
    BY <1>0, <2>1, <2>3, <2>5 DEF SagaInv, CalledFor
  <2>6. CASE status = "compensating"
    <3>1. PICK r \in Rollbacks :
              /\ rolling = {r} /\ OnceEach(undoing[r])
              /\ \A i \in 1..Len(undoing[r]) : undoing[r][i] \in Recorded \ late
              /\ CalledFor((Recorded \ late) \ Ahead(r))
      BY <2>1, <2>6 DEF SagaInv
    <3>2. Recorded' \ late' = Recorded \ late
      BY <1>0, <2>3, <3>1 DEF SagaRange
    <3>3. Ahead(r)' = Ahead(r)
      BY <2>1 DEF Ahead
    <3>4. CalledFor((Recorded \ late) \ Ahead(r))'
      BY <2>1, <3>1, <3>2, <3>3 DEF CalledFor
    <3> QED
      BY <1>0, <2>1, <2>6, <3>1, <3>2, <3>4 DEF SagaInv
  <2> QED
    BY <1>0, <2>4, <2>5, <2>6 DEF SagaRange
<1>4. ASSUME NEW r \in Rollbacks, Rollback(r) PROVE SagaInv'
  <2>1. ~misused /\ status = "running"
    BY <1>4, Zenon DEF Rollback
  <2>2. late = {} /\ spent = {} /\ CalledFor({})
    BY <2>1 DEF SagaInv
  <2>3. UNCHANGED <<completedSteps, late>> /\ rolling' = {r} /\ status' = "compensating"
    BY <1>0, <1>4, <2>2 DEF Rollback, SagaRange
  <2> QED
    BY <1>0, <1>4, <2>2, <2>3, RollbackStep DEF SagaInv, CalledFor, Recorded
<1>5. ASSUME NEW r \in Rollbacks, CompensationSettles(r) PROVE SagaInv'
  <2>1. ~misused /\ r \in rolling /\ UNCHANGED <<status, completedSteps, late, rolling, spent, misused>>
    BY <1>5 DEF CompensationSettles
  <2>2. status = "compensating" /\ rolling = {r}
    BY <1>0, <2>1 DEF SagaInv, SagaRange
  <2>3. /\ OnceEach(undoing[r])
        /\ \A i \in 1..Len(undoing[r]) : undoing[r][i] \in Recorded \ late
        /\ CalledFor((Recorded \ late) \ Ahead(r))
    BY <2>1, <2>2 DEF SagaInv
  <2>4. /\ OnceEach(undoing'[r])
        /\ \A i \in 1..Len(undoing'[r]) : undoing'[r][i] \in Recorded \ late
        /\ \A s \in Steps : calls'[s] = IF s \in (Recorded \ late) \ Ahead(r)' THEN 1 ELSE 0
    BY <1>0, <1>5, <2>3, SettlesStep
  <2>5. Recorded' = Recorded
    BY <2>1 DEF Recorded
  <2>6. CalledFor((Recorded \ late) \ Ahead(r))'
    BY <2>1, <2>4, <2>5 DEF CalledFor
  <2> QED
    BY <1>0, <2>1, <2>2, <2>4, <2>5, <2>6 DEF SagaInv
<1>6. ASSUME NEW r \in Rollbacks, RollbackEnds(r) PROVE SagaInv'
  <2>1. ~misused /\ r \in rolling /\ undoing[r] = <<>>
        /\ UNCHANGED <<completedSteps, late, spent, calls, misused>>
    BY <1>6 DEF RollbackEnds
  <2>2. status = "compensating" /\ rolling = {r} /\ CalledFor((Recorded \ late) \ Ahead(r))
    BY <1>0, <2>1 DEF SagaInv, SagaRange
  <2>3. Ahead(r) = {} /\ Recorded' = Recorded
    BY <2>1 DEF Ahead, Recorded
  <2>4. CalledFor(Recorded \ late)'
    BY <2>1, <2>2, <2>3 DEF CalledFor
  <2> QED
    BY <1>0, <1>6, <2>1, <2>2, <2>4 DEF SagaInv, RollbackEnds, SagaRange
<1>7. CASE UNCHANGED sagaVars
  BY <1>0, <1>7 DEF sagaVars, SagaInv, CalledFor, Recorded, Ahead, OnceEach
<1> QED
  BY <1>1, <1>2, <1>3, <1>4, <1>5, <1>6, <1>7 DEF SagaNext, SagaInv

\* A saga whose rollback has ended has called the compensation of every step
\* recorded before it once (SagaTransaction.ts:61-75), for any number of steps.
THEOREM SagaCompensates == SagaSpec => []CompensatedOnce
<1>1. SagaInit => SagaInv
  <2> SUFFICES ASSUME SagaInit PROVE SagaInv
    OBVIOUS
  <2>1. Len(completedSteps) = 0 /\ completedSteps \in Seq(Steps \ (fresh \cup acting))
    BY EmptySeq DEF SagaInit
  <2>2. SagaRange
    <3>1. OnceEach(completedSteps)
      BY <2>1 DEF OnceEach
    <3>2. undoing \in [Rollbacks -> Seq(Steps)] /\ calls \in [Steps -> Nat]
      BY EmptySeq DEF SagaInit
    <3>3. misused \in BOOLEAN
      BY DEF SagaInit
    <3> QED
      BY <2>1, <3>1, <3>2, <3>3 DEF SagaInit, SagaRange
  <2> QED
    BY <2>2 DEF SagaInit, SagaInv, CalledFor
<1>2. SagaInv => CompensatedOnce
  BY SeqMonotonic DEF SagaInv, SagaRange, CalledFor, CompensatedOnce, Recorded
<1> QED
  BY <1>1, <1>2, SagaStep, PTL DEF SagaSpec

(***************************************************************************)
(* EventSourcing: no event is stored twice, and who has saved agrees with  *)
(* the stream.                                                             *)
(***************************************************************************)
RaisedEvents == 1..EventBound

\* What a writer raised has not happened to anyone else, and is not stored
\* while the stream is as long as the writer takes it to be.
StreamInv ==
    /\ EsTypeOK
    /\ \A w \in Writers : uncommitted[w] <= raised
    /\ \A j \in 1..Len(stream) : stream[j] <= raised
    /\ \A w \in Writers : \A i \in 1..Len(history[w]) : history[w][i] <= raised
    /\ \A j, k \in 1..Len(stream) : stream[j] = stream[k] => j = k
    /\ \A w \in Writers : \A i, j \in Stored(w) + 1..Len(history[w]) :
           history[w][i] = history[w][j] => i = j
    /\ \A v, w \in Writers : v # w =>
           \A i \in Stored(v) + 1..Len(history[v]), j \in Stored(w) + 1..Len(history[w]) :
               history[v][i] # history[w][j]
    /\ \A w \in Writers : Len(stream) <= Stored(w) =>
           \A i \in Stored(w) + 1..Len(history[w]), j \in 1..Len(stream) : history[w][i] # stream[j]
    /\ \A w \in Writers \ overlapped :
           LET known == IF w \in saving THEN Len(history[w]) ELSE Stored(w) IN
           known <= Len(stream) /\ \A i \in 1..known : history[w][i] = stream[i]

\* The number of events stored.
LEMMA StoredType ==
    ASSUME EsTypeOK, NEW w \in Writers
    PROVE  /\ Len(history[w]) \in Nat /\ uncommitted[w] \in Nat /\ Len(stream) \in Nat
           /\ Stored(w) \in 0..Len(history[w]) /\ Stored(w) + uncommitted[w] = Len(history[w])
BY DEF EsTypeOK, Stored

\* A stored stream goes on as the history of its writer does.
LEMMA AppendAligns ==
    ASSUME EsTypeOK, NEW w \in Writers, Len(stream) = Stored(w), StoreAndTell(w)
    PROVE  /\ stream' \in Seq(RaisedEvents) /\ Len(stream') = Len(history[w])
           /\ \A i \in 1..Len(stream) : stream'[i] = stream[i]
           /\ \A i \in Len(stream) + 1..Len(history[w]) : stream'[i] = history[w][i]
<1> DEFINE m   == Stored(w) + 1
           n   == Len(history[w])
           new == SubSeq(history[w], m, n)
<1>1. n \in Nat /\ m \in 1..n + 1 /\ Len(stream) = m - 1
  BY StoredType
<1>2. stream \in Seq(RaisedEvents) /\ history[w] \in Seq(RaisedEvents)
  BY DEF EsTypeOK, RaisedEvents
<1>3. \A i \in m..n : history[w][i] \in RaisedEvents
  BY <1>1, <1>2, ElementOfSeq
<1> HIDE DEF m, n
<1>4. /\ new \in Seq(RaisedEvents) /\ Len(new) = n - m + 1
      /\ \A i \in 1..n - m + 1 : new[i] = history[w][m + i - 1]
  BY <1>1, <1>3, SubSeqProperties
<1>5. stream' = stream \o new
  BY DEF StoreAndTell, m, n
<1> HIDE DEF new
<1>6. /\ stream' \in Seq(RaisedEvents) /\ Len(stream') = n
      /\ \A i \in 1..n : stream'[i] = IF i <= Len(stream) THEN stream[i] ELSE new[i - Len(stream)]
  BY <1>1, <1>2, <1>4, <1>5, ConcatProperties
<1>7. ASSUME NEW i \in Len(stream) + 1..n PROVE stream'[i] = history[w][i]
  <2>1. i - Len(stream) \in 1..n - m + 1 /\ m + (i - Len(stream)) - 1 = i
    BY <1>1
  <2>2. stream'[i] = new[i - Len(stream)]
    BY <1>1, <1>6
  <2>3. new[i - Len(stream)] = history[w][m + (i - Len(stream)) - 1]
    BY <1>4, <2>1
  <2> QED
    BY <2>1, <2>2, <2>3
<1> QED
  BY <1>1, <1>6, <1>7 DEF n

\* What the projection was given stays a sequence of events.
LEMMA TellRange ==
    ASSUME EsTypeOK, NEW w \in Writers, StoreAndTell(w)
    PROVE  view' \in Seq(RaisedEvents) /\ mixed' \in BOOLEAN
<1> DEFINE new == SubSeq(history[w], Stored(w) + 1, Len(history[w]))
<1>1. history[w] \in Seq(RaisedEvents) /\ view \in Seq(RaisedEvents)
  BY DEF EsTypeOK, RaisedEvents
<1>2. new \in Seq(RaisedEvents)
  <2>1. \A i \in Stored(w) + 1..Len(history[w]) : history[w][i] \in RaisedEvents
    BY <1>1, StoredType, ElementOfSeq
  <2> QED
    BY <2>1, StoredType, SubSeqProperties
<1> HIDE DEF new
<1>3. PICK k \in 0..Len(new) : view' = view \o SubSeq(new, 1, k)
  BY DEF StoreAndTell, new
<1>4. \A i \in 1..k : new[i] \in RaisedEvents
  BY <1>2, ElementOfSeq
<1>5. SubSeq(new, 1, k) \in Seq(RaisedEvents)
  BY <1>2, <1>4, SubSeqProperties
<1>6. view' \in Seq(RaisedEvents)
  BY <1>1, <1>3, <1>5, ConcatProperties
<1>7. mixed' \in BOOLEAN
  BY Zenon DEF StoreAndTell
<1> QED
  BY <1>6, <1>7

\* load, raise and markCommitted leave the stream alone.
LEMMA AggregateTypes ==
    ASSUME EsTypeOK, NEW w \in Writers, Load(w) \/ Raise(w) \/ MarkCommitted(w),
           uncommitted[w] <= raised
    PROVE  EsTypeOK'
<1> USE DEF EsTypeOK
<1>1. CASE Load(w)
  <2>1. history' \in [Writers -> Seq(1..EventBound)] /\ uncommitted' \in [Writers -> 0..EventBound]
    BY <1>1, EventSourcingAssumption DEF Load
  <2>2. \A v \in Writers : uncommitted'[v] <= Len(history'[v])
    BY <1>1 DEF Load
  <2> QED
    BY <1>1, <2>1, <2>2 DEF Load, projection
<1>2. CASE Raise(w)
  <2>1. raised' \in 1..EventBound /\ raised' = raised + 1
    BY <1>2, EventSourcingAssumption DEF Raise
  <2>2. history[w] \in Seq(1..EventBound)
    OBVIOUS
  <2>3. /\ Append(history[w], raised') \in Seq(1..EventBound)
        /\ Len(Append(history[w], raised')) = Len(history[w]) + 1
    BY <2>1, <2>2, AppendProperties
  <2>4. uncommitted[w] + 1 \in 0..EventBound /\ uncommitted[w] + 1 <= Len(history[w]) + 1
    BY <2>1, EventSourcingAssumption
  <2> QED
    BY <1>2, <2>1, <2>3, <2>4 DEF Raise, projection
<1>3. CASE MarkCommitted(w)
  BY <1>3, EventSourcingAssumption DEF MarkCommitted, projection
<1> QED
  BY <1>1, <1>2, <1>3

\* Every step keeps the types.
LEMMA EsTypeStep ==
    ASSUME EsTypeOK, \A w \in Writers : uncommitted[w] <= raised, [EsNext]_esVars
    PROVE  EsTypeOK'
<1>1. ASSUME NEW w \in Writers, Load(w) \/ Raise(w) \/ MarkCommitted(w) PROVE EsTypeOK'
  BY <1>1, AggregateTypes
<1>2. ASSUME NEW w \in Writers, Save(w) PROVE EsTypeOK'
  <2>1. stream' \in Seq(RaisedEvents) /\ view' \in Seq(RaisedEvents) /\ mixed' \in BOOLEAN
    BY <1>2, AppendAligns, TellRange DEF Save
  <2>2. saving' \subseteq Writers
    BY <1>2 DEF Save, StoreAndTell, EsTypeOK
  <2> QED
    BY <1>2, <2>1, <2>2 DEF Save, EsTypeOK, RaisedEvents
<1>3. CASE ReadStream
  BY <1>3 DEF ReadStream, aggregates, EsTypeOK
<1>4. CASE Reset
  <2>1. mixed' \in BOOLEAN
    BY <1>4, Zenon DEF Reset
  <2> QED
    BY <1>4, <2>1, EmptySeq DEF Reset, aggregates, EsTypeOK
<1>5. CASE ProjectNext
  <2>1. Head(todo) \in 1..EventBound /\ Tail(todo) \in Seq(1..EventBound)
    BY <1>5, HeadTailProperties DEF ProjectNext, EsTypeOK
  <2>2. Append(view, Head(todo)) \in Seq(1..EventBound)
    BY <2>1, AppendProperties DEF EsTypeOK
  <2> QED
    BY <1>5, <2>1, <2>2 DEF ProjectNext, aggregates, EsTypeOK
<1>6. CASE RebuildEnds
  BY <1>6 DEF RebuildEnds, aggregates, EsTypeOK
<1>7. CASE UNCHANGED esVars
  BY <1>7 DEF esVars, EsTypeOK
<1> QED
  BY <1>1, <1>2, <1>3, <1>4, <1>5, <1>6, <1>7 DEF EsNext

\* The events not yet committed of a writer that has stored them are stored.
LEMMA LoadStep == ASSUME StreamInv, EsTypeOK', NEW w \in Writers, Load(w) PROVE StreamInv'
<1>1. /\ \A v \in Writers \ {w} : history'[v] = history[v] /\ uncommitted'[v] = uncommitted[v]
      /\ history'[w] = stream /\ uncommitted'[w] = 0 /\ UNCHANGED <<stream, saving, raised>>
      /\ overlapped' = overlapped \ {w} /\ w \notin saving
  BY DEF Load, StreamInv, EsTypeOK
<1>2. Stored(w)' = Len(stream) /\ Len(stream) \in Nat
  BY <1>1, StoredType DEF Stored, StreamInv
<1>3. \A v \in Writers \ {w} : Stored(v)' = Stored(v)
  BY <1>1 DEF Stored
<1>4. raised \in Nat
  BY EventSourcingAssumption DEF StreamInv, EsTypeOK
<1>5. \A v \in Writers : uncommitted'[v] <= raised'
  BY <1>1, <1>4 DEF StreamInv
<1>6. \A v \in Writers : \A i \in 1..Len(history'[v]) : history'[v][i] <= raised'
  BY <1>1 DEF StreamInv
<1>7. \A v \in Writers : \A i, j \in Stored(v)' + 1..Len(history'[v]) :
          history'[v][i] = history'[v][j] => i = j
  BY <1>1, <1>2, <1>3 DEF StreamInv
<1>8. \A u, v \in Writers : u # v =>
           \A i \in Stored(u)' + 1..Len(history'[u]), j \in Stored(v)' + 1..Len(history'[v]) :
               history'[u][i] # history'[v][j]
  <2>1. Stored(w)' + 1..Len(history'[w]) = {}
    BY <1>1, <1>2
  <2> SUFFICES ASSUME NEW u \in Writers \ {w}, NEW v \in Writers \ {w}, u # v
               PROVE  \A i \in Stored(u) + 1..Len(history[u]), j \in Stored(v) + 1..Len(history[v]) :
                         history[u][i] # history[v][j]
    BY <1>1, <1>3, <2>1
  <2> QED
    BY DEF StreamInv
<1>9. \A v \in Writers : Len(stream') <= Stored(v)' =>
           \A i \in Stored(v)' + 1..Len(history'[v]), j \in 1..Len(stream') : history'[v][i] # stream'[j]
  BY <1>1, <1>2, <1>3 DEF StreamInv
<1>10. \A v \in Writers \ overlapped' :
           LET known == IF v \in saving' THEN Len(history'[v]) ELSE Stored(v)' IN
           known <= Len(stream') /\ \A i \in 1..known : history'[v][i] = stream'[i]
  BY <1>1, <1>2, <1>3 DEF StreamInv
<1> QED
  BY <1>1, <1>5, <1>6, <1>7, <1>8, <1>9, <1>10 DEF StreamInv

\* What is raised is new to every history and to the stream.
LEMMA RaiseStep == ASSUME StreamInv, EsTypeOK', NEW w \in Writers, Raise(w) PROVE StreamInv'
<1> DEFINE n == Len(history[w])
<1>1. /\ \A v \in Writers \ {w} : history'[v] = history[v] /\ uncommitted'[v] = uncommitted[v]
      /\ history'[w] = Append(history[w], raised + 1) /\ uncommitted'[w] = uncommitted[w] + 1
      /\ UNCHANGED <<stream, saving>> /\ raised' = raised + 1
      /\ overlapped' = IF w \in saving THEN overlapped \cup {w} ELSE overlapped
  BY DEF Raise, StreamInv, EsTypeOK
<1>2. raised \in Nat /\ raised + 1 \in RaisedEvents
  BY EventSourcingAssumption DEF Raise, StreamInv, EsTypeOK, RaisedEvents
<1>3. /\ n \in Nat /\ Len(history'[w]) = n + 1 /\ history'[w][n + 1] = raised + 1
      /\ \A i \in 1..n : history'[w][i] = history[w][i]
  BY <1>1, <1>2, AppendProperties, LenProperties DEF StreamInv, EsTypeOK, RaisedEvents
<1>4. /\ \A v \in Writers : Stored(v)' = Stored(v) /\ Stored(v) \in 0..Len(history[v]) /\ Len(history[v]) \in Nat
      /\ Len(stream) \in Nat
  <2>1. /\ \A v \in Writers : Stored(v) \in 0..Len(history[v]) /\ Len(history[v]) \in Nat /\ uncommitted[v] \in Nat
        /\ Len(stream) \in Nat
    BY StoredType DEF StreamInv
  <2>2. Stored(w)' = Stored(w)
    BY <1>1, <1>3, <2>1 DEF Stored
  <2>3. \A v \in Writers \ {w} : Stored(v)' = Stored(v)
    BY <1>1 DEF Stored
  <2> QED
    BY <2>1, <2>2, <2>3
<1>5. /\ \A v \in Writers : \A i \in 1..Len(history[v]) : history[v][i] \in RaisedEvents
      /\ \A j \in 1..Len(stream) : stream[j] \in RaisedEvents
  BY ElementOfSeq DEF StreamInv, EsTypeOK, RaisedEvents
<1>4a. \A v \in Writers : uncommitted[v] \in Nat
  BY StoredType DEF StreamInv
<1>5a. \A i \in 1..n : history[w][i] \in Int /\ history[w][i] <= raised
  <2>1. \A i \in 1..Len(history[w]) : history[w][i] <= raised
    BY DEF StreamInv
  <2>2. \A i \in 1..n : i \in 1..Len(history[w]) /\ history[w][i] \in Int
    BY <1>5, EventSourcingAssumption DEF RaisedEvents
  <2> QED
    BY <2>1, <2>2
<1>6. \A v \in Writers : uncommitted'[v] <= raised'
  <2>1. ASSUME NEW v \in Writers PROVE uncommitted[v] \in Nat /\ uncommitted[v] <= raised
    <3>1. uncommitted[v] <= raised
      BY DEF StreamInv
    <3> QED
      BY <1>4a, <3>1
  <2> QED
    BY <1>1, <1>2, <2>1
<1>7. \A j \in 1..Len(stream') : stream'[j] <= raised'
  BY <1>1, <1>2, <1>5 DEF StreamInv, RaisedEvents
<1>8. \A v \in Writers : \A i \in 1..Len(history'[v]) : history'[v][i] <= raised'
  <2>1. \A i \in 1..n + 1 : history'[w][i] <= raised'
    <3> SUFFICES ASSUME NEW i \in 1..n + 1 PROVE history'[w][i] <= raised'
      OBVIOUS
    <3>1. i \in 1..n \/ i = n + 1
      BY <1>3
    <3> QED
      BY <1>1, <1>2, <1>3, <1>5a, <3>1
  <2>2. \A v \in Writers \ {w} : \A i \in 1..Len(history'[v]) : history'[v][i] <= raised'
    BY <1>1, <1>2, <1>5 DEF StreamInv, RaisedEvents
  <2> QED
    BY <1>3, <2>1, <2>2
<1>9. \A v \in Writers : \A i \in 1..Len(history[v]) : history[v][i] # raised + 1
  BY <1>2, <1>5 DEF StreamInv, RaisedEvents
<1>10. \A v \in Writers : \A i, j \in Stored(v)' + 1..Len(history'[v]) :
          history'[v][i] = history'[v][j] => i = j
  <2>1. \A i, j \in Stored(w) + 1..n + 1 : history'[w][i] = history'[w][j] => i = j
    <3> SUFFICES ASSUME NEW i \in Stored(w) + 1..n + 1, NEW j \in Stored(w) + 1..n + 1,
                        history'[w][i] = history'[w][j]
                 PROVE  i = j
      OBVIOUS
    <3>1. i \in Stored(w) + 1..n \/ i = n + 1
      BY <1>3, <1>4
    <3>2. j \in Stored(w) + 1..n \/ j = n + 1
      BY <1>3, <1>4
    <3>3. \A k \in Stored(w) + 1..n : k \in 1..n /\ history'[w][k] = history[w][k]
      BY <1>3, <1>4
    <3> QED
      BY <1>3, <1>9, <3>1, <3>2, <3>3 DEF StreamInv
  <2>2. \A v \in Writers \ {w} : \A i, j \in Stored(v)' + 1..Len(history'[v]) :
          history'[v][i] = history'[v][j] => i = j
    BY <1>1, <1>4 DEF StreamInv
  <2> QED
    BY <1>3, <1>4, <2>1, <2>2
<1>11. \A v \in Writers \ {w} :
           \A i \in Stored(v) + 1..Len(history[v]), j \in Stored(w) + 1..n + 1 : history[v][i] # history'[w][j]
  <2> SUFFICES ASSUME NEW v \in Writers \ {w}, NEW i \in Stored(v) + 1..Len(history[v]),
                      NEW j \in Stored(w) + 1..n + 1
               PROVE  history[v][i] # history'[w][j]
    OBVIOUS
  <2>1. i \in 1..Len(history[v]) /\ (j = n + 1 \/ (j \in Stored(w) + 1..n /\ j \in 1..n))
    BY <1>3, <1>4
  <2> QED
    BY <1>3, <1>9, <2>1 DEF StreamInv
<1>12. \A u, v \in Writers : u # v =>
           \A i \in Stored(u)' + 1..Len(history'[u]), j \in Stored(v)' + 1..Len(history'[v]) :
               history'[u][i] # history'[v][j]
  <2> SUFFICES ASSUME NEW u \in Writers, NEW v \in Writers, u # v,
                      NEW i \in Stored(u) + 1..Len(history'[u]), NEW j \in Stored(v) + 1..Len(history'[v])
               PROVE  history'[u][i] # history'[v][j]
    BY <1>4
  <2>1. CASE u # w /\ v # w
    BY <1>1, <2>1 DEF StreamInv
  <2>2. CASE u = w
    <3>1. v \in Writers \ {w} /\ i \in Stored(w) + 1..n + 1 /\ j \in Stored(v) + 1..Len(history[v])
      BY <1>1, <1>3, <2>2
    <3>2. history[v][j] # history'[w][i]
      BY <1>11, <3>1
    <3> QED
      BY <1>1, <2>2, <3>1, <3>2
  <2>3. CASE v = w
    <3>1. u \in Writers \ {w} /\ j \in Stored(w) + 1..n + 1 /\ i \in Stored(u) + 1..Len(history[u])
      BY <1>1, <1>3, <2>3
    <3>2. history[u][i] # history'[w][j]
      BY <1>11, <3>1
    <3> QED
      BY <1>1, <2>3, <3>1, <3>2
  <2> QED
    BY <2>1, <2>2, <2>3
<1>13. \A v \in Writers : Len(stream') <= Stored(v)' =>
           \A i \in Stored(v)' + 1..Len(history'[v]), j \in 1..Len(stream') : history'[v][i] # stream'[j]
  <2> SUFFICES ASSUME NEW v \in Writers, Len(stream) <= Stored(v),
                      NEW i \in Stored(v) + 1..Len(history'[v]), NEW j \in 1..Len(stream)
               PROVE  history'[v][i] # stream[j]
    BY <1>1, <1>4
  <2>1. stream[j] # raised + 1
    BY <1>2, <1>5 DEF StreamInv, RaisedEvents
  <2>2. CASE v # w
    BY <1>1, <2>2 DEF StreamInv
  <2>3. CASE v = w
    <3>1. i = n + 1 \/ (i \in Stored(w) + 1..n /\ i \in 1..n)
      BY <1>3, <1>4, <2>3
    <3> QED
      BY <1>3, <2>1, <2>3, <3>1 DEF StreamInv
  <2> QED
    BY <2>2, <2>3
<1>14. \A v \in Writers \ overlapped' :
           LET known == IF v \in saving' THEN Len(history'[v]) ELSE Stored(v)' IN
           known <= Len(stream') /\ \A i \in 1..known : history'[v][i] = stream'[i]
  <2> SUFFICES ASSUME NEW v \in Writers \ overlapped'
               PROVE  LET known == IF v \in saving THEN Len(history'[v]) ELSE Stored(v) IN
                      known <= Len(stream) /\ \A i \in 1..known : history'[v][i] = stream[i]
    BY <1>1, <1>4
  <2>1. CASE v # w
    BY <1>1, <2>1 DEF StreamInv
  <2>2. CASE v = w
    BY <1>1, <1>3, <1>4, <2>2 DEF StreamInv
  <2> QED
    BY <2>1, <2>2
<1> QED
  BY <1>1, <1>6, <1>7, <1>8, <1>10, <1>12, <1>13, <1>14 DEF StreamInv

\* Appended events are new to the stream, and no longer the writer's alone.
LEMMA SaveStep == ASSUME StreamInv, EsTypeOK', NEW w \in Writers, Save(w) PROVE StreamInv'
<1> DEFINE n == Len(history[w])
           k == Len(stream)
<1>1. /\ UNCHANGED <<history, uncommitted, overlapped, raised>> /\ uncommitted[w] > 0 /\ k = Stored(w)
      /\ saving' \in {saving, saving \cup {w}} /\ w \notin saving /\ StoreAndTell(w)
  BY DEF Save, StoreAndTell
<1>2. /\ Len(stream') = n /\ \A i \in 1..k : stream'[i] = stream[i]
      /\ \A i \in k + 1..n : stream'[i] = history[w][i]
  BY <1>1, AppendAligns DEF StreamInv
<1>3. \A v \in Writers : Stored(v)' = Stored(v) /\ Stored(v) \in 0..Len(history[v]) /\ Len(history[v]) \in Nat
  BY <1>1, StoredType DEF Stored, StreamInv
<1>4. k \in Nat /\ n \in Nat /\ k < n
  BY <1>1, StoredType DEF StreamInv
<1>5. \A j \in 1..n : j \in 1..k \/ j \in k + 1..n
  BY <1>4
<1>6. \A j \in 1..Len(stream') : stream'[j] <= raised'
  <2>1. \A j \in 1..k : stream'[j] <= raised
    BY <1>2 DEF StreamInv
  <2>2. \A j \in k + 1..n : stream'[j] <= raised
    BY <1>2, <1>4 DEF StreamInv
  <2> QED
    BY <1>1, <1>2, <1>5, <2>1, <2>2
<1>7. \A i \in 1..k, j \in k + 1..n : stream[i] # history[w][j]
  BY <1>1, <1>4 DEF StreamInv
<1>8. \A i, j \in 1..Len(stream') : stream'[i] = stream'[j] => i = j
  <2> SUFFICES ASSUME NEW i \in 1..n, NEW j \in 1..n, stream'[i] = stream'[j] PROVE i = j
    BY <1>2
  <2>1. CASE i \in 1..k /\ j \in 1..k
    BY <1>2, <2>1 DEF StreamInv
  <2>2. CASE i \in k + 1..n /\ j \in k + 1..n
    BY <1>1, <1>2, <2>2 DEF StreamInv
  <2>3. CASE (i \in 1..k /\ j \in k + 1..n) \/ (j \in 1..k /\ i \in k + 1..n)
    BY <1>2, <1>7, <2>3
  <2> QED
    BY <1>5, <2>1, <2>2, <2>3
<1>9. ASSUME NEW v \in Writers, n <= Stored(v), NEW i \in Stored(v) + 1..Len(history[v]), NEW j \in 1..n
      PROVE  history[v][i] # stream'[j]
  <2>1. v # w
    BY <1>1, <1>4, <1>9
  <2>2. CASE j \in 1..k
    BY <1>2, <1>3, <1>4, <1>9, <2>2 DEF StreamInv
  <2>3. CASE j \in k + 1..n
    BY <1>1, <1>2, <2>1, <2>3 DEF StreamInv
  <2> QED
    BY <1>5, <2>2, <2>3
<1>10. ASSUME NEW v \in Writers \ overlapped
       PROVE  LET known == IF v \in saving' THEN Len(history[v]) ELSE Stored(v) IN
              known <= n /\ \A i \in 1..known : history[v][i] = stream'[i]
  <2>1. CASE v = w
    <3>1. \A i \in 1..k : history[w][i] = stream'[i]
      BY <1>1, <1>2, <2>1 DEF StreamInv
    <3>2. \A i \in 1..n : history[w][i] = stream'[i]
      BY <1>2, <1>5, <3>1
    <3> QED
      BY <1>1, <1>4, <2>1, <3>1, <3>2
  <2>2. CASE v # w
    <3> DEFINE known == IF v \in saving THEN Len(history[v]) ELSE Stored(v)
    <3>1. known \in Nat /\ known <= k /\ \A i \in 1..known : history[v][i] = stream[i]
      BY <1>3 DEF StreamInv
    <3>2. \A i \in 1..known : i \in 1..k
      BY <1>4, <3>1
    <3> QED
      BY <1>1, <1>2, <1>4, <2>2, <3>1, <3>2
  <2> QED
    BY <2>1, <2>2
<1>11. \A v \in Writers : Len(stream') <= Stored(v)' =>
           \A i \in Stored(v)' + 1..Len(history'[v]), j \in 1..Len(stream') : history'[v][i] # stream'[j]
  BY <1>1, <1>2, <1>3, <1>9
<1>12. \A v \in Writers \ overlapped' :
           LET known == IF v \in saving' THEN Len(history'[v]) ELSE Stored(v)' IN
           known <= Len(stream') /\ \A i \in 1..known : history'[v][i] = stream'[i]
  BY <1>1, <1>2, <1>3, <1>10
<1>13. /\ \A v \in Writers : uncommitted'[v] <= raised'
       /\ \A v \in Writers : \A i \in 1..Len(history'[v]) : history'[v][i] <= raised'
       /\ \A v \in Writers : \A i, j \in Stored(v)' + 1..Len(history'[v]) :
              history'[v][i] = history'[v][j] => i = j
  BY <1>1, <1>3 DEF StreamInv
<1>14. \A u, v \in Writers : u # v =>
           \A i \in Stored(u)' + 1..Len(history'[u]), j \in Stored(v)' + 1..Len(history'[v]) :
               history'[u][i] # history'[v][j]
  BY <1>1, <1>3 DEF StreamInv
<1> QED
  BY <1>6, <1>8, <1>11, <1>12, <1>13, <1>14 DEF StreamInv

\* After markCommitted the writer takes all it has for stored.
LEMMA CommitStep == ASSUME StreamInv, EsTypeOK', NEW w \in Writers, MarkCommitted(w) PROVE StreamInv'
<1>1. /\ UNCHANGED <<stream, history, overlapped, raised>> /\ uncommitted'[w] = 0
      /\ \A v \in Writers \ {w} : uncommitted'[v] = uncommitted[v]
      /\ saving' = saving \ {w} /\ w \in saving
  BY DEF MarkCommitted, StreamInv, EsTypeOK
<1>2. Stored(w)' = Len(history[w]) /\ Len(history[w]) \in Nat
  BY <1>1, StoredType DEF Stored, StreamInv
<1>3. \A v \in Writers \ {w} : Stored(v)' = Stored(v)
  BY <1>1 DEF Stored
<1>4. raised \in Nat
  BY EventSourcingAssumption DEF StreamInv, EsTypeOK
<1>5. /\ \A v \in Writers : uncommitted'[v] <= raised'
      /\ \A v \in Writers : \A i, j \in Stored(v)' + 1..Len(history'[v]) :
             history'[v][i] = history'[v][j] => i = j
  BY <1>1, <1>2, <1>3, <1>4 DEF StreamInv
<1>6. \A u, v \in Writers : u # v =>
           \A i \in Stored(u)' + 1..Len(history'[u]), j \in Stored(v)' + 1..Len(history'[v]) :
               history'[u][i] # history'[v][j]
  BY <1>1, <1>2, <1>3 DEF StreamInv
<1>7. \A v \in Writers : Len(stream') <= Stored(v)' =>
           \A i \in Stored(v)' + 1..Len(history'[v]), j \in 1..Len(stream') : history'[v][i] # stream'[j]
  BY <1>1, <1>2, <1>3 DEF StreamInv
<1>8. \A v \in Writers \ overlapped' :
           LET known == IF v \in saving' THEN Len(history'[v]) ELSE Stored(v)' IN
           known <= Len(stream') /\ \A i \in 1..known : history'[v][i] = stream'[i]
  BY <1>1, <1>2, <1>3 DEF StreamInv
<1> QED
  BY <1>1, <1>5, <1>6, <1>7, <1>8 DEF StreamInv

\* Every step keeps the invariant: those of a rebuild touch nothing it is about.
LEMMA StreamStep == StreamInv /\ [EsNext]_esVars => StreamInv'
<1> SUFFICES ASSUME StreamInv, [EsNext]_esVars PROVE StreamInv'
  OBVIOUS
<1>1. EsTypeOK'
  BY EsTypeStep DEF StreamInv
<1>2. ASSUME NEW w \in Writers, Load(w) \/ Raise(w) \/ Save(w) \/ MarkCommitted(w) PROVE StreamInv'
  BY <1>1, <1>2, LoadStep, RaiseStep, SaveStep, CommitStep
<1>3. CASE ReadStream \/ Reset \/ ProjectNext \/ RebuildEnds \/ UNCHANGED esVars
  <2>1. UNCHANGED <<stream, aggregates>>
    BY <1>3 DEF ReadStream, Reset, ProjectNext, RebuildEnds, esVars, aggregates
  <2>2. UNCHANGED <<stream, history, uncommitted, saving, overlapped, raised>>
    BY <2>1 DEF aggregates
  <2>3. \A w \in Writers : Stored(w)' = Stored(w)
    BY <2>2 DEF Stored
  <2> QED
    BY <1>1, <2>2, <2>3 DEF StreamInv
<1> QED
  BY <1>2, <1>3 DEF EsNext

\* An empty stream agrees with writers that know nothing.
LEMMA StreamStart == EsInit => StreamInv
<1> SUFFICES ASSUME EsInit PROVE StreamInv
  OBVIOUS
<1>1. EsTypeOK
  <2>1. <<>> \in Seq(1..EventBound) /\ Len(<<>>) = 0
    BY EmptySeq
  <2>2. 0 \in 0..EventBound
    BY EventSourcingAssumption
  <2>3. \A w \in Writers : uncommitted[w] <= Len(history[w])
    BY <2>1 DEF EsInit
  <2>4. mixed \in BOOLEAN
    BY DEF EsInit
  <2> QED
    BY <2>1, <2>2, <2>3, <2>4 DEF EsInit, EsTypeOK
<1>2. Len(stream) = 0 /\ \A w \in Writers : Len(history[w]) = 0 /\ uncommitted[w] = 0 /\ Stored(w) = 0
  BY EmptySeq DEF EsInit, Stored
<1> QED
  BY <1>1, <1>2 DEF EsInit, StreamInv

\* Nothing is stored twice, and what a writer takes for stored is how the
\* stream begins unless it raised events during an append (EventStore.ts:75,
\* EventSourcedAggregate.ts:64), for any number of writers.
THEOREM StreamsAgree == EsSpec => []StreamAgrees
<1>1. EsInit => StreamInv
  BY StreamStart
<1>2. StreamInv => StreamAgrees
  <2> SUFFICES ASSUME StreamInv PROVE StreamAgrees
    OBVIOUS
  <2>1. \A i, j \in DOMAIN stream : stream[i] = stream[j] => i = j
    BY LenProperties DEF StreamInv, EsTypeOK
  <2>2. ASSUME NEW w \in Writers \ overlapped
        PROVE  /\ Stored(w) <= Len(stream)
               /\ SubSeq(history[w], 1, Stored(w)) = SubSeq(stream, 1, Stored(w))
    <3>1. Stored(w) \in 0..Len(history[w]) /\ Len(history[w]) \in Nat /\ Len(stream) \in Nat
      BY StoredType DEF StreamInv
    <3>2. Stored(w) <= Len(stream) /\ \A i \in 1..Stored(w) : history[w][i] = stream[i]
      BY <3>1 DEF StreamInv
    <3> QED
      BY <3>1, <3>2
  <2> QED
    BY <2>1, <2>2 DEF StreamAgrees
<1> QED
  BY <1>1, <1>2, StreamStep, PTL DEF EsSpec

(***************************************************************************)
(* The projection: what it was given and what a rebuild has still to give  *)
(* it are the stream.                                                      *)
(***************************************************************************)
ViewInv ==
    /\ StreamInv
    /\ ~mixed => view \o (IF rebuild = "run" THEN todo ELSE <<>>) = stream
    /\ rebuild = "run" \/ mixed \/ view = stream

\* An append gives the projection all that it stores, or the view is mixed.
LEMMA TellStep ==
    ASSUME StreamInv, NEW w \in Writers, StoreAndTell(w), ~mixed'
    PROVE  ~mixed /\ (rebuild = "run" => todo = <<>>) /\ (view = stream => view' = stream')
<1> DEFINE new == SubSeq(history[w], Stored(w) + 1, Len(history[w]))
<1>1. ~mixed /\ (rebuild = "run" => todo = <<>>)
  BY Zenon DEF StoreAndTell
<1>2. PICK k \in 0..Len(new) :
          /\ view' = view \o SubSeq(new, 1, k)
          /\ mixed' = (mixed \/ k < Len(new) \/ (rebuild = "run" /\ todo # <<>>))
  BY DEF StoreAndTell
<1>3. new \in Seq(RaisedEvents)
  <2>1. \A i \in Stored(w) + 1..Len(history[w]) : history[w][i] \in RaisedEvents
    <3>1. history[w] \in Seq(RaisedEvents)
      BY DEF StreamInv, EsTypeOK, RaisedEvents
    <3> QED
      BY <3>1, StoredType, ElementOfSeq DEF StreamInv
  <2> QED
    BY <2>1, StoredType, SubSeqProperties DEF StreamInv
<1>4. stream' = stream \o new
  BY DEF StoreAndTell
<1> HIDE DEF new
<1>5. ~(k < Len(new))
  BY <1>2, Zenon
<1>6. k = Len(new)
  BY <1>2, <1>3, <1>5, LenProperties
<1>7. SubSeq(new, 1, k) = new
  BY <1>3, <1>6, SubSeqFull
<1> QED
  BY <1>1, <1>2, <1>4, <1>7

\* Every step keeps view and rest together.
LEMMA ViewStep == ViewInv /\ [EsNext]_esVars => ViewInv'
<1> SUFFICES ASSUME ViewInv, [EsNext]_esVars PROVE ViewInv'
  OBVIOUS
<1>1. StreamInv /\ StreamInv'
  BY StreamStep DEF ViewInv
<1>2. view \in Seq(RaisedEvents) /\ todo \in Seq(RaisedEvents) /\ stream \in Seq(RaisedEvents)
  BY <1>1 DEF StreamInv, EsTypeOK, RaisedEvents
<1>3. \A s \in Seq(RaisedEvents) : s \o <<>> = s
  BY ConcatEmptySeq
<1>4. view' \in Seq(RaisedEvents)
  BY <1>1 DEF StreamInv, EsTypeOK, RaisedEvents
<1>5. ASSUME NEW w \in Writers, Save(w) PROVE ViewInv'
  <2>1. StoreAndTell(w) /\ UNCHANGED <<todo, rebuild>>
    BY <1>5 DEF Save
  <2>2. ASSUME ~mixed' PROVE view' = stream' /\ (rebuild = "run" => todo = <<>>)
    <3>1. ~mixed /\ (rebuild = "run" => todo = <<>>) /\ (view = stream => view' = stream')
      BY <1>1, <2>1, <2>2, TellStep
    <3>2. view = stream
      BY <1>2, <1>3, <3>1 DEF ViewInv
    <3> QED
      BY <3>1, <3>2
  <2> QED
    BY <1>1, <1>3, <1>4, <2>1, <2>2 DEF ViewInv
<1>6. ASSUME NEW w \in Writers, Load(w) \/ Raise(w) \/ MarkCommitted(w) PROVE ViewInv'
  <2>1. UNCHANGED <<stream, view, todo, rebuild, mixed>>
    BY <1>6 DEF Load, Raise, MarkCommitted, projection
  <2> QED
    BY <1>1, <2>1 DEF ViewInv
<1>7. CASE ReadStream
  BY <1>1, <1>7 DEF ReadStream, aggregates, ViewInv
<1>8. CASE Reset
  <2>1. ASSUME ~mixed' PROVE todo = stream
    BY <1>8, <2>1, Zenon DEF Reset
  <2>2. rebuild' = "run" /\ view' = <<>> /\ UNCHANGED <<stream, todo>>
    BY <1>8 DEF Reset
  <2>3. <<>> \o todo = todo
    BY <1>2, ConcatEmptySeq
  <2> QED
    BY <1>1, <2>1, <2>2, <2>3 DEF ViewInv
<1>9. CASE ProjectNext
  <2>1. rebuild = "run" /\ todo # <<>> /\ todo' = Tail(todo) /\ UNCHANGED <<stream, rebuild>>
    BY <1>9 DEF ProjectNext
  <2>2. Append(view, Head(todo)) \o Tail(todo) = view \o todo
    <3>1. Head(todo) \in RaisedEvents /\ Tail(todo) \in Seq(RaisedEvents) /\ <<Head(todo)>> \in Seq(RaisedEvents)
      BY <1>2, <2>1, HeadTailProperties
    <3>2. Append(view, Head(todo)) = view \o <<Head(todo)>>
      BY <1>2, <3>1, AppendIsConcat
    <3>3. <<Head(todo)>> \o Tail(todo) = todo
      BY <1>2, <2>1
    <3> QED
      BY <1>2, <3>1, <3>2, <3>3, ConcatAssociative
  <2>3. ASSUME view' = Append(view, Head(todo)), mixed' = mixed PROVE ViewInv'
    BY <1>1, <2>1, <2>2, <2>3 DEF ViewInv
  <2>4. CASE mixed' = TRUE
    BY <1>1, <2>1, <2>4 DEF ViewInv
  <2> QED
    BY <1>9, <2>3, <2>4 DEF ProjectNext
<1>10. CASE RebuildEnds
  <2>1. rebuild = "run" /\ todo = <<>> /\ rebuild' = "none" /\ UNCHANGED <<stream, view, mixed>>
    BY <1>10 DEF RebuildEnds
  <2> QED
    BY <1>1, <1>2, <1>3, <2>1 DEF ViewInv
<1>11. CASE UNCHANGED esVars
  BY <1>1, <1>11 DEF esVars, ViewInv
<1> QED
  BY <1>5, <1>6, <1>7, <1>8, <1>9, <1>10, <1>11 DEF EsNext

\* The projection shows the stream unless an append fell into the rebuild or
\* somebody threw (ProjectionRebuildManager.ts:31), however many events.
THEOREM ViewReplays == EsSpec => []ViewIsReplay
<1>1. EsInit => ViewInv
  <2> SUFFICES ASSUME EsInit PROVE ViewInv
    OBVIOUS
  <2>1. <<>> \in Seq(RaisedEvents) /\ <<>> \o <<>> = <<>>
    BY EmptySeq, ConcatEmptySeq
  <2> QED
    BY <2>1, StreamStart DEF EsInit, ViewInv
<1>2. ViewInv => ViewIsReplay
  BY DEF ViewInv, ViewIsReplay
<1> QED
  BY <1>1, <1>2, ViewStep, PTL DEF EsSpec

=============================================================================
