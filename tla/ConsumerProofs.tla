--------------------------- MODULE ConsumerProofs ---------------------------
(***************************************************************************)
(* KafkaConsumer and SqsConsumer implement AtLeastOnce, for any number of  *)
(* partitions, messages, poll loops and remembered ids.                    *)
(***************************************************************************)
EXTENDS KafkaConsumer, SqsConsumer, SequenceTheorems, TLAPS

(***************************************************************************)
(* KafkaConsumer                                                           *)
(***************************************************************************)
Done(p, i)  == log[p][i] \in handled \/ log[p][i] \notin Handled
Sure(p)     == committed[p] # Never \/ fromBeginning

\* Messages between what a restart goes on with and the position are handled.
Partition(p) ==
    /\ Len(log[p]) <= LogBound /\ position[p] <= Len(log[p])
    /\ committed[p] <= Len(log[p])
    /\ committed[p] <= position[p] + (IF autoCommit THEN 0 ELSE 1)
    /\ Sure(p) => \A i \in Base(p) + 1..position[p] : Done(p, i)

\* The message whose offset is being committed is handled.
Committing == doing = "committing" => ~autoCommit /\ Done(current, position[current] + 1)

IdsHandled == \A i \in 1..Len(ids) : ids[i] \in handled

KafkaInv == KafkaTypeOK /\ Committing /\ IdsHandled /\ \A p \in Partitions : Partition(p)

\* Every step but AppendTo: a restart goes on no earlier than it would have,
\* and what it passes over is handled.
Onward(p) ==
    /\ Base(p) <= Base(p)'
    /\ Sure(p) => Sure(p)' /\ \A i \in Base(p) + 1..Base(p)' : Done(p, i)'

Progress ==
    /\ log' = log /\ handled \subseteq handled'
    /\ \A p \in Partitions : Onward(p)

\* Ids are remembered up to the limit.
LEMMA IdsStep ==
    ASSUME KafkaInv, doing = "handling", HandlerDone
    PROVE  /\ ids' \in Seq(Ids) /\ Len(ids') <= IdLimit /\ handled' \subseteq Ids
           /\ \A i \in 1..Len(ids') : ids'[i] \in handled'
<1> DEFINE e    == Event(current)
           kept == IF Len(ids) = IdLimit THEN Tail(ids) ELSE ids
<1>1. e \in Ids
  <2>1. /\ current \in Partitions /\ log[current] \in Seq(Ids)
        /\ position[current] + 1 \in 1..Len(log[current])
    BY DEF KafkaInv, KafkaTypeOK, IdsHandled
  <2> QED
    BY <2>1, ElementOfSeq DEF Event
<1>2. handled' = handled \cup {e} /\ ids' = Append(kept, e)
  BY DEF HandlerDone
<1>3. ids \in Seq(Ids) /\ Len(ids) \in Nat /\ Len(ids) <= IdLimit /\ IdLimit \in Nat \ {0}
  BY KafkaAssumption DEF KafkaInv, KafkaTypeOK, IdsHandled
<1>4. kept \in Seq(Ids) /\ Len(kept) \in Nat /\ Len(kept) < IdLimit
      /\ \A i \in 1..Len(kept) : kept[i] \in handled
  <2>1. CASE Len(ids) = IdLimit
    <3>1. ids # <<>>
      BY <1>3, <2>1, EmptySeq
    <3>2. /\ kept \in Seq(Ids) /\ Len(kept) = Len(ids) - 1
          /\ \A i \in 1..Len(kept) : kept[i] = ids[i + 1]
      BY <1>3, <2>1, <3>1, HeadTailProperties
    <3>3. \A i \in 1..Len(kept) : i + 1 \in 1..Len(ids)
      BY <1>3, <3>2
    <3> QED
      BY <1>3, <3>2, <3>3 DEF KafkaInv, IdsHandled
  <2>2. CASE Len(ids) # IdLimit
    BY <1>3, <2>2 DEF KafkaInv, IdsHandled
  <2> QED
    BY <2>1, <2>2
<1> HIDE DEF e, kept
<1>5. /\ ids' \in Seq(Ids) /\ Len(ids') = Len(kept) + 1 /\ ids'[Len(kept) + 1] = e
      /\ \A i \in 1..Len(kept) : ids'[i] = kept[i]
  BY <1>1, <1>2, <1>4, AppendProperties
<1>6. ASSUME NEW i \in 1..Len(ids') PROVE ids'[i] \in handled'
  <2>1. i \in 1..Len(kept) \/ i = Len(kept) + 1
    BY <1>4, <1>5
  <2> QED
    BY <1>2, <1>4, <1>5, <2>1
<1> QED
  BY <1>1, <1>2, <1>3, <1>4, <1>5, <1>6 DEF KafkaInv, KafkaTypeOK, IdsHandled

\* A message is appended behind what anybody has read.
LEMMA AppendStep ==
    ASSUME KafkaInv, NEW p \in Partitions, NEW e \in Ids, AppendTo(p, e)
    PROVE  /\ log' \in [Partitions -> Seq(Ids)] /\ log'[p][Len(log[p]) + 1] = e
           /\ Len(log[p]) \in Nat /\ Len(log'[p]) = Len(log[p]) + 1 /\ Len(log[p]) < LogBound
           /\ \A q \in Partitions \ {p} : log'[q] = log[q]
           /\ \A q \in Partitions : \A i \in 1..Len(log[q]) : log'[q][i] = log[q][i]
<1>1. log \in [Partitions -> Seq(Ids)] /\ log[p] \in Seq(Ids) /\ Len(log[p]) \in Nat
  BY DEF KafkaInv, KafkaTypeOK, IdsHandled
<1>2. log' = [log EXCEPT ![p] = Append(log[p], e)] /\ Len(log[p]) < LogBound
  BY DEF AppendTo
<1>3. /\ Append(log[p], e) \in Seq(Ids) /\ Len(Append(log[p], e)) = Len(log[p]) + 1
      /\ \A i \in 1..Len(log[p]) : Append(log[p], e)[i] = log[p][i]
      /\ Append(log[p], e)[Len(log[p]) + 1] = e
  BY <1>1, AppendProperties
<1>4. log'[p] = Append(log[p], e) /\ \A q \in Partitions \ {p} : log'[q] = log[q]
  BY <1>1, <1>2
<1> QED
  BY <1>1, <1>2, <1>3, <1>4
\* What an invariant says of one partition, for the steps below.
LEMMA OnePartition ==
    ASSUME KafkaInv, NEW q \in Partitions
    PROVE  /\ log[q] \in Seq(Ids) /\ Len(log[q]) \in Nat
           /\ committed[q] \in Int /\ committed[q] >= Never /\ committed[q] <= LogBound
           /\ position[q] \in Nat /\ LogBound \in Nat
           /\ Partition(q)
  BY KafkaAssumption DEF KafkaInv, KafkaTypeOK, Never

\* A step that leaves the partitions alone.
LEMMA Elsewhere ==
    ASSUME KafkaInv, NEW q \in Partitions, log' = log, handled \subseteq handled',
           kafkaOptions' = kafkaOptions, committed'[q] = committed[q], position'[q] = position[q]
    PROVE  Partition(q)' /\ Onward(q)
<1>1. Partition(q) /\ committed[q] \in Int /\ position[q] \in Nat
  BY OnePartition
<1>2. Base(q)' = Base(q) /\ Base(q) \in Int /\ (Sure(q)' <=> Sure(q))
  BY <1>1 DEF Base, Sure, Never, kafkaOptions
<1>3. \A i : Done(q, i) => Done(q, i)'
  BY DEF Done
<1> QED
  BY <1>1, <1>2, <1>3 DEF Partition, Onward, kafkaOptions

\* handleMessage returns from a message that is handled.
LEMMA ReturnStep ==
    ASSUME KafkaInv, NEW q \in Partitions, log' = log, handled \subseteq handled',
           kafkaOptions' = kafkaOptions, position[q] < Len(log[q]),
           NEW n, n = position[q] + 1, Done(q, n)', position'[q] = n,
           \/ autoCommit /\ committed'[q] = committed[q]
           \/ committed'[q] = n
    PROVE  Partition(q)' /\ Onward(q)
<1>1. /\ Partition(q) /\ committed[q] \in Int /\ position[q] \in Nat /\ Len(log[q]) \in Nat
      /\ committed[q] >= Never
  BY OnePartition
<1>2. \A i : Done(q, i) => Done(q, i)'
  BY DEF Done
<1>3. /\ Base(q) \in Int /\ Base(q)' \in Int
      /\ Base(q) <= Base(q)' /\ Base(q)' <= n
      /\ Sure(q) => Sure(q)'
  BY <1>1 DEF Base, Sure, Never, kafkaOptions, Partition
<1>4. ASSUME Sure(q), NEW i \in Base(q) + 1..n PROVE Done(q, i)'
  <2>1. i \in Base(q) + 1..position[q] \/ i = n
    BY <1>1, <1>3
  <2>2. \A j \in Base(q) + 1..position[q] : Done(q, j)
    BY <1>1, <1>4 DEF Partition
  <2> QED
    BY <1>2, <2>1, <2>2
<1>5. Onward(q)
  BY <1>1, <1>3, <1>4 DEF Onward
<1>6. Sure(q)' => \A i \in Base(q)' + 1..position'[q] : Done(q, i)'
  <2>1. CASE Sure(q)
    BY <1>1, <1>3, <1>4, <2>1
  <2>2. CASE ~Sure(q)
    <3>1. Sure(q)' => Base(q)' = n
      BY <1>1, <2>2 DEF Sure, Base, Never, kafkaOptions
    <3> QED
      BY <1>1, <3>1
  <2> QED
    BY <2>1, <2>2
<1>7. /\ Len(log'[q]) <= LogBound /\ position'[q] <= Len(log'[q]) /\ committed'[q] <= Len(log'[q])
      /\ committed'[q] <= position'[q] + (IF autoCommit' THEN 0 ELSE 1)
  BY <1>1 DEF Partition, kafkaOptions
<1> QED
  BY <1>5, <1>6, <1>7 DEF Partition
\* The broker has stored the offset of a message that is handled, and the
\* client has not gone on.
LEMMA StoredStep ==
    ASSUME KafkaInv, NEW q \in Partitions, log' = log, handled' = handled,
           kafkaOptions' = kafkaOptions, position[q] < Len(log[q]), ~autoCommit,
           NEW n, n = position[q] + 1, Done(q, n), committed'[q] = n, position'[q] = position[q]
    PROVE  Partition(q)' /\ Onward(q)
<1>1. /\ Partition(q) /\ committed[q] \in Int /\ position[q] \in Nat /\ Len(log[q]) \in Nat
      /\ committed[q] >= Never
  BY OnePartition
<1>2. \A i : Done(q, i) => Done(q, i)'
  BY DEF Done
<1>3. /\ Base(q) \in Int /\ Base(q)' = n /\ Base(q) <= n /\ Sure(q)'
  BY <1>1 DEF Base, Sure, Never, kafkaOptions, Partition
<1>4. ASSUME Sure(q), NEW i \in Base(q) + 1..n PROVE Done(q, i)'
  <2>1. i \in Base(q) + 1..position[q] \/ i = n
    BY <1>1, <1>3
  <2>2. \A j \in Base(q) + 1..position[q] : Done(q, j)
    BY <1>1, <1>4 DEF Partition
  <2> QED
    BY <1>2, <2>1, <2>2
<1>5. Onward(q)
  BY <1>3, <1>4 DEF Onward
<1>6. \A i \in Base(q)' + 1..position'[q] : Done(q, i)'
  BY <1>1, <1>3
<1>7. /\ Len(log'[q]) <= LogBound /\ position'[q] <= Len(log'[q]) /\ committed'[q] <= Len(log'[q])
      /\ committed'[q] <= position'[q] + (IF autoCommit' THEN 0 ELSE 1)
  BY <1>1 DEF Partition, kafkaOptions
<1> QED
  BY <1>5, <1>6, <1>7 DEF Partition

\* The message is handled or needs no handler: it is returned from, or its
\* offset is about to be committed.
LEMMA CommitOrReturnStep ==
    ASSUME KafkaInv, NEW p \in Partitions, log' = log, handled \subseteq handled',
           kafkaOptions' = kafkaOptions, committed' = committed, current' = p,
           position[p] < Len(log[p]), NEW n, n = position[p] + 1, Done(p, n)',
           CommitOrReturn(p)
    PROVE  /\ \A q \in Partitions : Partition(q)' /\ Onward(q)
           /\ Committing' /\ position' \in [Partitions -> 0..LogBound] /\ moved' \subseteq Partitions
           /\ doing' \in {"nothing", "committing"}
           /\ doing' # "nothing" => position'[p] < Len(log'[p])
<1>1. position \in [Partitions -> 0..LogBound] /\ moved \subseteq Partitions
  BY DEF KafkaInv, KafkaTypeOK
<1>2. position[p] \in Nat /\ Len(log[p]) \in Nat /\ Len(log[p]) <= LogBound /\ LogBound \in Nat
  BY OnePartition DEF Partition
<1>3. CASE autoCommit /\ Returned(p)
  <2>1. position' = [position EXCEPT ![p] = n] /\ doing' = "nothing" /\ moved' = moved \cup {p}
    BY <1>3 DEF Returned
  <2>2. position'[p] = n /\ position' \in [Partitions -> 0..LogBound]
    BY <1>1, <1>2, <2>1
  <2>3. Partition(p)' /\ Onward(p)
    BY <1>3, <2>2, ReturnStep
  <2>4. ASSUME NEW q \in Partitions \ {p} PROVE Partition(q)' /\ Onward(q)
    <3>1. position'[q] = position[q]
      BY <1>1, <2>1
    <3> QED
      BY <3>1, Elsewhere
  <2> QED
    BY <1>1, <2>1, <2>2, <2>3, <2>4 DEF Committing
<1>4. CASE ~autoCommit /\ doing' = "committing" /\ UNCHANGED <<position, moved>>
  <2>1. \A q \in Partitions : Partition(q)' /\ Onward(q)
    BY <1>4, Elsewhere
  <2>2. n = position'[current'] + 1 /\ ~autoCommit'
    BY <1>4 DEF kafkaOptions
  <2>3. Committing'
    BY <2>2 DEF Committing
  <2> QED
    BY <1>1, <1>4, <2>1, <2>3
<1> QED
  BY <1>3, <1>4 DEF CommitOrReturn

\* The client joins the group.
LEMMA JoinStep ==
    ASSUME KafkaInv, log' = log, handled' = handled,
           kafkaOptions' = kafkaOptions, committed' = committed, Join
    PROVE  /\ \A q \in Partitions : Partition(q)' /\ Onward(q)
           /\ position' \in [Partitions -> 0..LogBound]
<1>1. ASSUME NEW q \in Partitions
      PROVE  Partition(q)' /\ Onward(q) /\ position'[q] \in 0..LogBound
  <2>1. /\ Partition(q) /\ committed[q] \in Int /\ position[q] \in Nat /\ Len(log[q]) \in Nat
        /\ committed[q] >= Never /\ LogBound \in Nat
    BY OnePartition
  <2>2. position'[q] = IF committed[q] # Never THEN committed[q]
                       ELSE IF fromBeginning THEN 0 ELSE Len(log[q])
    BY DEF Join
  <2>3. /\ Base(q) \in Int /\ Base(q)' \in Int /\ Base(q) <= Base(q)'
        /\ Base(q)' = position'[q] /\ (Sure(q)' <=> Sure(q)) /\ (Sure(q) => Base(q)' = Base(q))
    BY <2>1, <2>2 DEF Base, Sure, Never, kafkaOptions, Partition
  <2>4. Onward(q)
    BY <2>3 DEF Onward
  <2>5. position'[q] \in 0..LogBound /\ position'[q] <= Len(log'[q]) /\ committed'[q] <= position'[q]
    BY <2>1, <2>2 DEF Partition, Never
  <2>6. \A i \in Base(q)' + 1..position'[q] : Done(q, i)'
    BY <2>3, <2>5
  <2>7. committed'[q] <= position'[q] + (IF autoCommit' THEN 0 ELSE 1)
    BY <2>1, <2>5
  <2> QED
    BY <2>1, <2>4, <2>5, <2>6, <2>7 DEF Partition
<1>2. position' = [q \in Partitions |-> position'[q]]
  BY DEF Join
<1> QED
  BY <1>1, <1>2
LEMMA AppendKeeps ==
    ASSUME KafkaInv, NEW p \in Partitions, NEW e \in Ids, AppendTo(p, e)
    PROVE  KafkaInv'
<1> USE AppendStep
<1>1. UNCHANGED <<committed, position, moved, kafkaOptions, consumer, current, doing, ids, handled>>
  BY DEF AppendTo
<1>2. ASSUME NEW q \in Partitions
      PROVE  /\ Len(log'[q]) \in Nat /\ Len(log[q]) <= Len(log'[q]) /\ Len(log'[q]) <= LogBound
             /\ \A i \in 1..Len(log[q]) : Done(q, i) => Done(q, i)'
  <2>1. Len(log[q]) \in Nat /\ Len(log[q]) <= LogBound /\ LogBound \in Nat
    BY OnePartition DEF Partition
  <2>2. Len(log'[q]) \in Nat /\ Len(log[q]) <= Len(log'[q]) /\ Len(log'[q]) <= LogBound
    <3>1. CASE q = p
      BY <2>1, <3>1
    <3>2. CASE q # p
      BY <2>1, <3>2
    <3> QED
      BY <3>1, <3>2
  <2> QED
    BY <1>1, <2>2 DEF Done
<1>3. ASSUME NEW q \in Partitions PROVE Partition(q)'
  <2>1. /\ Partition(q) /\ committed[q] \in Int /\ position[q] \in Nat /\ Len(log[q]) \in Nat
        /\ committed[q] >= Never
    BY OnePartition
  <2>2. Base(q)' = Base(q) /\ Base(q) \in Nat /\ (Sure(q)' <=> Sure(q))
    BY <1>1, <2>1 DEF Base, Sure, Never, kafkaOptions
  <2>3. ASSUME Sure(q)', NEW i \in Base(q) + 1..position[q] PROVE Done(q, i)'
    <3>1. Done(q, i)
      BY <2>1, <2>2, <2>3 DEF Partition
    <3>2. i \in 1..Len(log[q])
      BY <2>1, <2>2 DEF Partition
    <3> QED
      BY <1>2, <3>1, <3>2
  <2>4. /\ Len(log'[q]) <= LogBound /\ position'[q] <= Len(log'[q]) /\ committed'[q] <= Len(log'[q])
        /\ committed'[q] <= position'[q] + (IF autoCommit' THEN 0 ELSE 1)
    BY <1>1, <1>2, <2>1 DEF Partition, kafkaOptions
  <2> QED
    BY <1>1, <2>2, <2>3, <2>4 DEF Partition
<1>4. ASSUME doing = "committing"
      PROVE  ~autoCommit /\ Done(current, position[current] + 1)'
  <2>1. current \in Partitions /\ position[current] < Len(log[current])
    BY <1>4 DEF KafkaInv, KafkaTypeOK
  <2>2. position[current] + 1 \in 1..Len(log[current])
    BY <2>1, OnePartition
  <2>3. ~autoCommit /\ Done(current, position[current] + 1)
    BY <1>4 DEF KafkaInv, Committing
  <2>4. position'[current'] + 1 = position[current] + 1 /\ current' = current
    BY <1>1
  <2> QED
    BY <1>2, <2>1, <2>2, <2>3, <2>4 DEF Done
<1>5. Committing' /\ IdsHandled'
  BY <1>1, <1>4 DEF Committing, IdsHandled, KafkaInv, kafkaOptions
<1>6. doing' # "nothing" => consumer' = "running" /\ position'[current'] < Len(log'[current'])
  <2>1. current \in Partitions /\ Len(log[current]) \in Nat /\ position[current] \in Nat
    BY OnePartition DEF KafkaInv, KafkaTypeOK
  <2> QED
    BY <1>1, <1>2, <2>1 DEF KafkaInv, KafkaTypeOK
<1>7. KafkaTypeOK'
  BY <1>1, <1>6 DEF KafkaInv, KafkaTypeOK, kafkaOptions
<1> QED
  BY <1>3, <1>5, <1>7 DEF KafkaInv
\* Every other step keeps the invariant and passes over nothing.
LEMMA WorkStep ==
    ASSUME KafkaInv,
           \/ \E p \in Partitions : Take(p) \/ AutoCommit(p)
           \/ StartKafka \/ Rejoin \/ StopKafka \/ CrashKafka
           \/ HandlerDone \/ HandlerThrows \/ CommitDone \/ CommitFails
    PROVE  KafkaInv' /\ Progress
<1> USE DEF KafkaInv
<1>1. ASSUME NEW p \in Partitions, Take(p) PROVE KafkaInv' /\ Progress
  <2> PICK n : n = position[p] + 1
    OBVIOUS
  <2>1. /\ log' = log /\ handled' = handled /\ kafkaOptions' = kafkaOptions
        /\ committed' = committed /\ ids' = ids /\ consumer' = consumer /\ current' = p
        /\ consumer = "running" /\ doing = "nothing" /\ position[p] < Len(log[p])
    BY <1>1 DEF Take
  <2>2. CASE Contains(ids, Event(p)) \/ Event(p) \notin Handled
    <3>1. Done(p, n)'
      <4>1. log'[p][n] = Event(p)
        BY <2>1 DEF Event
      <4>2. Contains(ids, Event(p)) => Event(p) \in handled
        BY DEF Contains, IdsHandled
      <4> QED
        BY <2>1, <2>2, <4>1, <4>2 DEF Done
    <3>2. CommitOrReturn(p)
      BY <1>1, <2>2 DEF Take
    <3>3. /\ \A q \in Partitions : Partition(q)' /\ Onward(q)
          /\ Committing' /\ position' \in [Partitions -> 0..LogBound] /\ moved' \subseteq Partitions
          /\ doing' \in {"nothing", "committing"}
          /\ doing' # "nothing" => position'[p] < Len(log'[p])
      BY <2>1, <3>1, <3>2, CommitOrReturnStep
    <3> QED
      BY <2>1, <3>3 DEF KafkaTypeOK, Progress, IdsHandled, kafkaOptions
  <2>3. CASE ~(Contains(ids, Event(p)) \/ Event(p) \notin Handled)
    <3>1. doing' = "handling" /\ UNCHANGED <<position, moved>>
      BY <1>1, <2>3 DEF Take
    <3>2. \A q \in Partitions : Partition(q)' /\ Onward(q)
      BY <2>1, <3>1, Elsewhere
    <3> QED
      BY <2>1, <3>1, <3>2 DEF KafkaTypeOK, Progress, IdsHandled, Committing, kafkaOptions
  <2> QED
    BY <2>2, <2>3
<1>2. ASSUME NEW p \in Partitions, AutoCommit(p) PROVE KafkaInv' /\ Progress
  <2>1. /\ UNCHANGED <<log, position, moved, kafkaOptions, consumer, current, doing, ids, handled>>
        /\ autoCommit /\ committed' = [committed EXCEPT ![p] = position[p]]
    BY <1>2 DEF AutoCommit
  <2>2. /\ Partition(p) /\ committed[p] \in Int /\ position[p] \in Nat /\ Len(log[p]) \in Nat
        /\ committed[p] >= Never /\ position[p] \in Never..LogBound
    BY OnePartition DEF Never, Partition
  <2>3. committed'[p] = position[p] /\ committed' \in [Partitions -> Never..LogBound]
    BY <2>1, <2>2 DEF KafkaTypeOK
  <2>4. /\ Base(p)' = position[p] /\ Base(p) \in Int /\ Base(p) <= position[p] /\ Sure(p)'
    BY <2>1, <2>2, <2>3 DEF Base, Sure, Never, Partition, kafkaOptions
  <2>5. \A i : Done(p, i) => Done(p, i)'
    BY <2>1 DEF Done
  <2>6. Sure(p) => \A i \in Base(p) + 1..position[p] : Done(p, i)
    BY <2>2 DEF Partition
  <2>7. Onward(p)
    BY <2>4, <2>5, <2>6 DEF Onward
  <2>8. \A i \in Base(p)' + 1..position'[p] : Done(p, i)'
    BY <2>1, <2>2, <2>4
  <2>9. Partition(p)'
    BY <2>1, <2>2, <2>3, <2>8 DEF Partition
  <2>10. ASSUME NEW q \in Partitions \ {p} PROVE Partition(q)' /\ Onward(q)
    <3>1. committed'[q] = committed[q]
      BY <2>1 DEF KafkaTypeOK
    <3> QED
      BY <2>1, <3>1, Elsewhere
  <2> QED
    BY <2>1, <2>3, <2>7, <2>9, <2>10 DEF KafkaTypeOK, Progress, IdsHandled, Committing, Done, kafkaOptions
<1>3. CASE StartKafka
  <2>1. /\ UNCHANGED <<log, committed, kafkaOptions, current, doing, ids, handled>> /\ Join
        /\ consumer = "stopped" /\ consumer' = "running" /\ moved' = {}
    BY <1>3 DEF StartKafka, Join
  <2>2. doing = "nothing"
    BY <2>1 DEF KafkaTypeOK
  <2>3. /\ \A q \in Partitions : Partition(q)' /\ Onward(q)
        /\ position' \in [Partitions -> 0..LogBound]
    BY <2>1, JoinStep
  <2> QED
    BY <2>1, <2>2, <2>3 DEF KafkaTypeOK, Progress, IdsHandled, Committing, kafkaOptions
<1>4. CASE Rejoin
  <2>1. /\ UNCHANGED <<log, committed, kafkaOptions, consumer, current, doing, ids, handled>> /\ Join
        /\ doing = "nothing" /\ moved' = {}
    BY <1>4 DEF Rejoin, Join
  <2>2. /\ \A q \in Partitions : Partition(q)' /\ Onward(q)
        /\ position' \in [Partitions -> 0..LogBound]
    BY <2>1, JoinStep
  <2> QED
    BY <2>1, <2>2 DEF KafkaTypeOK, Progress, IdsHandled, Committing, kafkaOptions
<1>5. CASE StopKafka \/ CrashKafka
  <2>1. /\ UNCHANGED <<log, committed, position, moved, kafkaOptions, current, handled>>
        /\ doing' = "nothing" /\ consumer' \in {"stopped", "halted"} /\ ids' \in {ids, <<>>}
    BY <1>5 DEF StopKafka, CrashKafka, Forget
  <2>2. \A q \in Partitions : Partition(q)' /\ Onward(q)
    BY <2>1, Elsewhere
  <2>3. <<>> \in Seq(Ids) /\ Len(<<>>) = 0 /\ IdLimit \in Nat \ {0}
    BY KafkaAssumption, EmptySeq
  <2>4. ids' \in Seq(Ids) /\ Len(ids') <= IdLimit
    <3>1. CASE ids' = ids
      BY <3>1 DEF KafkaTypeOK
    <3>2. CASE ids' = <<>>
      <4>1. 0 <= IdLimit
        BY <2>3
      <4> QED
        BY <2>3, <3>2, <4>1
    <3> QED
      BY <2>1, <3>1, <3>2
  <2>5. IdsHandled'
    <3>1. CASE ids' = ids
      BY <2>1, <3>1 DEF IdsHandled
    <3>2. CASE ids' = <<>>
      BY <3>2 DEF IdsHandled
    <3> QED
      BY <2>1, <3>1, <3>2
  <2> QED
    BY <2>1, <2>2, <2>4, <2>5 DEF KafkaTypeOK, Progress, Committing, kafkaOptions
<1>6. ASSUME doing = "handling" \/ doing = "committing"
      PROVE  /\ current \in Partitions /\ consumer = "running" /\ position[current] < Len(log[current])
             /\ position[current] \in Nat /\ position[current] + 1 \in Never..LogBound
  <2>1. current \in Partitions /\ consumer = "running" /\ position[current] < Len(log[current])
    BY <1>6 DEF KafkaTypeOK
  <2> QED
    BY <2>1, OnePartition DEF Partition, Never
<1>7. CASE HandlerDone
  <2> PICK n : n = position[current] + 1
    OBVIOUS
  <2>1. /\ log' = log /\ kafkaOptions' = kafkaOptions /\ committed' = committed
        /\ consumer' = consumer /\ current' = current /\ doing = "handling"
        /\ handled' = handled \cup {log[current][n]} /\ CommitOrReturn(current)
    BY <1>7 DEF HandlerDone, Event
  <2>2. Done(current, n)'
    BY <2>1 DEF Done
  <2>3. /\ \A q \in Partitions : Partition(q)' /\ Onward(q)
        /\ Committing' /\ position' \in [Partitions -> 0..LogBound] /\ moved' \subseteq Partitions
        /\ doing' \in {"nothing", "committing"}
        /\ doing' # "nothing" => position'[current] < Len(log'[current])
    BY <1>6, <2>1, <2>2, CommitOrReturnStep
  <2>4. ids' \in Seq(Ids) /\ Len(ids') <= IdLimit /\ handled' \subseteq Ids /\ IdsHandled'
    BY <1>7, <2>1, IdsStep DEF IdsHandled
  <2> QED
    BY <1>6, <2>1, <2>3, <2>4 DEF KafkaTypeOK, Progress, kafkaOptions
<1>8. CASE HandlerThrows
  <2>1. /\ UNCHANGED <<log, committed, position, moved, kafkaOptions, consumer, current, ids, handled>>
        /\ doing' = "nothing"
    BY <1>8 DEF HandlerThrows
  <2>2. \A q \in Partitions : Partition(q)' /\ Onward(q)
    BY <2>1, Elsewhere
  <2> QED
    BY <2>1, <2>2 DEF KafkaTypeOK, Progress, IdsHandled, Committing, kafkaOptions
<1>9. ASSUME CommitDone \/ CommitFails
      PROVE  KafkaInv' /\ Progress
  <2> PICK n : n = position[current] + 1
    OBVIOUS
  <2>1. /\ UNCHANGED <<log, kafkaOptions, consumer, current, ids, handled>>
        /\ doing = "committing" /\ doing' = "nothing"
        /\ \/ committed' = committed /\ UNCHANGED <<position, moved>>
           \/ committed' = [committed EXCEPT ![current] = n] /\ UNCHANGED <<position, moved>>
           \/ /\ committed' = [committed EXCEPT ![current] = n]
              /\ position' = [position EXCEPT ![current] = n]
              /\ moved' = moved \cup {current}
    BY <1>9 DEF CommitDone, CommitFails, Returned
  <2>2. Done(current, n)' /\ Done(current, n) /\ ~autoCommit
    BY <2>1 DEF Committing, Done
  <2>3. /\ current \in Partitions /\ committed' \in [Partitions -> Never..LogBound]
        /\ position' \in [Partitions -> 0..LogBound] /\ moved' \subseteq Partitions
    <3>1. n \in Never..LogBound /\ n \in 0..LogBound /\ current \in Partitions
      BY <1>6, <2>1 DEF Never
    <3>2. /\ committed \in [Partitions -> Never..LogBound]
          /\ position \in [Partitions -> 0..LogBound] /\ moved \subseteq Partitions
      BY DEF KafkaTypeOK
    <3>3. committed' \in [Partitions -> Never..LogBound]
      BY <2>1, <3>1, <3>2
    <3> QED
      BY <2>1, <3>1, <3>2, <3>3
  <2>4. ASSUME NEW q \in Partitions PROVE Partition(q)' /\ Onward(q)
    <3>1. CASE committed'[q] = committed[q] /\ position'[q] = position[q]
      BY <2>1, <3>1, Elsewhere
    <3>2. CASE q = current /\ committed'[q] = n /\ position'[q] = n
      BY <1>6, <2>1, <2>2, <3>2, ReturnStep
    <3>3. CASE q = current /\ committed'[q] = n /\ position'[q] = position[q]
      BY <1>6, <2>1, <2>2, <3>3, StoredStep
    <3> QED
      BY <2>1, <2>3, <3>1, <3>2, <3>3 DEF KafkaTypeOK
  <2> QED
    BY <2>1, <2>3, <2>4 DEF KafkaTypeOK, Progress, IdsHandled, Committing, kafkaOptions
<1> QED
  BY <1>1, <1>2, <1>3, <1>4, <1>5, <1>7, <1>8, <1>9
LEMMA KafkaStarts ==
    ASSUME KafkaInit
    PROVE  KafkaInv /\ KafkaPromise!Init
<1>1. /\ log = [p \in Partitions |-> <<>>] /\ committed = [p \in Partitions |-> Never]
      /\ position = [p \in Partitions |-> 0] /\ moved = {} /\ ids = <<>> /\ handled = {}
      /\ consumer = "stopped" /\ current \in Partitions /\ doing = "nothing"
      /\ fromBeginning \in BOOLEAN /\ autoCommit \in BOOLEAN
  BY DEF KafkaInit
<1>2. <<>> \in Seq(Ids) /\ Len(<<>>) = 0 /\ LogBound \in Nat /\ IdLimit \in Nat \ {0}
  BY KafkaAssumption, EmptySeq
<1>3. log \in [Partitions -> Seq(Ids)] /\ ids \in Seq(Ids) /\ Len(ids) <= IdLimit
  <2>1. Len(ids) = 0 /\ 0 <= IdLimit
    BY <1>1, <1>2
  <2> QED
    BY <1>1, <1>2, <2>1
<1>4. committed \in [Partitions -> Never..LogBound] /\ position \in [Partitions -> 0..LogBound]
  BY <1>1, <1>2 DEF Never
<1>5. KafkaTypeOK
  BY <1>1, <1>3, <1>4 DEF KafkaTypeOK
<1>6. ASSUME NEW p \in Partitions PROVE Partition(p)
  <2>1. Len(log[p]) = 0 /\ position[p] = 0 /\ committed[p] = Never
    BY <1>1, <1>2
  <2>2. Base(p) = 0
    BY <2>1 DEF Base
  <2> QED
    BY <1>2, <2>1, <2>2 DEF Partition, Never
<1>7. Committing /\ IdsHandled
  BY <1>1, <1>2 DEF Committing, IdsHandled
<1>8. Appended = {}
  BY <1>1, <1>2 DEF Appended, Offsets
<1>9. KafkaPromise!Init
  BY <1>8 DEF KafkaPromise!Init
<1> QED
  BY <1>5, <1>6, <1>7, <1>9 DEF KafkaInv

\* A step that passes over nothing is a step of the promised consumer.
LEMMA WorkImplements ==
    ASSUME KafkaInv, KafkaInv', Progress
    PROVE  KafkaPromise!Work
<1> USE DEF Progress
<1>1. Appended' = Appended
  BY DEF Appended, Offsets
<1>2. ASSUME NEW o \in Appended
      PROVE  /\ o[1] \in Partitions /\ o[2] \in Int
             /\ Base(o[1]) \in Int /\ Base(o[1])' \in Int /\ Onward(o[1])
  <2>1. o[1] \in Partitions /\ o[2] \in Int
    BY DEF Appended, Offsets
  <2>2. /\ committed[o[1]] \in Int /\ position[o[1]] \in Int
        /\ committed'[o[1]] \in Int /\ position'[o[1]] \in Int
    BY <2>1 DEF KafkaInv, KafkaTypeOK, Never
  <2> QED
    BY <2>1, <2>2 DEF Base
<1>3. {o \in Appended : o[2] > Base(o[1])}' \subseteq {o \in Appended : o[2] > Base(o[1])}
  BY <1>1, <1>2 DEF Onward
<1>4. {o \in Offsets : committed[o[1]] # Never \/ fromBeginning}
      \subseteq {o \in Offsets : committed[o[1]] # Never \/ fromBeginning}'
  <2>1. \A o \in Offsets : o[1] \in Partitions
    BY DEF Offsets
  <2> QED
    BY <2>1 DEF Onward, Sure, Offsets
<1>5. {o \in Appended : log[o[1]][o[2]] \in handled \/ log[o[1]][o[2]] \notin Handled}
      \subseteq {o \in Appended : log[o[1]][o[2]] \in handled \/ log[o[1]][o[2]] \notin Handled}'
  BY <1>1
<1>6. ASSUME NEW o \in Appended, o[2] > Base(o[1]), ~(o[2] > Base(o[1])'),
             committed[o[1]] # Never \/ fromBeginning
      PROVE  o \in {o1 \in Appended : log[o1[1]][o1[2]] \in handled \/ log[o1[1]][o1[2]] \notin Handled}'
  <2>1. PICK p, i : p = o[1] /\ i = o[2]
    OBVIOUS
  <2>2. i \in Base(p) + 1..Base(p)' /\ Sure(p) /\ Onward(p)
    BY <1>2, <1>6, <2>1 DEF Sure
  <2>3. Done(p, i)'
    BY <2>2 DEF Onward
  <2> QED
    BY <1>1, <2>1, <2>3 DEF Done
<1> QED
  BY <1>1, <1>3, <1>4, <1>5, <1>6 DEF KafkaPromise!Work
\* What is appended is published.
LEMMA AppendImplements ==
    ASSUME KafkaInv, NEW p \in Partitions, NEW e \in Ids, AppendTo(p, e)
    PROVE  \E o \in Offsets : KafkaPromise!Publish(o)
<1>1. PICK n : n = Len(log[p]) + 1
  OBVIOUS
<1>2. /\ Len(log[p]) \in Nat /\ Len(log'[p]) = n /\ n \in 1..LogBound
      /\ \A q \in Partitions \ {p} : log'[q] = log[q]
  BY <1>1, AppendStep, KafkaAssumption
<1>3. UNCHANGED <<committed, position, kafkaOptions, handled>>
  BY DEF AppendTo
<1>4. \A q \in Partitions : Len(log[q]) \in Nat
  BY OnePartition
<1>5. <<p, n>> \in Offsets
  BY <1>2 DEF Offsets
<1>6. Appended' = Appended \cup {<<p, n>>}
  <2>1. ASSUME NEW o \in Offsets
        PROVE  o[2] <= Len(log'[o[1]]) <=> o[2] <= Len(log[o[1]]) \/ o = <<p, n>>
    <3>1. o[1] \in Partitions /\ o[2] \in Int /\ o = <<o[1], o[2]>>
      BY DEF Offsets
    <3>2. CASE o[1] = p
      BY <1>1, <1>2, <3>1, <3>2
    <3>3. CASE o[1] # p
      BY <1>2, <3>1, <3>3
    <3> QED
      BY <3>2, <3>3
  <2> QED
    BY <1>5, <2>1 DEF Appended, Offsets
<1>7. \A q \in Partitions : Base(q)' = Base(q) /\ Base(q) \in Int /\ Base(q) <= Len(log[q])
  <2>1. ASSUME NEW q \in Partitions
        PROVE  Base(q)' = Base(q) /\ Base(q) \in Int /\ Base(q) <= Len(log[q])
    <3>1. /\ committed[q] \in Int /\ position[q] \in Nat /\ Len(log[q]) \in Nat /\ Partition(q)
      BY OnePartition
    <3> QED
      BY <1>3, <3>1 DEF Base, Partition, kafkaOptions
  <2> QED
    BY <2>1
<1>8. {o \in Appended : o[2] > Base(o[1])}' = {o \in Appended : o[2] > Base(o[1])} \cup {<<p, n>>}
  <2>1. \A o \in Appended \cup {<<p, n>>} : o[1] \in Partitions
    BY <1>5 DEF Appended, Offsets
  <2>2. n > Base(p)
    BY <1>1, <1>4, <1>7
  <2> QED
    BY <1>6, <1>7, <2>1, <2>2
<1>9. \A o \in Appended : log'[o[1]][o[2]] = log[o[1]][o[2]]
  <2>1. ASSUME NEW o \in Appended PROVE log'[o[1]][o[2]] = log[o[1]][o[2]]
    <3>1. o[1] \in Partitions /\ o[2] \in 1..Len(log[o[1]])
      BY <1>4 DEF Appended, Offsets
    <3> QED
      BY <3>1, AppendStep
  <2> QED
    BY <2>1
<1> DEFINE Served == {o \in Appended : log[o[1]][o[2]] \in handled \/ log[o[1]][o[2]] \notin Handled}
<1>10. Served' \in {Served, Served \cup {<<p, n>>}}
  BY <1>3, <1>6, <1>9
<1>11. {o \in Offsets : committed[o[1]] # Never \/ fromBeginning}'
       = {o \in Offsets : committed[o[1]] # Never \/ fromBeginning}
  BY <1>3 DEF kafkaOptions, Offsets
<1>12. KafkaPromise!Publish(<<p, n>>)
  BY <1>6, <1>8, <1>10, <1>11 DEF KafkaPromise!Publish
<1> QED
  BY <1>5, <1>12

LEMMA KafkaStep ==
    ASSUME KafkaInv, [KafkaNext]_kafkaVars
    PROVE  KafkaInv' /\ [KafkaPromise!Next]_(KafkaPromise!promiseVars)
<1>1. CASE UNCHANGED kafkaVars
  <2>1. UNCHANGED <<log, committed, position, moved, kafkaOptions, consumer, current, doing, ids, handled>>
    BY <1>1 DEF kafkaVars
  <2>2. KafkaInv'
    BY <2>1 DEF KafkaInv, KafkaTypeOK, Committing, IdsHandled, Partition, Sure, Base, Done, kafkaOptions
  <2>3. UNCHANGED KafkaPromise!promiseVars
    BY <2>1 DEF KafkaPromise!promiseVars, Appended, Base, kafkaOptions, Offsets
  <2> QED
    BY <2>2, <2>3
<1>2. ASSUME NEW p \in Partitions, NEW e \in Ids, AppendTo(p, e)
      PROVE  KafkaInv' /\ KafkaPromise!Next
  BY <1>2, AppendKeeps, AppendImplements DEF KafkaPromise!Next
<1>3. CASE \/ \E p \in Partitions : Take(p) \/ AutoCommit(p)
           \/ StartKafka \/ Rejoin \/ StopKafka \/ CrashKafka
           \/ HandlerDone \/ HandlerThrows \/ CommitDone \/ CommitFails
  BY <1>3, WorkStep, WorkImplements DEF KafkaPromise!Next
<1> QED
  BY <1>1, <1>2, <1>3 DEF KafkaNext

\* The consumer of Kafka never goes past a message that was not handled,
\* whatever fails or restarts, once its partition has a committed offset or
\* if it reads from the beginning (handleMessage, lines 180-253).
THEOREM KafkaImplements == KafkaSpec => KafkaKeepsEvents
  BY KafkaStarts, KafkaStep, PTL DEF KafkaSpec, KafkaKeepsEvents, KafkaPromise!Spec

(***************************************************************************)
(* SqsConsumer                                                             *)
(***************************************************************************)
InHand(l)    == stage[l] \in {"handling", "deleting"}
WillTrack(l) == stage[l] = "handling" \/ l \in track

\* What a loop has received was sent.
WasSent(f, q) == \A l \in Loops : \A i \in 1..Len(q[l]) : f[q[l][i]] # "out"

\* A loop deletes only what is handled or needs no handler, and remembers
\* only what a handler has succeeded with.
Hand(l) ==
    /\ InHand(l) => Current(l) # Broken
    /\ stage[l] = "deleting" => Current(l) \in done \/ Current(l) \notin Subscribed
    /\ l \in track => stage[l] = "deleting" /\ Current(l) \in done

KnownDone == \A i \in 1..Len(known) : known[i] \in done

\* Of two loops whose handlers run, or have run, for one event, those whose
\* handler still runs are marked.
Marked(k, l) ==
    k # l /\ stage[l] = "handling" /\ WillTrack(k) /\ Current(k) = Current(l) => l \in twice

SqsInv ==
    /\ SqsTypeOK /\ WasSent(place, batch)
    /\ \A l \in Loops : Hand(l)
    /\ KnownDone /\ done \subseteq Sent
    /\ \A k, l \in Loops : Marked(k, l)
    /\ SqsSecondRun

\* Every step but SendTo: what leaves the queue is dead, handled, not
\* subscribed to, or broken.
Passes ==
    /\ body' = body /\ done \subseteq done'
    /\ \A c \in Copies :
        /\ place'[c] = "out" <=> place[c] = "out"
        /\ place[c] = "dead" => place'[c] = "dead"
        /\ place'[c] \in {"visible", "hidden"} => place[c] \in {"visible", "hidden"}
        /\ (place[c] \in {"visible", "hidden"} /\ place'[c] = "gone")
              => body[c] \in done' \cup {Broken} \/ body[c] \notin Subscribed

LEMMA SentKept ==
    ASSUME SqsTypeOK, SqsTypeOK', Passes
    PROVE  Sent' = Sent
BY DEF SqsTypeOK, Passes, Sent, InPlace

LEMMA SqsWorks ==
    ASSUME SqsInv, SqsInv', Passes
    PROVE  SqsPromise!Work
<1>1. SqsTypeOK /\ SqsTypeOK' /\ Sent' = Sent /\ done' \subseteq Sent /\ done \subseteq Sent
  BY SentKept DEF SqsInv
<1>2. \A c \in Copies : place[c] \in {"out", "visible", "hidden", "dead", "gone"}
                        /\ place'[c] \in {"out", "visible", "hidden", "dead", "gone"}
  BY <1>1 DEF SqsTypeOK
<1>3. /\ InPlace({"dead"}) \subseteq InPlace({"dead"})'
      /\ InPlace({"visible", "hidden"})' \subseteq InPlace({"visible", "hidden"})
  BY DEF InPlace, Passes
<1>4. InPlace({"dead"})' \subseteq Sent
  <2>1. InPlace({"dead"})' \subseteq Sent'
    BY DEF InPlace, Sent
  <2> QED
    BY <1>1, <2>1
<1>5. ASSUME NEW e \in InPlace({"visible", "hidden"}), e \notin InPlace({"visible", "hidden"})'
      PROVE  e \in done' \cup (Sent' \ Subscribed) \cup InPlace({"dead"})'
  <2>1. PICK c \in Copies : place[c] \in {"visible", "hidden"} /\ body[c] = e /\ e # Broken
    BY DEF InPlace
  <2>2. e \in Sent
    BY <2>1 DEF InPlace, Sent
  <2>3. place'[c] \in {"dead", "gone"} /\ body'[c] = e
    BY <1>2, <1>5, <2>1 DEF InPlace, Passes
  <2>4. CASE place'[c] = "dead"
    BY <2>1, <2>3, <2>4 DEF InPlace
  <2>5. CASE place'[c] = "gone"
    BY <1>1, <2>1, <2>2, <2>5 DEF Passes
  <2> QED
    BY <2>3, <2>4, <2>5
<1> QED
  BY <1>1, <1>3, <1>4, <1>5 DEF SqsPromise!Work, Passes

\* A message of a type is published when it is sent.
LEMMA SendPublishes ==
    ASSUME SqsInv, NEW c \in Copies, SendTo(c)
    PROVE  UNCHANGED SqsPromise!promiseVars \/ \E e \in Types : SqsPromise!Publish(e)
<1>1. /\ place[c] = "out" /\ place'[c] = "visible" /\ \A d \in Copies \ {c} : place'[d] = place[d]
      /\ body' = body /\ done' = done
  BY DEF SqsInv, SqsTypeOK, SendTo, Moves
<1>3. InPlace({"dead"})' = InPlace({"dead"})
  BY <1>1 DEF InPlace
<1>4. CASE body[c] = Broken
  <2>1. Sent' = Sent /\ InPlace({"visible", "hidden"})' = InPlace({"visible", "hidden"})
    BY <1>1, <1>4 DEF Sent, InPlace
  <2> QED
    BY <1>1, <1>3, <2>1 DEF SqsPromise!promiseVars
<1>5. CASE body[c] # Broken
  <2>1. body[c] \in Types
    BY <1>5 DEF SqsInv, SqsTypeOK
  <2>2. /\ Sent' = Sent \cup {body[c]}
        /\ InPlace({"visible", "hidden"})' = InPlace({"visible", "hidden"}) \cup {body[c]}
    BY <1>1, <1>5 DEF Sent, InPlace
  <2> DEFINE Served == done \cup (Sent \ Subscribed)
  <2>3. Served' \in {Served, Served \cup {body[c]}}
    BY <1>1, <2>2
  <2>4. SqsPromise!Publish(body[c])
    BY <1>1, <1>3, <2>2, <2>3 DEF SqsPromise!Publish
  <2> QED
    BY <2>1, <2>4
<1> QED
  BY <1>4, <1>5

\* The ranges of a state of the queue.
LEMMA SqsRanges ==
    ASSUME SqsInv
    PROVE  /\ place \in [Copies -> {"out", "visible", "hidden", "dead", "gone"}]
           /\ stage \in [Loops -> {"off", "timer", "receiving", "handling", "deleting"}]
           /\ running \in BOOLEAN /\ pollTimer \in Loops \cup {NoLoop}
  BY DEF SqsInv, SqsTypeOK

\* A nonempty batch has a first message and a rest.
LEMMA BatchParts ==
    ASSUME SqsTypeOK, NEW b \in Seq(Copies), b # <<>>
    PROVE  /\ Len(b) \in Nat /\ Len(b) >= 1 /\ Head(b) = b[1] /\ Head(b) \in Copies
           /\ Tail(b) \in Seq(Copies) /\ Len(Tail(b)) = Len(b) - 1
           /\ \A i \in 1..Len(Tail(b)) : Tail(b)[i] = b[i + 1]
<1>1. Len(b) \in Nat /\ Len(b) >= 1
  BY EmptySeq, LenProperties
<1>2. Head(b) = b[1] /\ Tail(b) \in Seq(Copies) /\ Len(Tail(b)) = Len(b) - 1
      /\ \A i \in 1..Len(Tail(b)) : Tail(b)[i] = b[i + 1]
  BY HeadTailProperties
<1>3. b[1] \in Copies
  BY <1>1, ElementOfSeq
<1> QED
  BY <1>1, <1>2, <1>3

\* The current message of a loop.
LEMMA CurrentSent ==
    ASSUME SqsInv, NEW l \in Loops, InHand(l)
    PROVE  /\ batch[l] \in Seq(Copies) /\ batch[l] # <<>> /\ Head(batch[l]) \in Copies
           /\ place[Head(batch[l])] \in {"visible", "hidden", "dead", "gone"}
           /\ Current(l) \in Types /\ Current(l) \in Sent
<1>1. batch[l] \in Seq(Copies) /\ batch[l] # <<>> /\ Current(l) # Broken
  BY DEF SqsInv, SqsTypeOK, InHand, Hand
<1>2. Head(batch[l]) = batch[l][1] /\ Head(batch[l]) \in Copies /\ 1 \in 1..Len(batch[l])
  BY <1>1, BatchParts DEF SqsInv
<1>3. place[Head(batch[l])] # "out"
  BY <1>2 DEF SqsInv, WasSent
<1>4. place[Head(batch[l])] \in {"visible", "hidden", "dead", "gone"}
  BY <1>2, <1>3 DEF SqsInv, SqsTypeOK
<1>5. Current(l) \in Types
  BY <1>1, <1>2 DEF SqsInv, SqsTypeOK, Current
<1> QED
  BY <1>1, <1>2, <1>4, <1>5 DEF Sent, InPlace, Current

\* What a loop that goes on leaves of the others, and where it is then.
LEMMA ContinueCases ==
    ASSUME SqsTypeOK, NEW l \in Loops, NEW b \in Seq(Copies), NEW k, Continue(l, b, k), body' = body
    PROVE  /\ \A m \in Loops \ {l} : /\ stage'[m] = stage[m] /\ batch'[m] = batch[m]
                                     /\ Current(m)' = Current(m) /\ (m \in twice => m \in twice')
           /\ stage' \in [Loops -> {"off", "timer", "receiving", "handling", "deleting"}]
           /\ batch' \in [Loops -> Seq(Copies)] /\ batch'[l] \in {<<>>, b}
           /\ pollTimer' \in Loops \cup {NoLoop} /\ twice' \subseteq Loops
           /\ \/ stage'[l] \in {"off", "timer"} /\ batch'[l] = <<>>
              \/ /\ batch'[l] = b /\ b # <<>> /\ Current(l)' = body[Head(b)] /\ Current(l)' # Broken
                 /\ \/ /\ stage'[l] = "deleting"
                       /\ Contains(k, Current(l)') \/ Current(l)' \notin Subscribed
                    \/ /\ stage'[l] = "handling" /\ ~Contains(k, Current(l)')
                       /\ \A m \in Loops \ {l} :
                             InHand(m) /\ Current(m) = Current(l)' => l \in twice' /\ m \in twice'
<1> DEFINE over == b = <<>> \/ body[Head(b)] = Broken
           e    == body[Head(b)]
           skip == Contains(k, e) \/ e \notin Subscribed
<1>1. <<>> \in Seq(Copies) /\ stage \in [Loops -> {"off", "timer", "receiving", "handling", "deleting"}]
      /\ batch \in [Loops -> Seq(Copies)] /\ pollTimer \in Loops \cup {NoLoop} /\ twice \subseteq Loops
  BY EmptySeq DEF SqsTypeOK
<1>2. OnIt(e) \subseteq Loops
  BY DEF OnIt
<1>3. CASE over
  <2>1. /\ stage' = [stage EXCEPT ![l] = IF running THEN "timer" ELSE "off"]
        /\ pollTimer' = IF running THEN l ELSE pollTimer
        /\ batch' = [batch EXCEPT ![l] = <<>>] /\ twice' = twice \ {l}
    BY <1>3 DEF Continue
  <2> QED
    BY <1>1, <2>1 DEF Current
<1>4. CASE ~over
  <2>1. /\ stage' = [stage EXCEPT ![l] = IF skip THEN "deleting" ELSE "handling"]
        /\ batch' = [batch EXCEPT ![l] = b] /\ pollTimer' = pollTimer
        /\ twice' = IF skip \/ OnIt(e) \ {l} = {} THEN twice \ {l} ELSE twice \cup OnIt(e) \cup {l}
    BY <1>4 DEF Continue
  <2>2. stage'[l] = (IF skip THEN "deleting" ELSE "handling") /\ batch'[l] = b
        /\ \A m \in Loops \ {l} : stage'[m] = stage[m] /\ batch'[m] = batch[m]
    BY <1>1, <2>1
  <2>3. Current(l)' = e /\ \A m \in Loops \ {l} : Current(m)' = Current(m)
    BY <2>2 DEF Current
  <2>4. twice' \subseteq Loops /\ \A m \in Loops \ {l} : m \in twice => m \in twice'
    BY <1>1, <1>2, <2>1
  <2>5. ASSUME ~skip, NEW m \in Loops \ {l}, InHand(m), Current(m) = e
        PROVE  l \in twice' /\ m \in twice'
    <3>1. m \in OnIt(e) \ {l}
      BY <2>5 DEF OnIt, InHand
    <3> QED
      BY <2>1, <2>5, <3>1
  <2> HIDE DEF skip
  <2>6. CASE skip
    BY <1>1, <1>4, <2>1, <2>2, <2>3, <2>4, <2>6 DEF skip
  <2>7. CASE ~skip
    <3>1. ~Contains(k, e) /\ stage'[l] = "handling"
      BY <2>2, <2>7 DEF skip
    <3> QED
      BY <1>1, <1>4, <2>1, <2>2, <2>3, <2>4, <2>5, <2>7, <3>1
  <2> QED
    BY <2>6, <2>7
<1> QED
  BY <1>3, <1>4

\* A loop that goes on keeps the invariant, if what it goes on with was sent,
\* and only the event it worked on is new to the ids.
LEMMA ContinueKeeps ==
    ASSUME SqsInv, NEW l \in Loops, NEW b \in Seq(Copies), Continue(l, b, known'),
           UNCHANGED <<body, running, done>>, track' = track \ {l},
           place' \in [Copies -> {"out", "visible", "hidden", "dead", "gone"}],
           \A c \in Copies : place'[c] = "out" => place[c] = "out",
           \A i \in 1..Len(b) : place'[b[i]] # "out",
           known' \in Seq(Types), Len(known') <= IdCap, done \subseteq Sent',
           \A i \in 1..Len(known') :
               \/ \E j \in 1..Len(known) : known'[i] = known[j]
               \/ l \in track /\ known'[i] = Current(l)
    PROVE  SqsInv'
<1>1. /\ \A m \in Loops \ {l} : /\ stage'[m] = stage[m] /\ batch'[m] = batch[m]
                                /\ Current(m)' = Current(m) /\ (m \in twice => m \in twice')
      /\ stage' \in [Loops -> {"off", "timer", "receiving", "handling", "deleting"}]
      /\ batch' \in [Loops -> Seq(Copies)] /\ batch'[l] \in {<<>>, b}
      /\ pollTimer' \in Loops \cup {NoLoop} /\ twice' \subseteq Loops
  BY ContinueCases DEF SqsInv
<1>2. \/ stage'[l] \in {"off", "timer"} /\ batch'[l] = <<>>
      \/ /\ batch'[l] = b /\ b # <<>> /\ Current(l)' = body[Head(b)] /\ Current(l)' # Broken
         /\ \/ /\ stage'[l] = "deleting"
               /\ Contains(known', Current(l)') \/ Current(l)' \notin Subscribed
            \/ /\ stage'[l] = "handling" /\ ~Contains(known', Current(l)')
               /\ \A m \in Loops \ {l} :
                     InHand(m) /\ Current(m) = Current(l)' => l \in twice' /\ m \in twice'
  BY ContinueCases DEF SqsInv
<1>3. l \notin track' /\ \A m \in Loops \ {l} : m \in track' <=> m \in track
  OBVIOUS
<1>4. SqsTypeOK'
  <2>1. /\ body' \in [Copies -> Types \cup {Broken}] /\ running' \in BOOLEAN
        /\ done' \subseteq Types /\ track' \subseteq Loops
    BY DEF SqsInv, SqsTypeOK
  <2>2. \A m \in Loops \ {l} : stage'[m] \in {"handling", "deleting"} <=> batch'[m] # <<>>
    BY <1>1 DEF SqsInv, SqsTypeOK
  <2>3. stage'[l] \in {"handling", "deleting"} <=> batch'[l] # <<>>
    BY <1>2
  <2> QED
    BY <1>1, <2>1, <2>2, <2>3 DEF SqsTypeOK
<1>5. WasSent(place, batch)'
  <2>1. ASSUME NEW m \in Loops, m # l, NEW i \in 1..Len(batch'[m]) PROVE place'[batch'[m][i]] # "out"
    <3>1. batch'[m] = batch[m] /\ i \in 1..Len(batch[m]) /\ batch[m] \in Seq(Copies)
      BY <1>1, <2>1 DEF SqsInv, SqsTypeOK
    <3>2. batch[m][i] \in Copies /\ place[batch[m][i]] # "out"
      BY <3>1, ElementOfSeq DEF SqsInv, WasSent
    <3> QED
      BY <3>1, <3>2
  <2>2. ASSUME NEW i \in 1..Len(batch'[l]) PROVE place'[batch'[l][i]] # "out"
    <3>1. CASE batch'[l] = b
      BY <3>1, <2>2
    <3>2. CASE batch'[l] = <<>>
      <4>1. Len(batch'[l]) = 0
        BY <3>2, EmptySeq
      <4> QED
        BY <2>2, <4>1
    <3> QED
      BY <1>1, <3>1, <3>2
  <2> QED
    BY <2>1, <2>2 DEF WasSent
<1>6. KnownDone'
  <2>1. ASSUME NEW i \in 1..Len(known') PROVE known'[i] \in done'
    <3>1. CASE \E j \in 1..Len(known) : known'[i] = known[j]
      BY <3>1 DEF SqsInv, KnownDone
    <3>2. CASE l \in track /\ known'[i] = Current(l)
      BY <3>2 DEF SqsInv, Hand
    <3> QED
      BY <2>1, <3>1, <3>2
  <2> QED
    BY <2>1 DEF KnownDone
<1>7. ASSUME NEW m \in Loops PROVE Hand(m)'
  <2>1. CASE m = l
    <3>1. Contains(known', Current(l)') => Current(l)' \in done'
      BY <1>6 DEF Contains, KnownDone
    <3> QED
      BY <1>2, <1>3, <2>1, <3>1 DEF Hand, InHand
  <2>2. CASE m # l
    <3>1. Hand(m) /\ stage'[m] = stage[m] /\ Current(m)' = Current(m) /\ (m \in track' => m \in track)
      BY <1>1, <2>2 DEF SqsInv
    <3> QED
      BY <3>1 DEF Hand, InHand
  <2> QED
    BY <2>1, <2>2
<1>8. ASSUME NEW m \in Loops, m # l, WillTrack(m)' PROVE InHand(m) /\ WillTrack(m)
  <2>1. Hand(m) /\ stage'[m] = stage[m] /\ (m \in track' => m \in track)
    BY <1>1, <1>8 DEF SqsInv
  <2> QED
    BY <1>8, <2>1 DEF WillTrack, InHand, Hand
<1>9. ASSUME NEW k \in Loops, NEW m \in Loops PROVE Marked(k, m)'
  <2> SUFFICES ASSUME k # m, stage'[m] = "handling", WillTrack(k)', Current(k)' = Current(m)'
               PROVE  m \in twice'
    BY DEF Marked
  <2>1. CASE k # l /\ m # l
    <3>1. Marked(k, m) /\ WillTrack(k) /\ stage[m] = "handling" /\ Current(k) = Current(m)
      BY <1>1, <1>8, <2>1 DEF SqsInv
    <3> QED
      BY <1>1, <2>1, <3>1 DEF Marked
  <2>2. CASE m = l
    <3>1. InHand(k) /\ Current(k) = Current(l)'
      BY <1>1, <1>8, <2>2
    <3> QED
      BY <1>2, <2>2, <3>1
  <2>3. CASE k = l
    <3>1. stage'[l] = "handling"
      BY <1>3, <2>3 DEF WillTrack
    <3>2. InHand(m) /\ Current(m) = Current(l)'
      BY <1>1, <2>3 DEF InHand
    <3> QED
      BY <1>2, <2>3, <3>1, <3>2
  <2> QED
    BY <2>1, <2>2, <2>3
<1>10. SqsSecondRun'
  <2> SUFFICES ASSUME NEW m \in Loops, stage'[m] = "handling", Contains(known', Current(m)')
               PROVE  m \in twice'
    BY DEF SqsSecondRun
  <2>1. m # l
    BY <1>2
  <2>2. stage[m] = "handling" /\ Current(m)' = Current(m) /\ (m \in twice => m \in twice')
    BY <1>1, <2>1
  <2>3. PICK i \in 1..Len(known') : known'[i] = Current(m)
    BY <2>2 DEF Contains
  <2>4. CASE \E j \in 1..Len(known) : known'[i] = known[j]
    <3>1. Contains(known, Current(m))
      BY <2>3, <2>4 DEF Contains
    <3> QED
      BY <2>2, <3>1 DEF SqsInv, SqsSecondRun
  <2>5. CASE l \in track /\ known'[i] = Current(l)
    <3>1. Marked(l, m)
      BY DEF SqsInv
    <3> QED
      BY <2>1, <2>2, <2>3, <2>5, <3>1 DEF Marked, WillTrack
  <2> QED
    BY <2>4, <2>5
<1> QED
  BY <1>4, <1>5, <1>6, <1>7, <1>9, <1>10 DEF SqsInv

\* Ids are remembered up to the limit.
LEMMA TrackedStep ==
    ASSUME SqsTypeOK, NEW e \in Types
    PROVE  /\ Tracked(e) \in Seq(Types) /\ Len(Tracked(e)) <= IdCap
           /\ \A i \in 1..Len(Tracked(e)) :
                 Tracked(e)[i] = e \/ \E j \in 1..Len(known) : Tracked(e)[i] = known[j]
<1> DEFINE kept == IF Len(known) >= IdCap THEN Tail(known) ELSE known
<1>1. known \in Seq(Types) /\ Len(known) \in Nat /\ Len(known) <= IdCap /\ IdCap \in Nat \ {0}
  BY SqsAssumption, LenProperties DEF SqsTypeOK
<1>2. /\ kept \in Seq(Types) /\ Len(kept) \in Nat /\ Len(kept) < IdCap
      /\ \A i \in 1..Len(kept) : \E j \in 1..Len(known) : kept[i] = known[j]
  <2>1. CASE Len(known) >= IdCap
    <3>1. known # <<>>
      BY <1>1, <2>1, EmptySeq
    <3>2. /\ kept \in Seq(Types) /\ Len(kept) = Len(known) - 1
          /\ \A i \in 1..Len(kept) : kept[i] = known[i + 1]
      BY <1>1, <2>1, <3>1, HeadTailProperties
    <3>3. \A i \in 1..Len(kept) : i + 1 \in 1..Len(known)
      BY <1>1, <3>2
    <3> QED
      BY <1>1, <3>2, <3>3
  <2>2. CASE ~(Len(known) >= IdCap)
    BY <1>1, <2>2
  <2> QED
    BY <2>1, <2>2
<1>3. Tracked(e) = IF Contains(kept, e) THEN kept ELSE Append(kept, e)
  BY DEF Tracked
<1> HIDE DEF kept
<1>4. /\ Append(kept, e) \in Seq(Types) /\ Len(Append(kept, e)) = Len(kept) + 1
      /\ \A i \in 1..Len(kept) : Append(kept, e)[i] = kept[i]
      /\ Append(kept, e)[Len(kept) + 1] = e
  BY <1>2, AppendProperties
<1>5. CASE Contains(kept, e)
  <2>1. Tracked(e) = kept
    BY <1>3, <1>5
  <2> QED
    BY <1>1, <1>2, <2>1
<1>6. CASE ~Contains(kept, e)
  <2>1. Tracked(e) = Append(kept, e)
    BY <1>3, <1>6
  <2>2. ASSUME NEW i \in 1..Len(kept) + 1
        PROVE  Append(kept, e)[i] = e \/ \E j \in 1..Len(known) : Append(kept, e)[i] = known[j]
    <3>1. i = Len(kept) + 1 \/ i \in 1..Len(kept)
      BY <1>2
    <3> QED
      BY <1>2, <1>4, <3>1
  <2>3. Len(kept) + 1 <= IdCap
    BY <1>1, <1>2
  <2> QED
    BY <1>4, <2>1, <2>2, <2>3
<1> QED
  BY <1>5, <1>6

\* A step of the queue.
LEMMA MoveKeeps ==
    ASSUME SqsInv, NEW c \in Copies, SendTo(c) \/ Reappear(c) \/ Redrive(c)
    PROVE  SqsInv' /\ (Reappear(c) \/ Redrive(c) => Passes)
<1>1. /\ UNCHANGED <<body, stage, batch, track, twice, running, pollTimer, known, done>>
      /\ \A d \in Copies \ {c} : place'[d] = place[d]
      /\ place' \in [Copies -> {"out", "visible", "hidden", "dead", "gone"}] /\ place'[c] # "out"
      /\ Reappear(c) \/ Redrive(c) => /\ place[c] \in {"visible", "hidden"}
                                     /\ place'[c] \in {"visible", "dead"}
  BY DEF SqsInv, SqsTypeOK, SendTo, Reappear, Redrive, Moves
<1>2. SqsTypeOK'
  BY <1>1 DEF SqsInv, SqsTypeOK
<1>3. Sent \subseteq Sent'
  BY <1>1 DEF Sent, InPlace, SqsInv, SqsTypeOK
<1>4. WasSent(place, batch)'
  <2>1. ASSUME NEW l \in Loops, NEW i \in 1..Len(batch[l]) PROVE place'[batch[l][i]] # "out"
    <3>1. batch[l][i] \in Copies /\ place[batch[l][i]] # "out"
      BY ElementOfSeq DEF SqsInv, SqsTypeOK, WasSent
    <3> QED
      BY <1>1, <3>1
  <2> QED
    BY <1>1, <2>1 DEF WasSent
<1>5. \A l \in Loops : Current(l)' = Current(l)
  BY <1>1 DEF Current
<1>6. /\ \A l \in Loops : Hand(l)'
      /\ \A k, l \in Loops : Marked(k, l)'
      /\ SqsSecondRun' /\ KnownDone' /\ done' \subseteq Sent'
  BY <1>1, <1>3, <1>5 DEF SqsInv, Hand, Marked, SqsSecondRun, KnownDone, InHand, WillTrack
<1> QED
  BY <1>1, <1>2, <1>4, <1>6 DEF SqsInv, Passes

\* A step that only starts, stops or goes on with a loop between its polls.
LEMMA BetweenPollsKeeps ==
    ASSUME SqsInv, UNCHANGED <<body, place, batch, track, twice, known, done>>,
           stage' \in [Loops -> {"off", "timer", "receiving", "handling", "deleting"}],
           running' \in BOOLEAN, pollTimer' \in Loops \cup {NoLoop},
           \A l \in Loops : stage'[l] = stage[l] \/ (~InHand(l) /\ ~InHand(l)')
    PROVE  SqsInv' /\ Passes
<1>1. /\ \A l \in Loops : InHand(l)' <=> InHand(l)
      /\ \A l \in Loops : stage'[l] = "handling" <=> stage[l] = "handling"
      /\ \A l \in Loops : stage'[l] = "deleting" <=> stage[l] = "deleting"
  BY DEF InHand
<1>2. \A l \in Loops : Current(l)' = Current(l)
  BY DEF Current
<1>3. SqsTypeOK'
  BY <1>1 DEF SqsInv, SqsTypeOK, InHand
<1>4. /\ \A l \in Loops : Hand(l)'
      /\ \A k, l \in Loops : Marked(k, l)'
      /\ SqsSecondRun'
  BY <1>1, <1>2 DEF SqsInv, Hand, Marked, WillTrack, SqsSecondRun
<1>5. WasSent(place, batch)' /\ KnownDone' /\ (done \subseteq Sent)'
  BY DEF SqsInv, WasSent, KnownDone, Sent, InPlace
<1> QED
  BY <1>3, <1>4, <1>5 DEF SqsInv, Passes

\* A crash forgets what the process knew.
LEMMA CrashKeeps ==
    ASSUME SqsInv, CrashSqs
    PROVE  SqsInv' /\ Passes
<1>1. /\ UNCHANGED <<body, place, done>> /\ track' = {} /\ twice' = {}
      /\ running' = FALSE /\ pollTimer' = NoLoop /\ known' = <<>>
      /\ stage' = [l \in Loops |-> "off"] /\ batch' = [l \in Loops |-> <<>>]
  BY DEF CrashSqs
<1>2. /\ <<>> \in Seq(Types) /\ <<>> \in Seq(Copies) /\ Len(<<>>) = 0 /\ IdCap \in Nat \ {0}
  BY EmptySeq, SqsAssumption
<1>3. SqsTypeOK'
  <2>1. Len(known') <= IdCap
    BY <1>1, <1>2
  <2> QED
    BY <1>1, <1>2, <2>1 DEF SqsInv, SqsTypeOK
<1>4. /\ WasSent(place, batch)' /\ KnownDone'
  BY <1>1, <1>2 DEF WasSent, KnownDone
<1>5. /\ \A l \in Loops : Hand(l)'
      /\ \A k, l \in Loops : Marked(k, l)'
      /\ SqsSecondRun' /\ (done \subseteq Sent)'
  BY <1>1 DEF SqsInv, Hand, Marked, InHand, SqsSecondRun, Sent, InPlace
<1> QED
  BY <1>1, <1>3, <1>4, <1>5 DEF SqsInv, Passes

\* A batch of visible messages is hidden.
LEMMA ReceivedKeeps ==
    ASSUME SqsInv, NEW l \in Loops, Received(l)
    PROVE  SqsInv' /\ Passes
<1>1. /\ UNCHANGED <<body, track, running, known, done>> /\ stage[l] = "receiving"
  BY DEF Received
<1>2. PICK b \in {<<>>} \cup {<<c>> : c \in {d \in Copies : place[d] = "visible"}}
                 \cup {d \in {c \in Copies : place[c] = "visible"} \X {c \in Copies : place[c] = "visible"} :
                          d[1] # d[2]} :
         /\ place' = [c \in Copies |-> IF Contains(b, c) THEN "hidden" ELSE place[c]]
         /\ Continue(l, b, known)
  BY DEF Received
<1>3. b \in Seq(Copies) /\ \A i \in 1..Len(b) : b[i] \in Copies /\ place[b[i]] = "visible"
  <2>1. CASE b = <<>>
    BY <2>1
  <2>2. CASE \E c \in Copies : place[c] = "visible" /\ b = <<c>>
    BY <2>2
  <2>3. CASE \E c, d \in Copies : place[c] = "visible" /\ place[d] = "visible" /\ b = <<c, d>>
    BY <2>3
  <2> QED
    BY <1>2, <2>1, <2>2, <2>3
<1>4. \A c \in Copies : Contains(b, c) => place[c] = "visible"
  BY <1>3 DEF Contains
<1>5. /\ place' \in [Copies -> {"out", "visible", "hidden", "dead", "gone"}]
      /\ \A c \in Copies : place'[c] = place[c] \/ (place[c] = "visible" /\ place'[c] = "hidden")
  BY <1>2, <1>4, SqsRanges
<1>6. \A i \in 1..Len(b) : place'[b[i]] # "out"
  BY <1>3, <1>5
<1>7. track' = track \ {l}
  BY <1>1 DEF SqsInv, Hand
<1>8. Sent' = Sent
  BY <1>1, <1>5 DEF Sent, InPlace, SqsInv, SqsTypeOK
<1>9. /\ known' \in Seq(Types) /\ Len(known') <= IdCap /\ done \subseteq Sent'
      /\ \A i \in 1..Len(known') : \E j \in 1..Len(known) : known'[i] = known[j]
  BY <1>1, <1>8 DEF SqsInv, SqsTypeOK
<1>10. Continue(l, b, known')
  BY <1>1, <1>2
<1>11. SqsInv'
  BY <1>1, <1>3, <1>5, <1>6, <1>7, <1>9, <1>10, ContinueKeeps
<1> QED
  BY <1>1, <1>5, <1>11 DEF Passes

\* Nothing is received, or a handler fails.
LEMMA FailKeeps ==
    ASSUME SqsInv, NEW l \in Loops, ReceiveFails(l) \/ HandleFails(l)
    PROVE  SqsInv' /\ Passes
<1>1. UNCHANGED <<body, place, track, running, known, done>> /\ stage[l] \in {"receiving", "handling"}
  BY DEF ReceiveFails, HandleFails
<1>2. track' = track \ {l}
  BY <1>1 DEF SqsInv, Hand
<1>3. /\ known' \in Seq(Types) /\ Len(known') <= IdCap /\ done \subseteq Sent'
      /\ \A i \in 1..Len(known') : \E j \in 1..Len(known) : known'[i] = known[j]
      /\ place' \in [Copies -> {"out", "visible", "hidden", "dead", "gone"}]
  BY <1>1 DEF SqsInv, SqsTypeOK, Sent, InPlace
<1>4. \E b \in Seq(Copies) : Continue(l, b, known') /\ \A i \in 1..Len(b) : place'[b[i]] # "out"
  <2>1. CASE ReceiveFails(l)
    <3>1. <<>> \in Seq(Copies) /\ Len(<<>>) = 0 /\ Continue(l, <<>>, known')
      BY <1>1, <2>1, EmptySeq DEF ReceiveFails
    <3>2. \A i \in 1..Len(<<>>) : place'[<<>>[i]] # "out"
      BY <3>1
    <3> QED
      BY <3>1, <3>2
  <2>2. CASE HandleFails(l)
    <3>1. stage[l] = "handling" /\ Continue(l, Tail(batch[l]), known')
      BY <1>1, <2>2 DEF HandleFails
    <3>2. batch[l] \in Seq(Copies) /\ batch[l] # <<>>
      BY <3>1, CurrentSent DEF InHand
    <3>3. /\ Tail(batch[l]) \in Seq(Copies) /\ Len(batch[l]) \in Nat
          /\ Len(Tail(batch[l])) = Len(batch[l]) - 1
          /\ \A i \in 1..Len(Tail(batch[l])) : Tail(batch[l])[i] = batch[l][i + 1]
      BY <3>2, BatchParts DEF SqsInv
    <3>4. \A i \in 1..Len(Tail(batch[l])) : i + 1 \in 1..Len(batch[l])
      BY <3>3
    <3>5. \A i \in 1..Len(Tail(batch[l])) : place'[Tail(batch[l])[i]] # "out"
      BY <1>1, <3>3, <3>4 DEF SqsInv, WasSent
    <3> QED
      BY <3>1, <3>3, <3>5
  <2> QED
    BY <2>1, <2>2
<1>5. SqsInv'
  BY <1>1, <1>2, <1>3, <1>4, ContinueKeeps
<1> QED
  BY <1>1, <1>5 DEF SqsInv, SqsTypeOK, Passes

\* A handler succeeds: the event is done, and will be remembered.
LEMMA SuccessKeeps ==
    ASSUME SqsInv, NEW l \in Loops, HandleSucceeds(l)
    PROVE  SqsInv' /\ Passes
<1>1. /\ stage[l] = "handling" /\ UNCHANGED <<body, place, batch, twice, running, pollTimer, known>>
      /\ done' = done \cup {Current(l)} /\ track' = track \cup {l}
      /\ stage' = [stage EXCEPT ![l] = "deleting"]
  BY DEF HandleSucceeds
<1>2. /\ stage' \in [Loops -> {"off", "timer", "receiving", "handling", "deleting"}]
      /\ stage'[l] = "deleting" /\ \A m \in Loops \ {l} : stage'[m] = stage[m]
  BY <1>1 DEF SqsInv, SqsTypeOK
<1>3. Current(l) \in Types /\ Current(l) \in Sent
  BY <1>1, CurrentSent DEF InHand
<1>4. /\ \A m \in Loops : Current(m)' = Current(m)
      /\ \A m \in Loops : InHand(m)' <=> InHand(m)
      /\ \A m \in Loops : WillTrack(m)' <=> WillTrack(m)
      /\ \A m \in Loops : stage'[m] = "handling" => stage[m] = "handling"
  BY <1>1, <1>2 DEF Current, InHand, WillTrack
<1>5. SqsTypeOK'
  BY <1>1, <1>2, <1>3 DEF SqsInv, SqsTypeOK
<1>6. \A m \in Loops : Hand(m)'
  BY <1>1, <1>2, <1>4 DEF SqsInv, Hand, InHand
<1>7. /\ \A k, m \in Loops : Marked(k, m)'
      /\ SqsSecondRun'
  BY <1>1, <1>4 DEF SqsInv, Marked, SqsSecondRun
<1>8. WasSent(place, batch)' /\ KnownDone' /\ (done \subseteq Sent)'
  BY <1>1, <1>3 DEF SqsInv, WasSent, KnownDone, Sent, InPlace
<1> QED
  BY <1>1, <1>5, <1>6, <1>7, <1>8 DEF SqsInv, SqsTypeOK, Passes

\* A message is deleted, or not, and its event remembered.
LEMMA DeleteKeeps ==
    ASSUME SqsInv, NEW l \in Loops, DeleteReturns(l)
    PROVE  SqsInv' /\ Passes
<1> DEFINE c == Head(batch[l])
<1>1. /\ UNCHANGED <<body, running, done>> /\ stage[l] = "deleting" /\ track' = track \ {l}
      /\ place' \in {place, [place EXCEPT ![c] = IF @ = "dead" THEN @ ELSE "gone"]}
      /\ known' = IF l \in track THEN Tracked(Current(l)) ELSE known
      /\ Continue(l, Tail(batch[l]), known')
  BY DEF DeleteReturns
<1>2. /\ batch[l] \in Seq(Copies) /\ batch[l] # <<>> /\ c \in Copies
      /\ place[c] \in {"visible", "hidden", "dead", "gone"}
      /\ Current(l) \in Types /\ Current(l) = body[c]
  BY <1>1, CurrentSent DEF InHand, Current
<1>3. body[c] \in done \/ body[c] \notin Subscribed
  BY <1>1, <1>2 DEF SqsInv, Hand
<1>4. /\ place' \in [Copies -> {"out", "visible", "hidden", "dead", "gone"}]
      /\ \A d \in Copies : \/ place'[d] = place[d]
                           \/ d = c /\ place[d] # "out" /\ place[d] # "dead" /\ place'[d] = "gone"
  BY <1>1, <1>2, SqsRanges
<1>5. Passes
  BY <1>1, <1>3, <1>4 DEF Passes
<1>6. Sent' = Sent
  BY <1>1, <1>4 DEF Sent, InPlace, SqsInv, SqsTypeOK
<1>7. /\ known' \in Seq(Types) /\ Len(known') <= IdCap
      /\ \A i \in 1..Len(known') :
            \/ \E j \in 1..Len(known) : known'[i] = known[j]
            \/ l \in track /\ known'[i] = Current(l)
  <2>1. CASE l \in track
    BY <1>1, <1>2, <2>1, TrackedStep DEF SqsInv
  <2>2. CASE l \notin track
    BY <1>1, <2>2 DEF SqsInv, SqsTypeOK
  <2> QED
    BY <2>1, <2>2
<1>8. /\ Tail(batch[l]) \in Seq(Copies) /\ Len(batch[l]) \in Nat
      /\ Len(Tail(batch[l])) = Len(batch[l]) - 1
      /\ \A i \in 1..Len(Tail(batch[l])) : Tail(batch[l])[i] = batch[l][i + 1]
  BY <1>2, BatchParts DEF SqsInv
<1>9. \A i \in 1..Len(Tail(batch[l])) : place'[Tail(batch[l])[i]] # "out"
  <2>1. ASSUME NEW i \in 1..Len(Tail(batch[l])) PROVE place'[Tail(batch[l])[i]] # "out"
    <3>1. i + 1 \in 1..Len(batch[l])
      BY <1>8
    <3>2. batch[l][i + 1] \in Copies /\ place[batch[l][i + 1]] # "out"
      BY <1>2, <3>1, ElementOfSeq DEF SqsInv, WasSent
    <3> QED
      BY <1>4, <1>8, <3>2
  <2> QED
    BY <2>1
<1>10. done \subseteq Sent' /\ \A d \in Copies : place'[d] = "out" => place[d] = "out"
  BY <1>4, <1>6 DEF SqsInv
<1>11. SqsInv'
  BY <1>1, <1>4, <1>7, <1>8, <1>9, <1>10, ContinueKeeps
<1> QED
  BY <1>5, <1>11

LEMMA SqsStarts == SqsInit => SqsInv /\ SqsPromise!Init
<1> SUFFICES ASSUME SqsInit PROVE SqsInv /\ SqsPromise!Init
  OBVIOUS
<1>1. /\ body \in [Copies -> Types \cup {Broken}] /\ place = [c \in Copies |-> "out"]
      /\ stage = [l \in Loops |-> "off"] /\ batch = [l \in Loops |-> <<>>]
      /\ track = {} /\ twice = {} /\ running = FALSE /\ pollTimer = NoLoop
      /\ known = <<>> /\ done = {}
  BY DEF SqsInit
<1>2. /\ <<>> \in Seq(Types) /\ <<>> \in Seq(Copies) /\ Len(<<>>) = 0 /\ IdCap \in Nat \ {0}
  BY EmptySeq, SqsAssumption
<1>3. Len(known) <= IdCap
  BY <1>1, <1>2
<1>4. SqsTypeOK
  BY <1>1, <1>2, <1>3 DEF SqsTypeOK
<1>5. /\ WasSent(place, batch) /\ KnownDone /\ SqsSecondRun /\ done \subseteq Sent
      /\ \A l \in Loops : Hand(l)
      /\ \A k, l \in Loops : Marked(k, l)
  BY <1>1, <1>2 DEF WasSent, KnownDone, SqsSecondRun, Hand, InHand, Marked
<1>6. Sent = {} /\ InPlace({"visible", "hidden"}) = {} /\ InPlace({"dead"}) = {}
  BY <1>1 DEF Sent, InPlace
<1> QED
  BY <1>1, <1>4, <1>5, <1>6 DEF SqsInv, SqsPromise!Init

LEMMA SqsStep ==
    ASSUME SqsInv, [SqsNext]_sqsVars
    PROVE  SqsInv' /\ [SqsPromise!Next]_(SqsPromise!promiseVars)
<1>1. CASE UNCHANGED sqsVars
  <2>1. UNCHANGED <<body, place, stage, batch, track, twice, running, pollTimer, known, done>>
    BY <1>1 DEF sqsVars
  <2>2. SqsInv' /\ Passes
    BY <2>1, BetweenPollsKeeps, SqsRanges
  <2> QED
    BY <2>2, SqsWorks DEF SqsPromise!Next
<1>2. ASSUME NEW c \in Copies, SendTo(c)
      PROVE  SqsInv' /\ [SqsPromise!Next]_(SqsPromise!promiseVars)
  BY <1>2, MoveKeeps, SendPublishes DEF SqsPromise!Next
<1>3. ASSUME NEW c \in Copies, Reappear(c) \/ Redrive(c) PROVE SqsInv' /\ Passes
  BY <1>3, MoveKeeps
<1>4. CASE StartSqs
  <2>1. PICK l \in Loops : stage[l] = "off" /\ stage' = [stage EXCEPT ![l] = "receiving"]
    BY <1>4 DEF StartSqs
  <2>2. /\ UNCHANGED <<body, place, batch, track, twice, pollTimer, known, done>> /\ running' = TRUE
    BY <1>4 DEF StartSqs
  <2>3. /\ stage' \in [Loops -> {"off", "timer", "receiving", "handling", "deleting"}]
        /\ \A m \in Loops : stage'[m] = stage[m] \/ (~InHand(m) /\ ~InHand(m)')
        /\ pollTimer' \in Loops \cup {NoLoop}
    BY <2>1, <2>2, SqsRanges DEF InHand
  <2> QED
    BY <2>2, <2>3, BetweenPollsKeeps, SqsWorks DEF SqsPromise!Next
<1>5. CASE StopSqs
  <2>1. /\ UNCHANGED <<body, place, batch, track, twice, known, done>>
        /\ running' = FALSE /\ pollTimer' = NoLoop
        /\ stage' = [l \in Loops |-> IF l = pollTimer /\ stage[l] = "timer" THEN "off" ELSE stage[l]]
    BY <1>5 DEF StopSqs
  <2>2. /\ stage' \in [Loops -> {"off", "timer", "receiving", "handling", "deleting"}]
        /\ \A m \in Loops : stage'[m] = stage[m] \/ (~InHand(m) /\ ~InHand(m)')
    BY <2>1, SqsRanges DEF InHand
  <2> QED
    BY <2>1, <2>2, BetweenPollsKeeps, SqsWorks DEF SqsPromise!Next
<1>6. CASE CrashSqs
  BY <1>6, CrashKeeps, SqsWorks DEF SqsPromise!Next
<1>7. ASSUME NEW l \in Loops, LoopStep(l) PROVE SqsInv' /\ Passes
  <2>1. CASE PollAgain(l)
    <3>1. /\ UNCHANGED <<body, place, batch, track, twice, running, pollTimer, known, done>>
          /\ stage[l] = "timer"
          /\ stage' = [stage EXCEPT ![l] = IF running THEN "receiving" ELSE "off"]
      BY <2>1 DEF PollAgain
    <3>2. /\ stage' \in [Loops -> {"off", "timer", "receiving", "handling", "deleting"}]
          /\ \A m \in Loops : stage'[m] = stage[m] \/ (~InHand(m) /\ ~InHand(m)')
          /\ running' \in BOOLEAN /\ pollTimer' \in Loops \cup {NoLoop}
      BY <3>1, SqsRanges DEF InHand
    <3> QED
      BY <3>1, <3>2, BetweenPollsKeeps
  <2> QED
    BY <1>7, <2>1, ReceivedKeeps, FailKeeps, SuccessKeeps, DeleteKeeps DEF LoopStep
<1>8. Passes /\ SqsInv' => SqsPromise!Next
  BY SqsWorks DEF SqsPromise!Next
<1> QED
  BY <1>1, <1>2, <1>3, <1>4, <1>5, <1>6, <1>7, <1>8 DEF SqsNext

\* A message leaves the queue only once its event has been handled, or to the
\* dead-letter queue, whatever fails, times out, stops or crashes, and however
\* many poll loops there are (processMessage, lines 211-260).
THEOREM SqsImplements == SqsSpec => SqsKeepsEvents
  BY SqsStarts, SqsStep, PTL DEF SqsSpec, SqsKeepsEvents, SqsPromise!Spec

\* A handler runs for an event whose id is remembered only while two loops
\* work on copies of it (processMessage, lines 211-260).
THEOREM SqsRunsOnce == SqsSpec => []SqsSecondRun
<1>1. SqsInv => SqsSecondRun
  BY DEF SqsInv
<1> QED
  BY <1>1, SqsStarts, SqsStep, PTL DEF SqsSpec
=============================================================================
