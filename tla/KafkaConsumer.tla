--------------------------- MODULE KafkaConsumer ---------------------------
(***************************************************************************)
(* packages/messaging-kafka: one KafkaEventConsumer, alone in its group,   *)
(* with the partitions it reads. The client library (kafkajs) hands it one *)
(* message at a time and goes on behind the last it returned from; when it *)
(* joins the group it goes on at the committed offset, or, if there is     *)
(* none, at either end of the log (fromBeginning). An event can be         *)
(* appended more than once.                                                *)
(***************************************************************************)
EXTENDS Integers, Sequences, SequencesExt

CONSTANTS
    Ids, Handled,       \* ids of events, those of a type with a handler
    Partitions,
    LogBound,           \* bound: messages in a partition
    IdLimit             \* the limit of processedMessages (10000)

ASSUME KafkaAssumption == LogBound \in Nat /\ IdLimit \in Nat \ {0}

Never == -1             \* no offset has been committed

VARIABLES
    log,                \* events of each partition
    committed,          \* committed offset of each partition
    position,           \* offset of the next message of each partition
    moved,              \* partitions with a message returned from since joining
    fromBeginning, autoCommit,
    consumer,           \* "stopped", "running", or "halted": stop has failed
    current,            \* partition of the message in handleMessage, if any
    doing,              \* "nothing", "handling" or "committing"
    ids,                \* processedMessages, the oldest first
    handled             \* ghost: events a handler has succeeded with

kafkaOptions == <<fromBeginning, autoCommit>>
kafkaVars == <<log, committed, position, moved, kafkaOptions, consumer, current, doing, ids, handled>>

KafkaTypeOK ==
    /\ log \in [Partitions -> Seq(Ids)]
    /\ committed \in [Partitions -> Never..LogBound]
    /\ position \in [Partitions -> 0..LogBound]
    /\ moved \subseteq Partitions
    /\ fromBeginning \in BOOLEAN /\ autoCommit \in BOOLEAN
    /\ consumer \in {"stopped", "running", "halted"}
    /\ current \in Partitions
    /\ doing \in {"nothing", "handling", "committing"}
    /\ doing # "nothing" => consumer = "running" /\ position[current] < Len(log[current])
    /\ ids \in Seq(Ids) /\ Len(ids) <= IdLimit
    /\ handled \subseteq Ids

KafkaInit ==
    /\ log = [p \in Partitions |-> <<>>]
    /\ committed = [p \in Partitions |-> Never]
    /\ position = [p \in Partitions |-> 0]
    /\ moved = {}
    /\ fromBeginning \in BOOLEAN /\ autoCommit \in BOOLEAN
    /\ consumer = "stopped"
    /\ current \in Partitions /\ doing = "nothing"
    /\ ids = <<>> /\ handled = {}

\* A producer, which may repeat itself.
AppendTo(p, e) ==
    /\ Len(log[p]) < LogBound
    /\ log' = [log EXCEPT ![p] = Append(@, e)]
    /\ UNCHANGED <<committed, position, moved, kafkaOptions, consumer, current, doing, ids, handled>>

\* The client joins the group.
Join ==
    /\ position' = [p \in Partitions |-> IF committed[p] # Never THEN committed[p]
                                         ELSE IF fromBeginning THEN 0 ELSE Len(log[p])]
    /\ moved' = {}

StartKafka ==
    /\ consumer = "stopped"
    /\ consumer' = "running"
    /\ Join
    /\ UNCHANGED <<log, committed, kafkaOptions, current, doing, ids, handled>>

\* A rebalance, or the client's restart after an error.
Rejoin ==
    /\ consumer = "running" /\ doing = "nothing"
    /\ Join
    /\ UNCHANGED <<log, committed, kafkaOptions, consumer, current, doing, ids, handled>>

Forget == ids' = <<>> /\ doing' = "nothing" /\ consumer' = "stopped"

\* stop waits for handleMessage. If it throws the ids are kept, and the
\* consumer is running as far as start is concerned.
StopKafka ==
    /\ consumer # "stopped" /\ doing = "nothing"
    /\ Forget \/ (consumer' = "halted" /\ UNCHANGED <<ids, doing>>)
    /\ UNCHANGED <<log, committed, position, moved, kafkaOptions, current, handled>>

CrashKafka ==
    /\ consumer # "stopped"
    /\ Forget
    /\ UNCHANGED <<log, committed, position, moved, kafkaOptions, current, handled>>

(***************************************************************************)
(* handleMessage                                                           *)
(***************************************************************************)
Event(p) == log[p][position[p] + 1]

\* handleMessage returns: the client goes on.
Returned(p) ==
    /\ doing' = "nothing"
    /\ position' = [position EXCEPT ![p] = @ + 1]
    /\ moved' = moved \cup {p}

\* Before the return the offset is committed, unless that is the client's job.
CommitOrReturn(p) ==
    \/ autoCommit /\ Returned(p)
    \/ ~autoCommit /\ doing' = "committing" /\ UNCHANGED <<position, moved>>

Take(p) ==
    /\ consumer = "running" /\ doing = "nothing"
    /\ position[p] < Len(log[p])
    /\ current' = p
    /\ IF Contains(ids, Event(p)) \/ Event(p) \notin Handled
       THEN CommitOrReturn(p)
       ELSE doing' = "handling" /\ UNCHANGED <<position, moved>>
    /\ UNCHANGED <<log, committed, kafkaOptions, consumer, ids, handled>>

HandlerDone ==
    /\ doing = "handling"
    /\ LET e == Event(current) IN
       /\ handled' = handled \cup {e}
       /\ ids' = Append(IF Len(ids) = IdLimit THEN Tail(ids) ELSE ids, e)
    /\ CommitOrReturn(current)
    /\ UNCHANGED <<log, committed, kafkaOptions, consumer, current>>

\* Mutant: the error is not thrown again.
HandlerThrowsMutant ==
    /\ doing = "handling"
    /\ CommitOrReturn(current)
    /\ UNCHANGED <<log, committed, kafkaOptions, consumer, current, ids, handled>>
\* The error is thrown to the client, which will read the message again.
HandlerThrows ==
    /\ doing = "handling"
    /\ doing' = "nothing"
    /\ UNCHANGED <<log, committed, position, moved, kafkaOptions, consumer, current, ids, handled>>

CommitDone ==
    /\ doing = "committing"
    /\ committed' = [committed EXCEPT ![current] = position[current] + 1]
    /\ Returned(current)
    /\ UNCHANGED <<log, kafkaOptions, consumer, current, ids, handled>>

\* commitOffsets throws, whether or not the broker has stored the offset.
CommitFails ==
    /\ doing = "committing"
    /\ doing' = "nothing"
    /\ committed' \in {committed, [committed EXCEPT ![current] = position[current] + 1]}
    /\ UNCHANGED <<log, position, moved, kafkaOptions, consumer, current, ids, handled>>

\* The client commits what has been returned from.
AutoCommit(p) ==
    /\ autoCommit /\ consumer = "running" /\ p \in moved
    /\ committed' = [committed EXCEPT ![p] = position[p]]
    /\ UNCHANGED <<log, position, moved, kafkaOptions, consumer, current, doing, ids, handled>>

KafkaNext ==
    \/ \E p \in Partitions : (\E e \in Ids : AppendTo(p, e)) \/ Take(p) \/ AutoCommit(p)
    \/ StartKafka \/ Rejoin \/ StopKafka \/ CrashKafka
    \/ HandlerDone \/ HandlerThrows \/ CommitDone \/ CommitFails

KafkaSpec == KafkaInit /\ [][KafkaNext]_kafkaVars

(***************************************************************************)
(* Properties                                                              *)
(***************************************************************************)
Offsets  == Partitions \X (1..LogBound)
Appended == {o \in Offsets : o[2] <= Len(log[o[1]])}
\* What a consumer that joins now would go on with.
Base(p)  == IF committed[p] # Never THEN committed[p] ELSE IF fromBeginning THEN 0 ELSE position[p]

KafkaPromise == INSTANCE AtLeastOnce WITH
    Events    <- Offsets,
    published <- Appended,
    pending   <- {o \in Appended : o[2] > Base(o[1])},
    served    <- {o \in Appended : log[o[1]][o[2]] \in handled \/ log[o[1]][o[2]] \notin Handled},
    parked    <- {}, failed <- {},
    sure      <- {o \in Offsets : committed[o[1]] # Never \/ fromBeginning}

\* The consumer never goes past a message that was not handled, whatever
\* fails, restarts or is repeated (comments, lines 209 and 234), once its
\* partition has a committed offset or if it reads from the beginning: until
\* then a restart skips even the message whose handler has just failed.
KafkaKeepsEvents == KafkaPromise!Spec
=============================================================================
