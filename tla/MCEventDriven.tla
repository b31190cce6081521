--------------------------- MODULE MCEventDriven ---------------------------
(***************************************************************************)
(* What an event-driven service is made of: the three consumers, sagas, the *)
(* store of processes, event sourcing and request/reply. They share no     *)
(* state, so that a behaviour is one of the part chosen at its start.      *)
(***************************************************************************)
EXTENDS RabbitConsumer, KafkaConsumer, SqsConsumer, SagaTransaction, ProcessStore,
        EventSourcing, RequestReply

VARIABLE part       \* the part that takes steps

Parts == {"rabbit", "kafka", "sqs", "saga", "processes", "sourcing", "reply"}
vars  == <<rabbitVars, kafkaVars, sqsVars, sagaVars, storeVars, esVars, replyVars, part>>

\* The bodies of the queue's messages, up to their order: all equal, or the
\* first of one type and the others of subscribed types or broken.
SomeBodies ==
    \/ \A c, d \in Copies : body[c] = body[d]
    \/ /\ body[CHOOSE c \in Copies : TRUE] = CHOOSE e \in Subscribed : TRUE
       /\ \A c \in Copies : body[c] \in Subscribed \cup {Broken}

\* What a part may start with is fixed in the behaviours of the others.
Init ==
    /\ part \in Parts
    /\ RabbitInit /\ KafkaInit /\ SqsInit /\ SagaInit /\ StoreInit /\ EsInit /\ ReplyInit
    /\ part # "rabbit" => deadLetter = "off" /\ OneChannel
    /\ part # "kafka" => fromBeginning /\ autoCommit /\ current = CHOOSE p \in Partitions : TRUE
    /\ IF part = "sqs" THEN SomeBodies ELSE \A c \in Copies : body[c] = Broken
    /\ part # "reply" => \A r \in Requests : corr[r] = CHOOSE i \in CorrIds : TRUE

\* Bound: a second publication only of an event with a handler, after a given
\* one of them, and over one channel.
FewPublications ==
    \A m \in Messages : (m[2] = 2 /\ at'[m] # "out") =>
        /\ OneChannel /\ m[1] \in Wanted
        /\ at'[<<CHOOSE e \in Wanted : TRUE, 1, 0>>] # "out"

\* Bound: one message, or at most three that all have a handler.
FewAppends ==
    LET sent == {s \in Partitions \X (1..LogBound) : s[2] <= Len(log'[s[1]])} IN
    \/ Cardinality(sent) <= 1
    \/ Cardinality(sent) <= 3 /\ \A s \in sent : log'[s[1]][s[2]] \in Handled

Next ==
    /\ UNCHANGED part
    /\ part = "rabbit" \/ UNCHANGED rabbitVars
    /\ part = "kafka" \/ UNCHANGED kafkaVars
    /\ part = "sqs" \/ UNCHANGED sqsVars
    /\ part = "saga" \/ UNCHANGED sagaVars
    /\ part = "processes" \/ UNCHANGED storeVars
    /\ part = "sourcing" \/ UNCHANGED esVars
    /\ part = "reply" \/ UNCHANGED replyVars
    /\ \/ part = "rabbit" /\ RabbitNext /\ FewPublications
       \/ part = "kafka" /\ KafkaNext /\ FewAppends
       \/ part = "sqs" /\ SqsNext
       \/ part = "saga" /\ SagaNext
       \/ part = "processes" /\ StoreNext
       \/ part = "sourcing" /\ EsNext
       \/ part = "reply" /\ ReplyNext

Spec == Init /\ [][Next]_vars /\ RabbitFairness /\ SqsFairness /\ ReplyFairness

\* Every variable of the seven parts stays in its range.
TypeOK ==
    /\ part \in Parts
    /\ RabbitTypeOK /\ KafkaTypeOK /\ SqsTypeOK /\ SagaTypeOK
    /\ StoreTypeOK /\ EsTypeOK /\ ReplyTypeOK

\* With either queue, a handler runs for an event whose id is remembered only
\* if the event was being handled in another delivery when it was called.
SecondRun == RabbitSecondRun /\ SqsSecondRun

\* A queue that is consumed settles its events, a loop that polls goes on to,
\* and no request waits for ever.
EverythingSettles == RabbitSettlesEvents /\ SqsKeepsPolling /\ RequestsSettle
=============================================================================
