---------------------------- MODULE SqsConsumer ----------------------------
(***************************************************************************)
(* packages/messaging-eventbridge: one EventBridgeEventConsumer and its    *)
(* SQS queue. A poll loop receives a batch and handles it message by       *)
(* message; it ends when it finds the consumer stopped. A stop and a start *)
(* while it is suspended leave it running beside the loop of the start.    *)
(***************************************************************************)
EXTENDS Naturals, Sequences, SequencesExt

CONSTANTS
    Types, Subscribed,  \* events, those of a type with a handler
    Broken,             \* stands for a message without detail
    Copies,             \* messages that may be sent to the queue
    Loops,              \* bound: poll loops at a time
    NoLoop,             \* no timer is stored
    IdCap               \* MAX_DEDUP_SIZE

ASSUME SqsAssumption == Broken \notin Types /\ NoLoop \notin Loops /\ IdCap \in Nat \ {0}

VARIABLES
    body,       \* the event in each message
    place,      \* a message is "out", "visible", "hidden", "dead" or "gone"
    stage,      \* where each loop is suspended
    batch,      \* messages a loop has still to handle, the current one first
    track,      \* loops that remember the id after the delete
    twice,      \* ghost: loops that work on an event together with another loop
    running,
    pollTimer,  \* loop whose timer is stored
    known,      \* processedIds, the oldest first
    done        \* ghost: events a handler has succeeded with

sqsVars == <<body, place, stage, batch, track, twice, running, pollTimer, known, done>>

SqsTypeOK ==
    /\ body \in [Copies -> Types \cup {Broken}]
    /\ place \in [Copies -> {"out", "visible", "hidden", "dead", "gone"}]
    /\ stage \in [Loops -> {"off", "timer", "receiving", "handling", "deleting"}]
    /\ batch \in [Loops -> Seq(Copies)]
    /\ \A l \in Loops : stage[l] \in {"handling", "deleting"} <=> batch[l] # <<>>
    /\ track \subseteq Loops /\ twice \subseteq Loops
    /\ running \in BOOLEAN
    /\ pollTimer \in Loops \cup {NoLoop}
    /\ known \in Seq(Types) /\ Len(known) <= IdCap
    /\ done \subseteq Types

SqsInit ==
    /\ body \in [Copies -> Types \cup {Broken}]
    /\ place = [c \in Copies |-> "out"]
    /\ stage = [l \in Loops |-> "off"]
    /\ batch = [l \in Loops |-> <<>>]
    /\ track = {} /\ twice = {}
    /\ running = FALSE /\ pollTimer = NoLoop
    /\ known = <<>> /\ done = {}

(***************************************************************************)
(* The queue                                                               *)
(***************************************************************************)
Moves(c, from, to) ==
    /\ place[c] = from
    /\ place' = [place EXCEPT ![c] = to]
    /\ UNCHANGED <<body, stage, batch, track, twice, running, pollTimer, known, done>>

SendTo(c)      == Moves(c, "out", "visible")
Reappear(c)    == Moves(c, "hidden", "visible")     \* the visibility timeout is over
Redrive(c)     == Moves(c, "visible", "dead")       \* it was received too often

(***************************************************************************)
(* The loops                                                               *)
(***************************************************************************)
Current(l) == body[Head(batch[l])]
OnIt(e)    == {l \in Loops : stage[l] \in {"handling", "deleting"} /\ Current(l) = e}

\* The rest b of a batch, with the ids k remembered: processMessage up to its
\* first await, or, at the end of the batch and when a message without detail
\* makes processMessage throw, the end of poll.
Continue(l, b, k) ==
    LET over == b = <<>> \/ body[Head(b)] = Broken
        e    == body[Head(b)]
        skip == Contains(k, e) \/ e \notin Subscribed
    IN  IF over
        THEN /\ stage' = [stage EXCEPT ![l] = IF running THEN "timer" ELSE "off"]
             /\ pollTimer' = IF running THEN l ELSE pollTimer
             /\ batch' = [batch EXCEPT ![l] = <<>>]
             /\ twice' = twice \ {l}
        ELSE /\ stage' = [stage EXCEPT ![l] = IF skip THEN "deleting" ELSE "handling"]
             /\ batch' = [batch EXCEPT ![l] = b]
             /\ twice' = IF skip \/ OnIt(e) \ {l} = {} THEN twice \ {l} ELSE twice \cup OnIt(e) \cup {l}
             /\ UNCHANGED pollTimer

StartSqs ==
    /\ ~running
    /\ running' = TRUE
    /\ \E l \in Loops : stage[l] = "off" /\ stage' = [stage EXCEPT ![l] = "receiving"]
    /\ UNCHANGED <<body, place, batch, track, twice, pollTimer, known, done>>

\* stop clears the timer that was stored last.
StopSqs ==
    /\ running
    /\ running' = FALSE /\ pollTimer' = NoLoop
    /\ stage' = [l \in Loops |-> IF l = pollTimer /\ stage[l] = "timer" THEN "off" ELSE stage[l]]
    /\ UNCHANGED <<body, place, batch, track, twice, known, done>>

PollAgain(l) ==
    /\ stage[l] = "timer"
    /\ stage' = [stage EXCEPT ![l] = IF running THEN "receiving" ELSE "off"]
    /\ UNCHANGED <<body, place, batch, track, twice, running, pollTimer, known, done>>

\* Mutant: an error ends the loop.
ReceiveFailsMutant(l) ==
    /\ stage[l] = "receiving"
    /\ stage' = [stage EXCEPT ![l] = "off"]
    /\ UNCHANGED <<body, place, batch, track, twice, running, pollTimer, known, done>>
\* send rejects: the error is logged.
ReceiveFails(l) ==
    /\ stage[l] = "receiving"
    /\ Continue(l, <<>>, known)
    /\ UNCHANGED <<body, place, track, running, known, done>>

\* A batch of at most two messages, the bound of maxMessages here.
Received(l) ==
    /\ stage[l] = "receiving"
    /\ LET ready == {c \in Copies : place[c] = "visible"} IN
       \E b \in {<<>>} \cup {<<c>> : c \in ready} \cup {d \in ready \X ready : d[1] # d[2]} :
          /\ place' = [c \in Copies |-> IF Contains(b, c) THEN "hidden" ELSE place[c]]
          /\ Continue(l, b, known)
    /\ UNCHANGED <<body, track, running, known, done>>

HandleSucceeds(l) ==
    /\ stage[l] = "handling"
    /\ done' = done \cup {Current(l)}
    /\ stage' = [stage EXCEPT ![l] = "deleting"]
    /\ track' = track \cup {l}
    /\ UNCHANGED <<body, place, batch, twice, running, pollTimer, known>>

\* Mutant: the message is deleted all the same.
HandleFailsMutant(l) ==
    /\ stage[l] = "handling"
    /\ stage' = [stage EXCEPT ![l] = "deleting"]
    /\ UNCHANGED <<body, place, batch, track, twice, running, pollTimer, known, done>>
\* The error is logged, and the message left for the visibility timeout.
HandleFails(l) ==
    /\ stage[l] = "handling"
    /\ Continue(l, Tail(batch[l]), known)
    /\ UNCHANGED <<body, place, track, running, known, done>>

\* trackProcessedId: evicts even if the id is remembered already.
Tracked(e) ==
    LET kept == IF Len(known) >= IdCap THEN Tail(known) ELSE known
    IN  IF Contains(kept, e) THEN kept ELSE Append(kept, e)

\* deleteMessage returns, also when its command has failed; a handled event
\* is remembered.
DeleteReturns(l) ==
    /\ stage[l] = "deleting"
    /\ place' \in {place, [place EXCEPT ![Head(batch[l])] = IF @ = "dead" THEN @ ELSE "gone"]}
    /\ known' = IF l \in track THEN Tracked(Current(l)) ELSE known
    /\ track' = track \ {l}
    /\ Continue(l, Tail(batch[l]), known')
    /\ UNCHANGED <<body, running, done>>

CrashSqs ==
    /\ running \/ \E l \in Loops : stage[l] # "off"
    /\ stage' = [l \in Loops |-> "off"]
    /\ batch' = [l \in Loops |-> <<>>]
    /\ track' = {} /\ twice' = {}
    /\ running' = FALSE /\ pollTimer' = NoLoop
    /\ known' = <<>>
    /\ UNCHANGED <<body, place, done>>

LoopStep(l) ==
    \/ PollAgain(l) \/ ReceiveFails(l) \/ Received(l)
    \/ HandleSucceeds(l) \/ HandleFails(l) \/ DeleteReturns(l)

SqsNext ==
    \/ \E c \in Copies : SendTo(c) \/ Reappear(c) \/ Redrive(c)
    \/ StartSqs \/ StopSqs \/ CrashSqs
    \/ \E l \in Loops : LoopStep(l)

\* Timers fire, SQS answers and handlers settle.
SqsFairness == \A l \in Loops : WF_sqsVars(LoopStep(l))

SqsSpec == SqsInit /\ [][SqsNext]_sqsVars /\ SqsFairness

(***************************************************************************)
(* Properties                                                              *)
(***************************************************************************)
InPlace(S) == {body[c] : c \in {d \in Copies : place[d] \in S}} \ {Broken}
Sent       == InPlace({"visible", "hidden", "dead", "gone"})

SqsPromise == INSTANCE AtLeastOnce WITH
    Events    <- Types,
    published <- Sent,
    pending   <- InPlace({"visible", "hidden"}),
    served    <- done \cup (Sent \ Subscribed),
    parked    <- InPlace({"dead"}), failed <- {},
    sure      <- Types

\* A message leaves the queue only once its event has been handled, or to the
\* dead-letter queue: whatever fails, times out, stops or crashes, and however
\* many loops there are (comment, line 225).
SqsKeepsEvents == SqsPromise!Spec

\* A handler runs for an event whose id is remembered only while two loops
\* work on copies of it, which takes a stop and a start.
SqsSecondRun ==
    \A l \in Loops : (stage[l] = "handling" /\ Contains(known, Current(l))) => l \in twice

\* A running consumer goes on polling, whatever fails, and whichever timer
\* an earlier stop has cleared.
SqsKeepsPolling == <>[]running => []<>(\E l \in Loops : stage[l] = "receiving")
=============================================================================
