--------------------------- MODULE RabbitConsumer ---------------------------
(***************************************************************************)
(* packages/messaging-rabbitmq: one RabbitMQEventConsumer, the             *)
(* RabbitMQConnection whose channels it takes in turn, and the queue it    *)
(* consumes. A message is <<event, n, retry>>: the n-th publication of the *)
(* event, with the retry count of its header. Other users of the           *)
(* connection take channels too: getChannel may return any of the pool.    *)
(***************************************************************************)
EXTENDS Naturals, Sequences, SequencesExt

CONSTANTS
    Events, Wanted,     \* ids of events, those of a type with a handler
    Publications,       \* bound: times anything is published to the queue
    MaxRetries,         \* maxRetries, 0 without enableRetry
    Slots,              \* bound: deliveries in progress at a time
    Pools,              \* sets of channels a connection may have (poolSize)
    Closed,             \* stands for a channel of a lost connection
    Remembered          \* the limit of processedMessages (10000)

ASSUME RabbitAssumption ==
    /\ Wanted \subseteq Events
    /\ MaxRetries \in Nat /\ Publications \in Nat
    /\ Remembered \in Nat \ {0}
    /\ {} \notin Pools
    /\ \A k \in Pools : k \cap {Closed, "out", "ready", "gone"} = {}

Messages == Events \X (1..Publications) \X (0..MaxRetries)

VARIABLES
    at,         \* a message is "out", "ready", unacknowledged on a channel, or "gone"
    pool,       \* the channels of the connection
    deadLetter, \* what enableDLQ gives: see DeadLetters
    link,       \* the connection is "up", "waiting" to reconnect or "down"
    isRunning,
    home,       \* channel of the latest consumer tag
    subs,       \* channels on which the broker has a consumer for the queue
    work,       \* deliveries whose handler runs: message, channel, raced
    armed,      \* retry timers: <<message, channel>>
    processed,  \* processedMessages, the oldest first
    served,     \* ghost: events a handler has succeeded with
    failed,     \* ghost: events a handler has failed with
    parked      \* events in the queue of the dead-letter exchange

config     == <<pool, deadLetter>>
session    == <<link, home, subs>>
rabbitVars == <<at, config, session, isRunning, work, armed, processed, served, failed, parked>>

\* enableDLQ has the dead-letter exchange asserted and named to the queue. No
\* code binds a queue to it (dlqQueueSuffix is not used), so that it drops what
\* it gets, unless somebody else has bound one.
DeadLetters == {"off", "exchange", "queue"}

Idle == [msg |-> <<>>, via |-> Closed, raced |-> FALSE]
Busy == {s \in Slots : work[s] # Idle}
EventIn(s) == work[s].msg[1]

\* Mutant: the oldest id is not dropped.
RememberMutant(seq, e) == IF Contains(seq, e) THEN seq ELSE Append(seq, e)
\* The ids of the events handled, the latest last.
Remember(seq, e) ==
    IF Contains(seq, e) THEN seq
    ELSE IF Len(seq) = Remembered THEN Append(Tail(seq), e)
    ELSE Append(seq, e)

RabbitTypeOK ==
    /\ at \in [Messages -> {"out", "ready", "gone"} \cup pool]
    /\ pool \in Pools
    /\ deadLetter \in DeadLetters /\ isRunning \in BOOLEAN
    /\ link \in {"up", "waiting", "down"}
    /\ home \in pool \cup {Closed}
    /\ subs \subseteq pool
    /\ work \in [Slots -> {Idle} \cup [msg : Messages, via : pool \cup {Closed}, raced : BOOLEAN]]
    /\ armed \subseteq Messages \X (pool \cup {Closed})
    /\ processed \in Seq(Events) /\ Len(processed) <= Remembered
    /\ served \subseteq Events /\ failed \subseteq Events /\ parked \subseteq Events

\* The queue has been declared and bound by an earlier start.
RabbitInit ==
    /\ at = [m \in Messages |-> "out"]
    /\ pool \in Pools /\ deadLetter \in DeadLetters
    /\ link = "up" /\ home = Closed /\ subs = {}
    /\ isRunning = FALSE
    /\ work = [s \in Slots |-> Idle]
    /\ armed = {} /\ processed = <<>>
    /\ served = {} /\ failed = {} /\ parked = {}

(***************************************************************************)
(* Broker and connection                                                   *)
(***************************************************************************)
PublishTo(e, n) ==
    /\ \A f \in Events : at[<<f, n, 0>>] = "out"
    /\ at' = [at EXCEPT ![<<e, n, 0>>] = "ready"]
    /\ UNCHANGED <<config, session, isRunning, work, armed, processed, served, failed, parked>>

Requeued(f) == [m \in Messages |-> IF f[m] \in pool THEN "ready" ELSE f[m]]

\* The connection is gone: what was unacknowledged is queued again, and the
\* channels that calls and timers hold are closed. f, jobs and timers are the
\* messages, deliveries and timers of the step that loses it.
Disconnect(f, jobs, timers) ==
    /\ at' = Requeued(f)
    /\ link' = "waiting" /\ home' = Closed /\ subs' = {}
    /\ work' = [s \in Slots |-> IF jobs[s] = Idle THEN Idle ELSE [jobs[s] EXCEPT !.via = Closed]]
    /\ armed' = {<<t[1], Closed>> : t \in timers}

\* An ack on channel k of m, which is unacknowledged on f[m]; a nack if
\* rejected, after which the broker sends the message to the dead-letter
\* exchange, if there is one, and forgets it. On another channel the delivery
\* tag is that of another message, or of none, which costs the connection.
Settle(f, m, k, jobs, timers, rejected, kept) ==
    \/ \E d \in Messages :
          /\ IF f[m] = k THEN d = m ELSE f[d] = k
          /\ at' = [f EXCEPT ![d] = "gone"]
          /\ parked' = IF rejected /\ deadLetter = "queue" THEN kept \cup {d[1]} ELSE kept
          /\ work' = jobs /\ armed' = timers
          /\ UNCHANGED session
    \/ f[m] # k /\ Disconnect(f, jobs, timers) /\ parked' = kept

ConnectionLost ==
    /\ link = "up"
    /\ Disconnect(at, work, armed)
    /\ UNCHANGED <<config, isRunning, processed, served, failed, parked>>

\* handleDisconnect's timer: one attempt, and nobody consumes after it.
Reconnect ==
    /\ link = "waiting"
    /\ link' \in {"up", "down"}
    /\ UNCHANGED <<at, config, isRunning, home, subs, work, armed, processed, served, failed, parked>>

\* The process has died and runs again.
Restarted ==
    /\ at' = Requeued(at)
    /\ link' = "up" /\ home' = Closed /\ subs' = {}
    /\ isRunning' = FALSE
    /\ work' = [s \in Slots |-> Idle]
    /\ armed' = {} /\ processed' = <<>>
    /\ UNCHANGED <<config, served, failed, parked>>

Crash == (isRunning \/ Busy # {} \/ armed # {} \/ link # "up") /\ Restarted

(***************************************************************************)
(* Consumer                                                                *)
(***************************************************************************)
Start ==
    /\ ~isRunning /\ link = "up"
    /\ isRunning' = TRUE
    /\ \E k \in pool : home' = k /\ subs' = subs \cup {k}
    /\ UNCHANGED <<at, config, link, work, armed, processed, served, failed, parked>>

\* stop cancels, on a channel of the pool, the tag it got on home.
Stop ==
    /\ isRunning /\ link = "up"
    /\ isRunning' = FALSE /\ processed' = <<>>
    /\ \E k \in pool : subs' = subs \ ({k} \cap {home})
    /\ UNCHANGED <<at, config, link, home, work, armed, served, failed, parked>>

\* A handler is called with m; deliveries of one event at a time are marked.
Handle(s, m, k) ==
    LET twin == {t \in Busy : EventIn(t) = m[1]} IN
    work' = [t \in Slots |->
                IF t = s THEN [msg |-> m, via |-> k, raced |-> twin # {}]
                ELSE IF t \in twin THEN [work[t] EXCEPT !.raced = TRUE] ELSE work[t]]

\* Mutant: the processed ids are not looked at.
DeliverMutant(s, m) ==
    /\ s \notin Busy /\ at[m] = "ready" /\ m[1] \in Wanted
    /\ \E h \in subs : at' = [at EXCEPT ![m] = h]
    /\ \E k \in pool : Handle(s, m, k)
    /\ UNCHANGED <<config, session, isRunning, armed, processed, served, failed, parked>>
\* handleMessage up to the await of the handler: the message came on the
\* channel of a consumer, the one k to settle it on is taken from the pool.
Deliver(s, m) ==
    /\ s \notin Busy /\ at[m] = "ready" /\ m[1] \in Wanted
    /\ ~Contains(processed, m[1])
    /\ \E h \in subs : at' = [at EXCEPT ![m] = h]
    /\ \E k \in pool : Handle(s, m, k)
    /\ UNCHANGED <<config, session, isRunning, armed, processed, served, failed, parked>>

\* Mutant: handleMessage returns without the ack.
SkipMutant(m) ==
    /\ at[m] = "ready"
    /\ Contains(processed, m[1]) \/ m[1] \notin Wanted
    /\ \E h \in subs : at' = [at EXCEPT ![m] = h]
    /\ UNCHANGED <<config, session, isRunning, work, armed, processed, served, failed, parked>>
\* handleMessage with a duplicate, or with an event that has no handler.
Skip(m) ==
    /\ at[m] = "ready"
    /\ Contains(processed, m[1]) \/ m[1] \notin Wanted
    /\ \E h \in subs, k \in pool : Settle([at EXCEPT ![m] = h], m, k, work, armed, FALSE, parked)
    /\ UNCHANGED <<config, isRunning, processed, served, failed>>

\* What follows the handler: nothing can be settled on a closed channel.
Answer(s, timers, rejected, kept) ==
    LET free == [work EXCEPT ![s] = Idle] IN
    IF work[s].via = Closed
    THEN work' = free /\ UNCHANGED <<at, session, armed, parked>>
    ELSE Settle(at, work[s].msg, work[s].via, free, timers, rejected, kept)

HandlerResolves(s) ==
    /\ s \in Busy
    /\ served' = served \cup {EventIn(s)}
    /\ processed' = Remember(processed, EventIn(s))
    /\ Answer(s, armed, FALSE, parked)
    /\ UNCHANGED <<config, isRunning, failed>>

\* Mutant: the message is acknowledged before its retry.
HandlerRejectsMutant(s) ==
    /\ s \in Busy /\ work[s].msg[3] < MaxRetries
    /\ failed' = failed \cup {EventIn(s)}
    /\ Answer(s, armed \cup {<<work[s].msg, work[s].via>>}, FALSE, parked)
    /\ UNCHANGED <<config, isRunning, processed, served>>
\* retryMessage: rejected without requeueing, a timer will publish it again.
HandlerRejects(s) ==
    /\ s \in Busy /\ work[s].msg[3] < MaxRetries
    /\ failed' = failed \cup {EventIn(s)}
    /\ Answer(s, armed \cup {<<work[s].msg, work[s].via>>}, TRUE, parked)
    /\ UNCHANGED <<config, isRunning, processed, served>>

\* sendToDeadLetterQueue: a copy is published to the dead-letter exchange and
\* the message acknowledged, or rejected with enableDLQ off. Without a queue to
\* go to, the broker drops the copy and confirms nothing.
GiveUp(s) ==
    /\ s \in Busy /\ work[s].msg[3] = MaxRetries
    /\ failed' = failed \cup {EventIn(s)}
    /\ Answer(s, armed, deadLetter = "off",
              IF deadLetter = "queue" THEN parked \cup {EventIn(s)} ELSE parked)
    /\ UNCHANGED <<config, isRunning, processed, served>>

\* The callback of retryMessage; on a closed channel publish throws out of it,
\* which ends the process.
TimerFires(t) ==
    /\ t \in armed
    /\ \/ /\ t[2] # Closed
          /\ at' = [at EXCEPT ![<<t[1][1], t[1][2], t[1][3] + 1>>] = "ready"]
          /\ armed' = armed \ {t}
          /\ UNCHANGED <<config, session, isRunning, work, processed, served, failed, parked>>
       \/ t[2] = Closed /\ Restarted

Receive   == subs # {} /\ \E m \in Messages : Skip(m) \/ \E s \in Slots : Deliver(s, m)
Settles(s) == HandlerResolves(s) \/ HandlerRejects(s) \/ GiveUp(s)
Fire      == \E t \in armed : TimerFires(t)

RabbitNext ==
    \/ \E e \in Events, n \in 1..Publications : PublishTo(e, n)
    \/ ConnectionLost \/ Reconnect \/ Crash \/ Start \/ Stop
    \/ Receive \/ Fire
    \/ \E s \in Slots : Settles(s)

\* The broker delivers, handlers settle and timers fire.
RabbitFairness ==
    /\ WF_rabbitVars(Receive) /\ WF_rabbitVars(Fire)
    /\ \A s \in Slots : WF_rabbitVars(Settles(s))

RabbitSpec == RabbitInit /\ [][RabbitNext]_rabbitVars /\ RabbitFairness

(***************************************************************************)
(* Properties                                                              *)
(***************************************************************************)
Published == {m[1] : m \in {n \in Messages : n[3] = 0 /\ at[n] # "out"}}
Live(m)   ==
    \/ at[m] \notin {"out", "gone"}
    \/ \E t \in armed : t[1] = m
    \/ \E s \in Busy : work[s].msg = m
Pending   == {m[1] : m \in {n \in Messages : Live(n)}}
OneChannel == \A j, k \in pool : j = k

Promise == INSTANCE AtLeastOnce WITH
    published <- Published, pending <- Pending, served <- served \cup (Published \ Wanted),
    failed <- IF deadLetter = "queue" THEN {} ELSE failed,
    sure <- IF OneChannel THEN Events ELSE {}

\* Over one channel no event is lost that no handler has failed with, whatever
\* crashes, disconnects and stops do. Once a handler has failed, nothing but a
\* timer in memory (line 237) may hold the event: then it is kept only where
\* somebody has bound a queue to the dead-letter exchange, which gets a copy of
\* every message that is retried (line 234) or given up (line 278).
RabbitKeepsEvents == Promise!Spec

\* A handler runs for an event whose id is remembered only if it was called
\* while another delivery of the event was being handled: deliveries are not
\* awaited (line 91), and the id is added after the handler (line 166).
RabbitSecondRun ==
    \A s \in Busy : Contains(processed, EventIn(s)) => work[s].raced

\* While the queue is consumed over one channel, an event is settled each time:
\* handled, passed over, dead-lettered or given up after its retries.
RabbitSettlesEvents ==
    <>[](OneChannel /\ subs # {}) => \A e \in Events : []<>(e \notin Pending)

\* A message whose handler has succeeded is acknowledged (comment, line 174),
\* while its channel is open: not so if handleMessage (line 137) takes another
\* channel from the pool than the one start (line 65) consumes on.
HandledIsAcknowledged ==
    [][\A s \in Slots : HandlerResolves(s) /\ work[s].via # Closed => at'[work[s].msg] = "gone"]_rabbitVars

\* README.md:199 of the package: "Failed messages are automatically sent to DLQ
\* after max retries", to a queue (line 214). With enableDLQ, an event whose last
\* retry is gone was handled or is in that queue: not so, as sending it to the
\* exchange (line 278) is all that the code does.
RetriedOutIsKept ==
    deadLetter # "off" /\ OneChannel =>
        \A m \in Messages :
            at[m] = "gone" /\ m[3] = MaxRetries /\ m[1] \in Wanted => m[1] \in served \cup parked
=============================================================================
