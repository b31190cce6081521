----------------------------- MODULE OutboxRelay -----------------------------
(***************************************************************************)
(* The transactional outbox of packages/outbox: an OutboxStorePort with    *)
(* the semantics of InMemoryOutboxStore, the OutboxRelay that polls it on  *)
(* a timer, and the broker behind EventPublisherPort.                      *)
(*                                                                         *)
(* setInterval starts a poll cycle (runOnce) without waiting for the one   *)
(* before, so several cycles can be suspended at an await at a time, each  *)
(* working on the batch it read when it started.  One action is the code   *)
(* that runs between two awaits.  The store survives a crash of the        *)
(* relay's process, which is what a database behind the port is for; the   *)
(* relay's own fields and the suspended cycles do not.                     *)
(*                                                                         *)
(* Time is kept relative: an age is the time since lastAttemptAt, and      *)
(* stops counting at AgeCap, beyond which every backoff has elapsed.       *)
(***************************************************************************)
EXTENDS Integers, FiniteSets

CONSTANTS
    Ids,           \* the ids of the messages an application saves
    Cycles,        \* poll cycles that may be suspended at the same time
    BatchSize,     \* options.batchSize
    MaxAttempts,   \* options.maxAttempts
    BackoffBase,   \* options.backoffBaseMs, in clock ticks
    AttemptCap,    \* bound: attempts stop counting here
    DeliveryCap,   \* bound: deliveries stop counting here
    MaxCrashes,    \* bound: crashes of the relay's process
    None           \* no current message

ASSUME BatchSizeAssumption == BatchSize \in Nat \ {0}
ASSUME MaxAttemptsAssumption == MaxAttempts \in Nat \ {0}
ASSUME BackoffAssumption == BackoffBase \in Nat
ASSUME CapAssumption == /\ AttemptCap \in Nat /\ AttemptCap >= MaxAttempts
                        /\ DeliveryCap \in Nat \ {0}
ASSUME CrashAssumption == MaxCrashes \in Nat
ASSUME NoneAssumption == None \notin Ids
ASSUME FiniteAssumption == IsFiniteSet(Ids)
ASSUME CyclesAssumption == IsFiniteSet(Cycles)

VARIABLES
    savedAt,    \* place of a message in the store's Map; 0 when absent
    published,  \* publishedAt is defined
    attempts,   \* attempts
    age,        \* time since lastAttemptAt
    running,    \* intervalHandle is defined
    healthy,    \* ~ lastRunHadFailures
    pc,         \* where each poll cycle is suspended
    todo,       \* messages of its batch it has not looked at yet
    snap,       \* attempts and age of each message as the batch holds them
    cur,        \* the message it is publishing
    bad,        \* hadFailures
    brokerUp,   \* the broker accepts publications
    delivered,  \* how many times the broker accepted each message
    crashes     \* crashes so far

store == <<savedAt, published, attempts, age>>
cycle == <<pc, todo, snap, cur, bad>>
vars == <<store, running, healthy, cycle, brokerUp, delivered, crashes>>

Saturate(n, cap) == IF n < cap THEN n + 1 ELSE n

\* 2^(n-1), the factor of the exponential back-off after n attempts.
Doubling[n \in Nat] == IF n <= 1 THEN 1 ELSE 2 * Doubling[n - 1]
Backoff(n) == BackoffBase * Doubling[n]
\* A message is retried only while it has fewer than MaxAttempts attempts.
AgeCap == Backoff(MaxAttempts - 1)

Dead(m) == attempts[m] >= MaxAttempts

Saved == {m \in Ids : savedAt[m] # 0}
\* Mutant: publishedAt is not looked at.
AllSaved == Saved
Unpublished == {m \in Saved : ~published[m]}
\* getUnpublished(batchSize): the first ones in the Map's insertion order.
Batch == {m \in Unpublished :
            Cardinality({n \in Unpublished : savedAt[n] < savedAt[m]}) < BatchSize}
\* The next message a cycle looks at.
Oldest(c, m) == m \in todo[c] /\ \A n \in todo[c] : savedAt[m] <= savedAt[n]

InFlight == {"publishing", "accepted", "rejected"}
Pcs == {"idle", "loop"} \cup InFlight

TypeOK ==
    /\ savedAt \in [Ids -> Nat]
    /\ published \in [Ids -> BOOLEAN]
    /\ attempts \in [Ids -> Nat]
    /\ age \in [Ids -> Nat]
    /\ running \in BOOLEAN /\ healthy \in BOOLEAN
    /\ pc \in [Cycles -> Pcs]
    /\ todo \in [Cycles -> SUBSET Ids]
    /\ snap \in [Cycles -> [Ids -> [attempts : Nat, age : Nat]]]
    /\ cur \in [Cycles -> Ids \cup {None}]
    /\ \A c \in Cycles : pc[c] \in InFlight => cur[c] \in Ids
    /\ bad \in [Cycles -> BOOLEAN]
    /\ brokerUp \in BOOLEAN
    /\ delivered \in [Ids -> Nat]
    /\ crashes \in Nat

NoSnap == [m \in Ids |-> [attempts |-> 0, age |-> 0]]

Init ==
    /\ savedAt = [m \in Ids |-> 0]
    /\ published = [m \in Ids |-> FALSE]
    /\ attempts = [m \in Ids |-> 0]
    /\ age = [m \in Ids |-> 0]
    /\ running = FALSE /\ healthy = TRUE
    /\ pc = [c \in Cycles |-> "idle"]
    /\ todo = [c \in Cycles |-> {}]
    /\ snap = [c \in Cycles |-> NoSnap]
    /\ cur = [c \in Cycles |-> None]
    /\ bad = [c \in Cycles |-> FALSE]
    /\ brokerUp = TRUE
    /\ delivered = [m \in Ids |-> 0]
    /\ crashes = 0

-----------------------------------------------------------------------------
(* The application saves each message once, under an id of its own, in the *)
(* transaction of the domain change.                                       *)
Save(m) ==
    /\ savedAt[m] = 0
    /\ savedAt' = [savedAt EXCEPT ![m] = 1 + Cardinality(Saved)]
    /\ UNCHANGED <<published, attempts, age, running, healthy, cycle,
                   brokerUp, delivered, crashes>>

Start ==
    /\ ~running
    /\ running' = TRUE
    /\ UNCHANGED <<store, healthy, cycle, brokerUp, delivered, crashes>>

\* clearInterval stops the timer, not the cycles that already run.
Stop ==
    /\ running
    /\ running' = FALSE
    /\ UNCHANGED <<store, healthy, cycle, brokerUp, delivered, crashes>>

\* The timer fires: runOnce reads its batch.
Poll(c) ==
    /\ running
    /\ pc[c] = "idle"
    /\ pc' = [pc EXCEPT ![c] = "loop"]
    /\ todo' = [todo EXCEPT ![c] = Batch]
    /\ snap' = [snap EXCEPT ![c] =
                  [m \in Ids |-> IF m \in Batch
                                 THEN [attempts |-> attempts[m], age |-> age[m]]
                                 ELSE NoSnap[m]]]
    /\ bad' = [bad EXCEPT ![c] = FALSE]
    /\ UNCHANGED <<store, running, healthy, cur, brokerUp, delivered, crashes>>

\* The cycle is done with message m, and forgets what it read about it.
Advance(c, m) ==
    /\ todo' = [todo EXCEPT ![c] = @ \ {m}]
    /\ snap' = [snap EXCEPT ![c][m] = NoSnap[m]]

\* Mutants: the attempt is not counted; it is counted down.
TouchOnly(m) ==
    /\ age' = [age EXCEPT ![m] = 0]
    /\ UNCHANGED attempts
CountDown(m) ==
    /\ attempts' = [attempts EXCEPT ![m] = @ - 1]
    /\ age' = [age EXCEPT ![m] = 0]
\* markAsFailed and the counting half of markAsPublished: they work on the
\* record the store holds now, not on the one in the batch.
RecordAttempt(m) ==
    /\ attempts' = [attempts EXCEPT ![m] = Saturate(@, AttemptCap)]
    /\ age' = [age EXCEPT ![m] = 0]

\* The batch holds a message that used up its attempts.
Bury(c) ==
    /\ pc[c] = "loop"
    /\ \E m \in Ids :
         /\ Oldest(c, m)
         /\ snap[c][m].attempts >= MaxAttempts
         /\ RecordAttempt(m)
         /\ Advance(c, m)
    /\ UNCHANGED <<savedAt, published, running, healthy, pc, cur, bad,
                   brokerUp, delivered, crashes>>

\* Mutant: the back-off does not double.
LinearEligible(c, m) ==
    snap[c][m].attempts = 0 \/ snap[c][m].age >= BackoffBase
\* The batch's copy says whether the back-off has elapsed.
Eligible(c, m) ==
    \/ snap[c][m].attempts = 0
    \/ snap[c][m].age >= Backoff(snap[c][m].attempts)

BackOff(c) ==
    /\ pc[c] = "loop"
    /\ \E m \in Ids :
         /\ Oldest(c, m)
         /\ snap[c][m].attempts < MaxAttempts
         /\ ~Eligible(c, m)
         /\ Advance(c, m)
    /\ UNCHANGED <<store, running, healthy, pc, cur, bad, brokerUp, delivered, crashes>>

Publish(c) ==
    /\ pc[c] = "loop"
    /\ \E m \in Ids :
         /\ Oldest(c, m)
         /\ snap[c][m].attempts < MaxAttempts
         /\ Eligible(c, m)
         /\ cur' = [cur EXCEPT ![c] = m]
         /\ Advance(c, m)
    /\ pc' = [pc EXCEPT ![c] = "publishing"]
    /\ UNCHANGED <<store, running, healthy, bad, brokerUp, delivered, crashes>>

Finish(c) ==
    /\ pc[c] = "loop" /\ todo[c] = {}
    /\ pc' = [pc EXCEPT ![c] = "idle"]
    /\ healthy' = ~bad[c]
    /\ bad' = [bad EXCEPT ![c] = FALSE]
    /\ UNCHANGED <<store, running, todo, snap, cur, brokerUp, delivered, crashes>>

-----------------------------------------------------------------------------
(* publisher.publish settles.  A broker that goes down may have accepted   *)
(* the message before the error reaches the relay.                         *)
Accept(c) ==
    /\ pc[c] = "publishing" /\ brokerUp
    /\ delivered' = [delivered EXCEPT ![cur[c]] = Saturate(@, DeliveryCap)]
    /\ pc' = [pc EXCEPT ![c] = "accepted"]
    /\ UNCHANGED <<store, running, healthy, todo, snap, cur, bad, brokerUp, crashes>>

Reject(c) ==
    /\ pc[c] \in {"publishing", "accepted"} /\ ~brokerUp
    /\ pc' = [pc EXCEPT ![c] = "rejected"]
    /\ UNCHANGED <<store, running, healthy, todo, snap, cur, bad,
                   brokerUp, delivered, crashes>>

\* Mutant: publish is not awaited.
MarkEarly(c) ==
    /\ pc[c] \in {"publishing", "accepted"}
    /\ published' = [published EXCEPT ![cur[c]] = TRUE]
    /\ RecordAttempt(cur[c])
    /\ pc' = [pc EXCEPT ![c] = "loop"]
    /\ cur' = [cur EXCEPT ![c] = None]
    /\ UNCHANGED <<savedAt, running, healthy, todo, snap, bad,
                   brokerUp, delivered, crashes>>
MarkAsPublished(c) ==
    /\ pc[c] = "accepted"
    /\ published' = [published EXCEPT ![cur[c]] = TRUE]
    /\ RecordAttempt(cur[c])
    /\ pc' = [pc EXCEPT ![c] = "loop"]
    /\ cur' = [cur EXCEPT ![c] = None]
    /\ UNCHANGED <<savedAt, running, healthy, todo, snap, bad,
                   brokerUp, delivered, crashes>>

MarkAsFailed(c) ==
    /\ pc[c] = "rejected"
    /\ RecordAttempt(cur[c])
    /\ bad' = [bad EXCEPT ![c] = TRUE]
    /\ pc' = [pc EXCEPT ![c] = "loop"]
    /\ cur' = [cur EXCEPT ![c] = None]
    /\ UNCHANGED <<savedAt, published, running, healthy, todo, snap,
                   brokerUp, delivered, crashes>>

-----------------------------------------------------------------------------
Toggle ==
    /\ brokerUp' = ~brokerUp
    /\ UNCHANGED <<store, running, healthy, cycle, delivered, crashes>>

\* Time passes, for the store's records and for the copies in the batches.
Older(a) == Saturate(a, AgeCap)
Tick ==
    /\ age' = [m \in Ids |-> IF attempts[m] = 0 THEN 0 ELSE Older(age[m])]
    /\ snap' = [c \in Cycles |-> [m \in Ids |->
                  IF snap[c][m].attempts = 0 THEN snap[c][m]
                  ELSE [attempts |-> snap[c][m].attempts,
                        age |-> Older(snap[c][m].age)]]]
    /\ UNCHANGED <<savedAt, published, attempts, running, healthy,
                   pc, todo, cur, bad, brokerUp, delivered, crashes>>

\* The relay's process dies and a new one builds a relay, not yet started.
Crash ==
    /\ crashes < MaxCrashes
    /\ crashes' = crashes + 1
    /\ running' = FALSE /\ healthy' = TRUE
    /\ pc' = [c \in Cycles |-> "idle"]
    /\ todo' = [c \in Cycles |-> {}]
    /\ snap' = [c \in Cycles |-> NoSnap]
    /\ cur' = [c \in Cycles |-> None]
    /\ bad' = [c \in Cycles |-> FALSE]
    /\ UNCHANGED <<store, brokerUp, delivered>>

\* One poll cycle runs to its next await.
Proceed(c) ==
    \/ Bury(c) \/ BackOff(c) \/ Publish(c) \/ Finish(c)
    \/ MarkAsPublished(c) \/ MarkAsFailed(c)
Settle(c) == Accept(c) \/ Reject(c)

Next ==
    \/ \E m \in Ids : Save(m)
    \/ Start \/ Stop \/ Toggle \/ Tick \/ Crash
    \/ \E c \in Cycles : Poll(c) \/ Proceed(c) \/ Settle(c)

Spec == Init /\ [][Next]_vars

(* Fairness: the event loop runs every continuation, an armed interval     *)
(* keeps firing, publish settles, and time passes.  Nothing obliges the    *)
(* application to save, start or stop, nor the broker to recover.          *)
Fairness ==
    /\ WF_vars(Tick)
    /\ \A c \in Cycles : /\ WF_vars(Poll(c))
                         /\ WF_vars(Proceed(c))
                         /\ WF_vars(Settle(c))
FairSpec == Spec /\ Fairness

-----------------------------------------------------------------------------
(* A message the store shows as published was accepted by the broker: the  *)
(* relay calls markAsPublished only after publish resolved, in whatever    *)
(* order overlapping cycles, crashes and broker failures interleave.       *)
PublishedWasDelivered == \A m \in Ids : published[m] => delivered[m] > 0

(* The broker gets a message at most once for each attempt a relay may     *)
(* make, once more for every other cycle that still holds the message in   *)
(* an old batch, and once more per cycle for each crash that lost the      *)
(* record of what was in flight.                                           *)
DeliveriesBounded ==
    LET N == Cardinality(Cycles)
    IN  \A m \in Ids : delivered[m] <= MaxAttempts + (N - 1) + N * crashes

\* Cycle c calls publisher.publish for message m in this step.
Publishes(c, m) == pc[c] # "publishing" /\ pc'[c] = "publishing" /\ cur'[c] = m

(* A relay whose cycles do not overlap never publishes a message again     *)
(* once the store records it as published, crashes included.               *)
NoRepublish ==
    [][\A c \in Cycles, m \in Ids : Publishes(c, m) => ~published[m]]_vars

(* A relay whose cycles do not overlap retries a message only when the     *)
(* back-off that its recorded attempts call for has elapsed.               *)
BackoffRespected ==
    [][\A c \in Cycles, m \in Ids :
         Publishes(c, m) => attempts[m] = 0 \/ age[m] >= Backoff(attempts[m])]_vars

(* Once a relay keeps polling, every message saved is published or uses    *)
(* up its attempts, as long as a batch has room for all of them.           *)
Settled(m) == published[m] \/ Dead(m)
EventuallySettled ==
    <>[]running => \A m \in Ids : savedAt[m] # 0 ~> Settled(m)

(* docs/guides/event-driven-setup.md:13: "at-least-once delivery           *)
(* guarantee": whatever happens to the others, a message of the outbox is  *)
(* offered to the broker at least once, once the broker stays up.          *)
EveryMessageAttempted ==
    <>[](running /\ brokerUp) =>
        \A m \in Ids : savedAt[m] # 0 ~> attempts[m] > 0
=============================================================================
