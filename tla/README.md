# TLA+ models of ts-commons

ts-commons is a monorepo of TypeScript libraries for services: `packages/` holds the
platform (kernel types, application layer, messaging, persistence, resilience, ...),
`extras/` holds tools. Most packages are stateless or pass calls on to a client library. The
ones that carry protocols of their own are small classes that keep state in memory, or behind
a store port, and suspend at `await`: what can go wrong there depends on what other callers,
timers and crashes do between two awaits, and that is what these modules check.

Everything runs on one event loop. The code between two awaits is atomic, so an action of a
model is the code from one await, timer or call to the next. Processes, stores and brokers
outside of the loop are modelled from how the code uses them.

## 1. Inventory

### Parts with protocols of their own

| part | state | operations | hard behaviour | what makes it correct |
|---|---|---|---|---|
| outbox relay and store (`packages/outbox`: `OutboxRelay`, `InMemoryOutboxStore`) | messages with `publishedAt`, `attempts`, `lastAttemptAt`; timer handle, health flag; the batch of every suspended cycle | `save`, `start`, `stop`, `runOnce`, `getUnpublished`, `markAsPublished`, `markAsFailed` | `setInterval` starts a cycle while the last is suspended; crash between publish and mark; broker that takes a message and rejects; back-off from an old copy | published only what the broker took; bounded duplicates; back-off respected; every message settled |
| inbox (`packages/outbox`: `InMemoryInboxStore`) | seen event ids, messages | `isDuplicate`, `save`, `markAsProcessed` | check and mark are two calls | an event is processed once |
| bulkhead, breaker, limiter, timeout, retry (`packages/resilience`) | slot counter and queue; breaker state, failure count, last failure; tokens and last refill | `execute`, `acquire` | slots handed over across microtasks; calls that settle after the breaker changed; operations that outlive their timeout | slots conserved, first come first served, state follows failures, continuous bucket, truthful outcomes |
| hedge, fallback, health check (`packages/resilience`) | per call | `execute`, `check` | staggered copies; indicators under one name | first success wins; worst status reported |
| idempotent use case (`packages/application/src/idempotency`) | one entry per key: lock or result, with expiry | `execute`, `tryAcquire`, `storeResult`, `release`, `getResult`, `cleanup` | duplicates between every two awaits; locks that expire during execution | one execution at a time; no repetition while the result is remembered; no abandoned lock |
| mediator, buses, read models (`packages/application`) | handler maps; cached responses; projections | `send`, `handle`, `rebuild` | caching across an await; rebuild beside live events | no stale response after invalidation; projections equal to their events |
| scheduler (`packages/scheduler`) | registrations, a limiter for each, records, statistics, interval handles | `register`, `unregister`, `trigger`, `clear`, `start`, `stop` | re-registration and `clear` under running executions; retries; timers beside callers | slots conserved; statistics true; every execution ends |
| cron expressions (`packages/scheduler/src/CronParser.ts`) | none | `parseCron`, `matchesCron` | ranges, lists and steps at the bounds of a field | a date matches exactly when every field contains its part |
| saga (`packages/saga`) | completed steps, status | `step`, `commit`, `rollback`, `emit` | steps in flight during rollback; failed compensations; a second rollback | what was done is compensated once, in reverse |
| process manager (`packages/process-manager`) | process states, correlation index | `save`, `delete`, `findById`, `findByCorrelationId` | an index shared by processes whose ids change | correlation finds the process it names |
| caches and lock (`packages/cache-redis`), secrets (`packages/secrets`) | two cache levels, computations in flight; lock key with expiry; cached secrets | `get`, `getOrCompute`, `set`, `delete`; `acquire`, `release`, `withLock` | write-back against delete; single flight after a failure; release after expiry; a read that crosses a rotation | no overwritten value comes back; one computation; one holder; nothing stale unless crossed |
| configuration (`packages/config`: `HotReloadConfigLoader`) | current configuration, listeners | `start`, `reload`, `onChange` | loads that end in another order; a listener that throws | configuration never goes back; listeners know it |
| data loader (`packages/web-graphql`: `DataLoader`) | queue, flag, cache, batches on their way | `load`, `prime`, `clearCache` | loads during a batch; batches that fail | every load is answered |
| event sourcing (`packages/eventsourcing`, `ProjectionRebuildManager`) | stream, subscribers, aggregates with uncommitted events, a projection | `append`, `getEvents`, `loadFromHistory`, `markCommitted`, `rebuild` | concurrent appends; a subscriber that throws after the append; rebuild beside live events | no event stored twice; aggregates and projection agree with the stream |
| consumers (`packages/messaging-rabbitmq`, `-kafka`, `-eventbridge`) | processed ids, offsets, channels, poll loops, retry timers | `start`, `stop`, `handleMessage`, `retryMessage`, `poll` | redelivery, retry by republishing, dead letters, lost connections, crashes, deliveries handled side by side | at least once: kept until handled, or until it has failed and nothing is bound to keep it |
| request/reply, fan-out (`packages/messaging`) | waiting correlation ids, subscribers | `awaitReply`, `deliver`, `cancel`, `publish` | a late timer against a reused id | a reply reaches its own request |

### Interactions

* The application saves messages into the outbox with its domain change; the relay calls
  `EventPublisherPort.publish`, which a broker adapter implements; consumers on the other side
  deduplicate, with the inbox or their own set of ids. At-least-once delivery on one side and
  deduplication on the other make the effect of an event happen once.
* The resilience policies are composed by their users: a policy wraps the next one in a
  callback (`docs/packages/resilience.md` shows the stack that `ResilientStack` models).
* A client retries a command with the same idempotency key; `IdempotentUseCase` stands between
  it and the use case.
* `IntervalRunner` calls `SchedulerPort.trigger` beside every other caller.
* Sagas and process managers call use cases, and are called back by timers.

### Parts without protocols

Kernel, contracts, errors, validation: values and pure functions. Persistence, storage, search,
email, notification, web and websocket packages: adapters, request mapping and synchronous
bookkeeping. Observability: no influence on the rest. Security and audit: per-call checks. Testing
and architecture tests, and everything under `extras/`: tooling and sequential helpers.
`PROJECT.json` lists each with the reason it has no model.

## 2. Modules

| module | models | kind |
|---|---|---|
| `OutboxRelay` | `OutboxRelay.ts`, `InMemoryOutboxStore.ts`, broker, crashes | component |
| `MCOutboxRelay` | instances of it | model checking |
| `MCBackground` | `OutboxRelay` and `JobScheduler` | model checking |
| `MCDuplicates` | `OutboxRelay` and `IdempotentUseCase` | model checking |
| `CountingSemaphore` | what a limiter with a waiting line promises | abstract |
| `TokenBucket` | what a rate limiter promises | abstract |
| `Bulkhead`, `CircuitBreaker`, `RateLimiter` | the class of that name | components |
| `MCCircuitBreaker` | the breaker beside what its documentation says | model checking |
| `ResilientStack` | `Retry.ts`, `Timeout.ts`, and all five policies around one service | composition |
| `MCResilientStack` | instances of it | model checking |
| `ResilienceProofs` | | proofs |
| `IdempotentUseCase` | `IdempotentUseCase.ts`, `InMemoryIdempotencyStore.ts` | component |
| `MCIdempotentUseCase` | instances of it | model checking |
| `DeliveryProofs` | `OutboxRelay` and `IdempotentUseCase` | proofs |
| `JobScheduler` | `InMemoryScheduler.ts`, `ConcurrencyLimiter.ts`, `JobRegistry.ts`, `IntervalRunner.ts` | component |
| `MCJobScheduler`, `SchedulerProofs` | | model checking, proofs |
| `MultiLevelCache`, `RedisLock`, `SecretCache` | `MultiLevelCache.ts` over `InMemoryCache.ts` and `RedisCache.ts`; `RedisLock.ts`; `CachedSecretsAdapter.ts` | components |
| `HotReload`, `DataLoader`, `Hedge` | `HotReloadConfigLoader.ts` with `ConfigLoader.ts`; `DataLoader.ts`; `Hedge.ts` | components |
| `MCCaches`, `CacheProofs` | the six above | model checking, proofs |
| `AtLeastOnce` | what a consumer of events promises | abstract |
| `RabbitConsumer`, `KafkaConsumer`, `SqsConsumer` | `RabbitMQEventConsumer.ts` with `RabbitMQConnection.ts`, `KafkaEventConsumer.ts`, `EventBridgeEventConsumer.ts`, each with its broker, crashes and restarts | components |
| `SagaTransaction`, `ProcessStore`, `RequestReply` | `SagaTransaction.ts`, `InMemoryProcessStore.ts`, `RequestReplyBroker.ts` | components |
| `EventSourcing` | `EventStore.ts`, `EventSourcedAggregate.ts`, `ProjectionRebuildManager.ts` around one stream | composition |
| `MCEventDriven` | the seven above | model checking |
| `RabbitProofs`, `ConsumerProofs` | `RabbitConsumer`; `KafkaConsumer` and `SqsConsumer` | proofs |
| `ServiceProofs` | `SagaTransaction`, `ProcessStore`, `RequestReply`, `EventSourcing` | proofs |
| `EventDrivenProofs` | `MCEventDriven` | proofs |

Two conventions hold everywhere. A comment beside a variable names the field it stands for; one
marked *ghost* belongs to no field and only records what a property talks about. An operator
marked *Mutant* is not part of the specification: it is a plausible mistake in the operator that
follows it, kept to show that a property would notice.

### `OutboxRelay`

`savedAt`, `published`, `attempts` and `age` are the store's Map: insertion order, `publishedAt`,
`attempts` and the time since `lastAttemptAt`. `running` and `healthy` are the relay's fields. For
each poll cycle `pc`, `todo`, `snap`, `cur` and `bad` are what `runOnce` holds across its awaits:
the batch with the copies read at its start, the message being published, `hadFailures`.

`Poll` is the timer's callback up to `getUnpublished`; `Bury`, `BackOff` and `Publish` are the three
ways through the loop body up to its first await (attempts used up, back-off not over, publish);
`Accept` and `Reject` settle `publisher.publish`; `MarkAsPublished`, `MarkAsFailed` and `Finish` are
what follows. `getUnpublished` and the first pass through the loop are separate actions, as are the
calls of the store, which are promises. A broker that goes down may reject what it has accepted,
which also stands for a `markAsPublished` that fails: both end in the `catch` block. `Crash` loses
the relay and its cycles, and keeps the store. Time is relative and stops where no back-off is open
any more, so the state space is finite without a bound on time.

### Resilience

`Bulkhead` separates the grant of a slot from the call of the function, because `execute` awaits
`acquireSlot`; a newcomer or a release can come in between. `CircuitBreaker` separates the decision
of `execute` from the settlement of its call, and settles a call in whatever state the breaker has
by then. `RateLimiter` counts in what flows into the bucket during a tick, so that
`refillRatePerSecond` is a unit and all amounts are integers, and forgets time beyond a full bucket.

`ResilientStack` extends the three and adds `Retry` and `Timeout`. `Arrive` asks the limiter and
`Ask` the bulkhead; `Start` is the continuation that calls the function: the first attempt is made
and the timer armed. `Answers`, `Fails` and `TryAgain` are the loop of `Retry`, and `LoopEnds` is
the end of it, which settles the race only if the timer has not (`TimesOut`). The loop of a request
that has timed out goes on, as it does in the code. Retry's delays take
any time. The stack is the one in the package's documentation.

### `IdempotentUseCase`

Keys do not share state, so one entry stands for the store. `entry` and `left` are the
`StoreEntry` and its expiry; `phase` is where each `execute` is suspended. `Lookup`, `TryAcquire`
or `TurnedDown`, `LookAgain`, `StoreResult` and `Release` are the calls of the store in the order
of `execute`; the inner use case runs between `TryAcquire` and one of the last two, for at most
`MaxRun` ticks. `storeResult` and `release` act on the entry whoever created it, as in the code.

### `JobScheduler`

A registration is a number, and so is its limiter: `register` makes a new one, `unregister` and
`clear` only drop it from the map. `runs` gives the registration under which each execution was
started, whose limiter `finalize` releases. `Admit` is `trigger` up to the first await, with the
first attempt; `Refuse` is its two errors; `Succeed`, `AttemptFails` and `NextAttempt` are
`runWithRetries`, and `Finalize` is inlined where the code calls it. `Fire` is the callback of
`IntervalRunner`.

### Caches, configuration, data loader, hedge

`MultiLevelCache` has one key. `pipe` is the order in which Redis gets the commands of the calls, and
their replies come in that order; `phase` is where each call is suspended: `Get`, `Set` and `Delete`
run to their first command, `ReadHit`, `ReadMiss`, `WriteDone` and the failures are what follows a
reply, `FnResolves` and `FnRejects` what follows the computation of `getOrCompute`. `inflight` is the
promise in the map, `awaits` the one a caller awaits. `RedisLock` counts ticks until the key expires:
`Enter` and `EndWork` are the two ends of the callback of `withLock`, `Release` is the `DEL` that
asks nobody's leave, and `Abandon` a crash or a failing command. In `SecretCache` a call waits for
the backend to execute it, and then for the reply: `BackendReads` or `BackendChanges`, and `Fill` or
`Apply`. `HotReload` separates the reading of the sources from the store; the listeners a throwing
one keeps from being told are any subset, as their order is that of subscription. In `DataLoader`,
`turn` is the queued microtask and `scheduled` the flag that stands for it. In `Hedge`, `copy` is
what became of each copy and `pending`, `timersPending` are the closure's counters.

### Consumers

`AtLeastOnce` knows published, pending, served, parked and failed events. An event that is `sure`
leaves `pending` only if it is served, parked, or has failed in a handler with nothing there to park
it. Each consumer is shown to implement it under a mapping of its own, which says what is sure:
RabbitMQ's events over one channel, Kafka's once their partition has a committed offset or is read
from the beginning, all of SQS. Only RabbitMQ's mapping has failed events.

`RabbitConsumer`: `at` says where each message is: in the queue, unacknowledged on a channel, or
gone. `Receive` (`Deliver` or `Skip`) is `handleMessage` up to the handler, `HandlerResolves`,
`HandlerRejects` and `GiveUp` what follows it; a retry is the nack followed, from a timer, by a copy
published with the retry count in its header (`TimerFires`). `handleMessage` takes its channel from
the pool when it starts, and it may be another than the one the message came on: the delivery tag is
then that of another message, which `Settle` settles, or of none, which costs the connection.
`deadLetter` is what `enableDLQ` comes to. The code asserts the dead-letter exchange and names it to
the queue it consumes, but declares and binds no queue to it, so that the broker drops what is
rejected or published there (`"exchange"`). In `"queue"` somebody else has bound one, which is the
only case in which anything is parked.
`ConnectionLost` requeues everything and forgets the consumers; `Reconnect` opens channels and
subscribes nobody. `Crash` also loses ids, timers and handlers. `KafkaConsumer`: `position` is the
client's, `committed` the group's; `Take` is `handleMessage` up to its first await, and `CommitDone`,
`CommitFails` the explicit commit, which can fail after it was stored. `Join` goes on at the
committed offset, or at an end of the log. `SqsConsumer`: a poll loop is `receiving`, `handling`,
`deleting` or waiting for its `timer`; `StartSqs` while a stopped loop is suspended makes two, since
`stop` clears the one stored timer.

### Sagas, processes, event sourcing, request/reply

In `SagaTransaction` steps may be in their action at the same time; every rollback keeps in
`undoing` what it copied of `completedSteps`, in reverse. `ProcessStore` keeps of a process its
correlation id. In `EventSourcing` several writers hold a copy of one aggregate: `history`,
`uncommitted`; `Save` appends with the expected version, tells the subscribers (one of them may
throw after events were stored) and is followed by `MarkCommitted`, which forgets what was raised
in between. `ReadStream`, `Reset`, `ProjectNext` and `RebuildEnds` are `rebuild`, with live events
between its awaits. In `RequestReply`, `registered` is the map, and `Timer`, `DeliverReply` and
`Cancel` delete whatever is under an id.

## 3. Runs

| run | instance | distinct states | shows |
|---|---|---|---|
| `background` | 2 messages, 1 cycle, batch 2, 3 attempts, 1 crash; 1 job, 2 slots, 1 retry, 4 executions, 2 registrations | 360 866 | `TypeOK`; `NoRepublish`: what the store shows as published is not published again; `BackoffRespected`: a retry waits for its back-off; `EventuallySettled`: a relay that keeps polling publishes every message or uses up its attempts; `SchedTypeOK`; `SlotsMatchRuns`: limiters count what runs; `StatsTellTruth`: statistics and records agree with the executions until `clear` disturbs them; `EveryRunEnds` |
| `duplicates` | 1 message, 2 cycles, 2 attempts, 1 crash; 4 requests, time to live 2, executions of up to 2 | 16 629 | `PublishedWasDelivered` in every interleaving; `DeliveriesBounded`: duplicates are bounded by attempts, overlapping cycles and crashes; `IdemTypeOK`; `LockHasOwner`: no lock is left behind; `OneAtATime`: duplicates do not run side by side; `NoReexecution`: nor again while the result is to be remembered |
| `outbox_starvation` | 2 messages, 1 cycle, batch 1 | violated | `EveryMessageAttempted` |
| `resilient_stack` | 4 requests, 1 slot, 2 waiters, 2 attempts each, threshold 2 | 303 390 | `TypeOK`; `SlotsAccounted`; `OutcomeTold`: the outcome told to a caller is true of what the service did; `ImplementsSemaphore`: slots go to waiters in the order in which they came; `ImplementsBucket`; `AlwaysSettles`: every request is answered although calls may hang |
| `resilient_service` | 4 requests, 1 slot, 1 waiter, amounts of 1 | violated | `ServiceProtected` |
| `breaker_closes` | 3 calls, threshold 2, successThreshold 2 | violated | `ClosesAfterTrials` |
| `idempotency_slow` | 4 requests, executions of up to 3 | violated | `NoReexecution` |
| `scheduler_reregister` | 1 slot, 2 executions, 2 registrations | violated | `ConcurrencyRespected` |
| `caches` | 3 calls or processes of each cache and of the lock, time to live 3; 2 reloads, 2 listeners, 2 changes; 3 loads of 2 keys; up to 3 copies | 116 976 | `TypeOK`; `OverwrittenStaysGone`: what a write replaced returns only out of a read in progress; `SingleFlight`: one computation until one fails or its value is removed; `OneInside`: one holder until one outlives its key; `StaleOnlyIfCrossed`; `RefusedLast`: a hedged call is refused only when all copies have failed; `ReloadsGoForward`: no older configuration unless a load was overtaken, and listeners know the current one unless one threw; `CallersGoOn`: nobody waits for ever |
| `event_driven` | 3 events, 2 of them with a handler, 1 remembered id; see the bounds | 315 646 | `TypeOK`; `RabbitKeepsEvents`, `KafkaKeepsEvents`, `SqsKeepsEvents`: each consumer implements `AtLeastOnce`; `SecondRun`: when a remembered event is handled again; `CompensatedOnce`; `FoundByCorrelation`; `StreamAgrees`, `ViewIsReplay`; `WaitsWhereRepliesGo`; `EverythingSettles` |
| `rabbit_pool` | 1 event, 1 retry, 2 channels | violated | `HandledIsAcknowledged` |
| `rabbit_dead_letter` | 1 event, 1 retry, 1 channel | violated | `RetriedOutIsKept` |

### What the violated runs show

* `outbox_starvation`: `getUnpublished` keeps returning the oldest messages without `publishedAt`,
  those whose attempts are used up included, and nothing ever takes these out. As many of them as
  a batch holds starve every later message, which is never offered to the broker
  (`StarvationIsPermanent` in section 4).
* `resilient_service`: `Timeout` races the operation and does not cancel it. The bulkhead's slot
  is released when the race is over, while the operation's calls go on: the service behind a
  bulkhead of n works on more than n calls.
* `breaker_closes`: three calls are under way when two failures open the breaker; the third succeeds
  and closes it. `CircuitBreaker` has no `successThreshold`: its first success closes it, in whatever
  state it is, while its documentation asks for two in a row out of `HALF-OPEN`.
* `idempotency_slow`: an execution that outlasts its lock and then throws releases the entry of the
  request that took over, whose stored result is gone; the next duplicate executes again.
* `scheduler_reregister`: a job that is unregistered (or cleared) and registered again during an
  execution gets a fresh limiter, and its executions overlap beyond `maxConcurrency`.
* `rabbit_pool`: `start` consumes on one channel of the pool (`poolSize`, 5 by default) and
  `handleMessage` acknowledges on the next in turn. A delivery tag is valid only on the channel it
  came on, so that a handled message is not acknowledged: another one is, or the connection is
  closed. `RabbitKeepsEvents` therefore promises nothing of any event, and `EverythingSettles` nothing
  of progress, unless the pool has one channel; the refinement is still checked with two, where every
  event may be dropped.
* `rabbit_dead_letter`: with `enableDLQ` an event fails, is retried and fails again. The copy goes to
  an exchange that nothing is bound to, the message is acknowledged, and the event is gone. The
  package's README promises a queue `your-queue.dlq`; `dlqQueueSuffix` is never read.

One more disagreement is not a run of its own. The README of `messaging-rabbitmq` says without
exception that an event is processed only once. Deliveries are not awaited, and an id is added only
after its handler: two deliveries side by side are both handled. `SecondRun` exempts them (`raced`),
and says that there is no other way.

Several properties hold because they leave out a window that the code really has: a read in
progress that brings back what was overwritten, a lock outlived by its holder, a load that was
overtaken, a step that was in its action when the rollback began, and so on. The text of each
property names its window. What it checks is that nothing else goes wrong, and `PROJECT.json` says
for each such hazard that the window itself is open.

### Bounds, and why they are enough

* `background`, the relay: two messages give an order and a batch with a message behind another; three
  attempts give a back-off that has doubled once (1 and 2 ticks), which the mutant without doubling
  needs. `AttemptCap` lies above `MaxAttempts`, as markAsFailed counts on for buried messages. The
  scheduler: two slots and two registrations of one job, four executions: a registration can be
  full while executions of the previous one go on. Jobs share only the counters of the statistics.
* `duplicates`, the relay: two cycles are the least that overlap, and one message is the one they
  compete for. `DeliveryCap` lies above the bound that is checked (2 + 1 + 2 deliveries), so the bound
  is never met by the cap. The requests: a first one, a duplicate beside it, one after it, and one
  after the expiry. `Ttl` = 2 lets a lock be partly used when the result is stored.
  `idempotency_slow` differs only in `MaxRun` > `Ttl`.
* `resilient_stack`: of four requests for one slot one runs, two wait, so that their order can be
  told, and the fourth is refused. Requests are interchangeable, and arrive in the order of their
  names; the fourth comes when the line is full and asks at once (`InTurn`), as the other three can
  already become everything else. The threshold is reached by two failures of one request or of two;
  amounts 1 and 2 of a bucket of 2 give grants, refusals and partial refills. `FailureCap` is the
  threshold: beyond it the count changes nothing the code does.

Requests, or cycles, are interchangeable where a cfg uses symmetry; no liveness property is checked
under symmetry. Deadlock is checked in all runs.

* `background`, `duplicates`, `caches` and `event_driven`: the parts of each share no state, so a behaviour is one of a single
  part, and the numbers of states add up. Three callers are a holder, one that waits for it and one
  that comes when the first is gone; three ticks let a key expire before, during and after the work
  of its holder. Two reloads cross, and two changes of the sources let the later be read by either.
* `event_driven`, RabbitMQ: two publications of one event meet each other and their retries, in two
  deliveries at a time. A second publication is made only over one channel and of an event with a
  handler (`FewPublications`): what is published twice without a handler is passed over twice. One
  remembered id makes the set overflow at once. Kafka: at most three messages in two partitions, two
  or more only with handlers (`FewAppends`). SQS: two messages, two loops; the events in the messages
  up to order (`SomeBodies`). Three writers would not add to two whose appends conflict; three steps
  give a rollback a middle.
* `event_driven` does not check deadlock: a saga ends, and a log that is full with its consumer
  halted stops.

### Fairness

* Outbox: weak fairness of the clock, of an armed timer, of the continuations of a cycle and of the
  settlement of `publish`. `setInterval` keeps firing and the event loop runs what is ready; a
  client library's `publish` resolves or rejects. Neither the application (save, start, stop) nor
  the broker (up, down) owes anything; `EventuallySettled` asks for a relay that stays started.
* Resilience: continuations, the delays of `Retry` and the timer of `Timeout`. The service owes
  nothing: a call may hang for ever.
* Scheduler: attempts settle and delays end. Nobody has to trigger or register.
* Caches: Redis answers, computations settle, keys expire; microtasks run, batches and the copies of
  a hedge settle, timers fire. No sources change and nobody reloads unless they like.
* Consumers: the broker delivers what is ready to who consumes, handlers settle, retry timers fire,
  a poll loop goes on; the timer of a request fires. Connections, crashes, starts and stops owe
  nothing: `EverythingSettles` asks for a queue that stays consumed or a consumer that stays started.

## 4. Proofs

The theorems hold for every value of the constants that satisfies the named assumptions of the
modules: any number of messages, cycles, callers, requests, jobs, and any limits. The assumptions
say what the code's options are (natural numbers, at least one attempt, finite sets), that each
cap lies where it changes nothing, that a pool of channels has one, and that the values standing for
nothing (`Closed`, `NoLoop`, ...) are not among those they are told from. Four theorems assume more,
and say so in their statements. Every invariant and every action property that a run checks, and every
refinement, is stated by a theorem; the inductive invariants behind them were
checked by TLC on the runs' instances first.

* **Outbox.** `TypeCorrect`. `PublishedSafe` is inductive once it is known that a cycle between
  `publish` and `markAsPublished` holds a message the broker took (`DeliveryInv`).
  `SequentialNoRepublish` and `SequentialBackoff` assume that cycles do not overlap
  (`Sequential`): then what the batch says of the messages it still holds is what the store says
  (`BatchInv`), although the batch was read before other awaits. With overlapping cycles both
  are false, and what remains is `DeliveriesSafe`, the bound on duplicates: while a message has
  attempts left, each delivery is a recorded attempt, one whose record is still to come (`InDoubt`)
  or one that a crash has lost (`Lost`). When the last attempt has been recorded, only cycles with an
  old copy of the message deliver it again, each once (`MayDeliver`), and the cycle that recorded the
  attempt is not among them. `BoundInv` says this of both phases and of the one turning into
  the other, where cycles in doubt and cycles that may deliver are different ones.
  `StarvationIsPermanent`: a message that no cycle holds (`Untouched`) and that stands behind a batch
  of dead ones nobody is about to publish (`Behind`) stays there.
* **Resilience.** `BulkheadSafe` and `BulkheadRefinesSemaphore` rest on `PoolInv`: the counter is
  the number of holders, nobody waits beside a free slot, and the queue is exactly the waiters,
  without repetition; without the last, handing a slot over could create a holder or drop one.
  `StateFollowsCount` (closed while fewer than the threshold of failures have come in since the last
  success, so that one success closes the breaker) and `FailedTrialReopens` rest on `CountInv`, `LimiterRefinesBucket` on the
  types alone: what `refill` would leave in the bucket is the level of the continuous bucket.
  `LayersImplementPolicies` shows that each step of the stack is a step, or none, of every policy,
  so `LayersKeepSlots` carries the policies' theorems over. `OutcomesTold` needs to know which
  stages of a request go with which stage of its loop, and that the service works on at most one
  attempt of it, the current one (`LayersInv`). `ProtectedFromCallsInTime`: a loop that goes on has
  the slot of its request or its request has timed out (`Slotted`), and calls in time are mapped
  one-to-one to the holders of slots.
* **Idempotency.** `LocksAreOwned` holds for all executions, also those that outlast their locks.
  `ExecutedAlone` and `ResultsAreKept` assume `MaxRun <= Ttl`; their invariant `HeldInv` adds that
  whoever runs has the key locked since it started, and that the entry holds the last result for as
  long as it is owed. `idempotency_slow` shows that the assumption is needed.
* **Scheduler.** `SlotsAreConserved` and `StatsAreTrue` sort the steps by what they do to the set of
  executions in progress (`Kinds`: one starts, one ends, records are cleared, or none of these) and
  count that set. `BaseInv` adds to the types that an execution not yet started has neither phase
  nor record, without which a start could count one twice. `LimitOfOneRegistration`: the executions
  of a job with one registration all hold slots of its one limiter (`Placed`).
* **Caches.** `LockExcludes`: until somebody outlives a key, who is between acquire and release has it
  and has used as much of its time as the key (`KeyInv`). `StaleIsCrossed`: a dead value in a call's
  hands means that the call was crossed or a change is pending (`HandInv`). `ComputedOnce`: until
  something disturbs the sharing, whoever computes is in the map (`ShareInv`). `WritesLast` needs the
  order of the pipe (`DeadInv`): if anything dead is about, a write stands in the pipe behind every
  read before it and with nothing dead behind it. `NobodyIsForgotten` is the safety behind
  `CallersGoOn`: whoever waits, waits for a call that computes or stores (`Waits`), and a call that
  waits for Redis is in the pipe.
* **Hedge and configuration.** `RefusedWhenAllFailed` rests on what the counters stand for
  (`CountersInv`): `pending` is the number of copies launched and not failed, `timersPending` the
  copies to come. `ConfigGoesForward`: a call that nobody overtook and that has read, has read
  nothing older than what is current (`ReadInv`).
* **Kafka.** `KafkaImplements`: the consumer implements `AtLeastOnce`. `KafkaInv` says that between
  what a restart would go on with and the position every message is handled, that the offset about to
  be committed is that of a handled message, and that the committed offset is at most one ahead of
  the position. `Onward` then holds of each step: a restart goes on no earlier than before, and past
  handled messages only.
* **SQS.** `SqsImplements` and `SqsRunsOnce`, from one invariant (`SqsInv`): a loop that is about to
  delete holds a message that its handler has dealt with or that needs none, whatever happened to its
  visibility since; ids are remembered only of what was handled; and of two loops whose handlers run,
  or have run without the id being remembered yet, for one event, those that still run are marked.
* **RabbitMQ.** `RabbitImplements`: over one channel no event is lost that no handler has failed with,
  and with a queue bound to the dead-letter exchange no event at all. A
  message has a place, a handler or a timer (`Within`); a retry is published only when the message it
  copies is gone (`Ordered`), by the only timer that can (`Timed`); and a handler whose channel is
  open owns its message (`Owned`), without which a second acknowledgement would take another's. With
  more channels the last three are false (`rabbit_pool`), and the theorem says that served, parked and
  failed events stay so and that nothing appears from nowhere. `RabbitRunsOnce` rests on deliveries
  of one event that are handled side by side being marked (`Twins`). `RabbitAcknowledgesHandled`
  follows from `Owned`: the tag that is acknowledged is that of the handler's own message.
* **Sagas, processes, requests.** `ProcessFound` and `RequestReachable` are nearly inductive
  themselves. For `SagaCompensates`, a rollback in progress has called exactly the compensations of
  what it has already taken from its copy, which has no repetitions (`SagaInv`).
* **Event sourcing.** `StreamsAgree`: what writers have not yet stored is new and theirs alone, so no
  append can store an event twice; in between, an aggregate's known part begins the stream
  (`StreamInv`). `ViewReplays`: while nothing was mixed in, the view followed by what a rebuild has
  still to project is the stream (`ViewInv`).
* **Data loader.** `LoadsAreKept`: a load that waits is in the queue with the flush under way, in a
  batch, or its batch has ended without an answer for it. It needs the flag to be set exactly while
  the microtask waits (`LoadKept`); `CallersGoOn` turns it into an answer by fairness.
* **Compositions.** `CachesTypeCorrect`, `PartsTypeCorrect` and `PartsRunOnce` are invariants of
  `MCCaches` and `MCEventDriven`: in each step one part moves and the others stand still
  (`StepIsOfEach`), so that the conjunction of the parts' invariants is inductive (`CachesInv`,
  `PartsInv`). The types of a saga need more than ranges: that each rollback calls a compensation at
  most once is `SagaBounds`, which counts the rollbacks that have called it. `CachesAsSpecified` and
  `PartsAsSpecified` show that the compositions implement the specifications of their parts, fairness
  included; `CachesKeepPromises` and `PartsKeepPromises` carry the theorems of the parts over to what
  the runs check.

Only model-checked: the liveness properties (`EventuallySettled`, `AlwaysSettles`, `EveryRunEnds`,
`CallersGoOn`, `EverythingSettles`), which rest on fairness and ENABLED, out of the prover's reach.
The properties of the violated runs are false; what is left of each is proved:
`ServiceProtectedInTime`, `ConcurrencyRespectedOnce`, `AcknowledgedAction` and, under `MaxRun <= Ttl`,
`NoReexecution` say where the promise holds, `StarvedForGood` that the starvation of `outbox_starvation`
does not end. They, and the invariants they rest on, were checked by TLC before they were proved. Nothing is left of
`ClosesAfterTrials` and `RetriedOutIsKept`: what the code does instead is in `StateFollowsCount` and
`RabbitImplements`.

## 5. What is left out

Metrics, events, error texts and the metadata of records; queries that only read. Delays have no
length where nothing compares them. In the outbox, stores other than the in-memory one and
messages saved twice under one id; in the idempotent use case, the failure of a store's call; in
the scheduler, job objects that never settle (`EveryRunEnds` assumes that they do) and history.
The options `name`, `successThreshold` and `halfOpenTimeout` of the breaker are in its documentation and
not in its code (`breaker_closes` is about the second).

Of the parts above: the invalidation of caches by tag and pattern, `extend` of the lock, values of
`DataLoader`; callbacks that call back into the class that calls them; several keys, queues or
topics where they share nothing; the partitions' assignment to several members of a group; a
message RabbitMQ's consumer cannot parse, which takes the way of one whose handler rejects; snapshots
and filtered replays; `SagaChoreography`, `ProcessManager` and its scheduler, which look up and pass on.

Not modelled: the inbox, whose `isDuplicate` and `save` are two calls in an order that only a user of
the package fixes; `HealthCheck`, whose only interleaving is that of two indicators under one name
(the last to settle decides); `HealthChecker` of service discovery, the same; `CachingBehavior`, which
has the shape of `SecretCache`; streams, websocket and the helpers under `extras/`, which are
synchronous; `CronParser`, a parser of strings.

## 6. Plan

The parts with interleavings of their own are modelled. Every safety property of the runs is proved,
and so is the condition under which what the violated runs refute holds. What could follow, in
this order: the safety that liveness rests on, as `LoadsAreKept` and `NobodyIsForgotten` are (a timer
of the relay has a free cycle or one that can go on; a request in progress has a step of its own);
a group of Kafka consumers with assignment and rebalancing, once the code handles more than one
member; the outbox and a consumer in one composition, with the broker between them; `CronParser`'s
fields as sets, compared with the dates they match.
