# Verification of the progress service

The progress service takes learning events from an HTTP endpoint and from the
Kafka topic `dualmatch:question`, keeps them in an in-memory queue, and writes
each of them to MongoDB and then to the Kafka topic `events`. This directory
holds TLA+ models of it, the TLC runs that check them, and TLAPS proofs.
`PROJECT.json` lists runs, mutants, hazards, findings, theorems, and for every
definition the source lines it models. Source paths below are relative to `src/src`.

## 1. The system

### Components

| Component | State | Operations | Talks to |
|---|---|---|---|
| Event queue (`events/event-queue.service.ts`) | queue, `isProcessing`, interval timer, event counter, `retryCount` per event | start, `enqueueEvent`, timer tick, `processBatch`, `processSingleEvent`, drain | MongoDB (`save`), Kafka service (`sendMessage`) |
| Kafka service (`kafka/kafka.service.ts`) | two flags; the kafkajs producer, consumer and admin client | connect, send (four variants), subscribe and consume, admin calls, disconnect | brokers |
| Consumer of `dualmatch:question` (`events/events-kafka-consumer.service.ts`) | none; kafkajs keeps the offsets | start, message handler | Kafka service, event queue |
| HTTP controller, queries (`events/events.controller.ts`, `events/events.service.ts`; the global pipe and filter in `common`) | none; open requests | `POST /events`, statistics, readiness, pages of events | event queue, MongoDB |
| Health (`health`, `database/database-health.service.ts`, `kafka/kafka-health.service.ts`) | listeners and timers of pending waits | `/health`, `waitForConnection` | mongoose connection, Kafka flags |
| Configuration (`database/*config*`, `kafka/kafka-config*`) | none | `validate`, `createMongooseOptions`, Kafka settings | environment |
| Process (`main.ts`, `app.module.ts`) | Nest's lifecycle | bootstrap, shutdown on a signal | all |

Schemas, DTOs, the validation pipe and the exception filter keep no state; what
they do to a request is in `EventsController`. The custom validators, logging
and the root controller are listed in `PROJECT.json` with the reason why they
have no module.

### What is hard about it

* **Two runners of one queue.** The timer starts `processBatch()` without
  awaiting it, and the shutdown drain starts batches of its own while that one
  may be in flight. Both requeue into the same array and reset the same flag.
* **Two stores, no transaction.** An event may be saved and not announced, or
  saved although the answer was lost; a retry starts from the beginning.
* **Nothing is persisted before it is processed.** A crash loses what is in memory, also
  events answered with 202 and messages whose offset is committed.
* **Shared Kafka clients.** Flags are read before an await and written after
  it, while sends and shutdown overlap.
* **Order of shutdown.** Nest destroys `EventsModule` (drain), then
  `KafkaModule` (disconnect), then closes the HTTP server; requests and
  messages arrive all the time.
* **At least once, twice over.** kafkajs repeats a message, and the queue repeats an
  event; every repetition is a new document under a new id.
* **Answers from several reads.** The handlers await one query after another, in
  production on any member of the replica set, while documents are written.
* **Races for one promise** in `waitForConnection()`, and stale reads in
  `checkHealth()`.
* **Zero** in `parseInt(x) || default` and in `levelMap[level] || INFO`.

What makes each component correct is listed with its module below; every hazard
has its line in `PROJECT.json`.

## 2. Modules

| Module | Models | Composed with |
|---|---|---|
| `DeliveryContract` | what is promised for every event (abstract) | |
| `EventQueue` | the event queue, its stores, crash and restart | refines `DeliveryContract` |
| `KafkaService` | the Kafka service, with many concurrent callers | |
| `DualMatchConsumer` | handler and offsets on one partition | |
| `ConsumedEvents` | from a message to documents and announcements | extends `DualMatchConsumer`, instantiates `DeliveryContract` |
| `ProgressService` | the process: start, work, shutdown, crash, restart | extends `EventQueue`, instantiates `KafkaService` |
| `EventQueries` | the stored documents, and what the queries find in them | extends `DeliveryContract` |
| `EventsController` | routes, pipe, handlers with their awaits, filter | extends `EventQueries` |
| `Health` | `/health` and waiting for the database | |
| `Configuration` | environment to settings | |
| `MCConfiguration` | the environments tried | extends `Configuration` |
| `*_proofs` | theorems about the module they are named after; `ConsumedEvents_proofs` also about `DualMatchConsumer`, `EventsController_proofs` about `EventQueries` | `ProgressService_proofs` builds on `EventQueue_proofs`, `EventsController_proofs` and `ConsumedEvents_proofs` on `DeliveryContract_proofs` |

Operators marked *mutant* are wrong versions of the definition that follows
them; they belong to no specification and serve to show that a property can fail.

### How state and actions correspond to the code

JavaScript runs to the next `await` without interruption, so **a step is the
code between two awaits**. What happens at an await (a driver answering,
failing, timing out, or failing after the write took effect) is a choice.

`EventQueue`. Variables carry the names of the fields. `stage` says at which
await `processSingleEvent()` of an event is (`saving`, `sending`) or how it
ended; `batch[c]` holds the unsettled calls in `Promise.allSettled` of caller
`c` (timer or drain), `calls` the callers that await it. `Tick` is the timer
callback, `ProcessBatch` the splice and the start of all calls, `SaveSucceeds`,
`SaveFails`, `SendSucceeds`, `SendFails` the continuations with the whole catch
block, `BatchSettled` the `finally`, `OnModuleDestroy` and `DrainLoop` the
drain with its loop head. `docs` and `msgs` count documents and announcements.
Events are numbered by `++eventCounter`; the number goes on after a restart
because the id also carries `Date.now()`. An event without `userId` (possible
only from Kafka) fails validation in `save()` and is `anonymous`.

`KafkaService`. The kafkajs clients are external and modelled from the way the
code uses them: `send()` is refused unless the producer is connected, a client
is "disconnecting" until `disconnect()` resolves, everything may fail.
`sends[s]` is the await a call of one of the send functions is at; `lifecycle`
where `onModuleInit()` or `disconnect()` is. The four send functions differ
only in the payload and are one action.

`DualMatchConsumer`. `log` is the partition, `position` the next message,
`resolved` what kafkajs would commit, `committed` the group's offset. There is
no await between the start of the handler and `push()`, so a message and its
event are one step. kafkajs goes back to the committed offset after a crash or
a rebalance, and to the end of the log when there is none (`fromBeginning:
false`); the offsets passed over that way are recorded in `skipped`.

`ProgressService`. `Save` and `Send` tie the two components together:
`sendMessage()` is called in the step in which `save()` resolved, and an event
settles in the step in which its send does. `StartKafka`, `StartQueue`,
`StartConsumer`, `Listen` are Nest's initialisation; `StopQueue`, `StopKafka`,
`StopListening`, `Exit` its shutdown, each guarded by the end of the one
before. `Killed` is a crash at any time from the start of the Kafka service to the
exit, followed by a restart; a bootstrap that fails ends the same way. `resolved`
are the events of the messages that kafkajs has read since it joined the group
and not committed yet: a crash or a rejoining forgets them, `CommitOffsets`
commits them.

`ConsumedEvents`. The consumer and the queue in one process; the queue is its
contract, which `EventQueue` implements (theorem `Refinement`). `Consume` is
the handler's step, in which the event is accepted; `origin[e]` names the
message an event came of. A crash (`ProcessEnds`) takes both: the position of
the consumer and what the queue holds. `EventsOf(o)` are the events one message
became by being read again. An event without `userId` is never saved (`NoneSaved`).

`EventQueries`. `collection` is the collection in natural order; each step of
the delivery contract appends the documents it wrote. In production reads go
to `secondaryPreferred`: a query sees the first `n` documents for some `n` that the
slowest member has reached (`Snapshots`). One user, two event types; which
events carry `eventData.concepts` is a constant.

`EventsController`. `request` is the handler that awaits the database, with its
parameters; `IngestEvent` and `GetStats` answer in one step, `Get` is a handler up
to its first await, `Ready`, `Listed`, `Aggregated` and `StatsAnswered` go on
when the query is answered (`getUserEventStats()` awaits two), and `QueryFails` is
a rejection at any of these awaits, with the filter's answer. `Bodies` and
`Valid` are what the DTO and the pipe tell apart; `Routes` stands in the
order of declaration, and Express takes the first that matches (`Handler`).
Requests share nothing but queue and database, and only `POST` changes
anything, in one step; so one open request at a time is enough.

`Health`. `checks[r]` is the await of a request, `waits`, `timers`,
`onConnected`, `onError` the promise, timer and listeners of each call of
`waitForConnection()`. mongoose changes `readyState` at any time.

`Configuration`. The environment is chosen freely once; `Validate`,
`CreateMongooseOptions`, `CreateKafkaConfig` and `Listen` are the functions that
use it, in the order of the bootstrap. A variable is unset, an integer or a text
that is none; of other texts only what the code asks of them is kept.

## 3. Runs

| Run | Shows |
|---|---|
| `queue` | an event is in one place (`OnePlace`); how far "at least once" can go (`DeliveryBounds`); first attempts in order of acceptance; one batch at a time until shutdown and none above its size (`SingleFlight`); until shutdown `/events/stats` shows an idle queue only when every accepted event is settled (`IdleIsSettled`); nobody is pushed back in the queue; the drain leaves only what the timer's batch has in flight; the queue implements `DeliveryContract`; queued events are settled while the service runs; the drain returns |
| `kafka_main` | the producer flag is truthful; concurrent admin calls do not leave the client open; a consumer said to be down is down and handles nothing, and so does `disconnect()` leave it (`ConsumerQuiet`); sends and `disconnect()` return |
| `dualmatch` | usable messages are not passed over; repeats are bounded by crashes and rebalances; one message becomes at most one document per attempt of each repetition, none without a `userId`, and no more announcements than documents (`DocumentsPerMessage`); no message blocks the partition; every message comes to an end: an event of it is settled, and when it is lost before the commit, a later one of the same message (`EveryMessageEnds`) |
| `service` | the producer is connected as long as the queue runs; the composition implements `EventQueue`; every accepted event meets its end; every shutdown completes once no more events arrive |
| `queries_main` | the readiness count stays between published events and attempts; a user is told "ready" only if the attempts can have written enough, and "not ready" by an up-to-date member only while too few events are published (`ReadinessAnswers`); on every member the answer is right for good some time (`ReadyForGood`); totals and page of one answer agree, in production up to the documents that not all members show (`StatsWithinPage`); every request is answered, whichever of its queries fails |
| `health_main` | "healthy" means pinged; timers match waits; "true" means connected; every call ends |
| `config_bounds` | no started process is outside the documented ranges |

### Findings: runs that end in a violation

| Run | The code against what it says |
|---|---|
| `queue_drain` | the drain logs that all remaining events are processed while a batch of the timer is in flight; what fails there is requeued for nobody |
| `service_accepted` | requests are answered 202 after the last drain, and their events lost |
| `service_committed` | a message is logged as successfully processed and committed, and its event lost in a crash |
| `kafka_disconnect` | a send that meets `disconnect()` connects the producer again, and nobody disconnects it |
| `queries_latest` | `latestEvents` sorts by a field no document has |

Disagreements that the models reproduce in a single step, and that have no run
of their own:

* `isConsumerReady()` ("Check if consumer is connected", `kafka/kafka.service.ts:347`)
  stays true after kafkajs has stopped the consumer (`ConsumerCrashes` leaves the flag).
* The readiness count (`events/events.service.ts:49`) counts all documents of a
  user, those of failed attempts and of other event types included, where the
  API speaks of questions (`events/events.controller.ts:132`).
* The totals look for `eventData.concepts`, the consumer's question attempts carry
  `concept` (`events/events.service.ts:25`, `events/events-kafka-consumer.service.ts:75`):
  they are empty for them (`ConceptStats`).
* A request with a `timestamp` is always refused: the pipe converts it to a `Date`
  before `@IsDateString()` asks for a string (`events/dto/event.dto.ts:20`; `Valid`).
* `GET /events/user/is-personalization-ready` never reaches its handler: the route
  `/user/:userId`, declared before, answers with the empty list of a user of
  that name (`events/events.controller.ts:159`; `Handler`).
* `GET /events/stats` documents `pending`, `processing`, `completed`, `failed`,
  `retrying` (`events/events.controller.ts:90`) and answers `total` and `isProcessing` (`QueueStats`).
* `GET /events/user/:userId/stats` without `eventType` asks for documents whose
  type is undefined and finds none (`events/events.service.ts:20`; `Types`).
* `limit=0` is no limit to MongoDB, a negative one its absolute value, and nothing
  checks it (`events/events.controller.ts:124`; `Limit`).
* In production reads may come from a member that is behind
  (`database/database-config.service.ts:117`): a user told to be ready may be told
  the contrary next, and the totals may count what the page lacks (`Snapshots`).
* `/health` says `ok` with HTTP 200 whatever the state of the database
  (`health/health.service.ts:35`, against `src/DEPLOYMENT.md:108`; `Respond`).
* A setting of 0 is taken for "not set" instead of being refused
  (`database/database-config.validation.ts`, `ParseIntOrDefault`), and Kafka log
  level 0, `NOTHING`, becomes `INFO` (`kafka/kafka-config.service.ts:62`, `LogLevel`).
* `KAFKA_RETRY_DELAY` sets both the first wait and the total time of retries
  (`kafka/kafka-config.service.ts:92`, `RetryConfig`); the time-outs of Kafka may be NaN (`Get`).
* `APP_PORT` is validated, and `bootstrap()` listens on `PORT` (`main.ts:28`, `Listen`).

Observed beside the models, and dependent on the libraries' versions:
`retryWrites: true` is set in code (`database/database-config.service.ts:110`)
although `src/DEPLOYMENT.md:56` gives DocumentDB a URI with `retryWrites=false`;
and `validate()` returns no `KAFKA_*` variable, so those written only in a
`.env` file may not reach the Kafka settings.

### Bounds

* Queue: three events, batches of two, one retry (code: 10 and 3). A batch can
  be full or not, two batches overlap with a third event waiting, an event is
  tried, requeued and dropped. `queue_drain` needs only two events.
* Kafka: two senders and two admin callers; interference between calls of one
  kind needs two.
* Consumer and queue: two messages of four kinds, one interruption, one retry: a
  message is read twice, before and after a commit, and each of the events
  it becomes is tried twice. More messages or interruptions are the subject of
  the theorems `AtLeastOnce` and `BoundedRepeats`, which hold for any.
* Service: two events in batches of one, one retry, one process after another:
  batches of timer and drain overlap, and a send is under way when the producer
  is disconnected. The numbers of events, and so of arrivals, bound the restarts.
* Queries: two events of different types, of which one has concepts, one retry, so
  up to four documents; a readiness limit of two, so that it is met by
  repetitions or by two events; pages of three, full or not (of one in `queries_latest`); a
  member that is behind by any number of documents.
* Health: two requests, two waiters.
* Configuration: at most two numbers set, each to the boundaries of the ranges or
  their neighbours, -1, 0, or unparsable, because no check relates more than two.
  The theorem covers all environments and integers.

### Fairness

* `Tick` (weak): `setInterval` fires again and again while it is set.
* `save()`, `sendMessage()`, ping: settle, because the MongoDB driver has socket
  and server-selection time-outs (`validate()` bounds them) and kafkajs bounds
  its retries; **either way**: no run assumes that a call succeeds.
* A query settles (`Query`), as `save()` does; a member of the replica set that is
  behind catches up (`ReplicaStep`).
* The container is started again and kafkajs keeps fetching and committing
  (`StartConsumers`, `Consume`, `Commit`); the queue settles what it holds (`Process`),
  as `EventuallySettled` shows of `EventQueue`.
* Promise continuations run; handlers return, as the only handler awaits nothing.
* `disconnect()` of each client settles; a signalled process exits.
* Nothing is assumed to arrive, start, crash or be shut down. Arrivals are
  finite in the models: a drain with unending arrivals, which need not return,
  is not covered by `DrainTerminates` and `ShutdownCompletes`.

## 4. Theorems

All hold for every number of events, messages, interruptions, retries, senders,
admin callers, requests and waiters, every batch and page size. Assumed is only that
these constants are natural numbers, batch and page size and the count that
suffices positive, that the user's events are among the events, and (for
`Configuration`) that the environments are of the form described and "unset" and
NaN no integers. Every invariant of a passing run is stated by a theorem, as is
every action property and every refinement.

**Event queue and service**

* `EventQueue_proofs`: `TypeCorrect`, `OnePlaceHolds`, `DeliveryBounded`. The
  inductive invariant is `IInv`, which adds to `TypeOK` and `OnePlace`
  *CallsInv* (a call that has returned works on nothing; the drain calls
  `processBatch()` only after `onModuleDestroy()`; until then the flag tells
  whether the timer's call is under way) and *UnnumberedInv* (events not yet
  numbered leave no trace). `OnePlace` alone is not inductive: that two batches
  are disjoint when they overlap follows from where the events were before, and
  that `processBatch()` may overwrite `batch[c]` from `CallsInv`: without it a
  tick could forget calls in flight. `DeliveryBounds` is then inductive relative to `IInv`.
  `FirstAttemptsOrdered`, `SingleFlightHolds`, `NotPushedBack`, `DrainLeaves`,
  `IdleMeansSettled` (what is unsettled is queued or in flight, by `OnePlace`, and
  until shutdown the flag tells of anything in flight, by `SingleFlight`) and
  `Refinement` (the queue implements `DeliveryContract` step by step, with the
  refinement mapping `contractStatus`) follow from it.
* `ProgressService_proofs`: `ServiceImplementsQueue`. Every step of the service
  is a step of the queue or leaves it alone; so the theorems about the queue hold
  of the service (`ServiceOnePlace`, `ServiceDelivery`, `ServiceOrder`,
  `ServiceSteps`), and the service implements the contract (`ServiceContract`).
  `ProducerReady` rests on `StartedInOrder`: while the queue runs or drains, the
  Kafka service is up, and while that is up, nothing disconnects the producer.
  `ServiceTypes` follows the flags through a process that ends in the middle of a call.

**What the contract is worth**

* `DeliveryContract_proofs`: `ContractKept`, from `Stores`: no more documents than
  attempts, no announcement without a document, a document of every published
  event. That holds only because, besides, the attempts of an event that waits for
  the next one are all counted as failures, and a stored event has one document
  that is not announced: without these two a silent write would break the bounds.
* `ConsumedEvents_proofs`: of the consumer alone, `AtLeastOnce` and
  `BoundedRepeats`. `OffsetsInv` keeps position and commit inside the log and says
  that what kafkajs would commit is where the handler has got to; without it a
  commit could run ahead of what was handled. `RepeatsInv` counts the reading at
  hand on top of the interruptions: a message behind the position may have been
  handed over once more than there were interruptions, one ahead of it may not.
  Composed: every step is a step of the consumer or leaves it alone
  (`ConsumerPart`), so both hold in front of the queue (`ComposedAtLeastOnce`); and
  it is a step of the contract or leaves the events alone (`ConsumedDelivers`), so
  `ContractKept` holds of the events of the topic. That the model never runs out
  of numbers for events (`EventsSuffice`) is proved by counting them: at most one
  per message and interruption. `ConsumedTypes` follows. `OnlyCompleteSaved`: a
  document exists only of an accepted event whose message had a `userId`, from
  `OriginInv` (every accepted event names a message of the log) and `SavedInv`.
  `DocumentsOfMessages` puts these together: the documents of a message are among
  the pairs of one of its events (`EnqueuedCounts`: as many as it was handed over) and an attempt.
* `EventsController_proofs`: requests do no more to an event than have it accepted
  (`ApiDelivers`), so the contract holds here too. `OneDocumentPerWrite`: the
  collection holds as many copies of an event as writes of it took effect; the
  invariant `StoreInv` has to add that only finitely many events are accepted,
  because a step that ends the process may write many, in any order.
  `CountsBounded` counts documents by their event (`FiberBound`: when each of T
  has at most n of S, there are at most n times as many S as T).
  `ReadinessBounded` carries these bounds over to what the client is told: any
  member counts some of the documents (`CountOnMember`), one that is up to date all.
  `ApiTypes` and `TotalsWithinPage` rest on `HttpInv`: while a request is open there
  is no answer, and the totals that wait for their page count documents that are
  there (`TotalsStand`) and stay in their place (`CollectionGrows`); so the page lacks
  of them only what its member does not show.

**The other components**

* `KafkaService_proofs`: `TypeCorrect`. `FlagTruthful`; the property is inductive by
  itself, because reconnecting sets flag and client together. `ConsumerLeftQuiet`,
  from `ConsumerInv`, which follows `disconnect()` through the steps behind the
  consumer's. `AdminLeftClosed`, from `AdminInv`: a connected admin client is used
  by somebody, whose call will disconnect it.
* `Health_proofs`: `TypeCorrect`. `TimersOfTheWaiting`, from `WaitInv`: whoever has a
  timer still listens for both events, so an event that answers also clears the
  timer. `HealthyRestsOnPing`, from `StatsAfterPing`: only a request whose ping was
  answered gets to the statistics. `TrueWhileConnected`.
* `Configuration_proofs`: `AlwaysWithinBounds`, from what `validate()` has
  checked of the settings it returns.

Only model-checked: everything under fairness (`EventuallySettled`,
`DrainTerminates`, `SendsSettle`, `DisconnectReturns`, `PartitionAdvances`,
`EveryMessageEnds`, `EveryEventEnds`, `ShutdownCompletes`, `ReadyForGood`,
`EveryRequestAnswered`, `EveryCallEnds`), which the prover does not reach; and the
runs that end in a violation.

## 5. Not modelled

* Duplicates below kafkajs: its producer is not idempotent, so a send may leave
  the same message twice. Both carry the same `eventId`; they count as one announcement.
* Time: the interval of 100 ms, and how long calls take.
* Memory: the queue has no limit, nothing in the code says what happens then.
* A signal during the start: Nest lets the initialisation finish first.
* Failing start of the consumer in `ProgressService`: to the queue it is a crash,
  which is there; `KafkaService` has it.
* What kafkajs and the MongoDB driver make of odd settings (NaN, a retry time below the first wait).
* The custom validators (`common/validation/custom-validators.ts`) are attached to
  no DTO, and `createOptionalValidationPipe()` has no caller: no request ever meets them.
* `EventQueueService.extractUserId()` and the `EventQueue` model have no use;
  `KafkaService.getAdmin()`, `validateKafkaConfig()`, `getDatabaseName()` and
  `isAuthEnabled()` have no caller.
* Branches that are never reached: `checkHealth()` without a ping when the connection
  has no `db` (`database/database-health.service.ts:48`; mongoose sets it before it
  is connected) and the catch of `KafkaHealthService.isHealthy()`
  (`kafka/kafka-health.service.ts:27`; reading two flags throws nothing).
* Logging, API documentation, CORS, the constant answer of the root controller.

## 6. Plan

Done, in this order: `DeliveryContract` and `EventQueue`, their proofs,
`KafkaService`, `DualMatchConsumer`, `ProgressService`, `Health`,
`Configuration`, `EventQueries`, `EventsController`, `ConsumedEvents`, and the
proofs about the consumer, alone and composed, the Kafka service, health, the
contract, the HTTP interface and the types of the composed service.

Left of the models: several partitions that one consumer handles one after the
other (the handler awaits nothing, so none can block another), and several users
(the queries filter by user and share nothing).

Left of the proofs: what the findings say, turned round. Under which condition
each documented statement that a run refutes does hold: `DrainLeavesNothing` when
no batch of the timer is in flight at the signal; `AcceptedIsRead` of events
accepted before the queue is stopped; `DisconnectedAtReturn` without a send
that is under way.
