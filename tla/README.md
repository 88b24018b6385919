# TLA+ models of the Graftcode Gateway plugins

The repository holds five transport plugins (RabbitMQ, Azure Service Bus, Kafka,
Amazon SQS, Google Pub/Sub) that carry Graft calls between a calling runtime and
a gateway, and instrumentation packages for .NET, Java, Node.js and Python.
These modules model the plugins' concurrent core: what happens between the
threads of a process and a broker that loses, repeats and delays messages.

## The system

Each plugin is one shared library with two halves.

| Part | State it keeps | Operations | Talks to |
|---|---|---|---|
| **Reply correlator** `PendingReplies.h` (the same file in all five) | map from correlation id to slot, closed flag, two kinds of condition variable | `Register`, `Ticket::Wait`, `~Ticket`, `Complete`, `Fail`, `FailAll`, `Close`, `WaitForPending` | shared by the callers' threads and the dispatcher of a client |
| **RabbitMQ client** | a shared `Link` (connection, exclusive reply queue, I/O thread) and its flags | `Call`, `CurrentLink`, `Publish`, `Run`, `Disconnect`, destructor | correlator, broker |
| **Service Bus client** | a shared `Link` (sender, session receiver, dispatcher) and its flags | `Call`, `CurrentLink`, `Send`, `DispatchReplies`, destructor | correlator, broker |
| **SQS client** | `started_`, `stopping_`, one dispatcher thread | `Call`, `EnsureDispatcher`, `DispatchReplies`, destructor | correlator, two queues |
| **SQS server** | `config_`, `running_`, `stopRequested_`, `activeClient_` | `configure`, `start` (the receive loop), `stop` | request queue, reply queues, `processMessage` |
| **Kafka client** | `started_`, `stopping_`, producer, consumer, dispatcher | `call`, `ensureStarted`, delivery reports, `dispatchReplies`, destructor | correlator, two topics |
| **Kafka server** | `running_`, `worker_`, `process_`, the consumer's position | `configure`, `start`, `stop`, `loop` | request topic, reply topics, `processMessage` |
| **Pub/Sub client** | `started_`, a dispatcher, the batch it has pulled, a pool of sessions | `Call`, `EnsureStarted`, `DispatchReplies`, destructor | correlator, two topics with their subscriptions |
| **Pub/Sub server** | `running_`, `stopRequested_` | `start` (set-up and pull loop), `stop`, `HandleMessage` | request subscription, reply topics, `processMessage` |
| **Pub/Sub REST sessions** | a cached bearer token per session | `Publish`, `Pull`, `Acknowledge`, `EnsureTopic`, `EnsureSubscription`, `BearerToken` | HTTP, token endpoint, metadata server |
| **RabbitMQ server** | `g_stopRequested`, `g_activeSocket`, one connection | `start`, `stop` | request queue, reply queues, `processMessage` |
| **Service Bus server** | `g_stopRequested`, a cache of reply senders | `start`, `stop`, `publish` | request queue or topic, reply queues, `processMessage` |
| **Transport ABI** `TransportPluginExports.h` | buffers handed to the host | `CreateTransport`, `TransportSendCommand`, `TransportFreeBuffer`, `DestroyTransport` | any client |
| **Configuration** | what each half of a plugin has read | ten parsers, the searches for a plugin's object | JSON |
| **Payload text** | | `Base64Encode`, `Base64Decode`, `EncodePayload`, `DecodePayload` | REST sessions, SQS |
| Instrumentation | span stack, saved trace headers, library catalog | call spans, operation names, body capture | OpenTelemetry |
| Application Insights connectors | exporter pipeline, rate-limited sampler | open, log, flush, close | OpenTelemetry |

A call goes: caller → client `Call` → correlator `Register` → request on the
broker → server loop → `processMessage` → reply on the broker → dispatcher
thread → correlator `Complete` → caller.  Callers share everything on the client
side; a server is driven by `start()`, which runs the loop on the calling thread
(except Kafka's), and `stop()` from another thread.

### What is hard here

Notifications sent after a mutex is released; a link that is tested under one
lock and used after it; a thread joined by whoever drops the last owner of its
link; a timeout that races a reply; replies that come late, twice, or after a
reconnect; a failure of one step of receive / process / reply / delete; a stop
that races a start, or that closes a descriptor under a loop; a reply sender or
a token that is stale when it is used; a request to a REST service that took
effect although its answer was lost; a buffer on a path where an allocation
failed; trace headers a failed completion does not put back.  `PROJECT.json` lists
each at its line under `hazards`, with the properties that answer it.

## Modules

| Module | Models | How |
|---|---|---|
| `ReplyContract` | what a correlated call promises its caller | abstract specification: a promise per caller, resolved at most once |
| `PendingReplies` | the correlator | one action per critical section; `Register` and `Close` are two actions each, since they notify after unlocking. `KeepsContract` is the refinement mapping to `ReplyContract` |
| `RabbitMqClient` | RabbitMQ client | extends `PendingReplies`; `at` is where a thread is in `Call`, `holds` its `shared_ptr<Link>` |
| `ServiceBusClient` | Service Bus client | the same shape with a client-wide reply session and one-way mode |
| `SqsClient` | SQS client | extends `PendingReplies`; the dispatcher's place in its loop, its batch, the reply queue |
| `SqsServer` | SQS server | threads in `start`, threads in `stop`, and a queue that delivers again whatever was not deleted |
| `KafkaClient` | Kafka client | extends `PendingReplies`; the steps of `ensureStarted` that may throw, the producer's queue with its delivery tags, the dispatcher's place in its loop |
| `KafkaServer` | Kafka server | threads in `start` and `stop`, where a thread is created before `worker_` has it and `joinable()` is tested before `join()`; the workers' places in the two loops, one partition with each consumer's position and the committed offset |
| `RabbitMqServer` | RabbitMQ server | the two loops of `start`, the connection as a pipe that loses a suffix, descriptor numbers, which the kernel gives out again (`holder`) while other threads still mean to close theirs (`held`) |
| `ServiceBusServer` | Service Bus server | a queue that loses what it has delivered (the receiver settles at once), the kept reply sender and how long it has been idle |
| `PubSubBroker` | Pub/Sub and the requests of a session | topics and subscriptions that are made on demand; each HTTP request has an answer and, apart from it, an effect |
| `PubSubClient` | Pub/Sub client | extends `PubSubBroker` and `ReplyContract`: the correlator appears as its contract |
| `PubSubServer` | Pub/Sub server | extends `PubSubBroker`; set-up, pull loop, `HandleMessage`, crashes |
| `PubSubRpc` | the two composed | a step of either half, on the same broker |
| `PubSubPending` | the two with the correlator | extends `PendingReplies`; what does not concern the correlator is `Rpc!`, an instance of `PubSubRpc` whose `promise` and `answer` are the correlator's. `KeepsRpc` is the refinement |
| `PubSubToken` | token cache and endpoints | a clock in units of 30 s, and the two exchanges a token comes from |
| `TransportAbi` | C ABI over `SendCommand` of the five transports | threads of the host, `malloc` that may fail, each buffer by its address |
| `PluginConfig` | the ten parsers | a text is its length and the key it comes from; `Objects` are what they are given |
| `ConfigSearch` | the searches of a shared document | the document is the sequence of plugin objects in the order a search meets them; `Catalogue` has the documented ones |
| `PayloadText` | base64 and the limits of a payload | bytes and sextets; the loops of the decoder read a character in a step |
| `CallSpan` | call spans of the Python instrumentation | the calls of one thread as a stack, with the context and headers each of them puts back; a completion may raise |
| `MC*` | | the modules TLC runs |
| `*_proofs` | | theorems and their TLAPS proofs |

`MCSqs`, `MCKafka`, `MCRabbitMq`, `MCServiceBus` and `MCBoundary` extend specifications
that share nothing and put them side by side: a variable `side` (or `part`) is chosen in the initial state and one
of them runs while the others stay in their initial states, so that the state space
is the sum of theirs.  `PubSubRpc` is a true composition: the
client and the server share the broker's variables.  `PubSubPending` puts the
correlator in place of its contract: callers sleep on tickets and are woken, the
dispatcher sleeps in `WaitForPending`, and replies find their calls in the map.

A client module takes the correlator's actions as steps of the threads that call
them: `Answered(c)` is `WaitReturns(c)` plus the return from `Call`.  Hence every
behaviour of a client is a behaviour of the correlator, and the theorems about
the correlator hold in the clients (`ClientImplementsPending` of RabbitMQ, Service
Bus and Kafka, `SqsImplementsPending`).

Correspondence with the code: an action is a critical section, or a call into
the broker's library, or a test of an atomic flag.  A slot is shared by the map
and the ticket of one caller, so it is named by the caller.  Correlation ids are
fresh ids (`FreshIds`): the code makes them from a counter and a clock, or from
128 random bits.  A request body is used once (`FreshBodies`) and the gateway
echoes it, so that a reply can be told from every other.  The broker and the
gateway are external where one half runs alone: `GatewayReplies`, `ClientSends`
and `VisibilityEnds` are what the clients and servers assume of them, which is
little: a request is answered any number of times or never, at any time.

Operators commented as a *mistake* are variants of an action with a plausible
error (a dropped test, a missing notification).  No specification uses them; they
are there to show that each property can be violated.

## Runs

| Run | Bounds | Shows |
|---|---|---|
| `correlator` | 3 callers, 2 ids | `SlotsMatchTickets`, `WakeupsNotLost`, `ClosedAnswersAll`, the contract, and `SleepersWake` without timers |
| `rabbitmq` | client: 2 callers, 2 links, 2 ids; server: 3 requests, one empty, one without `reply_to`; 2 descriptor numbers, 1 other thread | `LinksServeTheirCalls`, `OwnReply`; `LostLinkFailsCalls` without timers, `CallReturns` with them; `StopClosesOwnSocket`, `AckedAfterReply` |
| `rabbitmq_foreign_reply` | the same client | a divergence from the Readme, below |
| `servicebus` | client: 3 callers, 2 links, 2 ids; server: 3 requests, one without `reply_to` | `DeadLinkIsReplaced`, `OwnReply`, in RPC and one-way mode; `IdleLinkIsReplaced`, `ReplyGetsNewLink` |
| `servicebus_orphan` | 2 callers, 2 links | a defect, below |
| `sqs` | client: 2 callers, 2 ids; server: 2 starting and 1 stopping thread, 1 request | `DispatcherServesCalls`, `OwnReply`; `ReplyEndsCall` and `ShutdownIsPrompt` without timers; `OneConfiguredLoop`, `StopIsHeard`, `DeletedAfterReply`, `StopReturns` |
| `kafka` | client: 2 callers, 2 ids; server: 2 controlling threads, 2 workers, 2 requests | `OwnReply`, `TagsHaveOwner`; `NothingHangs` (outcomes end calls, the destructor returns) without the calls' timers; `CommitSkipsNothing`, `StopLeavesNoWorker` |
| `kafka_warm_up` | the same client | a defect, below |
| `kafka_poison` | 1 controlling thread, 1 worker, 1 request | a defect, below |
| `pubsub` | 2 callers, 2 ids, 1 stray request | `OwnAnswer`, `NothingIsLost`, `AckedAfterReply` of client, correlator, server and broker together (`PubSubPending`) |
| `pubsub_liveness` | 2 callers, 1 id, 1 stray request | `AnswerArrives`, `ShutdownEnds` with the correlator's contract (`PubSubRpc`) |
| `boundary` | 2 threads and 3 buffers; tokens of 60, 120 and 210 s over 7 minutes; payloads of up to 5 bytes of 3 values, with a limit of 4; documents of up to 3 of 11 objects; 5 spans | `HalvesMeet`, `OwnObjectIsFound`, `HostHoldsWhatLives`, `SuccessMeansReply`, `DecodingInvertsEncoding`, `SentTokenIsGood`, `SpansFollowCalls` |

The bounds are enough for the cases that matter: two callers for a race on a
link, an id or a start; three for a call that finishes while two others compete;
two links for one reconnect with callers on both; two ids so that a late reply to
the first call meets the second.  Ids and links are spent, which bounds every
run; `CallReturns` excuses a call that finds no id left, which the code never
does.  One request is enough for the SQS server, which handles one at a time and
meets it again after every failure; the Kafka server needs a second one that
could be committed over the first, and two workers for a `start()` whose thread
runs beside that of an earlier one; two descriptor numbers let the server go on under
another when its own is taken; the RabbitMQ and Service Bus servers have one
request of each kind.  Two starters let a `start()` overtake a `stop()`.  The
tokens' lives are below the cache's margin, just above it, and two or three
requests long; the clock runs past the second exchange.  Payloads go over every
remainder of three bytes and over the limit; the bytes are the least, the greatest
and one that spreads its bits.  `CHECK_DEADLOCK FALSE` stands where a client can be
destroyed or run out of ids, a server be stopped, or a function have returned.

### Fairness

Fairness is what the operating system and the code's own timers give, never the
broker's.  `PromptSpec` and `PromptFairness` let notified threads and threads
between two statements run, and no timer fires: what holds there holds by
notification alone.  `SqsClient` assumes besides that long polling reaches every
reply in the queue sooner or later.  `TimerFairness` of `RabbitMqClient` adds the
timers the code sets.  No fairness is assumed of mutexes: `CallReturns` starts
when a call has `linkMutex_`.  `ServerFairness` of `SqsServer` assumes that SQS
requests end (they have timeouts) and that `processMessage` returns.
`KafkaClient` assumes that librdkafka reports every message within
`message.timeout.ms`, which holds for a positive `rpcTimeoutMs`: librdkafka takes
0 for no limit.

`StepFairness` of `PubSubRpc` lets every thread run and every HTTP request end,
well or badly (`CURLOPT_TIMEOUT_MS`).  `LuckFairness` is about the network: what is tried
again for ever succeeds some time, be it to pull a request, to execute it, to
publish its reply or to pull that.  `AnswerArrives` needs it and asks besides that
the server keeps coming back to its loop; the timers of the calls stay silent, so
an answer ends its call because it arrived.  `LuckySpec` of `KafkaServer` is for its
counterexample alone: it grants success to everything that may succeed, so that
what still fails is the code's doing.

### Disagreements found

* **`servicebus_orphan`.**  `ServiceBusClient::Link::Send` does not test
  `broken_`, as `RabbitMqClient::Link::Publish` does.  A call that took the link
  before its receiver failed and registers after `FailAll` sends its request and
  waits for the whole timeout, though the link has no dispatcher any more.
* **`rabbitmq_foreign_reply`.**  `rabbitmq/Readme.md:13` describes a shared reply
  queue and requeued foreign replies; the code has an exclusive queue per link
  and acknowledges everything.
* **`kafka_warm_up`.**  `KafkaClient.cpp:146` wants the consumer to have its
  assignment before a request is produced.  The warm-up loop waits for that at
  most 1.5 s and never looks at the assignment; a new group's first rebalance may
  take longer.  A reply published in between is before `latest` and is not read.
* **`kafka_poison`.**  `KafkaServer.cpp:263` commits a refused request to avoid
  poison-pill loops.  An exception from `publishReply`, as for a reply that is
  too large, goes round the outer loop without a commit: the request is executed
  again every two seconds and holds up its partition.

Two races are no disagreements, since no text of the repository says that they
cannot happen; the models have them, and the properties say what holds beside them.

* **The Kafka server's life cycle.**  `start()` creates its thread before it moves it
  into `worker_` (`KafkaServer.cpp:104`).  A `stop()` in between, or before the
  creation, finds nothing to join and returns, though the thread may have a request in
  hand; a `start()` that follows assigns to a joinable `std::thread`, which ends the
  process (`MoveTerminates`).  Of two `stop()`s that both see `joinable()` the second to join throws
  (`JoinThrows`).  `StopLeavesNoWorker` says that there is no other way: a `stop()` that
  returns without throwing while no `start()` is under way leaves no worker.
* **The RabbitMQ server's second close.**  `stop()` closes the socket in
  `g_activeSocket`, and the loop closes the same number again
  (`RabbitMqServer.cpp:609`, `619`).  Another thread may have opened it meanwhile; it
  loses its descriptor, and may later close the number when the server has it again.
  Then `g_activeSocket` names a number that is free or another's, and the next `stop()`
  closes it.  The variable `robbed` records the first of these steps;
  `StopClosesOwnSocket` says that without it `stop()` closes the server's own
  socket alone, and that in any case it closes the loop's present number and none of an
  earlier connection.

## Theorems

Proved by TLAPS for every value of the constants, from the named assumptions
(null values are not members of the sets they stand beside, payloads are not
errors, strays are not ids, lives and the bound on spans are natural numbers, and
Remote is no span of this process).  A module of theorems stands beside each plugin,
`PubSubRpc`, `PubSubPending`, the correlator, and the parts `MCBoundary` gathers.

* `PendingReplies_proofs`: type correctness; `SlotsMatchTickets`,
  `WakeupsNotLost`, `ClosedAnswersAll`; and `PendingKeepsContract`, the refinement.
  The conjunction `PendingInv` of the invariants, with what an outcome may be in
  each state of a ticket, is inductive.  `SlotsMatchTickets` carries the others:
  only with it do `FailAll` and `Close`, which go through the map, reach every
  ticket.
* `RabbitMq_proofs`, the client: `ClientInv` adds to `PendingInv` who may be where
  with which link: one caller under `linkMutex_`, a link that is being destroyed has
  one owner, `stopping_` is set only by that owner, an I/O thread has made a link
  ready before it is used.  From it: `LinksServeTheirCalls`, `OwnReply`, and
  `Spec => PendingSpec`.  `OwnReply` rests on `IdsNameRequests`: ids, requests on
  the wire, replies and tickets agree.
* The server: `RabbitServerInv` follows the frames of one connection: the pipe holds
  them in the order they were written, an acknowledgement in it stands behind the
  reply to the same request, and what the broker has read, it has read from the front.
  Hence `AckedAfterReply`, though a connection may break between any two frames.
  For `StopClosesOwnSocket` it says where in `start()` the loop has a socket
  (`ActiveWhileOpen`), and that everyone has what it has opened until the loop
  closes a number of another's (`NobodyIsRobbed`).
* `ServiceBus_proofs`, the client: the RabbitMQ client's plan, with a session that all
  links share, so that `IdsNameRequests` speaks of the session and of what each
  dispatcher has in hand: `DeadLinkIsReplaced`, `LinksAreOwned`, `OwnReply`, `Spec =>
  PendingSpec`.  `DeadLinkIsReplaced` needs that a dispatcher sets `broken_` before
  it ends.
* The server: `BusServerInv` bounds the age of the kept sender where `acquire` has just
  looked at it; from it `IdleLinkIsReplaced` and `ReplyGetsNewLink`.
* `Sqs_proofs`, the client: the same plan: `DispatcherServesCalls`, `OwnReply`,
  `Spec => PendingSpec`.
* The server: `ServerInv` says who owns `running_`, that an active client
  was published by the running loop, and which stops have reached it; from it
  `OneConfiguredLoop`, `StopIsHeard` and the action property `DeletedAfterReply`.
* `Kafka_proofs`, the client: `ClientInv` has, besides ids, requests and replies,
  where `ensureStarted` can be repeated: `started_` is unset only while no request has
  been produced, and one caller at a time is inside.  So a producer that is replaced
  or destroyed has no message left, which is `TagsHaveOwner`.  Also `OwnReply` and
  `Spec => PendingSpec`.
* The server: `ServerInv` adds to `CommitSkipsNothing` that everything
  up to a consumer's position is settled, but for the request in hand, while
  the consumer is in use; an exception leaves an unsettled request behind only on
  the way to a new `Connect`.  For `StopLeavesNoWorker` it adds that every thread is
  `worker_`'s or in the hands of a `start()` that is to move it (`ThreadsAreKnown`),
  and that the thread one `stop()` waits for stays `worker_`'s and is joined by no other
  (`WaitsForWorker`).
* `PubSubRpc_proofs`: `RpcInv` adds to `OwnAnswer` and `NothingIsLost` that the
  request in hand is still in its subscription (`HandIsHeld`), that one caller at
  a time is in the start (`OneStart`), that a call asks only once the reply
  subscription exists (`ReplySubMade`, without which an answer could be published
  to a topic nobody keeps), that no two calls share an id (`CallsHaveIds`), that
  only executed requests have answers (`NothingFromNothing`) and that an answer
  published stays in reach of its waiting call (`AnswersAreKept`).  From it
  `OwnAnswer`, `NothingIsLost` and the action property `AckedAfterReply`, for any
  number of calls and strays.
* `PubSubPending_proofs`: the client with the correlator implements `PubSubRpc`
  (`ClientKeepsRpc`).  `ClientInv` joins `PendingInv` and `RpcInv`, the latter of the
  promise the correlator keeps, with what relates them: a ticket is its call's and
  follows it through `Call` (`TicketsFollowCalls`), and only the destructor closes the
  correlator, when no call is on the client (`ClosedByDtor`).  `PendingStep` and
  `RpcStep` are cited from the two older modules, so only the relation is
  proved anew.  It follows that `OwnAnswer`, `NothingIsLost` and `AckedAfterReply` hold
  of the client as it is written, that no wake-up is lost in it, and that
  `Register` never throws at a call (`CallsAreRegistered`), which is why
  `PubSubPending` has no such step.  `R` names the same definitions as `Rpc`, from
  `PubSubRpc`'s proofs; the lemmas `Same...` say so, and `RpcAssumptionsHold` that the
  assumptions of those proofs hold.
* `Boundary_proofs`: `HostHoldsWhatLives` and `SuccessMeansReply` are inductive
  with the types of calls and answers; `NewAnswer` is the one lemma every action
  that leaves a buffer rests on.  `CacheEndsFirst` says that the token cache forgets a
  token of more than 90 seconds before it ends: a token from the token endpoint is
  counted from before the exchange, one from the metadata server from its answer;
  an exchange sees at most one tick (`ExchangeIsShort`), and the margin of 60
  seconds pays for it; from that `SentTokenIsGood`.  `HalvesMeet` is a
  comparison of Kafka's parsers and of Service Bus's; the halves of RabbitMQ share one
  key, and SQS and Pub/Sub read both with one parser, so that it says little of
  these three.  It holds for any
  objects, well-formed or not: the lemmas say that what both halves accept they read
  to the same configuration, or in different modes.  `OwnObjectIsFound` holds for
  documents of any length over the documented objects (`Catalogue`): each is claimed
  by its own plugin's search, and by no other of the two.  `DecodingInvertsEncoding`
  holds for payloads of any bytes and any length: base64 would need induction over
  the payload, so the decoder's loops are steps of the model and the induction is
  that of the specification.  `TextInv` says that what has passed the filter is a
  prefix of the code, that at most one blank is left in the rest, and that while
  sextets are shifted in, what has been taken out is a prefix of the payload and
  the last sextet is still in the accumulator.  The lemmas are about the coding:
  three bytes are got back from their four sextets (`SextetsGiveBytes`), padding
  is all that `WithoutPadding` removes, two neighbouring sextets give the byte they
  share (`PairGivesByte`).  Of the call spans, `SpanInv` says of every call in the thread what
  `SpansFollowCalls` says of the thread.  While headers are stale, calls may
  start in a wrong trace; that they are over when the headers are right again holds
  because each injected call has kept headers, a context and a flag that were right
  for the calls around it.

Each theorem's invariant was model-checked on the runs' instances first.  Only
liveness is model-checked and not proved: the prover has no rules for fairness and
`ENABLED`.

## Not modelled

* Bytes: AMQP frames, HTTP, relaxed and strict JSON, the signature of a JWT.
  `PayloadText` has the bytes of base64, on which a limit depends.
* A `::send` that blocks on a full socket under `amqpMutex_`: it needs a model of
  both directions' buffers.  Failed creation of a thread, but for the Kafka server's.
* The pool of Pub/Sub sessions: it lends each call a session of its own, so a
  session is part of the action that uses it.  A `configure()` of the Pub/Sub server
  while it runs is refused; the one of the Kafka server sets `process_` at any time, but
  the topics, which it writes without a lock while the worker may read them, are only
  in the parser's model.
* What becomes of a reply the Kafka server's producer has taken: there is no `dr_cb`,
  and a flush that times out is logged.  The two-second pauses of the Kafka and RabbitMQ
  servers.  `worker_` is no atomic: threads that race for it do so by undefined
  behaviour, which `KafkaServer` takes for reads and writes in some order, as the
  one word of a `std::thread` gives.
* More than one Kafka partition (a partition may be taken from a consumer and given
  back), security settings, SQS endpoint overrides and FIFO attributes: settings that
  are handed to a library.
* The one-shot helpers the tests use (`SendRpc`, `Send`).
* Of the instrumentation, operation names, the library catalog and body capture,
  and the connectors: sequential string processing and wrappers of OpenTelemetry.
  Of the call spans, threads that complete each other's calls: `CallSpan` assumes
  that Hypertube, which is not in this repository, invokes and handles
  synchronously.  .NET's `Complete` has no `finally`: there an exception leaves the
  activity open besides.
* Builds, samples and the release workflow, which have no behaviour to model.

## Plan

What is left, in this order.

1. The other compositions after the pattern of `PubSubRpc`: SQS first, whose
   client, queues and server keep a request until it has been answered.
2. Operation names, body-capture budgets and the rate-limited sampler, as
   functions against reference definitions.
3. Back-pressure of the RabbitMQ sockets.

Theorems to add: those of the compositions in 1.
