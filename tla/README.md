# Orchestack: a TLA+ verification project

Orchestack is a multi-tenant platform for AI agents. Connectors turn chat
messages into ingress events on NATS JetStream; a chain of services orders them
per conversation, creates tasks, checks policy, runs the agent loop, calls models
and tools, and sends the answer back. This directory holds TLA+ modules
translated from the source of the services and connectors, the TLC configurations
that check them on small instances, and TLAPS proofs of the main invariants for
every instance.
All paths below are relative to the repository.

Contents: 1 inventory, 2 modules and their correspondence to the code, 3 runs,
bounds and fairness, 4 proofs, 5 where the code and its documents disagree,
6 plan, 7 what is not modelled.

## 1. Inventory

Everything that reaches a service more than once, or concurrently, does so by
NATS: delivery is at least once, several replicas may share a consumer, and no
service holds state in memory that must survive a restart, except where noted.

| Part | State it keeps | Operations | What makes it hard |
|---|---|---|---|
| session-scheduler (`services/session-scheduler`, Go) | rows of `sessions`, `ingress_messages`, `tasks` | `HandleMessage`: resolve session, number and persist the message, create a task if none is active, publish `tasks.created` | replicas on one session; check-then-insert; redelivery without de-duplication; commit without publish; consumer without a durable name |
| task-dispatcher (`services/task-dispatcher`, Go) | `tasks.status`, `tasks.run_attempt` | `HandleMessage`: load, retry budget, count attempt, ask policy, mark, publish, ack | budget read and spent apart; ignored publish errors; MaxDeliver against max_retries; back-off shorter than a call's time-out |
| policy-evaluator (`services/policy-evaluator`, Go) | cached policies per tenant, rate-limit windows (memory) | `LoadPolicies`, `Evaluate` (grants, org policy, budget, rate) | reload failure keeps the cache; limits under concurrency |
| loop-runner (`services/loop-runner`, Python) | none but the run in progress | `handle_dispatch`, `run_loop`: up to N iterations of model call and tool calls | run longer than the ack-wait; copies piling up in the client; poison messages; swallowed publish errors; limits in the middle of a batch |
| model-router (`services/model-router`, Python) | model registry, circuit breakers (memory) | register/unregister, `route`, `route_stream`, metrics | the chain is fixed before the calls; breaker shared by requests; late results; a model removed while it answers |
| daytona-executor (`services/daytona-executor`, Go) | sandboxes, two idempotency caches (memory) | create, destroy, execute, cleanup, tool calls | check-then-act on caches and sandboxes; shared pointers |
| extension-controller (`services/extension-controller`, Go) | `extensions` rows | reconcile loop; enable/disable API | whole-row updates from stale reads |
| budget-accounting (`services/budget-accounting`, Python) | totals and transactions (memory) | record, check, breakdown | double counting on redelivery; restart |
| memory-plane (`services/memory-plane`, Python) | `memory_entries` rows | write, search, promote, delete expired | failed writes are acknowledged |
| dlp-scanner (`services/dlp-scanner`, Python) | none | scan, redact | overlap removal, pure algorithm |
| connector base and identity mapper (`connectors/common`, Python) | running flag, identity cache (memory), `connector_identity_mappings` rows | `start`, `stop`, `run`, egress subscription; `map_sender`, `create_mapping`, `delete_mapping` | cache filled after an await; other processes write the same table |
| webchat (`connectors/webchat`, Python and the script of its pages) | sessions and sockets (server), session ids (browser) | session API, `/ws` handlers, replies, cleanup; connect, check and reconnect timers of dashboard pane and widget | cleanup and late handlers against reconnection; restart under open pages |
| email, slack, telegram, discord (`connectors/*`, Python) | link to the platform, NATS clients, replies under way | start, receive or poll, normalise, publish, send, retry on 429, stop | order of the start and stop; publish errors drop messages; two egress subscriptions; at-least-once platforms |
| operator (`deploy/operator`, Go) | status of a custom resource | reconcile, delete | conditions written in part; update conflicts |
| event ids (`libs/envelope-go`, `libs/envelope-ts`) | last time and random part (memory) | `NewULID`/`newULID` | carry, overflow, a clock set back, two encodings of one value |
| tool protocol (`libs/tool-protocol`, Python) | subscriptions, handlers under way | call by NATS or HTTP, serve, reply, time out | no queue group, so every replica runs a call; the idempotency key is read by nobody; late replies |
| other libraries, CLI, migrations, deployment | none of their own | formats, clients, templates, schema | |

Interactions: connector `-- ingress.* -->` session-scheduler `-- tasks.created -->`
task-dispatcher `-- HTTP -->` policy-evaluator; task-dispatcher
`-- tasks.dispatch -->` loop-runner `-- HTTP -->` model-router
`-- router.metrics -->` budget-accounting; loop-runner `-- tools.*.call -->`
daytona-executor; loop-runner `-- egress.* -->` connector. The scheduler and the
dispatcher also share the `tasks` table: the scheduler counts active tasks, the
dispatcher takes them out of the active statuses. Nothing consumes
`tasks.run.completed` or `tasks.run.failed`, so a task's last status is the one
the dispatcher gave it.

What would make each part correct: *scheduler*: one numbered, gap-free log per
session, no message settled before it is recorded, few active tasks per session,
none lost. *Dispatcher*: bounded attempts, unique attempt numbers, truthful
events, every task decided. *Policy*: the rate limit holds over every window,
denials dominate. *Loop*: limits hold, no run is acknowledged unreported.
*Router*: breaker state and failure count agree whatever the order of results, the
privacy filter holds along the whole fallback chain, a request has one outcome
and is metered. *Executor*: one execution per key, one sandbox per task, none
used after removal. *Extension controller*: converges to the manifests and loses
no update. *Budget*: the total is the sum of the distinct spends. *Memory*:
acknowledged means written. *DLP*: nothing sensitive left in a redacted text, nothing
else touched. *Operator*: the status ends up as the health of the current spec.
*Connectors*: every message passes once, no identity older than the time to live, a
connected page is heard and hears. *Ids*: increasing within a process. *Tool
protocol*: no run without a try, no answer without a run of that try. `PROJECT.json` lists the hazards line by line.

## 2. Modules

* `JetStream.tla` - the external server: delivery state and count of the messages
  of one consumer, and what publish, deliver, ack, term, nak and an expired
  ack-wait do to them. Time is abstracted: an unacknowledged delivery can time
  out at any moment. A late acknowledgement still settles the message.
* `SessionScheduler.tla` - `HandleMessage` of the session-scheduler, one action per
  call to Postgres or NATS, for any number of replicas.
* `IngressLog.tla` - what the scheduler promises, with no replicas, database rows or
  deliveries in it: an append-only log per thread; an event is settled only after
  it is in the log; an entry starts at most one task. `SessionScheduler!Log` is the
  refinement mapping: the log of a thread is its committed rows in `ingress_seq`
  order, which is only well defined because numbering is gap-free.
* `TaskDispatcher.tla` - `HandleMessage` of the task-dispatcher, likewise.
* `LoopRunner.tla` - the consume loop and the agent loop of the loop-runner.
* `ModelRouter.tla` - requests, fallback, breakers and registry of the model-router.
* `PolicyEvaluator.tla`, `BudgetAccounting.tla`, `SandboxExecutor.tla`,
  `ExtensionController.tla`, `PlatformOperator.tla`, `MemoryPlane.tla` - the services
  behind the task pipeline, one module each.
* `ToolProtocol.tla` - callers and servers of a tool through `libs/tool-protocol`.
* `WebchatSessions.tla`, `IdentityMapper.tla`, `Connectors.tla`, `DLPScanner.tla`,
  `Ulid.tla` - the edge: webchat server and pages, identity cache, the four other
  connectors on their base, the scanner of ingress messages, event ids.
* `MCSessionScheduler.tla`, `MCTaskDispatcher.tla`, `MCLoopRunner.tla`,
  `MCModelRouter.tla` - constants for TLC. `MCPlatform.tla` and `MCEdge.tla` put the
  modules of a group into one specification: these parts meet only through stores and
  subjects of their own, so their interleavings add nothing, and `service`, chosen at
  the start, says which of them moves; the others stay in a first state.
* `SessionScheduler_proofs.tla`, `TaskDispatcher_proofs.tla`, `LoopRunner_proofs.tla`,
  `ModelRouter_proofs.tla`, `PolicyEvaluator_proofs.tla`, `SandboxExecutor_proofs.tla` -
  theorems about one module each; `Platform_proofs.tla` and `Edge_proofs.tla` - about the
  other modules of the two groups, and about `MCPlatform` and `MCEdge` as they stand.

### SessionScheduler and the code

| Variable | Code |
|---|---|
| `consumer` | the `session-scheduler` consumer of `STREAM_EVENTS` (`main.go:68`) |
| `nextSeq[t]` | `sessions.next_ingress_seq` of the thread's row; 0 while there is none |
| `rowLock[t]` | the transaction that holds the `sessions` row between `UPDATE ... RETURNING` and commit |
| `ingress`, `tasks` | the two tables; a sequence index stands for the row's UUID |
| `created` | messages published on `tasks.created` |
| `pc`, `work` | program counter and local variables of each replica's handler |

`Deliver`, `TermMalformed`, `SelectSession`, `InsertSession`, `IncrementSeq`,
`CommitIngress`, `ShouldCreateTask`, `CreateTask`, `PublishCreated`, `AckMessage`
follow the handler in order. The UPDATE that takes a number is an action of its
own, and commit another, because the row lock between them is what serialises two
replicas; the new value of `nextSeq` becomes visible at commit. Each call may
*fail without effect* (`StoreError`), *take effect with its answer lost* (second
disjunct of `Answer`: the effect, then nak), or be cut by a `Crash`; a failed
or abandoned transaction gives its lock back. `AckLost` is an unconfirmed
acknowledgement. `HandlerTooSlow` is an ack-wait that expires under a live
handler; `AckWaitExpires` one whose handler is gone. `ConsumerDropped` is the
server forgetting the non-durable consumer once no replica pulls, after which the
stream, which keeps events for 24 hours, is delivered from the start; it is
possible only while every replica is down. `DispatcherUpdates` is the part of the
dispatcher the scheduler sees.

Data that no property tells apart is left out: bodies, previews, payload
references, tenants beyond the session key, and the agent chosen by
`GetDefaultAgent`; when no agent is found the INSERT of the session is refused,
which is one of the causes of `StoreError`.

### TaskDispatcher and the code

`tasks[k]` is the row (status, run_attempt), `created` the `task-dispatcher`
consumer, `dispatches` the stream of `tasks.dispatch`, `announced` the lifecycle
events published, `pc` and `job` the handlers. `Deliver`, `TermMalformed`,
`GetTask` (with the retry-budget test on the value just read),
`IncrementRunAttempt`, `EvaluatePolicy`, `UpdateTaskStatus`, `PublishDispatch`,
`PublishLifecycle`, `AckMessage` follow the handler. The three outcomes
(dispatched, rejected, failed) share the tail of the handler as they do in the
code: mark, publish, ack. The errors of the status update and of the publishes
are only logged, so those actions go on without effect, each such error counted
as a failure. `EvaluatePolicy` may answer 200/allow, 200/deny, 403 or be
unavailable; the policy's errors are part of normal operation and are not counted
as failures.

### LoopRunner and the code

`dispatch` is the push consumer `loop-runner`, `buffer` the queue of `sub.messages` in
the client, `pc` and `job` the one handler and its `LoopContext`; `called`,
`completed`, `answered` and `failed` what was published on `tools.*.call`,
`tasks.run.completed`, `egress.webchat.message` and `tasks.run.failed`. A run is
named by its message and the number of the delivery that started it.

The server hands out everything it has (`Deliver`), so a message's ack-wait runs
while it waits behind others: `Overdue` is the expiry while the runner has a copy,
`AckWaitExpires` the expiry when every copy is gone. `Begin` and `NakMalformed` take
the head of the queue; `CallModel`, `WallTimeExceeded`, `ToolLimitExceeded`,
`ExecuteTool`, `ToolCallBroken` are the body of `run_loop`, `PublishCompleted`,
`PublishEgress`, `PublishFailed`, `AckMessage` the tail of `handle_dispatch`. The loop
checks only its own context, so a copy is run although the message was settled
through another. `Crash` and `ConnectionClosed` differ in what follows: a dead
container is restarted, a process whose NATS connection was closed for good keeps
answering `/healthz` and consumes nothing ("deaf"). Deliveries of malformed messages
carry no number, because they never end and nothing is published for them.

### ModelRouter and the code

The process is one asyncio loop and an action is what runs between two points that
can suspend. The locks of registry and breaker are held across no suspension, so
`_build_candidate_chain` is atomic: `Route` builds the chain and calls its first
model, `CallFails` records the failure and calls the next, `HttpCallSucceeds` and
`NatsCallSucceeds` record the success and publish, `NatsMetrics` is what the NATS
handler does after `router.completed`. `NatsIdle` is the subscription that awaits its
callback: NATS requests are served one by one, HTTP requests at the same time.
`RouteStream` never suspends and sends nothing: the provider's generator posts the
messages when the response reads it (`OpenStream`), by then perhaps to a model that was
removed or whose breaker is open, and whatever ends the stream (`EndStream`) is told to
neither breaker nor budget. `Post` and `Paid` are the two ends of a call in
`providers.py`. `Register`, `Unregister` are the API, `RecoveryTimeout`
a breaker's clock, `Restart` the loss of everything in memory.

`Fits` stands for the gates on capability and context length, `Rank` for the sort key
beyond locality; models with equal keys are told apart, as the stable sort does by
order of registration. A model registered again under its id has the same record.

### The services behind the pipeline and the code

*PolicyEvaluator.* An action is what a handler of `POST /v1/evaluate` does between two
accesses to shared memory: the query of the policies (`ReadPolicies`), the lock under
which they replace the cached ones (`CachePolicies`), the decision by what is cached
then (`CheckGrantsAndPolicies`), the budget and the limit (`CheckBudget`), the lock of
the window (`CheckRateLimit`). `policyCache` and `rateHits` are the fields of
`PolicyEngine`; `admitted` keeps what was let through and is not in the code. The list of
stamps of an action is a set of hits <action, stamp, number>, the number telling apart
requests of one stamp: the code only asks how long the list is and how old its stamps
are, never their order. What a
query of grants or budgets returns is an input. Names are equal up to case.

*BudgetAccounting.* `metrics` is the durable consumer, `inbox` what the client holds,
`handling` the loop's turn, `spend` and `recorded` totals and transactions.
`record_spend` does not suspend, so `ConsumeMetric` decodes and records; `AckMetric`,
`AckMetricFails`, `NakMetric`, `NakMetricFails` are the await after it (a failed nak
ends the task). `BudgetStatus` is `check_budget` at the default thresholds. `Cost` adds up
what events cost by counting units, a form the proofs can reason about. What an event
costs is what `record_spend` finds under `cost_usd`: 0 for the events of the model-router
(section 5), so costs above 0 are those of a publisher that sets the field.

*SandboxExecutor.* `stored` is the map of the store, `status` the field that all holders
of a pointer see, `execCache` and `toolCache` the two idempotency caches. Every write to a
status or to the store is a step: a creation is `BeginCreate`, `WriteStatus`, `KeepSandbox`
(the second Put), a destruction `BeginDestroy`, then `WriteStatus` and `PutSandbox` twice
in turn, then `DeleteSandbox`; `StatusWritten` and `StepAfter` say what is written and what
follows. `Execute` and `RunCommand` follow the manager, too; `ToolCall` is the NATS callback
with `findOrCreateSandbox`. A thread is an HTTP handler, the callback or the cleanup.

*ExtensionController.* `ScanExtensions`, `ListExtensions`, then one action for each
statement of the round (`InstallExtension`, `ReconcileExtension`, `MarkRemoving`,
`DeleteExtension`), each failing as the code lets it. A statement that succeeded leaves the
loop with an event to publish (`Announce`), and `PublishEvent` is a step of its own, before
which the API may read and write the row. `ApiGet` and `ApiUpdate` are `setStatus`.
`lastEvent` is what followers of the events believe; `silent` are the rows the API has
written since the loop's last statement on them, and those whose event was lost.

*PlatformOperator.* One `Reconcile` at a time: `FetchPlatform`, `UpdateFinalizer`, one
`CheckHealth` for each part, `UpdateStatus`. The API server refuses a write based on an
old copy. The Helm reconciliation is a stub in the code.

*MemoryPlane.* `DeliverWrite`, `InsertWrite` or its failure, `AckWrite` (which `finally`
reaches either way); a search is two statements, `CountMatching` and `SelectMatching`,
between which rows change; `PromoteMemory`, `DeleteExpired`, `WriteMemory` are the API.

*ToolProtocol.* `Serve` and `StopServing` are `start` and `close`, or the death of the
process; `OnMessage` hands a request to the callback of one subscription, which is awaited
before the next; `Respond` is the reply, which counts only while its own try waits.
`NatsCall`, `HttpCall`, `TimeOut` are the two clients. A caller may try a call again unless
it was answered (the library does not; its caller may, with the same key). `began` and
`runs` record what was begun and are not in the code.

### The edge and the code

*WebchatSessions.* The server's `sessions`, handlers (`sockets`), `cleanup` loop and a
reply under way (`sending`), with the two kinds of pages in the browser (`tabs`,
`stored` for localStorage): `TimerFires`, `CheckSession`, `CreateSession`, `OpenSocket`,
`ReceiveSession` are the script of dashboard pane and widget; `AttachSocket` to
`EndHandler` and `SendMessageRest` the endpoints; `CleanupNext` closes a socket and awaits, `CleanupRemoves`
removes without a second look. A lost connection is seen at once by the page and later
by the handler.

*IdentityMapper.* `map_sender` reads and fills in separate steps; an update commits at
the server before its await returns and pops the entry after it; other processes
commit without popping.

*Connectors.* `Startup` lists, for each connector, the order in which its `main.py`
connects to NATS, subscribes to egress and opens the platform link; `run` is the
library's own entry point. `Receive`, `NormalizeFails`, `Publish`, `Fetch`, `OnMessage`
carry platform events in (a lookup of an attachment that raises ends the handler on
Telegram, and the message is lost; under `run` a mail is only logged, and stays in
`logged`), `Reply`, `Send`, `Resend`, `RateLimited` replies out. `Send` ends a call of the
platform; `Resend` is a request that the client library repeats within the call, after a
connection that broke or a 5xx, with the post made or not: slack_sdk once, discord.py four
times, the others never. `RateLimited` is a 429, which Slack's `_post_with_retry` and
discord.py wait out and the others do not (`Retried`). The repeats are modelled from what
the libraries do by default, since the connectors change none of their settings. `Copies`
makes a mention two events on Slack; `Understands` tells base's egress format from main's.

*DLPScanner.* A text is its length and the matches of each pattern. `Findings`, `Keep`,
`InOrder`, `Deduplicate`, `RiskLevel`, `Tags`, `RedactOne`, `Redact` are the functions of
`scanner.py`; the rest is the loop over `ingress.>`.

*Ulid.* `NewULID` is the state machine both libraries share, `EncodeTime` the clock in ten
digits, lowest first, `EncodeGo` and `EncodeTs` their two ways to write 80 random bits as
base 32, over sequences of bits (`PutByte` is one turn of TypeScript's loop).

## 3. Runs

| Run | Instance | Checks |
|---|---|---|
| `scheduler_replicas` | 2 replicas, 2 events of one thread, a malformed third, MaxDeliver 3, 1 failure | `TypeOK`, `SeqContiguous`, `ActiveTasksBounded`, `OrphansBounded`, `EventuallySettled` |
| `scheduler_restarts` | 1 replica, 3 events of two threads, MaxDeliver 4, 2 failures | `DuplicatesBounded`, `LogSpec` (refinement of `IngressLog`) |
| `scheduler_race` | 2 replicas, no failure | `OneActiveTask` is violated |
| `scheduler_backlog` | 1 replica, no failure, fairness | `EveryMessageGetsTask` is violated |
| `dispatcher_workers` | 2 workers, a task and a malformed message, max_retries 2, MaxDeliver 5, 2 failures, every policy answer | `TypeOK`, `AttemptsBounded`, `AttemptsUnique`, `FailedOnlyWhenExhausted`, `SilentBounded`, `EventuallySettled` |
| `dispatcher_exhausted` | 1 worker, a denying policy, the deployed MaxDeliver 5 and max_retries 5, fairness | `EveryTaskDecided` is violated |
| `runner_tasks` | 2 tasks and a malformed message, 2 iterations, batches of 1 or 2, 2 tool calls, one early redelivery, 1 failure | `TypeOK`, `AnswersBounded`, `ToolCallsBounded`, `UnreportedBounded`, `EventuallySettled` |
| `router_requests` | 2 NATS requests, an HTTP request and a stream, both sensitive; 3 models on 2 endpoints, threshold 2, 1 removal, 1 failure | `TypeOK`, `BreakerConsistent`, `PrivacyKept`, `DoubleOutcomesBounded`, `UnmeteredBounded`, `EveryRequestEnds` |
| `router_removal` | the same, no failure | `OneOutcome` is violated |
| `platform_services` | the six services of `MCPlatform` and the tool library, each alone (about 910,000 states) | `PlatformTypeOK`, `StaleNeedsOverlap`, `RateWindowBounded`, `SpendExplained`, `ToolRunsExplained`, `RestingSandboxes`, `EventsExplained`, `MemoryExplained`, `PlatformSettles` |
| `edge_services` | the five modules of `MCEdge`, each alone (about 620,000 states) | `EdgeTypeOK`, `WebchatExplained`, `MappingFresh`, `DlpSound`, `DeliveriesExplained`, `OpenPagesConnect`, `IdsIncrease` |
| `email_polling` | the email connector, 1 mail | `PollsUntilStop` is violated |

**Bounds.** `MaxFaults` bounds everything that goes wrong from outside: store and
publish errors, lost answers, lost acks, crashes, premature ack-wait expiries and
the dropped consumer. It occurs in the guards of exactly those actions, and the
properties that count failures (`OrphansBounded`, `DuplicatesBounded`,
`SilentBounded`) are stated against the number that has happened, so one failure
already exercises them and two show that failures add up. Two replicas (workers)
are what a race needs; events 1 and 2 share a thread, so both the first-insert
race on `sessions` and the numbering race occur. The malformed event takes the
Term branch. In `scheduler_restarts` the two failures are a crash and the dropped
consumer, which replays all three events; with one replica this is the smallest
instance with a full replay. `MaxDeliver` is chosen above the failures in the
liveness checks, and equal to the deployed value in `dispatcher_exhausted`.
In the router's instance both requests with sensitive data prefer a cloud model, and
only cloud models are registered at first, so the filter is exercised with and
without a local candidate; the cloud models share an endpoint, so one request's
failures open the breaker in the middle of another's chain. In the runner's, two
batches of two exceed the tool limit in the middle of a batch, and single calls
reach the iteration limit. Deadlock checking is off where everything may be done
(scheduler, dispatcher, router, the services of the two group runs, whose clocks,
changes and messages are bounded); the runner's poison message never is.

`platform_services`: two policy handlers, two versions of the policies with limits 2
and 1 and one unlimited policy before a limited one, a minute of 2 ticks in a clock to
3, four requests at the limiter, so that handlers overlap and a window slides. Three
metrics, one malformed and one for an unknown budget, with one posted
transaction, one ack fault, one restart and four deliveries: enough for a double count
and for a loss. One API thread, the NATS thread and the cleanup on two sandboxes and
one key: three parties per sandbox. Two extensions, two manifests, one each of git
changes, API calls, store faults and lost events: one stale write. The operator tracks
up to two parts, with two changes of the object, three of readiness and one read
error. Two memory writes, one undecodable, three deliveries, two faults, with one REST
write and one promotion that fall between the statements of a search. Two NATS servers and
the HTTP one, a call by NATS, one by HTTP and one that is refused, two tries each: every
replica may run a call twice, and a reply of the first try may meet the second.

`edge_services`: one dashboard pane and one widget, three session ids, two sockets, one
fault, one idle session, one reply: two handlers can meet on one session. One sender,
two lookups, two updates, a time to live of 2. Each of the five ways to run a
connector with two messages (a mention, a filtered one), two replies (one in each
format), two attempts, one fault, and the repeats the libraries are deployed with, one for
slack_sdk and four for discord.py, so that refusals alone can use them up. Every text of length 4 with one match or none of
each of three patterns of three risk classes; two ingress messages, three deliveries,
two faults. Four ids, three clock values (two neighbours and one that changes a higher
digit, in any order, so the clock may go back), three draws among them the largest
value but one and a carry over two bytes.

**Fairness.** Weak fairness of each replica's handler (a Go callback is run and
each call returns or errors), of `Restart` (the containers have restart policies)
and of the server's ack-wait timer. No fairness of failures and none of the
dispatcher's updates. No strong fairness is needed: an action of a handler that is
enabled stays enabled until that handler takes a step, with one exception, the
wait for the row lock, whose holder always gives it back. The runner's server also
delivers what it has; its process is restarted when it died, not when it is deaf,
and `EventuallySettled` exempts that case. The router's fairness is one condition for
each request: a provider call answers or runs into httpx's time-outs, and a publish
returns or raises (a provider that sends a byte every two minutes is excluded), and the
consumer of a stream reads it or goes.
`MCPlatform` assumes that NATS pushes what is due and the budget loop goes on, that the
extension controller's ticker and an API call under way go on, and that the operator's
work queue comes back (controller-runtime requeues, 30 seconds at the latest).
`MCEdge` assumes that the timers of an open page fire and that the webchat server's
event loop runs its handlers. Changes, faults and users have no fairness.

**What the properties say.** `SeqContiguous`: numbers of a session are 1, 2, 3...
in commit order and `next_ingress_seq` is the next one. `ActiveTasksBounded`: the
race between the check and the insert can happen once per replica.
`OrphansBounded`: a task is left without announcement, which blocks its session
for good, only by a failure of its own. `DuplicatesBounded`: an event has at most
one row more than there were failures. `LogSpec`: settle only after record, logs
only grow, one task per entry. `AttemptsBounded`: the budget is overdrawn by at
most one attempt for each worker beyond the first. `AttemptsUnique`: no two
dispatches of a task with one run_attempt, which idempotency keys depend on.
`FailedOnlyWhenExhausted`, `SilentBounded`: events tell the truth, and a task
without any event costs a failure. `EventuallySettled`: no message is retried for
ever or forgotten, provided the failures do not use up MaxDeliver; in the runner,
where deliveries have no limit, good messages are settled in spite of poison.
`AnswersBounded`, `ToolCallsBounded`: redeliveries and failures are the only causes
of a second answer or of more tool calls than the limit, and each causes one run.
`UnreportedBounded`: a task is settled in silence only at the price of a failed
publish. `BreakerConsistent`: a breaker is closed exactly below its threshold,
although calls begun in any of its states report at any time. `PrivacyKept`: no
message with a sensitive tag goes to a cloud model, on any way through the chain.
`DoubleOutcomesBounded`, `UnmeteredBounded`: what the removal of a model under way
costs is known and limited to the requests that held it. `EveryRequestEnds`: the
fallback does not go round in circles.

`StaleNeedsOverlap`: a request is decided by policies older than those it has loaded
only if another handler was between its query and the cache at that time.
`RateWindowBounded`: no minute lets more through than the limit and one for each other
handler that had taken the time before (the largest limit plus the number of handlers
minus one). `SpendExplained`: a metric is counted once per
delivery at most, one that is acknowledged was counted or wiped by a restart, and a
hard limit is reported too early only after a redelivery. `ToolRunsExplained` has two
halves. `ExecutionsBounded`: a command with a key runs at most once for each thread that may execute at the same time; once
its result is cached, never again. `CallsExplained`: through the tool library a call is run
at most once for each try and each replica, an answer comes of a run of that very try, and
a call that found no subscriber was not run. `RestingSandboxes`: whatever the order of the
unlocked writes, a stored sandbox nobody creates or destroys is running and was not
reported as destroyed, unless it was deleted before its creation had ended: then its second
Put brought it back, running or stopped. `EventsExplained`: between its publications the
loop has told followers of the extension events every row's status, but where an event was
lost or the API wrote after the loop's last statement; an event that comes out after such a
write tells the old status last. `MemoryExplained`: an acknowledged memory is stored unless its insert failed, no
message has more rows than deliveries, and total and entries of a search differ by no
more rows than changed under it. `PlatformSettles`: good metrics are recorded in
spite of malformed ones, rows agree with the manifests in the end whatever a stale
write did, and the operator's status ends up current or the object gone.

`WebchatExplained`: a connected page's session exists and holds its socket, except
where the socket was attached under an older handler, a close or a send of the session;
and a pane loses its agent only when its session goes between check and socket, or was
not checked. `OpenPagesConnect`: every open page is connected in the end and stays so.
`MappingFresh`: a stale identity is answered for less than the time to live after the
change, or from an entry filled across a commit; a change of this process hides only
until its update returns. The race of a lookup with an update is thus bounded, not
excluded: an entry it left behind lives as long as any other. `DlpSound`: kept findings do not overlap, one is given up only
for one at least as certain (which may be given up in turn, section 5), redaction touches exactly what they cover, no sensitive
text is reported harmless; and results are lost or repeated only by faults and
redeliveries. `DeliveriesExplained`: an event passes a connector once, and once more for
each redelivery of the platform; a reply is posted once, and once more for each request its
client library repeated, while the connectors themselves repeat nothing that may have been
posted; and each loss has one of the named causes. `IdsIncrease`: ids increase and are not repeated, but
for a clock set back or an overflow, and Go and TypeScript write the same text.

Each property of a passing run has a mutant in the module it concerns, placed
before the definition it replaces: a row lock not taken, the comment's narrower
status list instead of the query's, a task not announced, a nak that
acknowledges, a rollback forgotten, `<=` for `<`, the attempt number taken from
the stale row, an error that refunds the attempt, a limit counted per iteration, a
poison message tried again on the spot, a preferred model that skips the filter,
concurrent NATS callbacks; a cache filled only once, the result of `append` not stored,
a malformed metric acknowledged, results cached on one of two paths, a destruction
answered without a deletion because one was reported before, an event with a constant status, an early
acknowledgement, a consumer without a durable name, a request left with its subscription; a session dropped with its socket,
an unknown session asked for again, a deletion that keeps the cache, touching taken for
overlapping, a post repeated after any error, a carry that stops.

## 4. Proofs

`tlapm` checks the eight proof modules to the last leaf. The constants are only assumed
to satisfy the named assumption of each module (finite, non-empty sets of
replicas; natural bounds; the "none" values outside the sets they complete); in
particular there is no bound on replicas, events, threads, deliveries or failures.

`SessionScheduler_proofs`:

* `TypeCorrect` - `TInv` = `TypeOK` and `HandlerInv`: a replica at a step beyond
  `received` holds a well-formed event, and the row and task numbers it holds
  exist. Types alone are not inductive: `Thread(r)` is only defined for a held event.
* `SequenceNumbersCorrect` - `SInv` adds `LockInv` to `SeqContiguous`: a replica
  between UPDATE and commit holds the row lock of its thread and its number is the
  current `nextSeq`. Hence nobody else commits to that thread meanwhile, and the
  commit extends a contiguous sequence by the next number. A session row exists
  once a handler is past `ResolveSession`.
* `ActiveTasksCorrect` - `CreateInv`: for every thread the active tasks plus the
  replicas that have passed the check and not inserted yet are at most the number
  of replicas. A replica passes the check only when there is no active task, so at
  that moment the sum counts replicas alone; an insert moves one from one summand
  to the other.
* `OrphansCorrect` - `OInv`: a handler past `CreateTask` and before the publish
  holds a task, and beyond the publish its task is announced. A task therefore
  becomes an orphan only in a step that counts a failure.
* `DuplicatesCorrect` - `CopiesInv`: the rows of an event, plus the handlers that may
  still write one for it, plus the delivery it is owed if any, are at most 1 + failures.
  A delivery turns the debt into a writer, a commit a writer into a row, and whatever
  creates a new debt beside a row counts a failure. `IdleInv`: idle handlers hold
  no event.
* `LogImplemented` - every step of the scheduler is a step of `IngressLog` under the
  refinement mapping, or a stutter. `RowsInv`: a handler past its commit holds a row of
  its own event, the row of one that has not created its task yet belongs to no task
  and to no other such handler, and rows and tasks stand under the thread of their
  event. With `SeqContiguous`, thread and number determine a row, so a commit appends
  to one log and leaves the others; creating a task starts its entry, acknowledging
  settles an event already in the log.

`TaskDispatcher_proofs`:

* `TypeCorrect` - as above, with what a handler holds at each step.
* `FailedCorrect` - `ExhaustedInv`: a worker on its way to announce "failed" holds a
  task whose attempts have reached the budget. Attempts only grow (`AttemptsGrow`),
  so the stale reading stays true.
* `AttemptsUniqueCorrect` - `UniqueInv`: every number carried by a worker or
  published is at most the row's; two workers never carry the same number of a
  task, and a worker that has yet to publish carries one not yet published.
* `AttemptsBoundedCorrect` - `BudgetInv`: attempts of a task plus the workers about
  to count one are at most max_retries plus workers minus one.
* `SilentCorrect` - `DoomedInv` counts a task from the moment its handler goes on to
  acknowledge it with nothing published, which is the step that counts the failure.

`LoopRunner_proofs`:

* `TypeCorrect` - a busy loop holds a good message.
* `AnswersCorrect` - two invariants. `PaidInv`: the deliveries of a message, plus one
  if it is owed another (it waits for redelivery, or its last copy was lost and has
  yet to expire), are at most 1 + early redeliveries + failures. `OrderInv`: runs of a
  message are numbered by delivery, begun in that order, and all that was published
  belongs to runs up to the last one begun. Distinct runs have distinct numbers, so
  there are no more of them than deliveries.
* `ToolCallsCorrect` - `OrderInv` also says that the calls of a message are at most
  MaxToolCalls for each number up to the last, and that a run in progress has its own
  share left.
* `UnreportedCorrect` - counting, besides settled messages, the one that is about to be.

`ModelRouter_proofs`:

* `TypeCorrect`, `BreakerCorrect` - a breaker is sound after each of its operations; no
  action does anything else to one.
* `PrivacyCorrect` - the candidates still in a chain passed the filter when it was built,
  and locality and class of a model do not change.
* `DoubleOutcomesCorrect`, `UnmeteredCorrect` - requests that came to harm plus requests
  *threatened* (in flight, holding a model that is no longer registered) are at most
  the removals (for metrics: the handlers hit by them) plus the failures. A removal
  threatens; an answer turns a threat into harm; nothing else adds to the sum without
  being counted. That one removal threatens one NATS request at most is `OrderInv`:
  at most one is in flight.

`PolicyEvaluator_proofs`:

* `PolicyTypeCorrect`.
* `StaleNeedsOverlapCorrect` - `QueriesOrdered`: a handler that has loaded rows and not
  cached them yet, and holds older ones than another, queried before it, hence is in its
  `older`. `CacheOverlapped`: once a handler has filled the cache, what is cached is at
  least as new as its own rows unless its `older` is not empty.
* `RateWindowCorrect` - `WindowKept`, for every action and every minute: either the list
  still holds all that was let through in that minute, which then is within the limit; or
  a handler with a later time has pruned it, and what was let through plus the handlers
  that still hold an earlier time (`Late`) is within the bound. Pruning moves a minute from
  the first case to the second, and the pruner is itself not late, which is where the
  "minus one" comes from. A late handler that is let through turns from one summand into
  the other. `HitsAdmitted` keeps two requests of one stamp apart.

`SandboxExecutor_proofs`:

* `SandboxTypeCorrect` - with what a thread holds at each step (`ThreadsOK`).
* `ExecutionsCorrect` - before there is a result the key was never executed, so executions
  plus threads running it are only threads, and the cleanup never runs commands.
* `RestingCorrect` - `SandboxOK`: what exists is stored or was reported deleted; a sandbox
  deleted under its creator is on record, and any other is stored either running and never
  reported deleted, or with a thread between the first Put of its creation and the status
  after it, or in the middle of a destruction, whose deletion is yet to come; a status
  "creating" or "stopping" has a thread that is about to write over it.

`Platform_proofs`:

* `MemoryTypeCorrect`, `MemoryExplainedCorrect` - `DeliveriesSpent`: rows of a message,
  plus failed inserts, plus the insert under way, are at most its deliveries, and at the
  acknowledgement there is a row or a failure. `RowsNumbered`: ids are distinct and nothing
  sets an expiry, so no row of a write is ever deleted. `TotalFollowed`: between the two
  statements of a search the total differs from what is there by the changes so far.
* `BudgetTypeCorrect`, `SpendExplainedCorrect` - `RecordsKnown`: what is recorded was
  published, and what waits for its ack was recorded. `SpendCovered`: while nothing was
  delivered twice, what a budget has paid plus the cost of what is not recorded yet is no
  more than what was incurred, so the hard limit cannot be reached early.
* `ExtensionTypeCorrect`, `EventsCorrect` - `RemovalsListed`: what the loop still has to
  remove is a row it has listed, so writing it back with the status "removing" keeps what
  the last event said. `EventPending`: between a statement and its publication, the event
  about to be published tells what the row is, or the API has written it since.
* `OperatorTypeCorrect` - `GenerationsCounted`: generations are changes of the spec; the
  bound of the type is not inductive without it.
* `ToolTypeCorrect`, `CallsCorrect` - `RunsCounted`: runs of a call plus its copies still
  queued are at most tries times replicas; `TriesKnown`: nothing is queued or was begun
  for a try that was not made; `OutcomesKnown`: of a try that found no subscriber nothing
  is queued either.
* `ServiceBehaviours` - a behaviour of `MCPlatform` is one of each of its parts, because a
  step of another part stutters for it. With it the theorems above become theorems about
  the composition the run checks: `PlatformTypeCorrect`, `ToolRunsCorrect`,
  `PlatformCorrect`.

`Edge_proofs`:

* `IdentityTypeCorrect`, `MappingFreshCorrect` - `LookupInv` (a lookup not raced holds the
  row's current value), `ExpiryInv` (no entry lives longer than the time to live from now)
  and `EntryInv` (an entry that disagrees with the table and was not raced expires within
  the time to live of the change).
* `WebchatTypeCorrect`, `WebchatCorrect` - for the sockets `ServeInv`: but for the races on
  record a session has one handler (`OneHandler`), the socket it holds is that handler's
  (`HeldSockets`), a reply under way is on the live socket (`SendsToLive`) and a session
  being closed has no live socket (`ClosesLast`). For the agents `RiskCounted`: sessions
  that lost their agent, and sessions that are gone while a pane relies on them
  (`AtRisk`), are at most the slips: the loss is paid for when the session goes, not when
  the socket makes it anew.
* `ConnectorTypeCorrect`, `DeliveriesCorrect` - `EventsCounted`: an event is published,
  buffered, worked on or waiting at most once, and once more for each redelivery;
  `CutOffHarmed`: what a handler holds while NATS cannot be reached was held when the
  connection went, hence is on record. `JobsSingle`: one job for a reply, of the one handler
  that understands it, and of each job `JobCounted`: its posts so far are at most the
  requests the library has repeated, these are at most its library's share of the calls
  made before and what it repeated in this one, and its refusals account for the calls
  made before (Slack) or, with the repeats, for the requests (the others).
* `DlpTypeCorrect`, `ResultsCorrect` - messages settled, or about to be, without their
  result are at most the faults; results are at most deliveries.
* `FindingsCorrect`, `DlpCorrect` - the answer of the scanner to any text. `InOrder` lists
  each finding once (`SortedOnce`, the sort has no ties between findings: `BeforeOrders`).
  `Resolved` is the invariant of the loop of `_deduplicate`: what is kept so far are
  findings in order that do not overlap, and whatever was given up overlaps another at least
  as certain (`KeepStep`). Redaction runs from the last finding to the first, so a cut moves
  nothing that is still to be cut: the text before the finding is untouched, behind it stand
  marks and what no later finding covers (`CutOne`), until the whole is `RemoveExact`;
  masking is the same without the moves (`MaskExact`).
* `EncodingsAgree` - after each byte TypeScript's buffer holds the bits not written yet in
  its lowest places, fewer than five of them, and what is written are the digits of the bits
  before (`PutStep`); Go's twelve and four digits cut the same eighty bits (`GoDigit`).
* `UlidTypeCorrect`, `IdsCorrect` - the increment makes the first byte that differs larger
  unless all wrap (`IncrementRaises`), a larger byte has its first differing bit set
  (`ByteOrder`), the first differing bit decides its digit (`RandomOrder`), and the digits
  of the clock are those of a number (`TimeOrder`). `IdInv` says that every id drawn so far
  is the last one or precedes it, so that a new one, which follows the last, was never drawn
  (`PrecedesOrders`).
* `EdgeTypeCorrect`, `EdgeCorrect`, `EdgeIdsCorrect` - the same for `MCEdge`.

The texts, findings and bytes of the last three are folded over, and the library's
induction takes an operator no prover can instantiate. `NumbersBelow` stands in for it: a
set of numbers that holds 0 and, with each number, the next holds them all, since the
least one missing (`LeastNumber`, from `WFMin` and `NatLessThanWellFounded`) has a
predecessor. With it the functions a fold or a recursive function is chosen from are shown
to exist, step by step, and a fold becomes the sequence of its intermediate values
(`KeepFold`, `RedactFold`, `PutFold`, `ShiftedSteps`). Two assumptions carry these proofs:
the list of patterns is finite (`DlpAssumption`), and the clock has no more than fifty bits
(`ClockAssumption`), which holds until the year 37648 and without which the ten digits of
the time would wrap.

Only model-checked, and why: all liveness (`EventuallySettled` of scheduler, dispatcher and
runner, `EveryRequestEnds`, `PlatformSettles`, `OpenPagesConnect`), because fairness needs
ENABLED, which is beyond the prover. Every other property of a passing run is a theorem.

## 5. Where code and documents disagree

* `scheduler_race`: RFC-001 section 10.2 asks for an advisory lock around scheduling;
  the code takes none, and two replicas give a session two active tasks.
* `scheduler_backlog`: the RFC's scheduler picks the next unprocessed message; the
  code acknowledges a message that finds its session busy, and never returns to it.
* `dispatcher_exhausted`: a denial is HTTP 403, which the dispatcher takes for an
  error and retries; MaxDeliver equals max_retries, so the message is dropped one
  delivery before the branch that marks the task failed. The dispatcher's request
  also lacks the `action` the evaluator requires, so denial is the normal answer.
* `router_removal`: a NATS request whose model is removed while it answers is
  published as completed, then, because the second lookup finds nothing, as failed.
* `email_polling`: the poll loop is said to run until `stop()`; it asks for a flag that
  only `ConnectorBase.start()` sets and the connector's `main.py` does not call it, so
  the loop ends before its first fetch and no mail is read.

Seen while modelling and not made into runs: `router.metrics` is documented as
"published after every successful completion" (`models.py:178`), streams are never
metered; `circuit_breaker_half_open_max_calls` is stored and never read; the router
subscribes to `router.request` with core NATS where `main.py:6` says JetStream;
MAX_TOOL_CALLS limits a run, so redelivery multiplies it (`ToolCallsBounded` is the
exact bound); the loop-runner naks a malformed dispatch for ever, where RFC-001
section 8.2 wants it in `tasks.deadletter` after 10 failures, and puts no idempotency
key on tool calls and answers, which section 12 requires.

Further, by component. *policy-evaluator*: a comment (`evaluate.go:38`) speaks of lazy
loading, the policies are loaded by every request; the loop over them returns on the
first (`engine.go:249`), where `engine.go:183` has "default first, then
tenant-specific"; nothing writes the `budgets` rows it reads, since budget-accounting
keeps its totals in memory and never resets the day's. *budget-accounting*: it reads
`cost_usd` and `budget_id` of a metric (`main.py:217-218`), the model-router publishes
`cost` and no budget (`models.py:177-190`), so its spends count 0 on `budget-default` and
reach no limit; the properties speak of the cost that is read. *daytona-executor*: results are
cached by key alone, whatever the sandbox or the command; the second Put of a creation
brings back a sandbox that was deleted meanwhile, running or stopped, until it expires. *extension-controller*: a new
trust tier or type is not applied when version, digest and status are equal; what the
API enables or disables is undone by the next round and published nowhere, and an event of
the loop that comes out after it tells the status it has replaced. *memory-plane*:
nothing sets `expires_at`, so `delete_expired` deletes nothing; `promote` can take an
entry back; the answer to `memory.search` goes to the acknowledgement subject of
JetStream. *dlp-scanner*: the subscriber's task ends when an ack raises while the
service stays ready; a finding given up for a surer one stays given up when that one
is replaced in turn. *webchat*: a pane whose check fails during a restart gets a session
without its agent; pings do not touch the session, so the page of a silent user is
closed; tabs share one stored session. *Connector base*: `run()` is "run the connector
until interrupted" (`base.py:359`) but stops connectors whose `listen()` returns at once;
`EmailSettings` lacks the settings `run()` reads. *slack*: a mention is published twice;
`readyz` never turns ready. *telegram*: messages are dropped while the client
reconnects, and at start; egress is subscribed twice, in two formats; a message whose attachment cannot be looked
up (`get_file` raises for files over 20 MB) is dropped whole. *slack* and *discord*: the client
libraries repeat a request whose answer was lost, and the connectors pass no key by which
the platform could tell: a reply may appear twice. *email*: what `run()` fetches is only
logged (`connector.py:352-362`). *identity mapper*: nothing in the repository calls it. *Libraries*: `AttachmentManager.download`
does not verify the checksum its docstring mentions; the HTTP tool client sends
`tool_id` in the body where the server passes it a second time, so the library's own
server answers the library's own client with an error always; `NATSToolClient.call`
"raises `TimeoutError`" (`client.py:74`) but returns a response with an error; the
idempotency key, "unique key for deduplication" (`client.py:26`), is read by no server, and
servers subscribe without a queue group, so every replica runs every call.

## 6. Plan

Order of work; each module brings its invariants, a run and proofs of what is
inductive within reach.

Done: every component named in section 1 that keeps state, with the proofs of section 4.

Left:

1. `TaskPipeline`: dispatcher and runner composed on `tasks.dispatch`, where run_attempt
   and redelivered runs meet, and the status a late second handler writes.
2. An abstract specification of at-least-once handling with a bounded count, which runner,
   memory plane, budget and scanner each refine: their counting invariants are alike.

## 7. Not modelled

The components marked `not_modelled` in `PROJECT.json`, each with its reason: the CLI and
the deployment files, which are text and configuration. Of the libraries the event ids
and the calls of the tool protocol are modelled; telemetry, storage and vault are thin
clients without state, descriptors and built-in tools are data. Of the connectors the
contents of attachments, the heartbeat and health servers and the formatting of messages
are left out, of webchat the HTML and styles. In the modelled
parts: wall-clock durations (any timer may fire at any time after it starts), the broker's
de-duplication window (no publisher sets a message id), the age limits of the
streams, the second set of consumers that `deploy/compose/nats-init.sh` creates on
the same subjects, and Postgres failures beyond a failed or unanswered statement.
