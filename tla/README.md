# ClusterProbe: TLA+ specifications and proofs

ClusterProbe is a load testing harness for Kubernetes: an API accepts *scenarios*
and *chaos experiments*, Workers take scenarios from RabbitMQ and execute them,
Chaos Mesh executes experiments, Postgres, Redis and MongoDB keep what happened.
This directory models the parts of it whose correctness depends on the order of
events, checks them with TLC on small instances and proves the most important
facts with TLAPS for every instance. Paths below are relative to `src/`.

    tlc -config Lifecycle_safety.cfg MCScenarioLifecycle     # model-check a run
    tlapm ScenarioLifecycleProofs.tla                        # check the proofs

`PROJECT.json` lists the runs, the theorems, the hazards and, for each definition
that stands for code, the lines it stands for.

## 1. Inventory

| Component | State | Operations | Talks to |
|---|---|---|---|
| Scenario API, `cmd/api/handlers/scenarios.go` | none of its own; rows of `scenario_events` (append-only) | create (INSERT, then publish), stop (SELECT, INSERT, publish), list, get, events | Postgres, producer |
| Worker handler, `cmd/worker/main.go` `handleMessage`, `reporting.go` | one execution: message, result, watcher goroutine, context | decode, read status, mark running, execute, report, read again, mark outcome | Postgres, Redis, producer, generator |
| Worker process, `cmd/worker/main.go` | opened clients, consumer pool, readiness, error channels | boot, create consumers, serve `/readyz`, shut down | everything above |
| API and UI process, `cmd/api/main.go`, `cmd/ui/main.go` | opened clients, HTTP server with its requests | boot, serve, shut down | the stores, RabbitMQ, Kubernetes |
| Consumer, `internal/messaging/rabbitmq.go` | connection, channel, subscription | Consume loop, monitorReconnect goroutine, reconnect, connect | RabbitMQ |
| Producer and topology, same file | connection, channel | Publish, monitorReconnect, DeclareTopology | RabbitMQ |
| Workload generators, `internal/workload` | a deadline and a counter | Execute for CPU, memory, writes, reads; mixed splits the duration over three of them | Postgres |
| Chaos API, `cmd/api/handlers/chaos.go` | records in MongoDB | create, delete, get, list, with status synchronisation | Kubernetes, MongoDB |
| Chaos client, `internal/chaos/client.go` | objects of five kinds in Kubernetes | Apply, Status, Delete, List | Kubernetes |
| chaos-ctrl, `cmd/chaos-ctrl` | none | apply, delete, status, list | Kubernetes, past the API |
| Database clients and schema, `internal/db` | pools, the tables | connect with retries, InitSchema on every start, with the copy of an older version's statuses | the stores |
| UI pages, `cmd/ui/handlers`, `web` | what the browser shows | links, forms, the Stop button, polling every 2 or 3 s | API, Redis |
| Log stream, `cmd/api/handlers/logs.go` and the UI's proxy | none | an event stream until the client leaves | |
| Status, telemetry, configuration | none | read and render | |

**What is hard.** No operation above is a transaction. A scenario's history is
written by the API and by any number of Workers, each of which reads the latest
row and inserts the next one in two statements. RabbitMQ delivers at least once,
so two Workers may execute one scenario at the same time when a connection drops
under a handler. Any of the five calls of a report can fail, after which
the message returns and the calls are repeated, and a Redis client repeats by itself what was
not answered. A consumer's connection is replaced by two goroutines that do not know of each other. A chaos experiment lives in two stores
that are changed one after the other and, through chaos-ctrl, behind the API's
back. A process shuts down while handlers run or streams are read. Several processes
apply the schema to one database at the same time and may die in the middle. The answers
to a browser's poll, its Stop button and its links overtake each other, and the two reads
behind one page see two states of the history.

**What makes each part correct.** *Life cycle:* no message before its row, no
acknowledgement before the outcome, figures that no outcome is ahead of, a stop that
stays a stop and ends the execution, every message settled in the end. *Consumer:*
no leaked or stale connection, no loss, no redelivery without a cause, back on
a live channel after any failure. *Process:* handlers drained before clients close,
readiness that means something, errors not lost, an end after SIGTERM unless a store never
answers. *Schema:* nothing
the older version recorded is lost or doubled, and everybody comes to serve. *Pages:* what
is shown never goes back by itself, is final only with the end in it, and catches up.
*Chaos:* the two stores agree, a completion is recorded. *Generators:* an
exact and fair split of a mixed workload, a Result that counts what was done, an end
when the context is done.

## 2. Modules

| Module | Models | Checked by | Proved in |
|---|---|---|---|
| `JobContract` | the abstract promise: recorded, owed, settled once the fate is known, a start for each result | as `ImplementsContract` | refinement in `ScenarioLifecycleProofs` |
| `ScenarioLifecycle` | API, `scenario_events`, broker, Workers, composed | `Lifecycle_*` | `ScenarioLifecycleProofs` |
| `RabbitConsumer` | one consumer with its two goroutines, broker and network | `Consumer`, `Consumer_stops` | `RabbitConsumerProofs` |
| `RabbitProducer` | the API's producer: startup, DeclareTopology beside another process, Publish, monitor, Close | `Producer_*` | `RabbitProducerProofs` |
| `SchemaInit` | InitSchema in any number of processes over one database, its copy of old statuses | through `WorkerPool` | `WorkerPoolProofs` |
| `ServiceProcess` | main of the Worker, the API and the UI: boot, server, requests, shutdown, restart; takes the steps of `SchemaInit` | through `WorkerPool` | `WorkerPoolProofs` |
| `WorkerPool` | the Worker's consumer pool on top of `ServiceProcess` | `Pool_shutdown` | `WorkerPoolProofs` |
| `ConsumerLoop` | the abstract Consume goroutine, as its process sees it | through `DeliveryContract` | refinement in `RabbitConsumerProofs`, `WorkerPoolProofs` |
| `DeliveryContract` | the abstract promise of a consumer to the broker, one delivery after the other | as `KeepsContract` | refinement in `RabbitConsumerProofs`, `ScenarioLifecycleProofs` |
| `ScenarioPages` | a browser tab on the scenario pages, UI handlers and API reads, on top of `ScenarioLifecycle` | `Pages_follow` | `ScenarioPagesProofs` |
| `ChaosExperiments` | API requests, Kubernetes, MongoDB, chaos-ctrl | `Chaos_*` | `ChaosExperimentsProofs` |
| `MixedWorkload` | splitMixedDurations, and Execute with a phase as one step | through `WorkloadExecution` | `MixedWorkloadProofs` |
| `WorkloadExecution` | Execute of all generators, pass by pass, on top of `MixedWorkload` | `Workload_execution` | `WorkloadExecutionProofs` |

The `MC...` modules only name constants for TLC. Operators introduced by the
words "A bug:" are plausible wrong versions of the definition that follows them.
No specification uses them: each exists to see a property fail.

### ScenarioLifecycle

The step is one statement sent to Postgres, Redis or RabbitMQ: between two
of them anything else may happen. `events[s]` is the history of scenario *s*
in insertion order, `msg[s]` where the broker has its message, `pc[w]` where the
handler of worker *w* stands, `lease[w]` whether its delivery can still be settled
on its channel. One worker is one consumer goroutine with its own connection and a prefetch
of 1, in whichever process: the goroutines of one process share no state that a handler
reads. `CreateStore` and `CreatePublish` are
CreateScenario; `StopScenario` its namesake, whose second message (routing key
`scenario.stop`) is bound to no queue; `Deliver` to `MarkOutcome` are handleMessage
in the order of its statements, `WatcherTick` one tick of watchScenarioStop; `Ack`,
`Requeue` and `Reject` what Consume does with the handler's answer.

Failures are part of the actions: a failed INSERT may have been committed
(`InsertFails`), a failed report call may have counted (`ReportCall`), an INCR without an
answer is sent again by the Redis client, inside the call (`IncrCall`), Publish
without confirms may return nil and lose the message (`CreatePublish`), a
settlement may be lost with its connection (`Settle`), on a channel known to be dead it fails
and ends the goroutine. `DropConnection` takes the delivery from a running
handler, which goes on; a settlement on a connection that is cut without the client's knowledge
goes out and is lost, and the goroutine goes on; `Crash` is the end of a process at any point, SIGKILL
after the grace period included. `ReportCall` lets any of the errors of
reportResult requeue the message, as the code does.

NewRedis sets an address, a password and a database (`internal/db/redis.go:34`) and so leaves the
library's three automatic retries on: each sending that gets no answer may have counted
(`AttemptFails`), and the call may still return nil. Each costs one failure of the budget; that the library gives
up after three is not modelled, so that with more failures than three the model has calls the
library would have ended. `FailedCalls` is the number of failed sendings and calls so far. INSERTs go through
pgx, which does not repeat them.

Abstracted: names, profiles and payloads; the time a generator takes (it ends, or
is cancelled, at any moment); `stopped` compared without case, since every writer
writes it in lower case. `created_at` is taken to order rows as insertion does.

### RabbitConsumer

Each connection is unused, up, cut (dead, the client does not know) or closed, and
its channel open or not. `Notice` is the client library finding out. Consume's
points are `top` (its context check), `setup` (the channel is read under the lock),
`subscribe` (Qos and Consume, after the unlock), `dial` and `swap` (connect: dialling is
outside the critical section, the exchange inside), `pause`, `receive`, `handle`,
`settle`. The monitor's are `look`, `wait`, `dial`, `swap`.
The shape of connect, used by both, is `Open` then `Install`, and `LastAttempt` is the end of
reconnect's loop.

### ConsumerLoop and DeliveryContract

Three modules speak of consumers: `RabbitConsumer` of one with its connections, `ScenarioLifecycle` of
the delivery in a worker's hand, `WorkerPool` of a goroutine that its process waits for. Two
abstract specifications tie them together. `DeliveryContract` says that a delivery is out to one
consumer at most, is settled by that one on the channel it came by or is queued again, and that one whose
channel is gone settles nothing, whether it is told or not. `ConsumerLoop` is what remains of it
without the messages: idle, busy with one delivery, returned when cancelled, failed out of a
delivery. The consumer with its two goroutines implements both (`KeepsContract`). The
workers of the life cycle and the goroutines of the pool, the other two views of the same code, are shown
to be such consumers as well, each in its own mapping (`WorkersKeepContract`,
`ConsumersKeepContract`): what those modules take for granted of a consumer is what
`RabbitConsumer` delivers. The last two are stated for each worker and goroutine, a
quantified refinement, which TLC does not accept as a property: they are theorems, and were
checked with TLC for one worker and one goroutine of the instances during development.

### RabbitProducer

One process with its producer (`ppc` is main, `mpc` the monitor goroutine, `via[m]` the
channel a handler's Publish has read under the lock and not used yet) and, as `peer`, the
progress of a second process through the same DeclareTopology. `declared` is what the
broker has. A publish over a live channel reaches the queue of its key; over a cut
connection or a closing channel it answers nil and the message is gone; to an exchange
that is gone it answers nil and the broker closes the channel, as AMQP prescribes, and
leaves the connection up. `ExitProcess` is every `os.Exit(1)` of the startup, the end of
main and a kill; Kubernetes starts the process again. connect keeps the shape it has in
`RabbitConsumer`, but here the monitor alone calls it after the startup. Close may run
while the monitor dials, and the connection then installed stays open until the process
exits a moment later: `OneConnection` holds all the same. Not modelled: a broker that
blocks publishers under a resource alarm.

### SchemaInit

Each process walks through the statements of `postgres.sql` (`at`), each a transaction of
its own that acts on what it saw when it began (`Begin` fixes `plan`, `Succeed` applies it).
Statements of other processes may run in between: a CREATE TABLE that lost the race fails on
the catalog's unique index (`Collide`) and ends its process; two copies that overlap do not
see each other's rows. A process that dies leaves the statement it has sent (`orphan`), which
may still take effect (`OrphanEnds`). The older version goes on writing statuses to
`load_events`, and workloads their rows, for as long as they like. `known` and `overlap` are
history variables. A status that the older version writes after the last copy is carried over at
the next start of any process and not before: the property speaks of what was there when
a copy began.

### ServiceProcess

`Stages` is what main calls before it serves, for each of the three programs; `BootCall` is one
such call with its retries and `ApplySchema` goes through the steps of `SchemaInit`. Then
`Signal` or `ServerFails`, `Wake`, `ShutdownReturns`, and `Close`, once for each deferred
call. `Die` is `os.Exit`, a kill or the return of main; `StartAgain` is Kubernetes. Requests are
calls, which return, or event streams (the logs, the UI's dashboard), which end when their client
leaves: http.Server.Shutdown (external) does not cancel them and main waits ten seconds (`late`).
A call of the API may be in a call to Postgres or Mongo (`Borrow`, `GiveBack`), on a connection of
their pools. `PostgresClient.Close` and `MongoClient.Close` (with a context that never ends,
`cmd/api/main.go:91`) wait until such connections are back, which is how the libraries (external) close a
pool, and lend none from then on: `Close` is blocked while `HeldByRequest`. A request that Shutdown has given
up can thus keep main in a deferred call for as long as its store does not answer. Redis and the producer
close under whoever uses them.
With service `absent`, the process followed is not deployed and the others apply the
schema next to each other. That keeps the instances small, and they do not interact
through anything but the database.

### WorkerPool

The pool's steps are those of startConsumers, and a consumer's step is as much of Consume as the
process sees: idle, with a delivery (`busy`), in a statement of its handler (`storing`, on a connection of
the Postgres pool, which `Close` waits for: `HeldByConsumer`), about to hand over an error (`sending`), or over.
`WithPool` joins a step of main to the pool: the goroutine begins when the server
does and dies with the process. When a consumer cannot be created, startConsumers returns over its
running goroutines and main does not notice before the signal: the process stays up, `/healthz`
answers, `/readyz` does not, and on SIGTERM the clients are closed under handlers that may run.
That is why `DrainBeforeClose` speaks of a completely created pool, and for the same reason of
requests that Shutdown has not given up.

`ReadyServesQueues` says what `/readyz` is worth. A consumer that ends with an error is not replaced and readiness is
never taken back, so a ready Worker may in the end read nothing. What holds is a count: while it is not told to end, no
more consumers have stopped reading than there were failures, and a queue that was dealt more consumers than
that is read. Before any failure all of them read. A single consumer is dealt to `workload.high`, and
nothing is said of the other queue then.

`ShutdownExits` has one exception, `NeverAnswered`, and needs both its parts: a store that never answers
a request which Shutdown gave up, or a handler of a consumer, whose context is never cancelled
(`cmd/worker/main.go:155`). TLC finds a process that does not end when either part is left out.

### ScenarioPages

The history of a scenario only grows, so a page is a *place* in it: the list shows the row at that
place, the detail page all rows up to it, and `flag` is the row the template's `Terminal` was
computed from. At most one request of each part of the page is under way: a link or the form, the
polling element, the Stop button. The UI answers a list or a row from one read of the API, a detail
page or its table from two (`ReadScenario`, then `ReadEvents`), and the life cycle goes on in
between (`Underneath`, the `Next` of `ScenarioLifecycle`). htmx (external) polls an element while the
template gives it `hx-get`, does not swap an error status, and drops an answer whose target has
been replaced (`attached`). `body` is boosted, so links are such requests too. A call that times
out after ten seconds (`CallFails`) may still be carried out; a stop whose message
cannot be published has inserted its row all the same, which is `CallFails` with `StopScenario`
underneath, and a list that fails after the redirect of the form is `CallFails` as well. The
badge in the header of the detail page never changes and is not modelled. A list opened
before the scenario was created never shows it, because only the rows it has are polled.

### ChaosExperiments

`objects` is Kubernetes (per name *and* kind), `records` MongoDB (per name). A
request walks from call to call (`at`). `excused` is a history variable: the names for
which an action has just done something after which the two stores may
disagree. Those actions are the list of causes: a call to the second store that failed,
a process that died between the calls, an Apply or Delete that took effect although it failed,
two kinds of one name, a creation and a deletion of one name that overlap,
and chaos-ctrl. `StoresAgree` says there are no others, and the proof shows it.

### MixedWorkload

The passes of splitMixedDurations (`Validate`, `Remainder`, `Reduce`, `SplitDone`) and the
phases of Execute. The arithmetic is exact: DurationMs comes from a duration in ns in an
int64, so is below 10^13, and a product with a percentage of at most 100 cannot overflow.
handleMessage passes no profile, so the Worker always uses 34/33/33; the module
takes any profile, as the function does.

### WorkloadExecution

gen.Execute between the running row and the outcome of a scenario, for the five types. A
generator looks at the clock (`Clock`), then at its context (`Poll`), then works: a pass of
the CPU loop, a batch of inserts, or a query, each statement sent (`Call`) and answered
(`Inserted`, `Queried`) in two steps. Between any two, the deadline may pass (`Expire`) or the
context end (`Cancel`). An insert may take effect and answer with an error. The memory
generator allocates before it looks at its context, and waits for either (`Hold`). A scenario of
type `mixed` goes through the steps of `MixedWorkload` and runs its phases one after the other;
the others run one generator (`ExecuteOne`), in `single`, and leave the variables of the split alone.
`ScenarioLifecycle` has all of this as `ExecuteEnds` and `ExecuteCancelled`. pgx refuses a statement
whose context is done before sending it; one that is under way may still be answered.
A look-back that cannot be drawn (`randomDuration`) is a failed query. Left out: spans, logs, the latency histogram, and the checks of
Execute that a Worker cannot fail (no store, no generators, a payload that cannot be encoded).

## 3. Runs

| Run | Question | Bounds and why they suffice |
|---|---|---|
| `Lifecycle_safety` | Do history, figures and acknowledgements stay consistent, and do they implement the contract? | Two scenarios (one routable, one not), two workers on one queue, one stop, one failed call, one drop, one crash, in any order. Two workers on one scenario are the most that interfere (a drop gives the message to the second). The failed call may be an INCR that is sent again. Workers are symmetric; no liveness in this run. 2.6M states. |
| `Lifecycle_live` | Is every message settled? Does a stop end an execution? | One scenario and one foreign message, one stop, one failed call, one drop. No crash: a crashed handler starts over, which a drop and a requeue already exercise. |
| `Lifecycle_overwrite` (violation) | Is a stop never overwritten? | One scenario, one worker, one stop, no failure. |
| `Consumer` | Leaked connections, lost or repeated messages? Does it keep the delivery contract, come back, shut down? | Two messages, so that one is delivered while another is returned, one failure and one handler error, in any order. One failure starts the chase of the two goroutines, in which each goes on reconnecting after the other. Six connection identifiers are enough because one is reused once neither goroutine refers to it. Two dials per reconnect instead of ten. 374k states. |
| `Consumer_stops` (violation) | Does no failure end a consumer? | As above. |
| `Producer_recovers` | One connection, dead letters kept, no loss without a failure, reconnection after any outage? | A scenario and a stop event (which no queue is bound for), one queue (the queues are declared one after the other in the same way), a second process that restarts at will, two failures out of outage, cut, kill and lost topology. Two dials per reconnect instead of ten, two starts instead of thirty. Seven identifiers: four variables, two publishes, one fresh. 0.4M states. |
| `Producer_stuck` (violation) | Does a producer that cannot publish recover? | One message, one failure. |
| `Chaos_consistency` | Do the stores agree? Is a completion recorded? | One name: names do not interact. Two kinds, two concurrent requests and one fault, so that each cause in `excused` happens. |
| `Chaos_delete` (violation) | Does Delete remove the experiments of a name? | No fault needed. |
| `Pool_shutdown` | Drain, readiness, error reporting, termination; the schema by several processes | The Worker, the API, the UI, or two processes applying the schema over one old status and one workload row, one of them failing at any point. Two consumers, two tries, three faults: every consumer may fail, and errCh may fill. One request, since requests do not interact. The theorems are for any number of consumers. 0.2M states. |
| `Pages_follow` | Does a page go back, stop too early or fall behind? | One scenario and one worker, one stop, two links or forms, one failed call of the UI. A link, a poll and a stop may be under way at once. The history ends more than once all the same: `running` and an outcome may follow a stop, and a stop an outcome. 0.2M states. |
| `Workload_execution` | Is the split exact, fair, total? Does the Result count what was done, and does a cancelled execution stop? | Durations at and around 0, the number of phases and 100; percentages around 0, the default, 100; all five types. Two passes per generator, so that a pass follows another, and batches of two, so that a cancellation falls inside one. 0.8M states. |

Deadlock checking is off where the system may legitimately stop: no scenario left,
the process exited, the consumer gone.

**The four violations** are disagreements between the code and what its
documents say:

1. A stop written between a Worker's status read and its INSERT is overwritten by
   `running`, `completed` or `failed` (`CHANGELOG.md:111`, `docs/getting-started.md:189`).
   The same gap before `running` lets a queued scenario run after its stop
   (`README.md:30`), and its watcher then sees `running`. `StopHolds` is the
   guarantee that remains: a stop no handler was already writing against is final.
2. A settlement on a lost connection ends Consume for good, in spite of "auto-reconnect"
   (`rabbitmq.go:350`); the pool does not replace the consumer and the process
   stays ready.
3. Delete returns after the first object of a name and may leave one of another kind
   (`client.go:143`).
4. monitorReconnect watches the connection, not the channel. Once the broker has closed
   the channel alone (a publish while the exchange is missing is enough), every Publish of
   the process fails until its connection is lost or it restarts, even after a Worker has
   declared the exchange again, in spite of "auto-reconnect" (`rabbitmq.go:30`).
   `Reconnects` is what remains: a lost *connection* is always replaced.

## 4. Fairness

- `Lifecycle_live` (`LongRunSpec`): the handler goroutine and the watcher are
  scheduled (weak fairness of their steps). Faults, drops, stops and crashes are
  never obliged to happen and end with their bounds. That a generator returns by
  its deadline is a premise (`GeneratorFair`) of `EventuallySettled` only;
  `StopEndsExecution` does without.
- `Consumer`: goroutines are scheduled, handlers return (their executions end),
  a cut connection is noticed (heartbeats), the broker comes back and sends. Strong
  fairness for leaving `wait` on a cancelled context: a select with a ready branch picks
  randomly, so not for ever the other one. `Resubscribes` and `EventuallyHandled` have
  the premise `PauseOutlastsMonitor`: after some point the 500 ms pause of Consume is
  longer than a successful round of the monitor. Without it TLC finds
  the livelock in which each goroutine, by installing its connection, closes the other's: one
  channel error suffices to start it. Nothing but timing ends it in the code either.
- `Producer_*`: main, the monitor and the handlers are scheduled, the broker comes back, a
  cut connection or a closed channel is noticed. Neither failures nor the other process's
  steps are obliged to happen.
- `Pool_shutdown`: main, the pool, the other processes and statements left under way are
  scheduled, and the calls of the boot return; strong fairness for a handler to come to its end when it is
  again and again between two statements, and for a consumer to take the context's branch of its select. No
  request has to end, no store to answer a request or a handler, and no signal to come.
  Kubernetes restarts a process that ended. Failures end with their bound.
- `Pages_follow`: the UI answers, htmx swaps and polls. The API, the Workers and the user need do
  nothing: `PageCatchesUp` holds wherever they stop.
- `Chaos_consistency`: requests proceed; each name's status is asked for again and again, as
  the badge in `web/templates/partials/experiment-status.html` does every 3 s. Strong
  fairness, because other requests may keep the slots of the model busy.
- `Workload_execution`: the goroutine runs and every statement is answered (`FairExecSpec`).
  The clock is not fair: `CancelEnds` holds however far the deadline is, and `DeadlineEnds`
  has the passing of deadlines as its premise.

## 5. Proofs

All proofs are for arbitrary constants under the assumptions stated in the modules
(`LifecycleAssumption`, `ChaosAssumption`, `MixedAssumption`,
`ExecutionAssumption`, `ProducerAssumption`, `ConsumerAssumption`, `SchemaAssumption`,
`ServiceAssumption`, `PoolAssumption`, `PagesAssumption`), which TLC evaluates
in the runs. The inductive invariants were checked with TLC as invariants of the same instances
before they were proved, and are no longer part of the runs.

**ScenarioLifecycleProofs.** `IInv` adds to the types and the two properties it is for:
`BusyOK` (a handler at work has a scenario, only such a handler holds a lease),
`ApiOK` (row before message, once each), `BrokerOK` (an unacked delivery is leased to at
most one channel, what is acked or dead stays so), `HistoryOK` (what each point of
handleMessage knows to be in the history) and `FiguresOK` (handlers between two
increments have already raised the first figure, and each sending beyond one per call has failed). `OutcomeBeforeAck` alone is not
inductive: at `ack` one has to know that the outcome or the stop is there and, since
another worker may write meanwhile, that histories only grow (`InsertGrows`).
`CounterOrder` needs the count of the handlers under way, hence `FiguresOK` with its
cardinalities; it bounds by the failed sendings how far a figure can be ahead of the one before it, since an INCR that
counted twice stays counted. From it: `TypeCorrect`, `DeliveriesStored`, `AckAfterOutcome`,
`CountersOrdered`; with one more case analysis on the steps, `StopIsKept`.
`LifecycleImplementsContract` is the refinement of `JobContract`: every step maps to a step of
the contract or a stutter, for any number of workers executing the same scenario. The contract
keeps, besides the phase and the facts of a job, how many of its starts have no result (`open`, mapped to
the `running` rows less the outcome rows), and allows a result only while there is one. That two
workers on one scenario cannot both store an outcome for one run is `RunsOK` (`OutcomesHaveRuns`):
the outcome rows and the handlers between their `running` row and their outcome are at most
the `running` rows. Failed INSERTs that took effect only add to the runs or end a handler.
Two more inductive invariants are the safety halves of the two liveness properties. `WatchOK`
(`EveryStopIsHeard`, for `StopEndsExecution`): an execution has its watcher until it is
cancelled, which needs that no cancellation outlives its execution. `HeldOK`
(`NoMessageIsForgotten`, for `EventuallySettled`): an unacked message is out to a handler that
can still settle it, so that a scenario is waiting, at work, or has its fate in the table.
`HistoryInv` is a second strengthening, for what relates histories, deliveries and figures
(`HistoryInvariant`). `SettledOK`: while no connection has dropped, every handler at work holds its
lease, so nobody else can write behind an acknowledgement; with it `SettledStaysTerminal`. `RerunsOK`
is a budget: the runs recorded, the handlers that may still record one or return their message,
and the message itself while it is undelivered come to at most one more than the failures so far; with
it `RerunsHaveCauses`. `CountedOK` adds to the outcomes the handlers that have counted a
result and not stored it, and compares with each figure they are counted in; with it `OutcomesWereCounted`, over all
scenarios, which repeated INCRs cannot break. No induction over the
histories is needed: a step adds at most one row to one history (`RowsStep`, `RowsCount`) and moves
one handler from one set to another (`StartersStep`, `RunnersStep`, `ConcludingStep`, `AtStep`).
`WorkersKeepDeliveries` is the refinement of `DeliveryContract` for each worker: a step of its own is a step
of the contract (`DeliveryOwn`), and a step of anybody else moves another message or
nothing the contract sees (`DeliveryElsewhere`, `OthersUnseen`), because a lease is held by one worker only.

**ChaosExperimentsProofs.** `IInv` describes half-done requests: at `store` the request's
object is the only active one and no record exists; at `unstore` none is active.
From it `StoresStayInAgreement` and `TypeCorrect`.

**MixedWorkloadProofs.** For all integers: `ExactSplit` and `JustifiedRefusal`; the refusal
after the reducing loop is unreachable because the number of active phases is at most the
total. `FairShares` rests on `FairInv`. With `NearOK`, a share is off by less than one millisecond when it has been
rounded (`ShareIsNear`, the one step with a product of variables, taken through
`ProductIsMonotone`), and the largest phase is never above its exact share, because only a share
below one is raised and there is a millisecond for each active phase, so that a largest share is no less than one. For a profile that adds up to 100 the
three distances add up to a hundred times what the sum is off by (`DistancesAddUp`), so at most two
milliseconds are missing and one is too much. `OneCorrection` follows from the same invariant.

**WorkloadExecutionProofs.** `Own` joins the types, where the generator stands (`ControlOK`),
what it has counted (`CountOK`) and what may still take effect (`AfterOK`). `OneAfterCancel` alone
is not inductive: one must know that nothing has taken effect since the cancellation while a
statement is under way, and that none is sent afterwards. One step each begins a generator, moves inside it or
ends it (`BeginOwn`, `GotoOwn`, `EndOwn`). `ExecutionIsMixed` is a refinement: every behaviour of the
execution is one of `MixedWorkload`, because a generator that runs belongs to a phase with
time (`ControlOK`). So the theorems about the split hold of executions
(`ExecutionSplitsExactly`, `ExecutionSplitsFairly`), and with them `ExecutionInvariant`; `ReportsItsWork` and `StopsAtOnce` follow.
Of `CancelEnds` and `DeadlineEnds` everything but the fairness is proved, by a measure that every step
of the execution's own lowers. `Countdown` is what is left of a cancelled execution, the split, the phases still
to be entered and left, and the return: at most seventeen steps, whatever the types, the
durations, the batch and the answers (`CancelledIsNearlyOver`). `Overrun` is what is left of a generator
whose deadline has passed: a statement and its answer for each insert of the batch it is in, and three steps
(`OverrunIsABatch`), which is why a long batch outlasts its deadline and not its cancellation. How often
the reducing loop still has to go round is a fact about the split (`CorrectsOnce`), taken from `FairInv`
through the refinement.

**RabbitProducerProofs.** `AtMostOneConnection` needs to know what the monitor saw: while
it dials, the installed connection is closed or gone, and while it waits it watches the
installed one or one that Close has closed (`LinksOK`). `RejectedMessagesAreKept` needs
what each process has declared so far (`DeclaredOK`) and that the order binds a dead letter
queue two places before its queue (`DeadLetterFirst`), for any number of queues. `TroubleHasCauses` needs to know
what calm looks like (`CalmOK`): as long as nothing has failed, a process that serves has declared the whole
topology, no connection is cut or without its channel, and those in use are closed by the shutdown
only. `MonitorOK` says that the monitor lives as long as there is a connection and no signal; with `LinksOK` it
gives `EveryLossIsNoticed`, the safety half of `Reconnects`: a serving process waits on the connection it publishes with,
is about to look at it, or replaces it because it is closed. The steps of the other process can only add to what is declared. That a
fresh identifier exists is a count of the variables that may hold one (`FreshType`), from
the assumption that there are five more identifiers than messages; `None` is not one of them, nor an
answer.

**RabbitConsumerProofs.** `LinksOK` says which connections may be open: the installed one and
those a goroutine has dialled and not installed; from it `NothingLeaks` and
`MonitorWatchesCurrent`. That a fresh identifier exists is a count again: the goroutines
refer to five. `HoldingOK` ties an unacked message to the subscription that has it in
hand, from which `UnackedStaysHeld`. `RedeliveriesHaveCauses` is a budget (`BudgetOK`): for each message, the calls of
the handler so far and those `Due` without another failure are within one more than failures
and handler errors. The goroutines may close each other's connections any number of times, which is no
failure in the model, and yet nothing is handled more often for it: a delivery being handled on a
replaced connection is the last one, since its settlement fails and ends Consume (`LastHandled`),
and one that had not been read yet is sent again *instead*.
`ConsumerKeepsContract` is the refinement of `DeliveryContract`. It maps a message that waits in the
client to one still to be delivered, and needs `HandOK`: the broker has not done with a message that the
goroutine has got. `LossKeeps` is its core: whatever closes or cuts connections, twice or in any order, takes the
lease and never the message. `ConsumerIsALoop` follows.

**WorkerPoolProofs.** First the schema by itself, for any number of processes, statuses and
failures: `SchemaInv` says what a statement under way is going to add (`PlansOK`), that a status known
to a process is copied or about to be (`CarriedOK`), and that copies that do not overlap add
what is missing (`OneCopy`). Then `PoolImplementsSchema`: every step of a Worker, API or UI in its
process is a step of `SchemaSpec` or a stutter, so the two properties hold of it
(`ProcessesCarryStatuses`). Last `IInv` of the process with its pool: `MainOK` and `PoolOK` relate
where main stands to what the pool has answered, and what it has answered to its goroutines.
`ClosedWhenDrained` and `ErrorsAreReported` follow. `ReadyMeansServing` needs another invariant, `LossesOK`
(`LossesInvariant`): the consumers that have failed or are about to are no more than the failures, which are never
taken back (`FaultsGrow`). A consumer of a complete pool that is not told to end reads or is one of those
(`ReadsOrLost`). `PoolKeepsContract` is the refinement of
`ConsumerLoop` by each goroutine. `NoDeadlock` is the safety half of `ShutdownExits`, for any number of
consumers: `WaitOK` bounds the errors buffered in errCh by the goroutines that have ended, so that one
still to report finds room (`RoomForAll`, a count over `FailedSlots`), and says that whoever waits on the way
out does so with the context cancelled. errCh holds one error per consumer, and with less room than that the statement is false.

**ScenarioPagesProofs.** `PagesKeepTheLifecycle` is a refinement: with the pages, every behaviour
is one of `ScenarioLifecycle`, so its invariants may be used. Histories only grow, hence
`PagesInv`: the status a request has read is no later than its rows, and an answer that can
still be swapped in is not behind the page, because a swap detaches whatever else was under way. From it
`FinalPageShowsFate`, `BannerTellsTheTruth` and `PageNeverGoesBack`.

**Only model-checked:** liveness, since fairness and ENABLED are out of the prover's reach:
`EventuallySettled`, `StopEndsExecution`, `PageCatchesUp`, `Resubscribes`, `EventuallyHandled`,
`ShutdownEnds`, `CompletionIsRecorded`, `ShutdownExits`, `EveryoneServes`, `CancelEnds`, `DeadlineEnds` and
`Reconnects`. Every safety property of the passing runs is a theorem, of its specification without
the fairness. Of `StopEndsExecution`, `EventuallySettled`, `Reconnects`, `CancelEnds` and `DeadlineEnds` the theorems above
give what must hold in every state, and of `ShutdownExits` `NoDeadlock` does; that the steps are taken is TLC's.

## 6. Not modelled

- *Telemetry, configuration, routing, logging, deployment manifests:* no state the rest depends on.
- *Status endpoint, log stream:* reads only. A stream appears as a request that may never end.
- *Dashboard of the UI:* it keeps the previous figures of one stream to show a rate; a read that failed is
  taken for zero (`cmd/ui/handlers/server.go:121`), so that the rate after it is wrong. One stream, two
  reads and no interaction: a unit test's matter.
- *Chaos pages of the UI:* their reads are the requests of `ChaosExperiments`.
- *Request validation:* beyond the names of queues it does not change what the modules tell apart.
- *Clocks:* `created_at` is the start of the inserting transaction (`internal/db/schema/postgres.sql:12`)
  and orders the history; the modules take it to be the order of insertion.
- *The latency histogram* that consumer goroutines share without a lock
  (`internal/workload/db_read.go:42`), a data race on its creation: whoever wins, what a worker
  writes, reports and settles is the same, and that is all the properties speak of.

The `hazards` in `PROJECT.json` name the properties that cover each of them. The one without is
the publish that fails or whose queue nobody declared (`cmd/api/handlers/scenarios.go:69`): nothing in
the code repairs such a scenario, and the contract allows it.

## 7. Plan

1. The contention of executions for the ten connections of the Postgres pool, and with it a
   watcher that cannot read the status.
2. `created_at` as a clock of its own, to say by how much a history may be out of order.
