--------------------------- MODULE ScenarioLifecycle ---------------------------
(***************************************************************************)
(* The life of a load scenario: the API that records and submits it, the   *)
(* append-only scenario_events table both sides share, the broker that     *)
(* holds its message, and the Worker goroutines that execute it, report it *)
(* and settle the delivery.                                                *)
(*                                                                         *)
(* One worker is one consumer goroutine with its own AMQP connection and a *)
(* prefetch of 1, whichever process it runs in; each statement sent to     *)
(* Postgres, Redis or RabbitMQ is one step.  Every such call may fail with *)
(* or without having taken effect, a connection may drop under a running   *)
(* handler, and a worker may crash.                                        *)
(***************************************************************************)
EXTENDS Integers, Sequences, FiniteSets

CONSTANTS
    Scenarios,      \* scenario ids
    Undecodable,    \* those whose message no handler can decode or dispatch
    Workers,        \* consumer goroutines
    Queues,         \* queues bound to the exchange
    TargetQueue,    \* [Scenarios -> names]: Profile.TargetQueue, any name
    QueueOf,        \* [Workers -> Queues]: what queuePicker gave the goroutine
    None,           \* no scenario
    MaxStops,       \* bound: stop requests
    MaxFaults,      \* bound: failed calls
    MaxDrops,       \* bound: connections lost under a delivery
    MaxCrashes      \* bound: worker crashes and restarts

ASSUME LifecycleAssumption ==
    /\ Undecodable \subseteq Scenarios
    /\ None \notin Scenarios
    /\ IsFiniteSet(Workers)
    /\ QueueOf \in [Workers -> Queues]
    /\ MaxStops \in Nat
    /\ MaxFaults \in Nat
    /\ MaxDrops \in Nat
    /\ MaxCrashes \in Nat

VARIABLES
    events,     \* scenario_events: per scenario, its statuses in insertion order
    msg,        \* where the broker has the scenario's message
    apiPc,      \* where CreateScenario stands
    pc,         \* where the worker's handler stands
    job,        \* the scenario the worker handles
    lease,      \* the delivery can still be settled on the worker's channel
    result,     \* result.Error of the execution: "ok" or "error"
    watching,   \* the stop watcher goroutine runs
    cancelled,  \* the execution context is cancelled
    metrics,    \* rows of metrics_snapshots and the cp:* counters of Redis
    budget      \* what is left of each bound

vars == <<events, msg, apiPc, pc, job, lease, result, watching, cancelled,
          metrics, budget>>
handler == <<pc, job, lease, result, watching, cancelled>>

Outcomes == {"completed", "failed"}
Statuses == {"queued", "running", "stopped"} \union Outcomes
Places   == {"none", "ready", "unacked", "acked", "dead", "lost"}
ApiPcs   == {"new", "storing", "accepted", "refused"}
Figures  == {"snapshots", "total", "byType", "errors"}
Bounds   == {"stops", "faults", "drops", "crashes"}

ReportPcs == {"snapshot", "incrTotal", "incrType", "incrErrors", "publish"}
SettlePcs == {"ack", "requeue", "reject"}
Pcs == {"idle", "decode", "check", "markRunning", "executing", "recheck",
        "finalCheck", "markOutcome", "exited"} \union ReportPcs \union SettlePcs

TypeOK ==
    /\ events \in [Scenarios -> Seq(Statuses)]
    /\ msg \in [Scenarios -> Places]
    /\ apiPc \in [Scenarios -> ApiPcs]
    /\ pc \in [Workers -> Pcs]
    /\ job \in [Workers -> Scenarios \union {None}]
    /\ lease \in [Workers -> BOOLEAN]
    /\ result \in [Workers -> {"ok", "error"}]
    /\ watching \in [Workers -> BOOLEAN]
    /\ cancelled \in [Workers -> BOOLEAN]
    /\ metrics \in [Figures -> Nat]
    /\ budget \in [Bounds -> Nat]

Init ==
    /\ events = [s \in Scenarios |-> << >>]
    /\ msg = [s \in Scenarios |-> "none"]
    /\ apiPc = [s \in Scenarios |-> "new"]
    /\ pc = [w \in Workers |-> "idle"]
    /\ job = [w \in Workers |-> None]
    /\ lease = [w \in Workers |-> FALSE]
    /\ result = [w \in Workers |-> "ok"]
    /\ watching = [w \in Workers |-> FALSE]
    /\ cancelled = [w \in Workers |-> FALSE]
    /\ metrics = [f \in Figures |-> 0]
    /\ budget = [b \in Bounds |-> CASE b = "stops"  -> MaxStops
                                    [] b = "faults" -> MaxFaults
                                    [] b = "drops"  -> MaxDrops
                                    [] OTHER        -> MaxCrashes]

--------------------------------------------------------------------------------
(* Helpers shared by the handlers.                                         *)

Spend(b) ==
    /\ budget[b] > 0
    /\ budget' = [budget EXCEPT ![b] = @ - 1]

\* SELECT ... ORDER BY created_at DESC, id DESC LIMIT 1 over a non-empty history.
Latest(s) == events[s][Len(events[s])]

Stored(s) == events[s] # << >>

IsStopped(s) == Stored(s) /\ Latest(s) = "stopped"

Append1(s, status) == events' = [events EXCEPT ![s] = Append(@, status)]

\* A failed INSERT: the statement may have been committed before the error.
InsertFails(s, status) ==
    /\ Spend("faults")
    /\ \/ UNCHANGED events
       \/ Append1(s, status)

Goto(w, p) == pc' = [pc EXCEPT ![w] = p]

Release(w) ==
    /\ job' = [job EXCEPT ![w] = None]
    /\ lease' = [lease EXCEPT ![w] = FALSE]
    /\ result' = [result EXCEPT ![w] = "ok"]

--------------------------------------------------------------------------------
(* The API.                                                                *)

\* CreateScenario: the row comes first, and a failed insert ends the request.
CreateStore(s) ==
    /\ s \notin Undecodable
    /\ apiPc[s] = "new"
    /\ \/ /\ Append1(s, "queued")
          /\ apiPc' = [apiPc EXCEPT ![s] = "storing"]
          /\ UNCHANGED budget
       \/ /\ InsertFails(s, "queued")
          /\ apiPc' = [apiPc EXCEPT ![s] = "refused"]
    /\ UNCHANGED <<msg, handler, metrics>>

Routable(s) == TargetQueue[s] \in Queues

\* CreateScenario then publishes.  Without confirms or the mandatory flag a nil
\* error covers a message no queue received; an error leaves the row as it is.
CreatePublish(s) ==
    /\ apiPc[s] = "storing"
    /\ \/ /\ apiPc' = [apiPc EXCEPT ![s] = "accepted"]
          /\ \/ /\ Routable(s)
                /\ msg' = [msg EXCEPT ![s] = "ready"]
                /\ UNCHANGED budget
             \/ /\ Routable(s)
                /\ msg' = [msg EXCEPT ![s] = "lost"]
                /\ Spend("faults")
             \/ /\ ~Routable(s)
                /\ msg' = [msg EXCEPT ![s] = "lost"]
                /\ UNCHANGED budget
       \/ /\ apiPc' = [apiPc EXCEPT ![s] = "refused"]
          /\ msg' = [msg EXCEPT ![s] = "lost"]
          /\ Spend("faults")
    /\ UNCHANGED <<events, handler, metrics>>

\* StopScenario: 404 without a row, otherwise one more row whatever the latest
\* status is.  The scenario.stop message that follows reaches no queue.
StopScenario(s) ==
    /\ Stored(s)
    /\ budget["stops"] > 0
    /\ \/ /\ Append1(s, "stopped")
          /\ budget' = [budget EXCEPT !["stops"] = @ - 1]
       \/ /\ budget["faults"] > 0
          /\ budget' = [budget EXCEPT !["stops"] = @ - 1, !["faults"] = @ - 1]
          /\ \/ UNCHANGED events
             \/ Append1(s, "stopped")
    /\ UNCHANGED <<msg, apiPc, handler, metrics>>

\* A message that is not a scenario, put on a queue by another client.
PublishForeign(s) ==
    /\ s \in Undecodable
    /\ Routable(s)
    /\ msg[s] = "none"
    /\ msg' = [msg EXCEPT ![s] = "ready"]
    /\ UNCHANGED <<events, apiPc, handler, metrics, budget>>

--------------------------------------------------------------------------------
(* A worker: Consume hands a delivery to handleMessage, which walks through *)
(* decode, check, markRunning, executing, the report, finalCheck and        *)
(* markOutcome, and leaves with ack, requeue or reject.                     *)

Deliver(w, s) ==
    /\ pc[w] = "idle"
    /\ msg[s] = "ready"
    /\ TargetQueue[s] = QueueOf[w]
    /\ msg' = [msg EXCEPT ![s] = "unacked"]
    /\ job' = [job EXCEPT ![w] = s]
    /\ lease' = [lease EXCEPT ![w] = TRUE]
    /\ Goto(w, "decode")
    /\ UNCHANGED <<events, apiPc, result, watching, cancelled, metrics, budget>>

Decode(w) ==
    /\ pc[w] = "decode"
    /\ Goto(w, IF job[w] \in Undecodable THEN "reject" ELSE "check")
    /\ UNCHANGED <<events, msg, apiPc, job, lease, result, watching, cancelled,
                   metrics, budget>>

\* A bug: a failed read is taken for a stop.
StopUnlessRead(w, p) ==
    \/ /\ Stored(job[w])
       /\ Goto(w, IF IsStopped(job[w]) THEN "ack" ELSE p)
       /\ UNCHANGED budget
    \/ Goto(w, "ack") /\ Spend("faults")

\* latestScenarioStatus and the branch on it: stopped leaves with nil, an error
\* (no row is one) requeues, any other status goes on to p.
ReadStatus(w, p) ==
    /\ \/ /\ Stored(job[w])
          /\ Goto(w, IF IsStopped(job[w]) THEN "ack" ELSE p)
          /\ UNCHANGED budget
       \/ /\ ~Stored(job[w])
          /\ Goto(w, "requeue")
          /\ UNCHANGED budget
       \/ /\ Goto(w, "requeue")
          /\ Spend("faults")

CheckStopped(w) ==
    /\ pc[w] = "check"
    /\ ReadStatus(w, "markRunning")
    /\ UNCHANGED <<events, msg, apiPc, job, lease, result, watching, cancelled, metrics>>

\* appendScenarioStatus "running", then the watcher and the generator start.
MarkRunning(w) ==
    /\ pc[w] = "markRunning"
    /\ \/ /\ Append1(job[w], "running")
          /\ Goto(w, "executing")
          /\ watching' = [watching EXCEPT ![w] = TRUE]
          /\ UNCHANGED budget
       \/ /\ InsertFails(job[w], "running")
          /\ Goto(w, "requeue")
          /\ UNCHANGED watching
    /\ UNCHANGED <<msg, apiPc, job, lease, result, cancelled, metrics>>

\* A bug: a failed read ends the watcher.
WatchOnce(w) ==
    /\ watching[w]
    /\ \/ /\ IsStopped(job[w])
          /\ cancelled' = [cancelled EXCEPT ![w] = TRUE]
          /\ UNCHANGED budget
       \/ Spend("faults") /\ UNCHANGED cancelled
    /\ watching' = [watching EXCEPT ![w] = FALSE]
    /\ UNCHANGED <<events, msg, apiPc, pc, job, lease, result, metrics>>

\* One tick of watchScenarioStop: a failed read waits for the next tick.
WatcherTick(w) ==
    /\ watching[w]
    /\ \/ /\ IsStopped(job[w])
          /\ cancelled' = [cancelled EXCEPT ![w] = TRUE]
          /\ watching' = [watching EXCEPT ![w] = FALSE]
          /\ UNCHANGED budget
       \/ /\ Spend("faults")
          /\ UNCHANGED <<watching, cancelled>>
    /\ UNCHANGED <<events, msg, apiPc, pc, job, lease, result, metrics>>

\* gen.Execute returns on its own; the watcher is cancelled and awaited.
ExecuteEnds(w) ==
    /\ pc[w] = "executing"
    /\ \E r \in {"ok", "error"} : result' = [result EXCEPT ![w] = r]
    /\ Goto(w, "snapshot")
    /\ watching' = [watching EXCEPT ![w] = FALSE]
    /\ cancelled' = [cancelled EXCEPT ![w] = FALSE]
    /\ UNCHANGED <<events, msg, apiPc, job, lease, metrics, budget>>

\* gen.Execute returns context.Canceled after the watcher's cancel.
ExecuteCancelled(w) ==
    /\ pc[w] = "executing"
    /\ cancelled[w]
    /\ Goto(w, "recheck")
    /\ cancelled' = [cancelled EXCEPT ![w] = FALSE]
    /\ UNCHANGED <<events, msg, apiPc, job, lease, result, watching, metrics, budget>>

\* Cancelled, yet no longer stopped: the cancellation is reported as an error.
Recheck(w) ==
    /\ pc[w] = "recheck"
    /\ ReadStatus(w, "snapshot")
    /\ result' = [result EXCEPT ![w] = "error"]
    /\ UNCHANGED <<events, msg, apiPc, job, lease, watching, cancelled, metrics>>

\* reportResult: each call runs only after the one before it returned nil.
Count(f) == metrics' = [metrics EXCEPT ![f] = @ + 1]

\* One sending of the command that is not answered may have counted all the same.
AttemptFails(f) ==
    /\ Spend("faults")
    /\ \/ UNCHANGED metrics
       \/ Count(f)

ReportCall(w, f, next) ==
    /\ \/ Count(f) /\ Goto(w, next) /\ UNCHANGED budget
       \/ AttemptFails(f) /\ Goto(w, "requeue")
    /\ UNCHANGED <<events, msg, apiPc, job, lease, result, watching, cancelled>>

\* NewRedis leaves MaxRetries at the library's default of 3: an INCR without an
\* answer is sent again inside the call, which may count twice and return nil.
IncrCall(w, f, next) ==
    \/ ReportCall(w, f, next)
    \/ AttemptFails(f) /\ UNCHANGED <<events, msg, apiPc, handler>>

InsertSnapshot(w) == pc[w] = "snapshot" /\ ReportCall(w, "snapshots", "incrTotal")

\* A bug: the first INCR is given the key of the type.
TypeTwice(w) == pc[w] = "incrTotal" /\ IncrCall(w, "byType", "incrType")

IncrTotal(w) == pc[w] = "incrTotal" /\ IncrCall(w, "total", "incrType")

\* A bug: errors are not counted.
IncrTypeOnly(w) == pc[w] = "incrType" /\ IncrCall(w, "byType", "publish")

IncrType(w) ==
    /\ pc[w] = "incrType"
    /\ IncrCall(w, "byType", IF result[w] = "error" THEN "incrErrors" ELSE "publish")

IncrErrors(w) == pc[w] = "incrErrors" /\ IncrCall(w, "errors", "publish")

\* results.<id> has no queue bound to it: only the returned error matters.
PublishResult(w) ==
    /\ pc[w] = "publish"
    /\ \/ Goto(w, "finalCheck") /\ UNCHANGED budget
       \/ Goto(w, "requeue") /\ Spend("faults")
    /\ UNCHANGED <<events, msg, apiPc, job, lease, result, watching, cancelled, metrics>>

\* A bug: the outcome is written without a look at the status.
NoFinalCheck(w) ==
    /\ pc[w] = "finalCheck"
    /\ Goto(w, "markOutcome")
    /\ UNCHANGED <<events, msg, apiPc, job, lease, result, watching, cancelled, metrics,
                   budget>>

FinalCheck(w) ==
    /\ pc[w] = "finalCheck"
    /\ ReadStatus(w, "markOutcome")
    /\ UNCHANGED <<events, msg, apiPc, job, lease, result, watching, cancelled, metrics>>

Outcome(w) == IF result[w] = "error" THEN "failed" ELSE "completed"

\* A bug: handleMessage returns nil although the outcome could not be stored.
OutcomeOrLog(w) ==
    /\ pc[w] = "markOutcome"
    /\ \/ Append1(job[w], Outcome(w)) /\ UNCHANGED budget
       \/ InsertFails(job[w], Outcome(w))
    /\ Goto(w, "ack")
    /\ UNCHANGED <<msg, apiPc, job, lease, result, watching, cancelled, metrics>>

MarkOutcome(w) ==
    /\ pc[w] = "markOutcome"
    /\ \/ /\ Append1(job[w], Outcome(w))
          /\ Goto(w, "ack")
          /\ UNCHANGED budget
       \/ /\ InsertFails(job[w], Outcome(w))
          /\ Goto(w, "requeue")
    /\ UNCHANGED <<msg, apiPc, job, lease, result, watching, cancelled, metrics>>

--------------------------------------------------------------------------------
(* Settling.  On a live channel the broker obeys, unless the connection    *)
(* drops with the frame in flight.  On a dead one Ack and Nack fail, and   *)
(* Consume returns, which ends the goroutine for good; while the library   *)
(* has not noticed yet they return nil without effect, and it goes on.     *)

Settle(w, at, place) ==
    /\ pc[w] = at
    /\ \/ /\ lease[w]
          /\ Goto(w, "idle")
          /\ \/ msg' = [msg EXCEPT ![job[w]] = place] /\ UNCHANGED budget
             \/ msg' = [msg EXCEPT ![job[w]] = "ready"] /\ Spend("drops")
       \/ /\ ~lease[w]
          /\ Goto(w, "exited") \/ Goto(w, "idle")
          /\ UNCHANGED <<msg, budget>>
    /\ Release(w)
    /\ UNCHANGED <<events, apiPc, watching, cancelled, metrics>>

\* A bug: Nack for Ack.
NackInstead(w) == Settle(w, "ack", "ready")

Ack(w) == Settle(w, "ack", "acked")

\* A bug: the delivery of a failed handler is left as it is.
LeaveUnsettled(w) == Settle(w, "requeue", "unacked")

Requeue(w) == Settle(w, "requeue", "ready")
Reject(w)  == Settle(w, "reject", "dead")

\* A bug: the subscription acknowledges on delivery.
AutoAcked(w) ==
    msg' = IF lease[w] THEN [msg EXCEPT ![job[w]] = "acked"] ELSE msg

\* What the broker does with a delivery whose channel is gone.
Redeliver(w) ==
    msg' = IF lease[w] THEN [msg EXCEPT ![job[w]] = "ready"] ELSE msg

\* The connection drops under a running handler, which does not notice.
DropConnection(w) ==
    /\ lease[w]
    /\ Spend("drops")
    /\ Redeliver(w)
    /\ lease' = [lease EXCEPT ![w] = FALSE]
    /\ UNCHANGED <<events, apiPc, pc, job, result, watching, cancelled, metrics>>

\* The process dies wherever the handler stands, and its pod restarts.
Crash(w) ==
    /\ pc[w] # "idle"
    /\ Spend("crashes")
    /\ Redeliver(w)
    /\ Goto(w, "idle")
    /\ Release(w)
    /\ watching' = [watching EXCEPT ![w] = FALSE]
    /\ cancelled' = [cancelled EXCEPT ![w] = FALSE]
    /\ UNCHANGED <<events, apiPc, metrics>>

--------------------------------------------------------------------------------
Create(s) == CreateStore(s) \/ CreatePublish(s)

Report(w) == InsertSnapshot(w) \/ IncrTotal(w) \/ IncrType(w) \/ IncrErrors(w)
             \/ PublishResult(w)

\* What the goroutine does next, the end of the generator left aside.
HandlerStep(w) ==
    \/ \E s \in Scenarios : Deliver(w, s)
    \/ Decode(w) \/ CheckStopped(w) \/ MarkRunning(w)
    \/ ExecuteCancelled(w) \/ Recheck(w)
    \/ Report(w) \/ FinalCheck(w) \/ MarkOutcome(w)
    \/ Ack(w) \/ Requeue(w) \/ Reject(w)

Next ==
    \/ \E s \in Scenarios : Create(s) \/ StopScenario(s) \/ PublishForeign(s)
    \/ \E w \in Workers :
          \/ HandlerStep(w) \/ ExecuteEnds(w) \/ WatcherTick(w)
          \/ DropConnection(w) \/ Crash(w)

Spec == Init /\ [][Next]_vars

--------------------------------------------------------------------------------
(* Properties.                                                             *)

Rows(s, S) == {i \in DOMAIN events[s] : events[s][i] \in S}

\* The statuses the history of s shows, ListScenarioEvents without the order.
Facts(s) == {events[s][i] : i \in DOMAIN events[s]}

Fates == Outcomes \union {"stopped"}

InFlight(w, s) == job[w] = s /\ pc[w] # "idle"

\* The handler has read "not stopped" and will write on the strength of it.
Committed(w, s) == InFlight(w, s) /\ pc[w] \in {"markRunning", "markOutcome"}

\* A message a handler can dispatch never reaches the broker before the row of
\* its scenario is in the table: otherwise the first status read of
\* handleMessage would fail and requeue the message in a hot loop.
DeliveredIsStored ==
    \A s \in Scenarios \ Undecodable :
        msg[s] \in {"ready", "unacked", "acked"} => Stored(s)

\* No delivery is acknowledged before its scenario's history holds an outcome
\* or a stop: whatever fails, drops or crashes, an acked message is never the
\* last trace of a scenario that nobody finished (handleMessage returns nil only
\* after markOutcome or after reading "stopped").
OutcomeBeforeAck ==
    \A s \in Scenarios : msg[s] = "acked" => Facts(s) \intersect Fates # {}

\* The latest row is a stop, and no handler is about to write over it.
StopIsFinal(s) == IsStopped(s) /\ \A w \in Workers : ~Committed(w, s)

\* A stop that no handler was already writing against stays the latest row for
\* good, and no handler starts or concludes the scenario any more: only one that
\* had read the status before the stop can bury it (the status reads of
\* handleMessage before and after the execution).
StopHolds ==
    [][\A s \in Scenarios : StopIsFinal(s) => StopIsFinal(s)']_vars

FailedCalls == MaxFaults - budget["faults"]

\* The figures a dashboard reads drift out of their order (errors, operations of
\* the type, all operations, snapshots) by failed sendings and by nothing else: an
\* INCR the library sends again can put a counter ahead of the one before it, but
\* no requeue, crash or second handler of reportResult's report can.
CounterOrder ==
    /\ metrics["errors"] <= metrics["byType"] + FailedCalls
    /\ metrics["byType"] <= metrics["total"] + FailedCalls
    /\ metrics["total"] <= metrics["snapshots"] + FailedCalls

\* An outcome row is never ahead of the figures, however often an INCR was sent
\* again: every failed row was counted as an error, and every outcome, of whichever
\* handler, by an INCR of its own of the type's counter.
AllRows(S) == UNION {{s} \X Rows(s, S) : s \in Scenarios}
NumRows(S) == Cardinality(AllRows(S))

OutcomesAreCounted ==
    /\ NumRows({"failed"}) <= metrics["errors"]
    /\ NumRows({"failed"}) + NumRows({"completed"}) <= metrics["byType"]

\* A watcher runs exactly as long as there is an execution to cancel: none ends at a
\* failed read, and none outlives its execution into the next one of its goroutine.
StopsAreHeard ==
    \A w \in Workers : watching[w] <=> pc[w] = "executing" /\ ~cancelled[w]

\* Nothing that was put on a queue is forgotten: until its fate is in the table, the
\* message of a scenario waits there or a handler at work has it and can settle it.
NothingIsForgotten ==
    \A s \in Scenarios :
        msg[s] \notin {"none", "lost"} =>
            \/ msg[s] = "ready"
            \/ \E w \in Workers : InFlight(w, s) /\ lease[w]
            \/ msg[s] = "dead" /\ s \in Undecodable
            \/ msg[s] = "acked" /\ Facts(s) \intersect Fates # {}

\* Every run of a scenario beyond its first is owed to a failed call, a dropped
\* connection or a crash: no path of handleMessage sends a message back to the
\* queue on its own.
Spent == FailedCalls + (MaxDrops - budget["drops"])
         + (MaxCrashes - budget["crashes"])

RerunsAreCaused ==
    \A s \in Scenarios : Cardinality(Rows(s, {"running"})) <= 1 + Spent

\* As long as no connection has dropped, the latest row of an acknowledged
\* scenario is an outcome or a stop, never "queued" or "running": what the API
\* lists as in progress still has a message that will finish it.
SettledIsTerminal ==
    \A s \in Scenarios :
        (msg[s] = "acked" /\ budget["drops"] = MaxDrops)
            => Latest(s) \in Fates

\* CHANGELOG.md: "Worker terminal updates do not overwrite a user-requested
\* stop" (handleMessage reads the status and inserts in two statements).
OutcomeSparesStop ==
    [][\A s \in Scenarios : IsStopped(s) => ~(Stored(s) /\ Latest(s) \in Outcomes)']_vars

--------------------------------------------------------------------------------
(* The inductive invariant behind the theorems of ScenarioLifecycleProofs. *)

Busy(w) == pc[w] \notin {"idle", "exited"}

\* A handler at work has a scenario, and only such a handler holds a delivery.
BusyOK ==
    \A w \in Workers : /\ Busy(w) => job[w] \in Scenarios
                       /\ lease[w] => Busy(w)

\* CreateScenario inserts once, then publishes once.
ApiOK ==
    \A s \in Scenarios :
        /\ s \in Undecodable => apiPc[s] = "new"
        /\ apiPc[s] = "new" => ~Stored(s)
        /\ apiPc[s] = "storing" => Stored(s)
        /\ s \notin Undecodable /\ apiPc[s] \in {"new", "storing"} => msg[s] = "none"

\* The broker has an unacked delivery out to one channel at most.
BrokerOK ==
    /\ \A w \in Workers : lease[w] => msg[job[w]] = "unacked"
    /\ \A v, w \in Workers : lease[v] /\ lease[w] /\ job[v] = job[w] => v = w
    /\ \A w \in Workers : Busy(w) => msg[job[w]] \in {"ready", "unacked", "acked", "dead"}
    /\ \A s \in Scenarios : /\ msg[s] = "acked" => s \notin Undecodable
                            /\ msg[s] = "dead" => s \in Undecodable

\* What the history already shows of the scenario a handler works on.
HistoryOK ==
    \A w \in Workers :
        /\ pc[w] = "reject" => job[w] \in Undecodable
        /\ Busy(w) /\ pc[w] \notin {"decode", "reject"} => job[w] \notin Undecodable
        /\ pc[w] \in {"executing", "recheck", "finalCheck", "markOutcome"} \union ReportPcs
              => "running" \in Facts(job[w])
        /\ pc[w] = "ack" => Facts(job[w]) \intersect Fates # {}

At(p) == {w \in Workers : pc[w] = p}

\* Every handler about to increment a counter has raised the figure above it, and
\* every increment beyond the one of its call was a failed sending.
FiguresOK ==
    /\ metrics["errors"] + Cardinality(At("incrErrors")) <= metrics["byType"] + FailedCalls
    /\ metrics["byType"] + Cardinality(At("incrType")) <= metrics["total"] + FailedCalls
    /\ metrics["total"] + Cardinality(At("incrTotal")) <= metrics["snapshots"] + FailedCalls

\* The inductive strengthening of the safety invariants: a state that satisfies
\* it has no step, of any handler or failure, to a state that does not.
IInv ==
    /\ TypeOK
    /\ BusyOK
    /\ ApiOK
    /\ BrokerOK
    /\ HistoryOK
    /\ FiguresOK
    /\ DeliveredIsStored
    /\ OutcomeBeforeAck

\* No connection has dropped: every handler at work still holds its delivery, so
\* no second one writes behind an acknowledged scenario.
Undropped == budget["drops"] = MaxDrops

SettledOK ==
    Undropped =>
        /\ \A w \in Workers : Busy(w) => lease[w]
        /\ \A w \in Workers : pc[w] = "ack" => Latest(job[w]) \in Fates
        /\ \A s \in Scenarios : msg[s] = "acked" => Latest(s) \in Fates

\* The runs a scenario may still see without another failure: by a handler that
\* has not started it or will return its message, and by a message that is still
\* to be delivered.
Starters(s) ==
    {w \in Workers : /\ job[w] = s
                     /\ \/ pc[w] \in {"decode", "check", "markRunning"}
                        \/ pc[w] = "requeue" /\ lease[w]}

Undelivered(s) == IF msg[s] \in {"none", "ready"} THEN 1 ELSE 0

RerunsOK ==
    \A s \in Scenarios :
        Cardinality(Rows(s, {"running"})) + Cardinality(Starters(s)) + Undelivered(s)
            <= 1 + Spent

\* The handlers that have counted result r and not stored it yet.
Concluding(r) == {w \in Workers : result[w] = r /\ pc[w] \in {"publish", "finalCheck", "markOutcome"}}

CountedOK ==
    /\ \A r \in Outcomes : IsFiniteSet(AllRows({r}))
    /\ \A w \in Workers : pc[w] = "incrErrors" => result[w] = "error"
    /\ NumRows({"failed"}) + Cardinality(Concluding("error")) <= metrics["errors"]
    /\ NumRows({"failed"}) + NumRows({"completed"})
       + Cardinality(Concluding("error")) + Cardinality(Concluding("ok"))
       + Cardinality(At("incrErrors")) <= metrics["byType"]

\* The handlers whose running row has no outcome yet.
Running(w) ==
    pc[w] \in {"executing", "recheck", "finalCheck", "markOutcome"} \union ReportPcs

Runners(s) == {w \in Workers : job[w] = s /\ Running(w)}

RunsOK ==
    \A s \in Scenarios :
        Cardinality(Rows(s, Outcomes)) + Cardinality(Runners(s))
            <= Cardinality(Rows(s, {"running"}))

\* A cancellation belongs to the execution it ends.
WatchOK ==
    /\ StopsAreHeard
    /\ \A w \in Workers : cancelled[w] => pc[w] = "executing"

\* An unacked message is out to somebody.
HeldOK ==
    \A s \in Scenarios : msg[s] = "unacked" => \E w \in Workers : lease[w] /\ job[w] = s

\* With IInv, the inductive strengthening of the three invariants on histories.
HistoryInv ==
    /\ budget["drops"] <= MaxDrops
    /\ SettledOK
    /\ RerunsOK
    /\ CountedOK

--------------------------------------------------------------------------------
(* The contract the life cycle implements.                                 *)

Phase(s) ==
    CASE msg[s] = "acked" -> "settled"
      [] msg[s] = "dead"  -> "discarded"
      [] msg[s] = "lost"  -> "lost"
      [] msg[s] \in {"ready", "unacked"} -> "owed"
      [] OTHER -> IF Stored(s) THEN "recorded" ELSE "new"

Unconcluded(s) == Cardinality(Rows(s, {"running"})) - Cardinality(Rows(s, Outcomes))

Contract == INSTANCE JobContract WITH
    Jobs <- Scenarios, Garbage <- Undecodable, Results <- Outcomes, Stop <- "stopped",
    phase <- [s \in Scenarios |-> Phase(s)],
    facts <- [s \in Scenarios |-> Facts(s) \ {"queued"}],
    open <- [s \in Scenarios |-> Unconcluded(s)]

\* API, table, broker and workers together keep the contract: a message is owed
\* only for a recorded scenario, every outcome has a running row of its own, a
\* message leaves the queue for good only when the scenario's fate is in the table.
ImplementsContract == Contract!JobSpec

Loop(w) == IF pc[w] = "exited" THEN "failed" ELSE IF Busy(w) THEN "busy" ELSE "idle"

Held(w) == IF Busy(w) THEN job[w] ELSE None

\* Nobody cancels a worker here: it ends when it exits or crashes.
Delivery(w) == INSTANCE DeliveryContract WITH
    Messages <- Scenarios, place <- msg, held <- Held(w), lease <- lease[w],
    loop <- Loop(w), cancel <- FALSE

\* What each worker relies on is what RabbitConsumer keeps.
WorkersKeepContract == \A w \in Workers : Delivery(w)!DeliverySpec

--------------------------------------------------------------------------------
(* Liveness.  The consumer goroutine and the watcher are scheduled.        *)
(* Nothing obliges a generator to end before it is cancelled: that it      *)
(* returns at its deadline is a premise, stated where it is used.          *)

WatcherFair == \A w \in Workers : WF_vars(WatcherTick(w))

HandlerFair == \A w \in Workers : WF_vars(HandlerStep(w))

GeneratorFair == \A w \in Workers : WF_vars(ExecuteEnds(w))

LongRunSpec == Spec /\ HandlerFair /\ WatcherFair

Unconsumed(q) == \A w \in Workers : QueueOf[w] = q => pc[w] = "exited"

\* Once the failures are over, every message on a queue somebody consumes is
\* settled, provided generators end: handleMessage has no path that leaves a
\* delivery unsettled or sends it round for ever.
EventuallySettled ==
    GeneratorFair =>
        \A s \in Scenarios :
            msg[s] = "ready" ~> msg[s] \in {"acked", "dead"} \/ Unconsumed(TargetQueue[s])

\* A stop that is not overwritten ends the execution it finds under way, even
\* of a generator that would never return: watchScenarioStop outlives failed
\* reads and cancels it.
StopEndsExecution ==
    \A w \in Workers : \A s \in Scenarios :
        (pc[w] = "executing" /\ job[w] = s /\ IsStopped(s))
            ~> (pc[w] # "executing" \/ ~IsStopped(s))
================================================================================
