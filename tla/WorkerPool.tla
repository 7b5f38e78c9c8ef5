------------------------------- MODULE WorkerPool -------------------------------
(***************************************************************************)
(* The consumer pool of a Worker inside its process: startConsumers, one   *)
(* goroutine per consumer, the readiness answer, and the end of main,      *)
(* which waits for the pool's answer before it closes its clients.         *)
(*                                                                         *)
(* Nothing but a signal, or a server that cannot listen, ends the process  *)
(* once it is up: main waits for its context first and looks at the pool's *)
(* answer afterwards.                                                      *)
(***************************************************************************)
EXTENDS ServiceProcess

CONSTANT WorkerCount    \* WORKER_CONCURRENCY

ASSUME PoolAssumption == WorkerCount \in Nat \ {0}

Slots == 0 .. WorkerCount - 1

VARIABLES
    pool,       \* where startConsumers stands
    made,       \* consumers it has created
    attempts,   \* failed attempts at the consumer now being created
    consumer,   \* each Consume goroutine
    errCh,      \* errors buffered for startConsumers
    verdict,    \* what it left in consumerErrCh: "none", "nil" or "error"
    ready       \* consumersReady

poolVars == <<pool, made, attempts, consumer, errCh, verdict, ready>>
outside == <<schemaVars, processVars>>
vars == <<schemaVars, processVars, faults, poolVars>>

\* storing: its handler has a connection of Postgres; sending: it hands over its error.
ConsumerStates == {"none", "idle", "busy", "storing", "sending", "returned", "failed"}

TypeOK ==
    /\ ProcessTypeOK
    /\ pool \in {"off", "creating", "waiting", "joining", "returned"}
    /\ made \in 0 .. WorkerCount
    /\ attempts \in 0 .. MaxTries - 1
    /\ consumer \in [Slots -> ConsumerStates]
    /\ errCh \in 0 .. WorkerCount
    /\ verdict \in {"none", "nil", "error"}
    /\ ready \in BOOLEAN

NoConsumer == [i \in Slots |-> "none"]

Init ==
    /\ ServiceInit
    /\ pool = "off" /\ made = 0 /\ attempts = 0 /\ consumer = NoConsumer
    /\ errCh = 0 /\ verdict = "none" /\ ready = FALSE

--------------------------------------------------------------------------------
(* startConsumers.                                                         *)

Start(i) == consumer' = [consumer EXCEPT ![i] = "idle"]

\* newConsumerWithRetry: a dial does not look at the context, the retry loop
\* does.  When it gives up, startConsumers returns over the running goroutines.
CreateConsumer ==
    /\ pool = "creating" /\ made < WorkerCount
    /\ \/ /\ Start(made)
          /\ made' = made + 1
          /\ attempts' = 0
          /\ UNCHANGED <<pool, verdict, faults>>
       \/ /\ Fault
          /\ IF attempts + 1 < MaxTries /\ ~ctxDone
             THEN attempts' = attempts + 1 /\ UNCHANGED <<pool, verdict>>
             ELSE attempts' = 0 /\ pool' = "returned" /\ verdict' = "error"
          /\ UNCHANGED <<made, consumer>>
    /\ UNCHANGED <<outside, errCh, ready>>

\* A bug: the last consumer is still to come when the pool reports readiness.
AlmostMade == made + 1 >= WorkerCount

AllMade == made = WorkerCount

OnReady ==
    /\ pool = "creating"
    /\ AllMade
    /\ ready' = TRUE
    /\ pool' = "waiting"
    /\ UNCHANGED <<outside, made, attempts, consumer, errCh, verdict, faults>>

Over(i) == consumer[i] \in {"returned", "failed"}

\* <-ctx.Done().
PoolDone ==
    /\ pool = "waiting" /\ ctxDone
    /\ pool' = "joining"
    /\ UNCHANGED <<outside, made, attempts, consumer, errCh, verdict, ready, faults>>

\* A bug: startConsumers does not wait for its goroutines.
NotJoined == TRUE

Joined == \A i \in Slots : Over(i)

\* A bug: the errors are left in the channel.
NoError == "nil"

FirstError == IF errCh > 0 THEN "error" ELSE "nil"

\* wg.Wait(), then the first error, if any.
PoolJoin ==
    /\ pool = "joining"
    /\ Joined
    /\ pool' = "returned"
    /\ verdict' = FirstError
    /\ errCh' = IF errCh > 0 THEN errCh - 1 ELSE 0
    /\ UNCHANGED <<outside, made, attempts, consumer, ready, faults>>

--------------------------------------------------------------------------------
(* A Consume goroutine, as much of RabbitConsumer as the process can see.  *)

Step(i, from, to) ==
    /\ consumer[i] = from
    /\ consumer' = [consumer EXCEPT ![i] = to]
    /\ UNCHANGED <<outside, pool, made, attempts, verdict, ready>>

\* The select of Consume may still pick a delivery when the context is done.
Take(i) == Step(i, "idle", "busy") /\ UNCHANGED <<errCh, faults>>

\* The handler executes a statement, on a connection of the Postgres pool.
Store(i) ==
    /\ ~CloseCalled("postgres")
    /\ Step(i, "busy", "storing")
    /\ UNCHANGED <<errCh, faults>>

Answers(i) == Step(i, "storing", "busy") /\ UNCHANGED <<errCh, faults>>

\* The handler runs WithoutCancel: it ends by itself, and settling it may fail.
Handled(i) ==
    \/ Step(i, "busy", "idle") /\ UNCHANGED <<errCh, faults>>
    \/ Step(i, "busy", "sending") /\ Fault /\ UNCHANGED errCh

\* A bug: a channel for one error, which nobody reads before all have ended.
RoomForOne == errCh < 1

\* The capacity of errCh.
Room == errCh < WorkerCount

Send(i) == Room /\ Step(i, "sending", "failed") /\ errCh' = errCh + 1 /\ UNCHANGED faults

Leave(i) == ctxDone /\ Step(i, "idle", "returned") /\ UNCHANGED <<errCh, faults>>

--------------------------------------------------------------------------------
(* main and the pool.                                                      *)

\* <-consumerErrCh.
JoinPool ==
    /\ main = "joining"
    /\ verdict # "none"
    /\ main' = "closing"
    /\ UNCHANGED <<schemaVars, service, stage, tries, ctxDone, listening, requests, late,
                   poolVars, faults>>

StartPool == pool' = "creating" /\ UNCHANGED <<made, attempts, consumer, errCh, verdict, ready>>

ResetPool ==
    /\ pool' = "off" /\ made' = 0 /\ attempts' = 0 /\ consumer' = NoConsumer
    /\ errCh' = 0 /\ verdict' = "none" /\ ready' = FALSE

\* Postgres is closed while a goroutine that nobody waits for has a connection of it.
HeldByConsumer ==
    /\ main = "closing"
    /\ Stages[service][stage] = "postgres"
    /\ \E i \in Slots : consumer[i] = "storing"

\* The pool goroutine starts with the server and dies with the process.
WithPool(step) ==
    /\ step
    /\ HeldByConsumer => stage' = stage \/ main' = "aborted"
    /\ CASE main' = "serving" /\ main = "booting" /\ service = "worker" -> StartPool
         [] main' \in Ended -> ResetPool
         [] OTHER -> UNCHANGED poolVars

Main == WithPool(ServiceMain) \/ JoinPool

Pool == CreateConsumer \/ OnReady \/ PoolDone \/ PoolJoin

Consume(i) == Take(i) \/ Store(i) \/ Answers(i) \/ Handled(i) \/ Send(i) \/ Leave(i)

Next == WithPool(ServiceNext) \/ JoinPool \/ Pool \/ \E i \in Slots : Consume(i)

Spec == Init /\ [][Next]_vars

--------------------------------------------------------------------------------
(* Properties.                                                             *)

\* A client is never closed under somebody who works with it: once main closes
\* them, no goroutine of a completely created pool is left, not even one that
\* took its delivery after the signal (handlers run WithoutCancel for that
\* reason), and no request is, unless Shutdown ran into its timeout.
DrainBeforeClose ==
    main = "closing" =>
        /\ service = "worker" /\ AllMade => \A i \in Slots : Over(i)
        /\ late \/ Drained

QueuePicker(i) == IF i % 2 = 0 THEN "workload.high" ELSE "workload.low"

DealtTo(q) == {i \in Slots : QueuePicker(i) = q}

Reading(i) == consumer[i] \in {"idle", "busy", "storing"}

\* A ready Worker reads its queues, as far as it has not failed: until it is told to
\* end, each consumer that does not read is owed to a failure of its own, and a queue
\* that was dealt more consumers than there were failures is read.  A Worker whose
\* pool gave up halfway never is ready, although the consumers it did create go on
\* working (CHANGELOG.md:107).
ReadyServesQueues ==
    /\ ready /\ ~ctxDone =>
           /\ Cardinality({i \in Slots : ~Reading(i)}) <= faults
           /\ \A q \in {"workload.high", "workload.low"} :
                  Cardinality(DealtTo(q)) > faults => \E i \in DealtTo(q) : Reading(i)
    /\ verdict # "none" /\ ~AllMade => ~ready

\* The pool's answer is an error exactly when a consumer could not be created
\* or ended with one: wg.Wait comes before the look into errCh.
FailureIsReported ==
    verdict # "none" =>
        (verdict = "error" <=> ~AllMade \/ \E i \in Slots : consumer[i] = "failed")

\* The goroutine does not wait for anybody: it works, is told to end, or has an
\* error to hand over and room for it in errCh.
CanGo(i) == consumer[i] \in {"busy", "storing"} \/ (consumer[i] = "idle" /\ ctxDone)
            \/ (consumer[i] = "sending" /\ Room)

\* On the way out main waits for the pool's answer, the pool for its goroutines and
\* a goroutine for errCh, which nobody reads before all of them have ended: no
\* link of that chain ever waits for what cannot come, however many consumers
\* fail (the capacity of errCh) and wherever the pool stood at the signal.
NobodyIsStuck ==
    /\ main = "joining" /\ verdict = "none" =>
           pool = "creating" \/ (pool \in {"waiting", "joining"} /\ ctxDone)
    /\ pool = "joining" => \A i \in Slots : Over(i) \/ CanGo(i)
    /\ \A i \in Slots : consumer[i] = "sending" => Room

--------------------------------------------------------------------------------
(* Liveness.  Goroutines are scheduled, a handler makes finitely many      *)
(* statements, and a select that finds its context done again and again    *)
(* takes that branch.  No request has to end, no store has to answer, and  *)
(* no signal has to come.                                                  *)

FairSpec ==
    /\ Spec
    /\ WF_vars(Main) /\ WF_vars(Pool)
    /\ \A i \in Slots : SF_vars(Handled(i) \/ Send(i)) /\ SF_vars(Leave(i))
    /\ \A p \in Procs : WF_vars(WithPool(Peer(p)))
    /\ WF_vars(WithPool(\E p \in Procs : OrphanEnds(p) /\ UNCHANGED <<processVars, faults>>))

\* A store owes an answer for ever: to a request that Shutdown gave up, with the
\* connection the client's Close waits for, or to a consumer's handler.
NeverAnswered == <>[]HeldByRequest \/ \E i \in Slots : <>[](consumer[i] = "storing")

\* SIGTERM, or a server that failed, ends the process, whatever number of consumers
\* has failed by then and whoever reads a stream.  One thing only can keep main for
\* ever, whatever its ten seconds say: a store call that never returns.
ShutdownExits == NeverAnswered \/ (ctxDone ~> main \in Ended)

\* A process nobody signals comes to serve, whoever creates the tables at the
\* same time: a CREATE TABLE that lost the race ends the process, and the next
\* start finds the table.
EveryoneServes ==
    \A p \in Procs :
        []<>(IF service = Absent THEN p # Self => at[p] = Applied
                                 ELSE p = Self => main = "serving" \/ ctxDone)
--------------------------------------------------------------------------------
(* The inductive invariant behind the safety properties.                   *)

MainOK ==
    /\ main = "booting" => stage < Len(Stages[service])
    /\ main \in Ended => stage = 0
    /\ service = Absent => main = "aborted"
    /\ listening => main = "serving"
    /\ main \in {"joining", "closing"} => late \/ Drained

\* How far the pool is, and what its goroutines can still do.
PoolOK ==
    /\ main \in {"booting"} \union Ended => pool = "off"
    /\ pool = "off" => made = 0 /\ errCh = 0 /\ ~ready
    /\ pool \in {"waiting", "joining"} \/ ready => AllMade
    /\ \A i \in Slots : consumer[i] # "none" <=> i < made
    /\ \A i \in Slots : consumer[i] = "returned" => ctxDone
    /\ verdict # "none" <=> pool = "returned"
    /\ pool = "returned" /\ AllMade => \A i \in Slots : Over(i)
    /\ pool # "returned" => (errCh > 0 <=> \E i \in Slots : consumer[i] = "failed")
    /\ main = "closing" /\ service = "worker" => verdict # "none"

\* With IInv, the inductive strengthening of ReadyServesQueues.
Lost == {i \in Slots : consumer[i] \in {"sending", "failed"}}

LossesOK == Cardinality(Lost) <= faults

IInv == SchemaInv /\ TypeOK /\ MainOK /\ PoolOK /\ FailureIsReported

\* With IInv, the inductive strengthening of NobodyIsStuck: every buffered error is
\* that of a goroutine which has ended, and the way out has begun with a signal.
WaitOK ==
    /\ errCh <= Cardinality({i \in Slots : consumer[i] = "failed"})
    /\ main \in {"serving", "draining", "joining", "closing"} /\ service = "worker"
           => pool # "off"
    /\ main = "joining" => service = "worker"
    /\ pool = "joining" \/ main \in {"draining", "joining", "closing"} => ctxDone

--------------------------------------------------------------------------------
(* What the pool takes from the consumers.                                 *)

Loop(i) ==
    CASE consumer[i] \in {"busy", "storing"}  -> "busy"
      [] consumer[i] = "returned"            -> "returned"
      [] consumer[i] \in {"sending", "failed"} -> "failed"
      [] OTHER                               -> "idle"

Goroutine(i) == INSTANCE ConsumerLoop WITH loop <- Loop(i), cancel <- ctxDone

\* Each goroutine of the pool behaves as the Consume loop does.
ConsumersKeepContract == \A i \in Slots : Goroutine(i)!LoopSpec
================================================================================
