---------------------------- MODULE RabbitProducer ----------------------------
(***************************************************************************)
(* messaging.Producer in the API process: the startup that connects and    *)
(* declares the topology, request handlers that publish, monitorReconnect, *)
(* and the shutdown that closes the producer under both.                   *)
(*                                                                         *)
(* The broker keeps what was declared.  A second process (a Worker, or     *)
(* another API pod) starts and restarts beside this one and declares the   *)
(* same topology.  A connection can be cut without the client noticing at  *)
(* once; publishing to an exchange that is gone closes the channel and     *)
(* leaves the connection up.  A connection identifier is reused once       *)
(* nothing refers to it any more.                                          *)
(***************************************************************************)
EXTENDS Integers, FiniteSets, Sequences

CONSTANTS
    Messages,         \* what the handlers publish
    Key,              \* the routing key of each: a queue, or None (stop events)
    QueueSeq,         \* the queues, in the order DeclareTopology takes them
    Conns,            \* identifiers of AMQP connections
    None,             \* no connection, no queue, no answer
    MaxAttempts,      \* dials of one call of reconnect (10 in the code)
    StartupAttempts,  \* calls of NewProducer before the process gives up
    MaxFailures       \* bound: outages, cuts, kills and lost topologies

ASSUME ProducerAssumption ==
    /\ IsFiniteSet(Conns) /\ IsFiniteSet(Messages)
    /\ Cardinality(Conns) >= 5 + Cardinality(Messages)
    /\ None \notin Conns /\ None \notin {"ok", "error"}
    /\ QueueSeq \in Seq({QueueSeq[i] : i \in DOMAIN QueueSeq})
    /\ \A i \in DOMAIN QueueSeq : QueueSeq[i] # None
    /\ Key \in [Messages -> {QueueSeq[i] : i \in DOMAIN QueueSeq} \union {None}]
    /\ MaxAttempts \in Nat \ {0} /\ StartupAttempts \in Nat \ {0}
    /\ MaxFailures \in Nat

VARIABLES
    brokerUp,   \* RabbitMQ accepts connections
    declared,   \* the exchanges, queues and bindings it has
    peer,       \* how far the other process is with its DeclareTopology
    wiped,      \* the broker has lost its topology once
    link,       \* each connection: "up", "cut" (client unaware), "closed"
    channel,    \* its channel: "open", "closing" (client unaware), "closed"
    current,    \* p.conn and p.channel, None for nil
    ppc, tries, used, step,           \* main: startup, DeclareTopology, shutdown
    mpc, watched, mTries, mNew,       \* the monitor goroutine
    via,        \* each message: the channel its Publish has read
    answer,     \* what Publish returned: None yet, "ok", "error"
    routed,     \* the messages that reached a queue
    ctxDone,    \* SIGTERM, or the listener failed
    failures

broker  == <<brokerUp, declared, peer, wiped>>
session == <<link, channel, current>>
main    == <<ppc, tries, used, step>>
monitor == <<mpc, watched, mTries, mNew>>
publish == <<via, answer, routed>>
vars == <<broker, session, main, monitor, publish, ctxDone, failures>>
--------------------------------------------------------------------------------
(* What DeclareTopology declares, in its order.                            *)

Exchange == [what |-> "exchange", queue |-> None]
Dlx      == [what |-> "dlx", queue |-> None]
Of(w, q) == [what |-> w, queue |-> q]

\* A bug: the dead letter queue comes after the queue that needs it.
PerQueueLate == <<"queue", "queueBind", "dlq", "dlqBind">>

PerQueue == <<"dlq", "dlqBind", "queue", "queueBind">>

Last == 2 + 4 * Len(QueueSeq)

DeclareOrder ==
    [i \in 1 .. Last |->
        CASE i = 1 -> Exchange
          [] i = 2 -> Dlx
          [] OTHER -> Of(PerQueue[1 + ((i - 3) % 4)], QueueSeq[1 + ((i - 3) \div 4)])]

Items == {DeclareOrder[i] : i \in 1 .. Last}

\* A binding needs both its ends; the broker answers 404 otherwise.
Needs(item) ==
    CASE item.what = "dlqBind"   -> {Dlx, Of("dlq", item.queue)}
      [] item.what = "queueBind" -> {Exchange, Of("queue", item.queue)}
      [] OTHER                   -> {}

\* The exchange takes the message to the queue of its key.
Routable(m) == Key[m] # None /\ {Exchange, Of("queueBind", Key[m])} \subseteq declared

--------------------------------------------------------------------------------
Ids == Conns \union {None}

TypeOK ==
    /\ brokerUp \in BOOLEAN /\ declared \subseteq Items /\ peer \in 0 .. Last
    /\ wiped \in BOOLEAN
    /\ link \in [Conns -> {"up", "cut", "closed"}]
    /\ channel \in [Conns -> {"open", "closing", "closed"}]
    /\ current \in Ids
    /\ ppc \in {"dial", "topology", "declare", "serving", "closed", "exited"}
    /\ tries \in 0 .. StartupAttempts - 1 /\ used \in Ids /\ step \in 1 .. Last
    /\ mpc \in {"none", "look", "wait", "dial", "swap", "ended"}
    /\ watched \in Ids /\ mTries \in 0 .. MaxAttempts - 1 /\ mNew \in Ids
    /\ via \in [Messages -> Ids]
    /\ answer \in [Messages -> {None, "ok", "error"}]
    /\ routed \subseteq Messages
    /\ ctxDone \in BOOLEAN /\ failures \in Nat

NoMonitor ==
    /\ mpc = "none" /\ watched = None /\ mTries = 0 /\ mNew = None

Init ==
    /\ brokerUp \in BOOLEAN
    /\ declared \in {{}, Items}
    /\ peer \in {0, Last} /\ (peer = Last => declared = Items)
    /\ wiped = FALSE
    /\ link = [g \in Conns |-> "closed"] /\ channel = [g \in Conns |-> "closed"]
    /\ current = None
    /\ ppc = "dial" /\ tries = 0 /\ used = None /\ step = 1
    /\ NoMonitor
    /\ via = [m \in Messages |-> None] /\ answer = [m \in Messages |-> None]
    /\ routed = {}
    /\ ctxDone = FALSE /\ failures = 0

--------------------------------------------------------------------------------
(* The broker, the network and the other process.                          *)

Live(g) == link[g] = "up" /\ channel[g] = "open"

\* The library knows that a channel is of no more use.
Known(g) == link[g] = "closed" \/ channel[g] = "closed"

Fail == failures < MaxFailures /\ failures' = failures + 1

BrokerDown ==
    /\ brokerUp
    /\ Fail
    /\ brokerUp' = FALSE
    /\ link' = [g \in Conns |-> IF link[g] = "up" THEN "cut" ELSE link[g]]
    /\ UNCHANGED <<declared, peer, wiped, channel, current, main, monitor, publish, ctxDone>>

BrokerReturns ==
    /\ ~brokerUp
    /\ brokerUp' = TRUE
    /\ UNCHANGED <<declared, peer, wiped, session, main, monitor, publish, ctxDone, failures>>

\* RabbitMQ starts over without its volume, or an operator resets it.
TopologyLost ==
    /\ declared # {}
    /\ Fail
    /\ declared' = {} /\ wiped' = TRUE
    /\ UNCHANGED <<brokerUp, peer, session, main, monitor, publish, ctxDone>>

Cut(g) ==
    /\ link[g] = "up"
    /\ Fail
    /\ link' = [link EXCEPT ![g] = "cut"]
    /\ UNCHANGED <<broker, channel, current, main, monitor, publish, ctxDone>>

\* The library finds out: heartbeats fail, or the broker's close has arrived.
Notice(g) ==
    /\ \/ /\ link[g] = "cut"
          /\ link' = [link EXCEPT ![g] = "closed"]
          /\ UNCHANGED channel
       \/ /\ channel[g] = "closing"
          /\ channel' = [channel EXCEPT ![g] = "closed"]
          /\ UNCHANGED link
    /\ UNCHANGED <<broker, current, main, monitor, publish, ctxDone, failures>>

\* The other process declares the next item, or exits where it stands and
\* begins again.
PeerDeclares ==
    /\ brokerUp /\ peer < Last
    /\ Needs(DeclareOrder[peer + 1]) \subseteq declared
    /\ peer' = peer + 1
    /\ declared' = declared \union {DeclareOrder[peer + 1]}
    /\ UNCHANGED <<brokerUp, wiped, session, main, monitor, publish, ctxDone, failures>>

PeerRestarts ==
    /\ peer > 0
    /\ peer' = 0
    /\ UNCHANGED <<brokerUp, declared, wiped, session, main, monitor, publish, ctxDone, failures>>

External == BrokerDown \/ BrokerReturns \/ TopologyLost \/ PeerDeclares \/ PeerRestarts
            \/ \E g \in Conns : Cut(g) \/ Notice(g)

--------------------------------------------------------------------------------
(* connect, called by NewProducer and by the monitor.                      *)

Unused == Conns \ ({current, used, watched, mNew} \union {via[m] : m \in Messages})

Fresh == CHOOSE g \in Unused : TRUE

\* dial and Channel succeed; an outage between the two is a failed dial, whose
\* connection connect closes.
Open(g) ==
    /\ brokerUp
    /\ link' = [link EXCEPT ![g] = "up"]
    /\ channel' = [channel EXCEPT ![g] = "open"]

\* Both ends of a connection close; None is a nil producer.
Shut(g) ==
    /\ link' = [h \in Conns |-> IF h = g THEN "closed" ELSE link[h]]
    /\ channel' = [h \in Conns |-> IF h = g THEN "closed" ELSE channel[h]]

\* The critical section: close what is there, install the new connection.
Install(g) ==
    /\ current' = g
    /\ Shut(current)

--------------------------------------------------------------------------------
(* main: startup.                                                          *)

\* The process exits; Kubernetes starts it again unless it was terminated.
ExitProcess ==
    /\ ppc' = IF ctxDone THEN "exited" ELSE "dial"
    /\ tries' = 0 /\ used' = None /\ step' = 1
    /\ mpc' = "none" /\ watched' = None /\ mTries' = 0 /\ mNew' = None
    /\ link' = [g \in Conns |-> "closed"] /\ channel' = [g \in Conns |-> "closed"]
    /\ current' = None
    /\ via' = [m \in Messages |-> None]
    /\ answer' = [m \in Messages |-> IF via[m] # None THEN "error" ELSE answer[m]]
    /\ UNCHANGED <<routed, ctxDone>>

\* newProducerWithRetry: NewProducer connects and starts the monitor, or fails
\* a bounded number of times.
Startup ==
    /\ ppc = "dial"
    /\ \/ /\ Open(Fresh) /\ current' = Fresh
          /\ ppc' = "topology" /\ tries' = 0 /\ mpc' = "look"
          /\ UNCHANGED <<used, step, watched, mTries, mNew, publish, ctxDone>>
       \/ /\ ~brokerUp /\ ~ctxDone /\ tries + 1 < StartupAttempts
          /\ tries' = tries + 1
          /\ UNCHANGED <<session, ppc, used, step, monitor, publish, ctxDone>>
       \/ /\ ~brokerUp /\ (ctxDone \/ tries + 1 = StartupAttempts)
          /\ ExitProcess
    /\ UNCHANGED <<broker, failures>>

\* DeclareTopology reads the channel under the lock and uses it after the unlock.
ReadChannel ==
    /\ ppc = "topology"
    /\ used' = current
    /\ ppc' = "declare"
    /\ UNCHANGED <<broker, session, tries, step, monitor, publish, ctxDone, failures>>

\* A bug: main serves although the topology could not be declared.
DeclareCarelessly ==
    /\ ppc = "declare"
    /\ ppc' = "serving" /\ used' = None /\ step' = 1
    /\ UNCHANGED <<broker, session, tries, monitor, publish, ctxDone, failures>>

\* One call of DeclareTopology.  A 404 or a channel known to be closed is an
\* error that ends the process; on a cut connection the call waits.
Declare ==
    /\ ppc = "declare"
    /\ \/ /\ Live(used) /\ Needs(DeclareOrder[step]) \subseteq declared
          /\ declared' = declared \union {DeclareOrder[step]}
          /\ IF step = Last
             THEN ppc' = "serving" /\ used' = None /\ step' = 1
             ELSE step' = step + 1 /\ UNCHANGED <<ppc, used>>
          /\ UNCHANGED <<session, tries, monitor, publish, ctxDone>>
       \/ /\ \/ Known(used)
             \/ Live(used) /\ ~(Needs(DeclareOrder[step]) \subseteq declared)
          /\ ExitProcess
          /\ UNCHANGED declared
    /\ UNCHANGED <<brokerUp, peer, wiped, failures>>

--------------------------------------------------------------------------------
(* Publish, called by the request handlers.                                *)

\* The channel is read under the lock and used after the unlock.
TakeChannel(m) ==
    /\ ppc \in {"serving", "closed"}
    /\ answer[m] = None /\ via[m] = None
    /\ IF current = None
       THEN answer' = [answer EXCEPT ![m] = "error"] /\ UNCHANGED via
       ELSE via' = [via EXCEPT ![m] = current] /\ UNCHANGED answer
    /\ UNCHANGED <<broker, session, main, monitor, routed, ctxDone, failures>>

Answers(m, a) ==
    /\ answer' = [answer EXCEPT ![m] = a]
    /\ via' = [via EXCEPT ![m] = None]

\* There are no publisher confirms: nil says that the bytes left.  What the
\* broker cannot route it drops, and a missing exchange closes the channel.
Send(m) ==
    /\ via[m] # None
    /\ \/ /\ Live(via[m]) /\ Exchange \in declared
          /\ Answers(m, "ok")
          /\ routed' = IF Routable(m) THEN routed \union {m} ELSE routed
          /\ UNCHANGED channel
       \/ /\ Live(via[m]) /\ Exchange \notin declared
          /\ Answers(m, "ok")
          /\ channel' = [channel EXCEPT ![via[m]] = "closing"]
          /\ UNCHANGED routed
       \/ /\ ~Live(via[m]) /\ ~Known(via[m])
          /\ \/ Answers(m, "ok")
             \/ link[via[m]] = "cut" /\ Answers(m, "error")
          /\ UNCHANGED <<channel, routed>>
       \/ /\ Known(via[m])
          /\ Answers(m, "error")
          /\ UNCHANGED <<channel, routed>>
    /\ UNCHANGED <<broker, link, current, main, monitor, ctxDone, failures>>

--------------------------------------------------------------------------------
(* monitorReconnect.                                                       *)

MGoto(p) == mpc' = p

\* A bug: the connection is read once, before the loop.
MLookOnce ==
    /\ mpc = "look"
    /\ watched' = IF watched = None THEN current ELSE watched
    /\ MGoto(IF watched' = None THEN "ended" ELSE "wait")
    /\ UNCHANGED <<broker, session, main, mTries, mNew, publish, ctxDone, failures>>

\* NotifyClose on a connection that is closed already fires at once.
MLook ==
    /\ mpc = "look"
    /\ watched' = current
    /\ MGoto(IF current = None THEN "ended" ELSE "wait")
    /\ UNCHANGED <<broker, session, main, mTries, mNew, publish, ctxDone, failures>>

MWait ==
    /\ mpc = "wait"
    /\ \/ ctxDone /\ MGoto("ended")
       \/ link[watched] = "closed" /\ MGoto("dial")
    /\ mTries' = 0
    /\ UNCHANGED <<broker, session, main, watched, mNew, publish, ctxDone, failures>>

LastAttempt == mTries + 1 = MaxAttempts \/ ctxDone

\* A bug: a monitor that ends a round of reconnect in vain ends for good.
EndForGood == "ended"

LookAgain == "look"

\* reconnect: at most MaxAttempts dials, with a pause the context cuts short;
\* then, or after a success, the loop looks at the connection again.
MDial ==
    /\ mpc = "dial"
    /\ \/ /\ Open(Fresh)
          /\ mNew' = Fresh /\ mTries' = 0
          /\ MGoto("swap")
       \/ /\ ~brokerUp
          /\ mTries' = IF LastAttempt THEN 0 ELSE mTries + 1
          /\ MGoto(IF LastAttempt THEN LookAgain ELSE "dial")
          /\ UNCHANGED <<link, channel, mNew>>
    /\ UNCHANGED <<broker, current, main, watched, publish, ctxDone, failures>>

MSwap ==
    /\ mpc = "swap"
    /\ Install(mNew)
    /\ mNew' = None
    /\ MGoto("look")
    /\ UNCHANGED <<broker, main, watched, mTries, publish, ctxDone, failures>>

--------------------------------------------------------------------------------
(* The end of the process.                                                 *)

Terminate ==
    /\ ~ctxDone
    /\ ctxDone' = TRUE
    /\ UNCHANGED <<broker, session, main, monitor, publish, failures>>

\* After server.Shutdown, which waits ten seconds for the handlers and no longer;
\* on a cut connection the library's Close waits until it notices.
Close ==
    /\ ppc = "serving" /\ ctxDone
    /\ link[current] # "cut"
    /\ Shut(current) /\ current' = None
    /\ ppc' = "closed"
    /\ UNCHANGED <<broker, tries, used, step, monitor, publish, ctxDone, failures>>

Exit ==
    /\ ppc = "closed"
    /\ ExitProcess
    /\ UNCHANGED <<broker, failures>>

\* The process is killed.
Kill ==
    /\ ppc \notin {"dial", "exited"}
    /\ Fail
    /\ ExitProcess
    /\ UNCHANGED broker

Process == Startup \/ ReadChannel \/ Declare \/ Close \/ Exit

Monitor == MLook \/ MWait \/ MDial \/ MSwap

Handlers == \E m \in Messages : TakeChannel(m) \/ Send(m)

Next == Process \/ Monitor \/ Handlers \/ Terminate \/ Kill \/ External

Spec == Init /\ [][Next]_vars
--------------------------------------------------------------------------------
(* Properties.                                                             *)

\* Whatever the monitor, the startup and Close do to p.conn, the process has one
\* connection at most: none is leaked, and the monitor never replaces one that
\* works, with publishes under way on it.
OneConnection == Cardinality({g \in Conns : link[g] # "closed"}) <= 1

\* However many processes run DeclareTopology, and wherever one of them stops,
\* a queue that receives messages has its dead letter queue bound: what a Worker
\* rejects is not dropped.
DeadLettersHaveAQueue ==
    ~wiped => \A m \in Messages :
        Key[m] # None /\ Of("queueBind", Key[m]) \in declared => Of("dlqBind", Key[m]) \in declared

\* The other process coming and going, whatever it has declared so far, costs
\* this one nothing: without a failure no Publish before the shutdown answers an
\* error, and a message with a queue's key for which it answered nil is there.
TroubleIsCaused ==
    failures = 0 =>
        \A m \in Messages : /\ answer[m] = "error" => ctxDone
                            /\ answer[m] = "ok" /\ Key[m] # None => m \in routed

--------------------------------------------------------------------------------
(* The inductive invariant behind OneConnection and DeadLettersHaveAQueue. *)

\* Only the producer's connection and the one it is about to install are open,
\* and while the monitor is at it the former is gone.
LinksOK ==
    /\ \A g \in Conns : link[g] # "closed" => g \in {current, mNew}
    /\ mNew # None <=> mpc = "swap"
    /\ mpc \in {"dial", "swap"} => current = None \/ link[current] = "closed"
    /\ mpc = "wait" =>
          /\ watched # None
          /\ watched = current \/ (current = None /\ link[watched] = "closed")
    /\ ppc \in {"dial", "exited"} => current = None /\ mpc = "none"
    /\ ppc \in {"topology", "declare", "serving"} => current # None

\* What a process has declared is there, and so is the dead letter queue of what
\* is bound.
DeclaredOK ==
    /\ \A i \in 1 .. peer : DeclareOrder[i] \in declared
    /\ \A i \in 1 .. (step - 1) : DeclareOrder[i] \in declared
    /\ \A q \in {QueueSeq[i] : i \in DOMAIN QueueSeq} : Of("queueBind", q) \in declared => Of("dlqBind", q) \in declared

IInv == TypeOK /\ LinksOK /\ (~wiped => DeclaredOK)

\* While nothing has failed no connection is cut, every connection has its
\* channel, and main serves with the whole topology declared.  A connection that
\* a handler uses, or the producer has, is closed by the shutdown only.
CalmOK ==
    failures = 0 =>
        /\ ~wiped
        /\ ppc \in {"serving", "closed"} => Items \subseteq declared
        /\ ppc \notin {"serving", "closed"} => \A m \in Messages : via[m] = None
        /\ ppc = "closed" => ctxDone
        /\ \A g \in Conns : /\ link[g] # "cut" /\ channel[g] # "closing"
                            /\ link[g] = "up" <=> channel[g] = "open"
        /\ ~ctxDone =>
              /\ mpc \notin {"dial", "swap"}
              /\ current # None => link[current] = "up"
              /\ \A m \in Messages : via[m] # None => link[via[m]] = "up"

\* The inductive invariant behind TroubleIsCaused.
CalmInv == IInv /\ CalmOK /\ TroubleIsCaused

\* The monitor runs from NewProducer on and ends with the context only, as long as
\* there is a connection to watch.
MonitorOK ==
    ppc \in {"topology", "declare", "serving"} =>
        /\ mpc # "none"
        /\ mpc = "ended" => ctxDone

--------------------------------------------------------------------------------
(* Liveness.  Goroutines are scheduled, the broker comes back, and a       *)
(* connection that is lost is noticed.                                     *)

FairSpec ==
    /\ Spec
    /\ WF_vars(Process) /\ WF_vars(Monitor) /\ WF_vars(Handlers)
    /\ WF_vars(BrokerReturns)
    /\ \A g \in Conns : WF_vars(Notice(g))

Serving == ppc = "serving" /\ ~ctxDone

\* While the process serves, its monitor waits on the very connection the handlers
\* publish with, is about to look at it, or replaces it because it is closed: no
\* connection is lost unobserved, and no round of reconnect is the last one.
Attended ==
    Serving => \/ mpc = "look"
               \/ mpc = "wait" /\ watched = current
               \/ mpc \in {"dial", "swap"} /\ link[current] = "closed"

\* A producer whose connection was lost gets another one, however many rounds of
\* reconnect the outage takes.
Reconnects == Serving /\ link[current] # "up" ~> (Serving => link[current] = "up")

\* rabbitmq.go: "Producer publishes events to RabbitMQ with auto-reconnect": a
\* producer that cannot publish can again, or the process ends.
PublishesAgain == Serving /\ ~Live(current) ~> (Serving => Live(current))
================================================================================
