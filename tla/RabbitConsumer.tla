---------------------------- MODULE RabbitConsumer ----------------------------
(***************************************************************************)
(* messaging.Consumer: the Consume goroutine, the monitorReconnect         *)
(* goroutine beside it, and the connection both of them replace.           *)
(*                                                                         *)
(* Either goroutine may dial at any time; connect closes whatever          *)
(* connection it finds and installs its own.  The broker can go away and   *)
(* come back, cut one connection without the client noticing at once, or   *)
(* close a channel and leave its connection up.  A connection identifier   *)
(* is reused once nothing refers to it any more.                           *)
(***************************************************************************)
EXTENDS Integers, FiniteSets

CONSTANTS
    Messages,       \* messages on the consumer's queue
    Conns,          \* identifiers of AMQP connections
    None,           \* no message, no connection
    MaxAttempts,    \* dials of one call of reconnect (10 in the code)
    MaxFailures,    \* bound: outages, cuts and channel errors
    MaxRetries      \* bound: handler errors that requeue

ASSUME ConsumerAssumption ==
    /\ Conns \subseteq Nat /\ IsFiniteSet(Conns) /\ Cardinality(Conns) >= 6
    /\ None \notin Messages /\ None \notin Conns
    /\ MaxAttempts \in Nat \ {0}
    /\ MaxFailures \in Nat
    /\ MaxRetries \in Nat

VARIABLES
    place,      \* where the broker has each message
    owner,      \* the connection an unacked message was sent on
    link,       \* each connection: "unused", "up", "cut" (client unaware), "closed"
    channelUp,  \* its channel is open
    brokerUp,   \* RabbitMQ accepts connections
    current,    \* c.conn and c.channel
    cpc, sub, buf, held, verdict, cTries, cNew,     \* the Consume goroutine
    mpc, watched, mTries, mNew,                     \* the monitor goroutine
    ctxDone,    \* the context of both is cancelled
    handled,    \* how often the handler was given each message
    failures, retries

broker  == <<place, owner, brokerUp>>
session == <<link, channelUp, current>>
consume == <<cpc, sub, buf, held, verdict, cTries, cNew>>
monitor == <<mpc, watched, mTries, mNew>>
bounds  == <<failures, retries>>
vars == <<broker, session, consume, monitor, ctxDone, handled, bounds>>

ConsumePcs == {"top", "setup", "subscribe", "dial", "swap", "pause", "receive",
               "handle", "settle", "returned", "failed"}
MonitorPcs == {"look", "wait", "dial", "swap", "ended"}
Verdicts   == {"ok", "retry", "unrecoverable"}

TypeOK ==
    /\ place \in [Messages -> {"ready", "unacked", "acked", "dead"}]
    /\ owner \in [Messages -> Conns \union {None}]
    /\ link \in [Conns -> {"unused", "up", "cut", "closed"}]
    /\ channelUp \in [Conns -> BOOLEAN]
    /\ brokerUp \in BOOLEAN
    /\ current \in Conns
    /\ cpc \in ConsumePcs /\ mpc \in MonitorPcs
    /\ sub \in Conns \union {None} /\ watched \in Conns \union {None}
    /\ buf \in Messages \union {None} /\ held \in Messages \union {None}
    /\ verdict \in Verdicts
    /\ cTries \in 0 .. MaxAttempts /\ mTries \in 0 .. MaxAttempts
    /\ cpc = "dial" => cTries < MaxAttempts
    /\ mpc = "dial" => mTries < MaxAttempts
    /\ cNew \in Conns \union {None} /\ mNew \in Conns \union {None}
    /\ ctxDone \in BOOLEAN
    /\ handled \in [Messages -> Nat]
    /\ failures \in Nat /\ retries \in Nat

First == CHOOSE g \in Conns : TRUE

\* NewConsumer connected once and started the monitor.
Init ==
    /\ place = [m \in Messages |-> "ready"]
    /\ owner = [m \in Messages |-> None]
    /\ link = [g \in Conns |-> IF g = First THEN "up" ELSE "unused"]
    /\ channelUp = [g \in Conns |-> g = First]
    /\ brokerUp = TRUE
    /\ current = First
    /\ cpc = "top" /\ sub = None /\ buf = None /\ held = None /\ verdict = "ok"
    /\ cTries = 0 /\ cNew = None
    /\ mpc = "look" /\ watched = None /\ mTries = 0 /\ mNew = None
    /\ ctxDone = FALSE
    /\ handled = [m \in Messages |-> 0]
    /\ failures = 0 /\ retries = 0

--------------------------------------------------------------------------------
(* The broker and the network.                                             *)

Live(g) == link[g] = "up" /\ channelUp[g]

\* What was sent on the connections of G and not settled is queued again.
Recover(G) ==
    /\ place' = [m \in Messages |->
                    IF place[m] = "unacked" /\ owner[m] \in G THEN "ready" ELSE place[m]]
    /\ owner' = [m \in Messages |-> IF owner[m] \in G THEN None ELSE owner[m]]

Fail == failures < MaxFailures /\ failures' = failures + 1

\* RabbitMQ goes away: every connection is dead, no client knows yet.
BrokerDown ==
    /\ brokerUp
    /\ Fail
    /\ brokerUp' = FALSE
    /\ link' = [g \in Conns |-> IF link[g] = "up" THEN "cut" ELSE link[g]]
    /\ Recover(Conns)
    /\ UNCHANGED <<channelUp, current, consume, monitor, ctxDone, handled, retries>>

BrokerReturns ==
    /\ ~brokerUp
    /\ brokerUp' = TRUE
    /\ UNCHANGED <<place, owner, session, consume, monitor, ctxDone, handled, bounds>>

\* One connection is lost on the way; the broker has given up on it already.
Cut(g) ==
    /\ link[g] = "up"
    /\ Fail
    /\ link' = [link EXCEPT ![g] = "cut"]
    /\ Recover({g})
    /\ UNCHANGED <<brokerUp, channelUp, current, consume, monitor, ctxDone, handled, retries>>

\* The broker closes the channel and leaves the connection up (an
\* acknowledgement past the delivery timeout, a precondition failure).
ChannelError(g) ==
    /\ Live(g)
    /\ Fail
    /\ channelUp' = [channelUp EXCEPT ![g] = FALSE]
    /\ Recover({g})
    /\ UNCHANGED <<brokerUp, link, current, consume, monitor, ctxDone, handled, retries>>

\* The client library finds out: notifications fire, deliveries close.
Notice(g) ==
    /\ link[g] = "cut"
    /\ link' = [link EXCEPT ![g] = "closed"]
    /\ UNCHANGED <<broker, channelUp, current, consume, monitor, ctxDone, handled, bounds>>

Subscribed == cpc \in {"receive", "handle", "settle"}

\* A bug: the subscription asks the broker to take every delivery for acknowledged.
SendAcknowledged(m) ==
    /\ Subscribed /\ Live(sub)
    /\ place[m] = "ready"
    /\ buf = None
    /\ place' = [place EXCEPT ![m] = "acked"]
    /\ buf' = m
    /\ UNCHANGED <<owner, brokerUp, session, cpc, sub, held, verdict, cTries, cNew, monitor,
                   ctxDone, handled, bounds>>

\* The broker sends one message and waits for its settlement (prefetch 1).
Send(m) ==
    /\ Subscribed /\ Live(sub)
    /\ place[m] = "ready"
    /\ \A n \in Messages : owner[n] # sub
    /\ place' = [place EXCEPT ![m] = "unacked"]
    /\ owner' = [owner EXCEPT ![m] = sub]
    /\ buf' = m
    /\ UNCHANGED <<brokerUp, session, cpc, sub, held, verdict, cTries, cNew, monitor,
                   ctxDone, handled, bounds>>

--------------------------------------------------------------------------------
(* connect, which both goroutines call through reconnect.                  *)

Unused == Conns \ {current, sub, watched, cNew, mNew}

Fresh == CHOOSE g \in Unused : TRUE

\* dial and Channel succeed.
Open(g) ==
    /\ brokerUp
    /\ link' = [link EXCEPT ![g] = "up"]
    /\ channelUp' = [channelUp EXCEPT ![g] = TRUE]

\* A bug: the connection that is replaced stays open.
InstallOnly(g) ==
    /\ current' = g
    /\ UNCHANGED <<link, channelUp, place, owner>>

\* The critical section: close what is there, install the new connection.
Install(g) ==
    /\ current' = g
    /\ link' = [link EXCEPT ![current] = "closed"]
    /\ channelUp' = [channelUp EXCEPT ![current] = FALSE]
    /\ Recover({current})

\* reconnect gives up after the n-th failed attempt.
LastAttempt(n) == n = MaxAttempts \/ ctxDone

--------------------------------------------------------------------------------
(* Consume.                                                                *)

CGoto(p) == cpc' = p

CTop ==
    /\ cpc = "top"
    /\ CGoto(IF ctxDone THEN "returned" ELSE "setup")
    /\ UNCHANGED <<broker, session, sub, buf, held, verdict, cTries, cNew, monitor, ctxDone,
                   handled, bounds>>

\* consumeOnce reads the channel under the lock and uses it after the unlock.
CSetup ==
    /\ cpc = "setup"
    /\ sub' = current
    /\ CGoto("subscribe")
    /\ UNCHANGED <<broker, session, buf, held, verdict, cTries, cNew, monitor, ctxDone,
                   handled, bounds>>

\* Qos and Consume answer, or fail once the library knows the channel is gone.
CSubscribe ==
    /\ cpc = "subscribe"
    /\ \/ /\ Live(sub)
          /\ CGoto("receive")
       \/ /\ link[sub] = "closed" \/ ~channelUp[sub]
          /\ CGoto("dial")
    /\ cTries' = 0
    /\ UNCHANGED <<broker, session, sub, buf, held, verdict, cNew, monitor, ctxDone, handled,
                   bounds>>

CDial ==
    /\ cpc = "dial"
    /\ \/ /\ Open(Fresh)
          /\ cNew' = Fresh
          /\ cTries' = 0
          /\ CGoto("swap")
       \/ /\ ~brokerUp
          /\ cTries' = cTries + 1
          /\ CGoto(IF LastAttempt(cTries') THEN "pause" ELSE "dial")
          /\ UNCHANGED <<link, channelUp, cNew>>
    /\ UNCHANGED <<broker, current, sub, buf, held, verdict, monitor, ctxDone, handled, bounds>>

CSwap ==
    /\ cpc = "swap"
    /\ Install(cNew)
    /\ cNew' = None
    /\ CGoto("pause")
    /\ UNCHANGED <<brokerUp, sub, buf, held, verdict, cTries, monitor, ctxDone, handled, bounds>>

\* 500 ms, or the end of the context.
CPause ==
    /\ cpc = "pause"
    /\ \/ ctxDone /\ CGoto("returned")
       \/ CGoto("top")
    /\ UNCHANGED <<broker, session, sub, buf, held, verdict, cTries, cNew, monitor, ctxDone,
                   handled, bounds>>

\* A bug: only the end of the connection ends the subscription.
LinkClosed == link[sub] = "closed"

\* The library has closed the delivery channel.
DeliveriesClosed == link[sub] = "closed" \/ ~channelUp[sub]

\* The select of the inner loop: a cancelled context, a delivery, or the closed
\* channel.  A delivery the library still offers may be stale.
CReceive ==
    /\ cpc = "receive"
    /\ \/ ctxDone /\ CGoto("returned") /\ UNCHANGED <<buf, held, handled>>
       \/ /\ buf # None
          /\ held' = buf /\ buf' = None
          /\ handled' = [handled EXCEPT ![buf] = @ + 1]
          /\ CGoto("handle")
       \/ /\ DeliveriesClosed
          /\ buf' = None
          /\ CGoto("top")
          /\ UNCHANGED <<held, handled>>
    /\ UNCHANGED <<broker, session, sub, verdict, cTries, cNew, monitor, ctxDone, bounds>>

\* The handler returns nil, an error, or an UnrecoverableError.
CHandle ==
    /\ cpc = "handle"
    /\ \/ verdict' \in {"ok", "unrecoverable"} /\ UNCHANGED retries
       \/ verdict' = "retry" /\ retries < MaxRetries /\ retries' = retries + 1
    /\ CGoto("settle")
    /\ UNCHANGED <<broker, session, sub, buf, held, cTries, cNew, monitor, ctxDone, handled,
                   failures>>

\* A bug: every delivery is handed back.
HandedBack == "ready"

Settled == [ok |-> "acked", retry |-> "ready", unrecoverable |-> "dead"][verdict]

\* A bug: the loop takes the next delivery without settling this one.
CForget ==
    /\ cpc = "settle"
    /\ CGoto("receive")
    /\ held' = None
    /\ UNCHANGED <<broker, session, sub, buf, verdict, cTries, cNew, monitor, ctxDone, handled,
                   bounds>>

\* Ack or Nack: obeyed on a live channel, lost on one that is cut, an error that
\* ends Consume on one known to be closed.
CSettle ==
    /\ cpc = "settle"
    /\ \/ /\ Live(sub)
          /\ place' = [place EXCEPT ![held] = Settled]
          /\ owner' = [owner EXCEPT ![held] = None]
          /\ CGoto("receive")
       \/ /\ link[sub] = "cut" /\ channelUp[sub]
          /\ CGoto("receive")
          /\ UNCHANGED <<place, owner>>
       \/ /\ link[sub] = "closed" \/ ~channelUp[sub]
          /\ CGoto("failed")
          /\ UNCHANGED <<place, owner>>
    /\ held' = None
    /\ UNCHANGED <<brokerUp, session, sub, buf, verdict, cTries, cNew, monitor, ctxDone,
                   handled, bounds>>

--------------------------------------------------------------------------------
(* monitorReconnect.                                                       *)

MGoto(p) == mpc' = p

MLook ==
    /\ mpc = "look"
    /\ watched' = current
    /\ MGoto("wait")
    /\ UNCHANGED <<broker, session, consume, mTries, mNew, ctxDone, handled, bounds>>

\* A bug: the monitor does not look at its context.
MWaitDeaf ==
    /\ mpc = "wait" /\ link[watched] = "closed"
    /\ MGoto("dial")
    /\ mTries' = 0
    /\ UNCHANGED <<broker, session, consume, watched, mNew, ctxDone, handled, bounds>>

\* NotifyClose fires for a connection that is, or already was, closed.
MWait ==
    /\ mpc = "wait"
    /\ \/ ctxDone /\ MGoto("ended")
       \/ link[watched] = "closed" /\ MGoto("dial")
    /\ mTries' = 0
    /\ UNCHANGED <<broker, session, consume, watched, mNew, ctxDone, handled, bounds>>

MDial ==
    /\ mpc = "dial"
    /\ \/ /\ Open(Fresh)
          /\ mNew' = Fresh
          /\ mTries' = 0
          /\ MGoto("swap")
       \/ /\ ~brokerUp
          /\ mTries' = mTries + 1
          /\ MGoto(IF LastAttempt(mTries') THEN "look" ELSE "dial")
          /\ UNCHANGED <<link, channelUp, mNew>>
    /\ UNCHANGED <<broker, current, consume, watched, ctxDone, handled, bounds>>

MSwap ==
    /\ mpc = "swap"
    /\ Install(mNew)
    /\ mNew' = None
    /\ MGoto("look")
    /\ UNCHANGED <<brokerUp, consume, watched, mTries, ctxDone, handled, bounds>>

Shutdown ==
    /\ ~ctxDone
    /\ ctxDone' = TRUE
    /\ UNCHANGED <<broker, session, consume, monitor, handled, bounds>>

--------------------------------------------------------------------------------
Consume == CTop \/ CSetup \/ CSubscribe \/ CDial \/ CSwap \/ CPause \/ CReceive
           \/ CHandle \/ CSettle

Monitor == MLook \/ MWait \/ MDial \/ MSwap

Network == BrokerDown \/ BrokerReturns \/ Shutdown
           \/ \E g \in Conns : Cut(g) \/ ChannelError(g) \/ Notice(g)

Next == Consume \/ Monitor \/ Network \/ \E m \in Messages : Send(m)

Spec == Init /\ [][Next]_vars
--------------------------------------------------------------------------------
(* Properties.                                                             *)

\* Neither goroutine leaves a connection open behind it: what is open is the
\* installed connection or one a goroutine is about to install.
NoLeakedConnection ==
    \A g \in Conns : link[g] \in {"up", "cut"} => g \in {current, cNew, mNew}

\* The monitor never sleeps on a connection that is open but no longer the
\* installed one: it would miss the loss of the one Consume uses.
WatchesCurrent == mpc = "wait" /\ link[watched] # "closed" => watched = current

\* A message leaves the queue for good only through a verdict of the handler it
\* was given to on a live channel, and comes back only through a failure or a
\* handler error: one failure costs a message one redelivery at most.
RedeliveriesAreCaused ==
    \A m \in Messages : /\ handled[m] <= 1 + failures + retries
                        /\ place[m] \in {"acked", "dead"} => handled[m] > 0

\* The goroutine is the only reader of its subscription: an unacked message is
\* in its hands or in the delivery channel it reads.
UnackedIsHeld ==
    \A m \in Messages :
        place[m] = "unacked" /\ Subscribed => owner[m] = sub /\ m \in {buf, held}

\* rabbitmq.go: "Consumer handles message consumption with auto-reconnect":
\* before shutdown no failure ends the consumer.
SurvivesFailures == ~ctxDone => cpc # "failed"
--------------------------------------------------------------------------------
(* The inductive invariant behind them.                                    *)

\* A goroutine holds a new connection exactly between its dial and its swap, and
\* refers to the one it watches or reads.
LinksOK ==
    /\ NoLeakedConnection /\ WatchesCurrent
    /\ cNew # None <=> cpc = "swap"
    /\ mNew # None <=> mpc = "swap"
    /\ mpc = "wait" => watched # None
    /\ Subscribed \/ cpc = "subscribe" => sub # None

\* What the broker counts as unacked is what the goroutine holds on a live
\* channel, unless it has returned with a delivery unread.
HoldingOK ==
    /\ held # None <=> cpc \in {"handle", "settle"}
    /\ buf # None => cpc \in {"receive", "returned"}
    /\ \A m \in Messages :
          /\ place[m] = "unacked" <=> owner[m] # None
          /\ owner[m] # None => /\ owner[m] = sub /\ Live(sub)
                                /\ cpc = "returned" \/ (Subscribed /\ m \in {buf, held})
          /\ Subscribed /\ Live(sub) /\ m \in {buf, held} => owner[m] = sub

\* The handler is not called again: Consume has ended, or will end when it
\* settles what it holds.
LastHandled ==
    \/ cpc \in {"returned", "failed"}
    \/ cpc \in {"handle", "settle"} /\ DeliveriesClosed

\* How often m may be handled still, with no further failure or handler error: a
\* stale delivery and the message itself, once more.
Due(m) ==
    IF LastHandled THEN 0
    ELSE IF buf = m THEN IF place[m] = "ready" /\ ~DeliveriesClosed THEN 2 ELSE 1
    ELSE IF place[m] = "ready" \/ (cpc = "settle" /\ verdict = "retry" /\ held = m) THEN 1
    ELSE 0

BudgetOK ==
    \A m \in Messages :
        /\ handled[m] + Due(m) <= 1 + failures + retries
        /\ place[m] \in {"acked", "dead"} \/ held = m => handled[m] > 0

IInv == TypeOK /\ LinksOK /\ HoldingOK /\ BudgetOK

\* The broker has not done with a message the goroutine has got, and has none out
\* that it has not got.
HandOK ==
    \A m \in Messages : /\ place[m] = "unacked" => m \in {buf, held}
                        /\ m \in {buf, held} => place[m] \in {"ready", "unacked"}

--------------------------------------------------------------------------------
(* The contract the consumer and the broker keep.                          *)

Loop ==
    CASE cpc \in {"handle", "settle"} -> "busy"
      [] cpc = "returned"             -> "returned"
      [] cpc = "failed"               -> "failed"
      [] OTHER                        -> "idle"

\* A message that waits in the client is still to be delivered.
SeenPlace == [m \in Messages |-> IF m = buf THEN "ready" ELSE place[m]]

Leased == held # None /\ owner[held] # None

Contract == INSTANCE DeliveryContract WITH
    loop <- Loop, cancel <- ctxDone, place <- SeenPlace, lease <- Leased

\* Through every exchange of its connection the consumer is one that takes one
\* delivery after the other, settles each at most once and on the channel it came
\* by, and returns only when it is cancelled or a settlement fails.
KeepsContract == Contract!DeliverySpec

--------------------------------------------------------------------------------
(* Liveness.  Goroutines are scheduled, handlers return, a lost connection *)
(* is noticed (heartbeats), the broker comes back; a Go select that is     *)
(* ready on its context infinitely often takes that branch.                *)

FairSpec ==
    /\ Spec
    /\ WF_vars(Consume) /\ WF_vars(Monitor)
    /\ SF_vars(MWait /\ mpc' = "ended")
    /\ WF_vars(BrokerReturns)
    /\ \A g \in Conns : WF_vars(Notice(g))
    /\ \A m \in Messages : WF_vars(Send(m))

\* The monitor is done with what it has to do: it waits on a live connection,
\* or keeps dialling a broker that is not there.
MonitorQuiet ==
    \/ mpc = "wait" /\ link[watched] # "closed"
    \/ mpc = "dial" /\ ~brokerUp
    \/ mpc = "ended"

\* The premise of progress after a failure: in the end the 500 ms pause of
\* Consume outlasts a successful round of monitorReconnect.  Otherwise the two
\* may close each other's new connection for ever.
PauseOutlastsMonitor ==
    <>[][cpc = "pause" /\ cpc' = "top" => MonitorQuiet]_vars

\* Unless shut down or ended by a failed settlement, the consumer is always
\* back on a live channel once the failures are over.
Resubscribes ==
    PauseOutlastsMonitor =>
        <>[](Subscribed /\ Live(sub)) \/ <>(ctxDone \/ cpc = "failed")

\* Every message is settled, unless the consumer is gone.
EventuallyHandled ==
    PauseOutlastsMonitor =>
        \A m \in Messages :
            <>(place[m] \in {"acked", "dead"} \/ ctxDone \/ cpc = "failed")

\* A cancelled context ends both goroutines, even in the middle of an outage.
ShutdownEnds == ctxDone ~> (cpc \in {"returned", "failed"} /\ mpc = "ended")
================================================================================
