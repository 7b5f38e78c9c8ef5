---------------------------- MODULE DeliveryContract ----------------------------
(***************************************************************************)
(* What one consumer and the broker owe each other: a delivery is out to   *)
(* one consumer at most, it leaves the queue for good only when that       *)
(* consumer settles it on the channel it came by, and a consumer that has  *)
(* lost the channel can settle nothing any more, whether it is told so or  *)
(* not.                                                                    *)
(***************************************************************************)
EXTENDS ConsumerLoop

CONSTANTS
    Messages,
    None

VARIABLES
    place,      \* where the broker has each message
    held,       \* the message the goroutine is busy with
    lease       \* it can still settle it

deliveryVars == <<loopVars, place, held, lease>>

DeliveryInit ==
    /\ LoopInit
    /\ place \in [Messages -> {"none", "ready"}]
    /\ held = None
    /\ lease = FALSE

Put(m, p) == place' = [place EXCEPT ![m] = p]

Hold(m, leased) == held' = m /\ lease' = leased

Deliver(m) == Take /\ place[m] = "ready" /\ Put(m, "unacked") /\ Hold(m, TRUE)

\* Its channel was lost while the delivery waited in the client.
DeliverStale(m) == Take /\ UNCHANGED place /\ Hold(m, FALSE)

\* The broker queues again what was out on a channel that is gone.
Drop == lease /\ Put(held, "ready") /\ Hold(held, FALSE) /\ UNCHANGED loopVars

\* The verdict: acknowledged, handed back or dead-lettered.
SettleHeld ==
    /\ lease
    /\ Done
    /\ \E verdict \in {"acked", "ready", "dead"} : Put(held, verdict)
    /\ Hold(None, FALSE)

SettleInVain ==
    /\ ~lease
    /\ Done \/ Fail
    /\ UNCHANGED place
    /\ Hold(None, FALSE)

\* The process dies with what it has in hand.
Die ==
    /\ Restart
    /\ IF lease THEN Put(held, "ready") ELSE UNCHANGED place
    /\ Hold(None, FALSE)

\* What publishers, the broker and other consumers do to the other messages.
Moves ==
    {<<"none", "ready">>, <<"none", "lost">>, <<"ready", "unacked">>,
     <<"unacked", "ready">>, <<"unacked", "acked">>, <<"unacked", "dead">>}

Elsewhere(m) ==
    /\ lease => m # held
    /\ \E p \in {"ready", "lost", "unacked", "acked", "dead"} :
          <<place[m], p>> \in Moves /\ Put(m, p)
    /\ UNCHANGED <<loopVars, held, lease>>

DeliveryNext ==
    \/ \E m \in Messages : Deliver(m) \/ DeliverStale(m) \/ Elsewhere(m)
    \/ Drop \/ SettleHeld \/ SettleInVain \/ Die
    \/ (Leave \/ Cancel) /\ UNCHANGED <<place, held, lease>>

DeliverySpec == DeliveryInit /\ [][DeliveryNext]_deliveryVars
================================================================================
