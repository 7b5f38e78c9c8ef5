------------------------- MODULE RabbitConsumerProofs -------------------------
(***************************************************************************)
(* No connection leaks, no message is held twice or redelivered without a  *)
(* cause, for every number of messages, attempts and failures.             *)
(***************************************************************************)
EXTENDS RabbitConsumer, FiniteSetTheorems, TLAPS

\* A set with one more element has one more element at most.
LEMMA AddOne ==
    ASSUME NEW S, NEW x, IsFiniteSet(S)
    PROVE  /\ IsFiniteSet(S \union {x})
           /\ Cardinality(S) \in Nat /\ Cardinality(S \union {x}) \in Nat
           /\ Cardinality(S \union {x}) <= Cardinality(S) + 1
  <1>1. IsFiniteSet(S \union {x}) /\ Cardinality(S) \in Nat
    BY FS_AddElement, FS_CardinalityType
  <1>2. Cardinality(S \union {x}) \in Nat  BY <1>1, FS_CardinalityType
  <1>3. Cardinality(S \union {x})
          = IF x \in S THEN Cardinality(S) ELSE Cardinality(S) + 1
    BY FS_AddElement
  <1> QED  BY <1>1, <1>2, <1>3

\* Five names name five things at most.
LEMMA FiveAtMost ==
    ASSUME NEW a, NEW b, NEW c, NEW d, NEW e
    PROVE  /\ IsFiniteSet({a, b, c, d, e})
           /\ Cardinality({a, b, c, d, e}) \in 0 .. 5
  <1> DEFINE S1 == {a}
             S2 == S1 \union {b}
             S3 == S2 \union {c}
             S4 == S3 \union {d}
             S5 == S4 \union {e}
  <1>1. IsFiniteSet(S1) /\ Cardinality(S1) = 1  BY FS_Singleton
  <1>0. S5 = {a, b, c, d, e}  OBVIOUS
  <1> HIDE DEF S1
  <1>2. IsFiniteSet(S2) /\ Cardinality(S2) \in 0 .. 2
    <2>1. Cardinality(S2) <= Cardinality(S1) + 1 /\ Cardinality(S2) \in Nat /\ IsFiniteSet(S2)
      BY <1>1, AddOne
    <2> QED  BY <1>1, <2>1
  <1> HIDE DEF S2
  <1>3. IsFiniteSet(S3) /\ Cardinality(S3) \in 0 .. 3
    <2>1. Cardinality(S3) <= Cardinality(S2) + 1 /\ Cardinality(S3) \in Nat /\ IsFiniteSet(S3)
      BY <1>2, AddOne
    <2> QED  BY <1>2, <2>1
  <1> HIDE DEF S3
  <1>4. IsFiniteSet(S4) /\ Cardinality(S4) \in 0 .. 4
    <2>1. Cardinality(S4) <= Cardinality(S3) + 1 /\ Cardinality(S4) \in Nat /\ IsFiniteSet(S4)
      BY <1>3, AddOne
    <2> QED  BY <1>3, <2>1
  <1> HIDE DEF S4
  <1>5. IsFiniteSet(S5) /\ Cardinality(S5) \in 0 .. 5
    <2>1. Cardinality(S5) <= Cardinality(S4) + 1 /\ Cardinality(S5) \in Nat /\ IsFiniteSet(S5)
      BY <1>4, AddOne
    <2> QED  BY <1>4, <2>1
  <1> QED  BY <1>0, <1>5

\* An unused identifier exists: the goroutines refer to five at most.
LEMMA FreshType ==
    ASSUME ConsumerAssumption
    PROVE  Fresh \in Conns /\ Fresh \notin {current, sub, watched, cNew, mNew}
  <1> DEFINE S == {current, sub, watched, cNew, mNew}
  <1>1. IsFiniteSet(S) /\ Cardinality(S) \in 0 .. 5  BY FiveAtMost
  <1> HIDE DEF S
  <1>2. Cardinality(Conns) \in Nat /\ Cardinality(Conns) >= 6
    BY FS_CardinalityType DEF ConsumerAssumption
  <1>3. ~(Conns \subseteq S)
    <2>1. Conns \subseteq S => Cardinality(Conns) <= Cardinality(S)  BY <1>1, FS_Subset
    <2> QED  BY <1>1, <1>2, <2>1
  <1>4. Unused = Conns \ S  BY DEF Unused, S
  <1>5. Fresh \in Conns \ S  BY <1>3, <1>4 DEF Fresh
  <1> QED  BY <1>5 DEF S

\* Some connection is the first.
LEMMA FirstType == ConsumerAssumption => First \in Conns
  <1>1. ConsumerAssumption => Conns # {}
    BY FS_EmptySet DEF ConsumerAssumption
  <1> QED  BY <1>1 DEF First
--------------------------------------------------------------------------------
(* Types.                                                                  *)

\* Queueing again what was on some connections keeps the types.
LEMMA RecoverType ==
    ASSUME TypeOK, NEW G, Recover(G)
    PROVE  /\ place' \in [Messages -> {"ready", "unacked", "acked", "dead"}]
           /\ owner' \in [Messages -> Conns \union {None}]
  BY DEF Recover, TypeOK

\* So does the exchange of the connection.
LEMMA InstallType ==
    ASSUME TypeOK, NEW g \in Conns, Install(g)
    PROVE  /\ place' \in [Messages -> {"ready", "unacked", "acked", "dead"}]
           /\ owner' \in [Messages -> Conns \union {None}]
           /\ link' \in [Conns -> {"unused", "up", "cut", "closed"}]
           /\ channelUp' \in [Conns -> BOOLEAN]
           /\ current' \in Conns
  BY RecoverType DEF Install, TypeOK

\* A new connection is one of Conns.
LEMMA OpenType ==
    ASSUME ConsumerAssumption, TypeOK, Open(Fresh)
    PROVE  /\ link' \in [Conns -> {"unused", "up", "cut", "closed"}]
           /\ channelUp' \in [Conns -> BOOLEAN]
  BY FreshType DEF Open, TypeOK

\* Every step keeps TypeOK.
LEMMA TypeStep ==
    ASSUME ConsumerAssumption, TypeOK, LinksOK, HoldingOK, [Next]_vars
    PROVE  TypeOK'
  <1> USE DEF broker, session, consume, monitor, bounds
  <1>1. CASE CTop \/ CSetup \/ CPause
    BY <1>1 DEF CTop, CSetup, CPause, CGoto, TypeOK, ConsumePcs, MonitorPcs
  <1>2. CASE CSubscribe
    <2>1. cpc' \in {"receive", "dial"} /\ cTries' = 0  BY <1>2 DEF CSubscribe, CGoto
    <2>2. UNCHANGED <<broker, session, sub, buf, held, verdict, cNew, monitor, ctxDone,
                      handled, bounds>>
      BY <1>2 DEF CSubscribe
    <2> QED  BY <2>1, <2>2 DEF TypeOK, ConsumePcs, ConsumerAssumption
  <1>3. CASE CDial
    <2>1. CASE Open(Fresh) /\ cNew' = Fresh /\ cTries' = 0 /\ CGoto("swap")
      BY <1>3, <2>1, OpenType, FreshType DEF CDial, CGoto, TypeOK, ConsumePcs, ConsumerAssumption
    <2>2. CASE cTries' = cTries + 1 /\ UNCHANGED <<link, channelUp, cNew>>
               /\ CGoto(IF LastAttempt(cTries') THEN "pause" ELSE "dial")
      <3>1. cTries' \in 0 .. MaxAttempts  BY <1>3, <2>2 DEF CDial, TypeOK, ConsumerAssumption
      <3>2. cpc' \in {"pause", "dial"} /\ (cpc' = "dial" => cTries' < MaxAttempts)
        BY <2>2, <3>1 DEF CGoto, LastAttempt, ConsumerAssumption
      <3> QED  BY <1>3, <2>2, <3>1, <3>2 DEF CDial, TypeOK, ConsumePcs
    <2> QED  BY <1>3, <2>1, <2>2 DEF CDial
  <1>4. CASE CSwap
    <2>1. cNew \in Conns  BY <1>4 DEF CSwap, LinksOK, TypeOK
    <2> QED  BY <1>4, <2>1, InstallType DEF CSwap, CGoto, TypeOK, ConsumePcs
  <1>5. CASE CReceive
    <2>1. handled' \in [Messages -> Nat]  BY <1>5 DEF CReceive, TypeOK
    <2>2. cpc' \in {"returned", "handle", "top"}
          /\ buf' \in Messages \union {None} /\ held' \in Messages \union {None}
      BY <1>5 DEF CReceive, CGoto, TypeOK
    <2>3. UNCHANGED <<broker, session, sub, verdict, cTries, cNew, monitor, ctxDone, bounds>>
      BY <1>5 DEF CReceive
    <2> QED  BY <2>1, <2>2, <2>3 DEF TypeOK, ConsumePcs
  <1>6. CASE CHandle
    <2>1. retries' \in Nat  BY <1>6 DEF CHandle, TypeOK
    <2> QED  BY <1>6, <2>1 DEF CHandle, CGoto, TypeOK, ConsumePcs, Verdicts
  <1>7. CASE CSettle
    <2>1. Settled \in {"acked", "ready", "dead"}  BY DEF Settled, TypeOK, Verdicts
    <2> QED  BY <1>7, <2>1 DEF CSettle, CGoto, TypeOK, ConsumePcs
  <1>8. CASE MLook \/ MWait
    BY <1>8 DEF MLook, MWait, MGoto, TypeOK, MonitorPcs, ConsumerAssumption
  <1>9. CASE MDial
    <2>1. CASE Open(Fresh) /\ mNew' = Fresh /\ mTries' = 0 /\ MGoto("swap")
      BY <1>9, <2>1, OpenType, FreshType DEF MDial, MGoto, TypeOK, MonitorPcs, ConsumerAssumption
    <2>2. CASE mTries' = mTries + 1 /\ UNCHANGED <<link, channelUp, mNew>>
               /\ MGoto(IF LastAttempt(mTries') THEN "look" ELSE "dial")
      <3>1. mTries' \in 0 .. MaxAttempts  BY <1>9, <2>2 DEF MDial, TypeOK, ConsumerAssumption
      <3>2. mpc' \in {"look", "dial"} /\ (mpc' = "dial" => mTries' < MaxAttempts)
        BY <2>2, <3>1 DEF MGoto, LastAttempt, ConsumerAssumption
      <3> QED  BY <1>9, <2>2, <3>1, <3>2 DEF MDial, TypeOK, MonitorPcs
    <2> QED  BY <1>9, <2>1, <2>2 DEF MDial
  <1>10. CASE MSwap
    <2>1. mNew \in Conns  BY <1>10 DEF MSwap, LinksOK, TypeOK
    <2> QED  BY <1>10, <2>1, InstallType DEF MSwap, MGoto, TypeOK, MonitorPcs
  <1>11. CASE BrokerDown
    <2>1. link' \in [Conns -> {"unused", "up", "cut", "closed"}] /\ failures' \in Nat
      BY <1>11 DEF BrokerDown, Fail, TypeOK
    <2> QED  BY <1>11, <2>1, RecoverType, ZenonT(40) DEF BrokerDown, TypeOK
  <1>12. CASE BrokerReturns \/ Shutdown
    BY <1>12 DEF BrokerReturns, Shutdown, TypeOK
  <1>13. ASSUME NEW g \in Conns, Cut(g) \/ ChannelError(g) \/ Notice(g)  PROVE TypeOK'
    <2>1. CASE Cut(g)
      <3>1. failures' \in Nat  BY <2>1 DEF Cut, Fail, TypeOK
      <3> QED  BY <2>1, <3>1, RecoverType DEF Cut, TypeOK
    <2>2. CASE ChannelError(g)
      <3>1. failures' \in Nat  BY <2>2 DEF ChannelError, Fail, TypeOK
      <3> QED  BY <2>2, <3>1, RecoverType DEF ChannelError, TypeOK
    <2>3. CASE Notice(g)  BY <2>3 DEF Notice, TypeOK
    <2> QED  BY <1>13, <2>1, <2>2, <2>3
  <1>14. ASSUME NEW m \in Messages, Send(m)  PROVE TypeOK'
    BY <1>14 DEF Send, TypeOK
  <1>15. CASE UNCHANGED vars  BY <1>15 DEF vars, TypeOK
  <1> QED
    BY <1>1, <1>2, <1>3, <1>4, <1>5, <1>6, <1>7, <1>8, <1>9, <1>10, <1>11, <1>12, <1>13,
       <1>14, <1>15
    DEF Next, Consume, Monitor, Network
--------------------------------------------------------------------------------
(* The connections.                                                        *)

\* A step that opens nothing and moves no reference keeps LinksOK.
LEMMA FewerLinks ==
    ASSUME TypeOK, LinksOK,
           \A g \in Conns : link'[g] \in {"up", "cut"} => link[g] \in {"up", "cut"},
           link' \in [Conns -> {"unused", "up", "cut", "closed"}],
           \A g \in Conns : link[g] = "closed" => link'[g] = "closed",
           UNCHANGED <<current, cNew, mNew, mpc, watched>>,
           cpc' = "swap" <=> cpc = "swap",
           Subscribed' \/ cpc' = "subscribe" => sub' # None
    PROVE  LinksOK'
  <1>1. NoLeakedConnection'  BY DEF LinksOK, NoLeakedConnection
  <1>2. WatchesCurrent'
    <2>1. watched \in Conns \/ watched = None  BY DEF TypeOK
    <2> QED  BY <2>1 DEF LinksOK, WatchesCurrent
  <1> QED  BY <1>1, <1>2 DEF LinksOK

\* Installing a connection closes the one it replaces.
LEMMA InstallLinks ==
    ASSUME TypeOK, NEW g \in Conns, Install(g)
    PROVE  /\ current' = g /\ link'[current] = "closed"
           /\ \A h \in Conns : h # current => link'[h] = link[h]
           /\ \A h \in Conns : link[h] = "closed" => link'[h] = "closed"
  BY DEF Install, TypeOK

\* A new connection is none of those that are referred to.
LEMMA OpenLinks ==
    ASSUME ConsumerAssumption, TypeOK, Open(Fresh)
    PROVE  /\ link'[Fresh] = "up" /\ channelUp'[Fresh]
           /\ \A h \in Conns \ {Fresh} : link'[h] = link[h] /\ channelUp'[h] = channelUp[h]
           /\ \A h \in {current, sub, watched, cNew, mNew} \ {None} : 
                 link'[h] = link[h] /\ channelUp'[h] = channelUp[h]
  <1>1. Fresh \in Conns /\ Fresh \notin {current, sub, watched, cNew, mNew}  BY FreshType
  <1>2. {current, sub, watched, cNew, mNew} \ {None} \subseteq Conns  BY DEF TypeOK
  <1>3. \A h \in Conns \ {Fresh} : link'[h] = link[h] /\ channelUp'[h] = channelUp[h]
    BY DEF Open, TypeOK
  <1> QED  BY <1>1, <1>2, <1>3 DEF Open, TypeOK

\* Every step keeps LinksOK.
LEMMA LinksStep ==
    ASSUME ConsumerAssumption, TypeOK, LinksOK, HoldingOK, [Next]_vars, TypeOK'
    PROVE  LinksOK'
  <1> USE DEF broker, session, consume, monitor, bounds
  <1>1. CASE CTop \/ CPause \/ CSubscribe
    BY <1>1, FewerLinks DEF CTop, CPause, CSubscribe, CGoto, LinksOK, Subscribed, TypeOK
  <1>2. CASE CSetup
    <2>1. sub' # None  BY <1>2 DEF CSetup, TypeOK, ConsumerAssumption
    <2> QED  BY <1>2, <2>1, FewerLinks DEF CSetup, CGoto, TypeOK
  <1>3. CASE CDial
    <2>1. cNew = None  BY <1>3 DEF CDial, LinksOK
    <2>2. CASE Open(Fresh) /\ cNew' = Fresh /\ CGoto("swap")
      <3>1. Fresh \in Conns /\ Fresh # watched  BY FreshType
      <3>2. UNCHANGED <<current, mNew, mpc, watched, sub>>  BY <1>3 DEF CDial
      <3>3. NoLeakedConnection'
        BY <2>1, <2>2, <3>1, <3>2, OpenLinks DEF LinksOK, NoLeakedConnection, TypeOK,
           ConsumerAssumption
      <3>4. WatchesCurrent'
        <4>1. watched # None => link'[watched] = link[watched]  BY <2>2, OpenLinks
        <4> QED  BY <3>2, <4>1 DEF LinksOK, WatchesCurrent
      <3>5. cNew' # None /\ cpc' = "swap"  BY <2>2, <3>1 DEF CGoto, ConsumerAssumption
      <3> QED  BY <3>2, <3>3, <3>4, <3>5 DEF LinksOK, Subscribed
    <2>3. CASE UNCHANGED <<link, channelUp, cNew>> /\ cpc' \in {"pause", "dial"}
      BY <1>3, <2>3, FewerLinks DEF CDial, Subscribed, TypeOK
    <2> QED  BY <1>3, <2>2, <2>3 DEF CDial, CGoto
  <1>4. CASE CSwap
    <2>1. cNew \in Conns  BY <1>4 DEF CSwap, LinksOK, TypeOK
    <2>2. /\ current' = cNew /\ cNew' = None /\ cpc' = "pause"
          /\ UNCHANGED <<mNew, mpc, watched, sub>> /\ Install(cNew)
      BY <1>4, <2>1, InstallLinks DEF CSwap, CGoto
    <2>3. NoLeakedConnection'
      BY <2>1, <2>2, InstallLinks DEF LinksOK, NoLeakedConnection, TypeOK
    <2>4. WatchesCurrent'
      <3>1. mpc = "wait" => watched \in Conns  BY DEF LinksOK, TypeOK
      <3>2. mpc = "wait" => link'[watched] = "closed"
        BY <2>1, <2>2, <3>1, InstallLinks DEF LinksOK, WatchesCurrent, TypeOK
      <3> QED  BY <2>2, <3>2 DEF WatchesCurrent
    <2> QED  BY <2>2, <2>3, <2>4 DEF LinksOK, Subscribed
  <1>5. CASE CReceive \/ CHandle \/ CSettle
    <2>1. Subscribed /\ sub # None  BY <1>5 DEF CReceive, CHandle, CSettle, Subscribed, LinksOK
    <2>2. cpc # "swap" /\ cpc' # "swap" /\ UNCHANGED <<session, sub, cNew, monitor>>
      BY <1>5 DEF CReceive, CHandle, CSettle, CGoto
    <2> QED  BY <2>1, <2>2, FewerLinks DEF TypeOK
  <1>6. CASE MLook
    BY <1>6 DEF MLook, MGoto, LinksOK, NoLeakedConnection, WatchesCurrent, Subscribed, TypeOK,
       ConsumerAssumption
  <1>7. CASE MWait
    BY <1>7 DEF MWait, MGoto, LinksOK, NoLeakedConnection, WatchesCurrent, Subscribed
  <1>8. CASE MDial
    <2>1. mNew = None  BY <1>8 DEF MDial, LinksOK
    <2>2. CASE Open(Fresh) /\ mNew' = Fresh /\ MGoto("swap")
      <3>1. Fresh \in Conns  BY FreshType
      <3>2. UNCHANGED <<current, cNew, cpc, watched, sub>>  BY <1>8 DEF MDial
      <3>3. NoLeakedConnection'
        BY <2>1, <2>2, <3>1, <3>2, OpenLinks DEF LinksOK, NoLeakedConnection, TypeOK,
           ConsumerAssumption
      <3>4. mNew' # None /\ mpc' = "swap"  BY <2>2, <3>1 DEF MGoto, ConsumerAssumption
      <3> QED  BY <3>2, <3>3, <3>4 DEF LinksOK, WatchesCurrent, Subscribed
    <2>3. CASE UNCHANGED <<link, channelUp, mNew>> /\ mpc' \in {"look", "dial"}
      BY <1>8, <2>3 DEF MDial, LinksOK, NoLeakedConnection, WatchesCurrent, Subscribed
    <2> QED  BY <1>8, <2>2, <2>3 DEF MDial, MGoto
  <1>9. CASE MSwap
    <2>1. mNew \in Conns  BY <1>9 DEF MSwap, LinksOK, TypeOK
    <2>2. /\ current' = mNew /\ mNew' = None /\ mpc' = "look"
          /\ UNCHANGED <<cNew, cpc, watched, sub>> /\ Install(mNew)
      BY <1>9, <2>1, InstallLinks DEF MSwap, MGoto
    <2>3. NoLeakedConnection'
      BY <2>1, <2>2, InstallLinks DEF LinksOK, NoLeakedConnection, TypeOK
    <2> QED  BY <2>2, <2>3 DEF LinksOK, WatchesCurrent, Subscribed
  <1>10. CASE BrokerDown
    <2>1. \A g \in Conns : link'[g] = IF link[g] = "up" THEN "cut" ELSE link[g]
      BY <1>10 DEF BrokerDown
    <2> QED  BY <1>10, <2>1, FewerLinks DEF BrokerDown, LinksOK, Subscribed, TypeOK
  <1>11. CASE BrokerReturns \/ Shutdown \/ UNCHANGED vars
    BY <1>11, FewerLinks DEF BrokerReturns, Shutdown, vars, LinksOK, Subscribed, TypeOK
  <1>12. ASSUME NEW g \in Conns, Cut(g) \/ ChannelError(g) \/ Notice(g)  PROVE LinksOK'
    <2>1. \A h \in Conns : link'[h] # link[h] => h = g /\ link[g] \in {"up", "cut"}
      BY <1>12 DEF Cut, ChannelError, Notice, TypeOK
    <2> QED
      BY <1>12, <2>1, FewerLinks DEF Cut, ChannelError, Notice, LinksOK, Subscribed, TypeOK
  <1>13. ASSUME NEW m \in Messages, Send(m)  PROVE LinksOK'
    BY <1>13, FewerLinks DEF Send, LinksOK, Subscribed, TypeOK
  <1> QED
    BY <1>1, <1>2, <1>3, <1>4, <1>5, <1>6, <1>7, <1>8, <1>9, <1>10, <1>11, <1>12, <1>13
    DEF Next, Consume, Monitor, Network
--------------------------------------------------------------------------------
(* What the broker counts as unacked.                                      *)

Idle == cpc \notin {"receive", "handle", "settle", "returned"}

\* Without a subscription there is nothing in hand.
LEMMA IdleHolds ==
    ASSUME HoldingOK, Idle
    PROVE  buf = None /\ held = None /\ \A m \in Messages : owner[m] = None
  BY DEF HoldingOK, Idle, Subscribed

\* A step of an idle goroutine takes nothing in hand.
LEMMA IdleStep ==
    ASSUME ConsumerAssumption, HoldingOK, Idle, cpc' \notin {"handle", "settle"},
           UNCHANGED <<place, owner, buf, held>>
    PROVE  HoldingOK'
  <1>1. buf' = None /\ held' = None /\ \A m \in Messages : owner'[m] = None
    BY IdleHolds
  <1>2. \A m \in Messages : m # None  BY DEF ConsumerAssumption
  <1> QED  BY <1>1, <1>2 DEF HoldingOK

\* A step that leaves the subscription as live as it was disturbs nothing.
LEMMA SameSubscription ==
    ASSUME HoldingOK, TypeOK, LinksOK,
           UNCHANGED <<place, owner, buf, held, cpc, sub>>,
           sub # None => (Live(sub)' <=> Live(sub))
    PROVE  HoldingOK'
  <1>1. Subscribed => (Live(sub)' <=> Live(sub))  BY DEF LinksOK
  <1>2. Subscribed' <=> Subscribed  BY DEF Subscribed
  <1>3. \A m \in Messages : owner[m] # None => sub # None  BY DEF HoldingOK
  <1> QED  BY <1>1, <1>2, <1>3 DEF HoldingOK

\* The connections of G are lost, and what was on them is queued again.
LEMMA LossHolds ==
    ASSUME HoldingOK, TypeOK, LinksOK, NEW G, Recover(G), UNCHANGED <<buf, held, sub, cpc>>,
           \A g \in G : ~Live(g)',
           \A g \in Conns \ G : Live(g)' <=> Live(g)
    PROVE  HoldingOK'
  <1>1. Subscribed' <=> Subscribed  BY DEF Subscribed
  <1>2. Subscribed /\ Live(sub)' => sub \notin G /\ Live(sub)  BY DEF LinksOK, TypeOK
  <1>3. ASSUME NEW m \in Messages
        PROVE  /\ place'[m] = "unacked" <=> owner'[m] # None
               /\ owner'[m] # None => /\ owner'[m] = sub' /\ Live(sub)'
                                      /\ \/ cpc' = "returned"
                                         \/ Subscribed' /\ m \in {buf', held'}
               /\ Subscribed' /\ Live(sub)' /\ m \in {buf', held'} => owner'[m] = sub'
    <2>1. place[m] = "unacked" <=> owner[m] # None  BY DEF HoldingOK
    <2>2. /\ place'[m] = IF place[m] = "unacked" /\ owner[m] \in G THEN "ready" ELSE place[m]
          /\ owner'[m] = IF owner[m] \in G THEN None ELSE owner[m]
      BY DEF Recover
    <2>3. owner[m] # None => owner[m] = sub /\ Live(sub)
                             /\ (cpc = "returned" \/ (Subscribed /\ m \in {buf, held}))
      BY DEF HoldingOK
    <2>4. owner'[m] # None => owner[m] # None /\ owner[m] \notin G /\ owner[m] \in Conns
      BY <2>2 DEF TypeOK
    <2>5. Subscribed /\ Live(sub) /\ m \in {buf, held} => owner[m] = sub  BY DEF HoldingOK
    <2>6. Subscribed => sub # None  BY DEF LinksOK
    <2>7. place'[m] = "unacked" <=> owner'[m] # None
      <3>1. CASE owner[m] = None  BY <2>1, <2>2, <3>1
      <3>2. CASE owner[m] # None /\ owner[m] \in G  BY <2>1, <2>2, <3>2
      <3>3. CASE owner[m] # None /\ owner[m] \notin G  BY <2>1, <2>2, <3>3
      <3> QED  BY <3>1, <3>2, <3>3
    <2>8. owner'[m] # None => owner'[m] = sub' /\ Live(sub)'
                              /\ (cpc' = "returned" \/ (Subscribed' /\ m \in {buf', held'}))
      <3> SUFFICES ASSUME owner'[m] # None
                   PROVE  owner'[m] = sub' /\ Live(sub)'
                          /\ (cpc' = "returned" \/ (Subscribed' /\ m \in {buf', held'}))
        OBVIOUS
      <3>1. owner[m] = sub /\ sub \in Conns \ G /\ Live(sub) /\ owner'[m] = owner[m]
        BY <2>2, <2>3, <2>4
      <3>2. Live(sub)'  BY <3>1 DEF Live
      <3> QED  BY <1>1, <2>3, <3>1, <3>2
    <2>9. Subscribed' /\ Live(sub)' /\ m \in {buf', held'} => owner'[m] = sub'
      BY <1>1, <1>2, <2>2, <2>5
    <2> QED  BY <2>7, <2>8, <2>9
  <1> QED  BY <1>3 DEF HoldingOK

\* The exchange of a connection is such a loss.
LEMMA InstallHolds ==
    ASSUME HoldingOK, TypeOK, LinksOK, NEW g \in Conns, Install(g),
           UNCHANGED <<buf, held, sub, cpc>>
    PROVE  HoldingOK'
  <1>1. /\ Recover({current})
        /\ \A h \in {current} : ~Live(h)'
        /\ \A h \in Conns \ {current} : Live(h)' <=> Live(h)
    BY DEF Install, Live, TypeOK
  <1> QED  BY <1>1, LossHolds

\* Every step keeps HoldingOK.
LEMMA HoldingStep ==
    ASSUME ConsumerAssumption, TypeOK, LinksOK, HoldingOK, [Next]_vars
    PROVE  HoldingOK'
  <1> USE DEF broker, session, consume, monitor, bounds
  <1>1. CASE CTop \/ CPause \/ CSubscribe \/ CSetup
    BY <1>1, IdleStep DEF CTop, CPause, CSubscribe, CSetup, CGoto, Idle
  <1>2. CASE CDial
    BY <1>2, IdleStep DEF CDial, CGoto, Idle
  <1>3. CASE CSwap
    <2>1. Idle /\ cpc' = "pause" /\ Recover({current}) /\ UNCHANGED <<buf, held>>
      BY <1>3 DEF CSwap, CGoto, Idle, Install
    <2>2. \A m \in Messages : owner[m] = None /\ place[m] # "unacked"
      BY <2>1, IdleHolds DEF HoldingOK
    <2>3. place' = place /\ owner' = owner
      <3>1. place' = [m \in Messages |-> place[m]] /\ owner' = [m \in Messages |-> owner[m]]
        BY <2>1, <2>2 DEF Recover, TypeOK
      <3> QED  BY <3>1 DEF TypeOK
    <2> QED  BY <2>1, <2>3, IdleStep
  <1>4. CASE CReceive
    <2>1. cpc = "receive" /\ held = None /\ Subscribed /\ UNCHANGED <<place, owner, sub, session>>
      BY <1>4 DEF CReceive, HoldingOK, Subscribed
    <2>2. CASE cpc' = "returned" /\ UNCHANGED <<buf, held>>
      BY <2>1, <2>2 DEF HoldingOK, Subscribed, Live
    <2>3. CASE buf # None /\ held' = buf /\ buf' = None /\ cpc' = "handle"
      <3>1. Subscribed' /\ (Live(sub)' <=> Live(sub))  BY <2>1, <2>3 DEF Subscribed, Live
      <3> QED  BY <2>1, <2>3, <3>1 DEF HoldingOK, ConsumerAssumption
    <2>4. CASE DeliveriesClosed /\ buf' = None /\ cpc' = "top" /\ UNCHANGED held
      <3>1. ~Live(sub)  BY <2>4 DEF DeliveriesClosed, Live
      <3>2. \A m \in Messages : owner[m] = None /\ place[m] # "unacked"
        BY <2>1, <3>1 DEF HoldingOK
      <3>3. ~Subscribed'  BY <2>4 DEF Subscribed
      <3> QED  BY <2>1, <2>4, <3>2, <3>3 DEF HoldingOK
    <2> QED  BY <1>4, <2>2, <2>3, <2>4 DEF CReceive, CGoto
  <1>5. CASE CHandle
    <2>1. /\ cpc = "handle" /\ cpc' = "settle" /\ Subscribed /\ Subscribed'
          /\ UNCHANGED <<place, owner, sub, session, buf, held>>
      BY <1>5 DEF CHandle, CGoto, Subscribed
    <2>2. Live(sub)' <=> Live(sub)  BY <2>1 DEF Live
    <2> QED  BY <2>1, <2>2 DEF HoldingOK
  <1>6. CASE CSettle
    <2>1. /\ cpc = "settle" /\ Subscribed /\ held' = None /\ buf = None /\ held \in Messages
          /\ UNCHANGED <<sub, session, buf>>
      BY <1>6 DEF CSettle, Subscribed, HoldingOK, TypeOK
    <2>2. Live(sub)' <=> Live(sub)  BY <2>1 DEF Live
    <2>3. \A m \in Messages : owner[m] # None => m = held /\ Live(sub)
      BY <2>1 DEF HoldingOK, ConsumerAssumption
    <2>4. CASE /\ Live(sub) /\ cpc' = "receive"
               /\ place' = [place EXCEPT ![held] = Settled]
               /\ owner' = [owner EXCEPT ![held] = None]
      <3>1. Settled # "unacked"  BY DEF Settled, TypeOK, Verdicts
      <3>2. \A m \in Messages : owner'[m] = None  BY <2>1, <2>3, <2>4 DEF TypeOK
      <3>3. \A m \in Messages : place'[m] # "unacked"
        <4>1. \A m \in Messages : m # held => place[m] # "unacked"  BY <2>3 DEF HoldingOK
        <4> QED  BY <2>1, <2>4, <3>1, <4>1 DEF TypeOK
      <3>4. \A m \in Messages : m # None  BY DEF ConsumerAssumption
      <3> QED  BY <2>1, <2>4, <3>2, <3>3, <3>4 DEF HoldingOK
    <2>5. CASE ~Live(sub) /\ cpc' \in {"receive", "failed"} /\ UNCHANGED <<place, owner>>
      <3>1. \A m \in Messages : owner[m] = None /\ place[m] # "unacked" /\ m # None
        BY <2>3, <2>5 DEF HoldingOK, ConsumerAssumption
      <3> QED  BY <2>1, <2>5, <3>1 DEF HoldingOK
    <2>6. \/ /\ Live(sub) /\ cpc' = "receive"
             /\ place' = [place EXCEPT ![held] = Settled]
             /\ owner' = [owner EXCEPT ![held] = None]
          \/ ~Live(sub) /\ cpc' \in {"receive", "failed"} /\ UNCHANGED <<place, owner>>
      BY <1>6 DEF CSettle, CGoto, Live
    <2> QED  BY <2>4, <2>5, <2>6
  <1>7. CASE MLook \/ MWait \/ BrokerReturns \/ Shutdown \/ UNCHANGED vars
    BY <1>7, SameSubscription DEF MLook, MWait, BrokerReturns, Shutdown, vars, Live
  <1>8. CASE MDial
    <2>1. UNCHANGED <<place, owner, buf, held, cpc, sub>>  BY <1>8 DEF MDial
    <2>2. sub # None => (Live(sub)' <=> Live(sub))
      <3>1. CASE Open(Fresh)  BY <2>1, <3>1, OpenLinks DEF Live
      <3>2. CASE UNCHANGED <<link, channelUp>>  BY <2>1, <3>2 DEF Live
      <3> QED  BY <1>8, <3>1, <3>2 DEF MDial
    <2> QED  BY <2>1, <2>2, SameSubscription
  <1>9. CASE MSwap
    <2>1. mNew \in Conns  BY <1>9 DEF MSwap, LinksOK, TypeOK
    <2> QED  BY <1>9, <2>1, InstallHolds DEF MSwap
  <1>10. CASE BrokerDown
    <2>1. \A g \in Conns : ~Live(g)'  BY <1>10 DEF BrokerDown, Live
    <2> QED  BY <1>10, <2>1, LossHolds DEF BrokerDown
  <1>11. ASSUME NEW g \in Conns, Cut(g) \/ ChannelError(g) \/ Notice(g)  PROVE HoldingOK'
    <2>1. CASE Cut(g) \/ ChannelError(g)
      <3>1. /\ Recover({g}) /\ UNCHANGED <<buf, held, sub, cpc>>
            /\ \A h \in {g} : ~Live(h)'
            /\ \A h \in Conns \ {g} : Live(h)' <=> Live(h)
        BY <2>1 DEF Cut, ChannelError, Live, TypeOK
      <3> QED  BY <3>1, LossHolds
    <2>2. CASE Notice(g)
      <3>1. sub # None => (Live(sub)' <=> Live(sub))  BY <2>2 DEF Notice, Live, TypeOK
      <3> QED  BY <2>2, <3>1, SameSubscription DEF Notice
    <2> QED  BY <1>11, <2>1, <2>2
  <1>12. ASSUME NEW m \in Messages, Send(m)  PROVE HoldingOK'
    <2>1. /\ Subscribed /\ Live(sub) /\ UNCHANGED <<sub, session, held, cpc>> /\ buf' = m
          /\ place' = [place EXCEPT ![m] = "unacked"] /\ owner' = [owner EXCEPT ![m] = sub]
          /\ \A n \in Messages : owner[n] # sub
      BY <1>12 DEF Send
    <2>2. Subscribed' /\ Live(sub)' /\ sub # None  BY <2>1 DEF Subscribed, Live, LinksOK
    <2>3. held = None /\ cpc = "receive"
      <3>1. held \notin Messages  BY <2>1 DEF HoldingOK
      <3> QED  BY <2>1, <3>1 DEF HoldingOK, Subscribed, TypeOK
    <2>4. \A n \in Messages : owner[n] = None /\ place[n] # "unacked" /\ n # None
      BY <2>1 DEF HoldingOK, ConsumerAssumption
    <2>5. \A n \in Messages : /\ owner'[n] = IF n = m THEN sub ELSE None
                              /\ place'[n] = "unacked" <=> n = m
      BY <2>1, <2>4 DEF TypeOK
    <2> QED  BY <2>1, <2>2, <2>3, <2>4, <2>5 DEF HoldingOK, Subscribed
  <1> QED
    BY <1>1, <1>2, <1>3, <1>4, <1>5, <1>6, <1>7, <1>8, <1>9, <1>10, <1>11, <1>12
    DEF Next, Consume, Monitor, Network
--------------------------------------------------------------------------------
(* How often a message may be handled.                                     *)

\* Due counts a stale delivery and the message.
LEMMA DueType == \A m : Due(m) \in {0, 1, 2}
  BY DEF Due

\* What is due may grow by as much as the budget does.
LEMMA Within ==
    ASSUME NEW h \in Nat, NEW d \in Nat, NEW e \in Nat, NEW n \in Nat,
           NEW f \in Nat, NEW r \in Nat, NEW f1 \in Nat, NEW r1 \in Nat,
           h + d <= 1 + f + r, f1 + r1 >= f + r + n, e <= d + n
    PROVE  h + e <= 1 + f1 + r1
  OBVIOUS

\* A step that handles nothing keeps BudgetOK if no message has more to come than
\* failures and handler errors have been added.
LEMMA NothingMoreDue ==
    ASSUME TypeOK, TypeOK', BudgetOK, handled' = handled,
           NEW n \in {0, 1}, failures' + retries' >= failures + retries + n,
           \A m \in Messages : Due(m)' <= Due(m) + n,
           \A m \in Messages : place'[m] \in {"acked", "dead"} \/ held' = m
                               => place[m] \in {"acked", "dead"} \/ held = m
    PROVE  BudgetOK'
  <1>1. ASSUME NEW m \in Messages
        PROVE  handled'[m] + Due(m)' <= 1 + failures' + retries'
    <2>1. handled[m] + Due(m) <= 1 + failures + retries  BY DEF BudgetOK
    <2>2. handled[m] \in Nat /\ failures \in Nat /\ retries \in Nat
          /\ failures' \in Nat /\ retries' \in Nat
      BY DEF TypeOK
    <2>3. Due(m) \in {0, 1, 2} /\ Due(m)' \in {0, 1, 2}  BY DEF Due
    <2>4. Due(m)' <= Due(m) + n /\ handled'[m] = handled[m]  OBVIOUS
    <2>5. Due(m) \in Nat /\ Due(m)' \in Nat /\ n \in Nat  BY <2>3
    <2>6. handled[m] + Due(m)' <= 1 + failures' + retries'
      BY <2>1, <2>2, <2>4, <2>5, Within
    <2> QED  BY <2>4, <2>6
  <1> QED  BY <1>1 DEF BudgetOK

\* A channel the library has given up stays so.
LEMMA SameDue ==
    ASSUME ConsumerAssumption, TypeOK, TypeOK', BudgetOK, UNCHANGED <<cpc, buf, held, verdict, place, handled>>,
           failures' + retries' >= failures + retries,
           Subscribed /\ DeliveriesClosed => DeliveriesClosed',
           buf # None => cpc \in {"receive", "returned"}
    PROVE  BudgetOK'
  <1>1. \A m \in Messages : Due(m)' <= Due(m) + 0
    <2> SUFFICES ASSUME NEW m \in Messages  PROVE Due(m)' <= Due(m)
      BY DueType
    <2>1. CASE LastHandled'  BY <2>1 DEF Due
    <2>2. CASE ~LastHandled'
      <3>1. ~LastHandled  BY <2>2 DEF LastHandled, Subscribed
      <3>2. buf = m => (DeliveriesClosed => DeliveriesClosed')
        BY <3>1 DEF Subscribed, LastHandled, ConsumerAssumption
      <3> QED  BY <2>2, <3>1, <3>2 DEF Due
    <2> QED  BY <2>1, <2>2
  <1>2. failures' + retries' >= failures + retries + 0
    <2>1. failures + retries \in Nat  BY DEF TypeOK
    <2> QED  BY <2>1
  <1> QED  BY <1>1, <1>2, NothingMoreDue

\* An idle goroutine that takes nothing in hand.
LEMMA IdleDue ==
    ASSUME ConsumerAssumption, TypeOK, TypeOK', BudgetOK, HoldingOK, Idle,
           cpc # "failed", cpc' \notin {"handle", "settle"},
           UNCHANGED <<buf, held, place, handled, failures, retries>>
    PROVE  BudgetOK'
  <1>1. buf = None /\ held = None  BY IdleHolds
  <1>2. \A m \in Messages : Due(m)' <= Due(m) + 0
    <2>1. \A m \in Messages : m # None  BY DEF ConsumerAssumption
    <2>2. ~LastHandled /\ cpc # "settle"  BY DEF Idle, LastHandled
    <2> QED  BY <1>1, <2>1, <2>2 DEF Due
  <1>3. failures' + retries' >= failures + retries + 0  BY DEF TypeOK
  <1> QED  BY <1>2, <1>3, NothingMoreDue

\* One failure queues a message again once at most.
LEMMA FailureDue ==
    ASSUME TypeOK, TypeOK', BudgetOK, HoldingOK, NEW G, Recover(G), Fail,
           UNCHANGED <<cpc, buf, held, verdict, handled, retries>>,
           Subscribed /\ DeliveriesClosed => DeliveriesClosed'
    PROVE  BudgetOK'
  <1>1. ASSUME NEW m \in Messages  PROVE Due(m)' <= Due(m) + 1
    <2>1. CASE LastHandled'  BY <2>1 DEF Due
    <2>2. CASE ~LastHandled'
      <3>1. ~LastHandled  BY <2>2 DEF LastHandled, Subscribed
      <3>2. CASE buf = m
        BY <2>2, <3>1, <3>2 DEF Due
      <3>3. CASE buf # m
        BY <2>2, <3>1, <3>3 DEF Due
      <3> QED  BY <3>2, <3>3
    <2> QED  BY <2>1, <2>2
  <1>2. failures' + retries' >= failures + retries + 1  BY DEF Fail, TypeOK
  <1>3. \A m \in Messages : place'[m] \in {"acked", "dead"} => place[m] \in {"acked", "dead"}
    BY DEF Recover
  <1> QED  BY <1>1, <1>2, <1>3, NothingMoreDue

\* The exchange of the connection costs nothing: a delivery that is being handled
\* on it is the last one, and one that was not read is sent again instead.
LEMMA InstallDue ==
    ASSUME ConsumerAssumption, TypeOK, TypeOK', LinksOK, BudgetOK, HoldingOK,
           NEW g \in Conns, Install(g),
           UNCHANGED <<cpc, sub, buf, held, verdict, handled, failures, retries>>
    PROVE  BudgetOK'
  <1>0. /\ Recover({current}) /\ link'[current] = "closed"
        /\ \A h \in Conns : link[h] = "closed" \/ ~channelUp[h]
                            => link'[h] = "closed" \/ ~channelUp'[h]
    BY DEF Install, TypeOK
  <1>1. Subscribed /\ DeliveriesClosed => DeliveriesClosed'
    BY <1>0 DEF LinksOK, DeliveriesClosed, TypeOK
  <1>2. ASSUME NEW m \in Messages  PROVE Due(m)' <= Due(m) + 0
    <2>1. CASE LastHandled'  BY <2>1 DEF Due
    <2>2. CASE ~LastHandled'
      <3>1. ~LastHandled  BY <1>1, <2>2 DEF LastHandled, Subscribed
      <3>2. CASE place'[m] = place[m]
        <4>1. buf = m => Subscribed
          BY <3>1 DEF HoldingOK, LastHandled, Subscribed, ConsumerAssumption
        <4> QED  BY <1>1, <2>2, <3>1, <3>2, <4>1 DEF Due
      <3>3. CASE place'[m] # place[m]
        <4>1. owner[m] = current /\ place'[m] = "ready"
          BY <1>0, <3>3 DEF Recover
        <4>2. owner[m] = sub /\ Subscribed /\ m \in {buf, held}
          BY <3>1, <4>1 DEF HoldingOK, LastHandled, TypeOK, ConsumerAssumption
        <4>3. DeliveriesClosed'  BY <1>0, <4>1, <4>2 DEF DeliveriesClosed
        <4>4. cpc = "receive"  BY <2>2, <4>2, <4>3 DEF LastHandled, Subscribed
        <4>5. buf = m  BY <4>2, <4>4 DEF HoldingOK, ConsumerAssumption
        <4> QED  BY <2>2, <3>1, <4>3, <4>5 DEF Due
      <3> QED  BY <3>2, <3>3
    <2> QED  BY <2>1, <2>2
  <1>3. failures' + retries' >= failures + retries + 0  BY DEF TypeOK
  <1>4. \A m \in Messages : place'[m] \in {"acked", "dead"} => place[m] \in {"acked", "dead"}
    BY <1>0 DEF Recover
  <1> QED  BY <1>2, <1>3, <1>4, NothingMoreDue

\* Every step keeps BudgetOK.
LEMMA BudgetStep ==
    ASSUME ConsumerAssumption, TypeOK, TypeOK', LinksOK, HoldingOK, HoldingOK', BudgetOK,
           [Next]_vars
    PROVE  BudgetOK'
  <1> USE DEF broker, session, consume, monitor, bounds
  <1>0. buf # None => cpc \in {"receive", "returned"}  BY DEF HoldingOK
  <1>1. CASE CTop \/ CPause \/ CSubscribe \/ CSetup
    BY <1>1, IdleDue DEF CTop, CPause, CSubscribe, CSetup, CGoto, Idle
  <1>2. CASE CDial
    BY <1>2, IdleDue DEF CDial, CGoto, Idle
  <1>3. CASE CSwap
    <2>1. Idle /\ cpc # "failed" /\ cpc' = "pause" /\ Recover({current})
          /\ UNCHANGED <<buf, held, handled, failures, retries>>
      BY <1>3 DEF CSwap, CGoto, Idle, Install
    <2>2. \A m \in Messages : place[m] # "unacked"
      BY <2>1, IdleHolds DEF HoldingOK
    <2>3. place' = place
      <3>1. place' = [m \in Messages |-> place[m]]  BY <2>1, <2>2 DEF Recover
      <3> QED  BY <3>1 DEF TypeOK
    <2> QED  BY <2>1, <2>3, IdleDue
  <1>4. CASE CReceive
    <2>1. /\ cpc = "receive" /\ held = None /\ Subscribed /\ ~LastHandled
          /\ UNCHANGED <<place, sub, session, verdict, failures, retries>>
      BY <1>4 DEF CReceive, HoldingOK, Subscribed, LastHandled
    <2>2. CASE cpc' = "returned" /\ UNCHANGED <<buf, held, handled>>
      <3>1. \A m \in Messages : Due(m)' = 0  BY <2>2 DEF Due, LastHandled
      <3>2. \A m \in Messages : Due(m)' <= Due(m) + 0  BY <3>1, DueType
      <3>3. failures' + retries' >= failures + retries + 0  BY <2>1 DEF TypeOK
      <3> QED  BY <2>1, <2>2, <3>2, <3>3, NothingMoreDue
    <2>3. CASE /\ buf # None /\ held' = buf /\ buf' = None /\ cpc' = "handle"
               /\ handled' = [handled EXCEPT ![buf] = @ + 1]
      <3>1. buf \in Messages /\ \A m \in Messages : m # None
        BY <2>3 DEF TypeOK, ConsumerAssumption
      <3>2. \A m \in Messages : handled'[m] = IF m = buf THEN handled[m] + 1 ELSE handled[m]
        BY <2>3, <3>1 DEF TypeOK
      <3>3. DeliveriesClosed' <=> DeliveriesClosed  BY <2>1 DEF DeliveriesClosed
      <3>4. Due(buf) \in {1, 2} /\ Due(held)' <= Due(buf) - 1
        <4>1. place[buf] = "ready" => Due(held)' = IF DeliveriesClosed THEN 0 ELSE 1
          BY <2>1, <2>3, <3>1, <3>3 DEF Due, LastHandled
        <4>2. place[buf] # "ready" => Due(held)' = 0
          BY <2>1, <2>3, <3>1 DEF Due, LastHandled
        <4>3. Due(buf) = IF place[buf] = "ready" /\ ~DeliveriesClosed THEN 2 ELSE 1
          BY <2>1 DEF Due
        <4> QED  BY <4>1, <4>2, <4>3
      <3>5. \A m \in Messages : m # buf => Due(m)' <= Due(m)
        BY <2>1, <2>3, <3>1 DEF Due, LastHandled
      <3>6. ASSUME NEW m \in Messages
            PROVE  handled'[m] + Due(m)' <= 1 + failures' + retries'
        <4>1. handled[m] + Due(m) <= 1 + failures + retries  BY DEF BudgetOK
        <4>2. handled[m] \in Nat /\ failures \in Nat /\ retries \in Nat  BY DEF TypeOK
        <4>3. Due(m) \in {0, 1, 2} /\ Due(m)' \in {0, 1, 2}  BY DEF Due
        <4>4. CASE m = buf
          <5>1. Due(m) \in {1, 2} /\ Due(m)' <= Due(m) - 1 /\ handled'[m] = handled[m] + 1
            BY <2>3, <3>2, <3>4, <4>4 DEF Due
          <5> QED  BY <2>1, <4>1, <4>2, <4>3, <5>1
        <4>5. CASE m # buf
          <5>1. Due(m)' <= Due(m) /\ handled'[m] = handled[m]  BY <3>2, <3>5, <4>5
          <5> QED  BY <2>1, <4>1, <4>2, <4>3, <5>1
        <4> QED  BY <4>4, <4>5
      <3>7. ASSUME NEW m \in Messages, place'[m] \in {"acked", "dead"} \/ held' = m
            PROVE  handled'[m] > 0
        <4>1. handled[m] \in Nat /\ (place[m] \in {"acked", "dead"} => handled[m] > 0)
          BY DEF TypeOK, BudgetOK
        <4> QED  BY <2>1, <2>3, <3>2, <3>7, <4>1
      <3> QED  BY <3>6, <3>7 DEF BudgetOK
    <2>4. CASE DeliveriesClosed /\ buf' = None /\ cpc' = "top" /\ UNCHANGED <<held, handled>>
      <3>1. \A m \in Messages : place[m] # "unacked" /\ m # None
        BY <2>1, <2>4 DEF HoldingOK, DeliveriesClosed, Live, ConsumerAssumption
      <3>2. \A m \in Messages : Due(m)' <= Due(m) + 0
        BY <2>1, <2>4, <3>1 DEF Due, LastHandled
      <3>3. failures' + retries' >= failures + retries + 0  BY <2>1 DEF TypeOK
      <3> QED  BY <2>1, <2>4, <3>2, <3>3, NothingMoreDue
    <2> QED  BY <1>4, <2>2, <2>3, <2>4 DEF CReceive, CGoto
  <1>5. CASE CHandle
    <2>1. /\ cpc = "handle" /\ cpc' = "settle" /\ held # None /\ buf = None
          /\ UNCHANGED <<place, sub, session, buf, held, handled, failures>>
      BY <1>5 DEF CHandle, CGoto, HoldingOK
    <2>2. DeliveriesClosed' <=> DeliveriesClosed  BY <2>1 DEF DeliveriesClosed
    <2>3. \A m \in Messages : m # None  BY DEF ConsumerAssumption
    <2>4. CASE verdict' # "retry" /\ UNCHANGED retries
      <3>1. \A m \in Messages : Due(m)' <= Due(m) + 0
        BY <2>1, <2>2, <2>3, <2>4 DEF Due, LastHandled
      <3>2. failures' + retries' >= failures + retries + 0  BY <2>1, <2>4 DEF TypeOK
      <3> QED  BY <2>1, <3>1, <3>2, NothingMoreDue
    <2>5. CASE retries' = retries + 1
      <3>1. \A m \in Messages : Due(m)' <= Due(m) + 1
        BY <2>1, <2>2, <2>3 DEF Due, LastHandled
      <3>2. failures' + retries' >= failures + retries + 1  BY <2>1, <2>5 DEF TypeOK
      <3> QED  BY <2>1, <3>1, <3>2, NothingMoreDue
    <2> QED  BY <1>5, <2>4, <2>5 DEF CHandle
  <1>6. CASE CSettle
    <2>1. /\ cpc = "settle" /\ Subscribed /\ held' = None /\ buf = None /\ held \in Messages
          /\ UNCHANGED <<sub, session, buf, verdict, handled, failures, retries>>
      BY <1>6 DEF CSettle, Subscribed, HoldingOK, TypeOK
    <2>2. failures' + retries' >= failures + retries + 0  BY <2>1 DEF TypeOK
    <2>3. \A m \in Messages : m # None  BY DEF ConsumerAssumption
    <2>4. CASE Live(sub) /\ cpc' = "receive" /\ place' = [place EXCEPT ![held] = Settled]
      <3>1. ~LastHandled  BY <2>1, <2>4 DEF LastHandled, DeliveriesClosed, Live
      <3>2. \A m \in Messages : place'[m] = IF m = held THEN Settled ELSE place[m]
        BY <2>1, <2>4 DEF TypeOK
      <3>3. Settled = "ready" => verdict = "retry"  BY DEF Settled, TypeOK, Verdicts
      <3>4. \A m \in Messages : Due(m)' <= Due(m) + 0
        BY <2>1, <2>3, <2>4, <3>1, <3>2, <3>3 DEF Due
      <3>5. \A m \in Messages : place'[m] \in {"acked", "dead"} \/ held' = m
                                => place[m] \in {"acked", "dead"} \/ held = m
        BY <2>1, <2>3, <3>2
      <3> QED  BY <2>1, <2>2, <3>4, <3>5, NothingMoreDue
    <2>5. CASE ~DeliveriesClosed /\ cpc' = "receive" /\ UNCHANGED place
      <3>1. ~LastHandled  BY <2>1, <2>5 DEF LastHandled
      <3>2. \A m \in Messages : Due(m)' <= Due(m) + 0
        BY <2>1, <2>3, <2>5, <3>1 DEF Due
      <3> QED  BY <2>1, <2>2, <2>3, <2>5, <3>2, NothingMoreDue
    <2>6. CASE cpc' = "failed" /\ UNCHANGED place
      <3>1. \A m \in Messages : Due(m)' = 0  BY <2>6 DEF Due, LastHandled
      <3>2. \A m \in Messages : Due(m)' <= Due(m) + 0  BY <3>1, DueType
      <3> QED  BY <2>1, <2>2, <2>3, <2>6, <3>2, NothingMoreDue
    <2>7. \/ Live(sub) /\ cpc' = "receive" /\ place' = [place EXCEPT ![held] = Settled]
          \/ ~DeliveriesClosed /\ cpc' = "receive" /\ UNCHANGED place
          \/ cpc' = "failed" /\ UNCHANGED place
      BY <1>6 DEF CSettle, CGoto, Live, DeliveriesClosed
    <2> QED  BY <2>4, <2>5, <2>6, <2>7
  <1>7. CASE MLook \/ MWait \/ BrokerReturns \/ Shutdown \/ UNCHANGED vars
    <2>1. UNCHANGED <<cpc, buf, held, verdict, place, handled, failures, retries, sub, session>>
      BY <1>7 DEF MLook, MWait, BrokerReturns, Shutdown, vars
    <2>2. failures' + retries' >= failures + retries  BY <2>1 DEF TypeOK
    <2>3. DeliveriesClosed' <=> DeliveriesClosed  BY <2>1 DEF DeliveriesClosed
    <2> QED  BY <1>0, <2>1, <2>2, <2>3, SameDue
  <1>8. CASE MDial
    <2>1. UNCHANGED <<cpc, buf, held, verdict, place, handled, failures, retries, sub>>
      BY <1>8 DEF MDial
    <2>2. failures' + retries' >= failures + retries  BY <2>1 DEF TypeOK
    <2>3. Subscribed => (DeliveriesClosed' <=> DeliveriesClosed)
      <3>1. CASE Open(Fresh)  BY <2>1, <3>1, OpenLinks DEF LinksOK, DeliveriesClosed
      <3>2. CASE UNCHANGED <<link, channelUp>>  BY <2>1, <3>2 DEF DeliveriesClosed
      <3> QED  BY <1>8, <3>1, <3>2 DEF MDial
    <2> QED  BY <1>0, <2>1, <2>2, <2>3, SameDue
  <1>9. CASE MSwap
    <2>1. mNew \in Conns  BY <1>9 DEF MSwap, LinksOK, TypeOK
    <2> QED  BY <1>9, <2>1, InstallDue DEF MSwap
  <1>10. CASE BrokerDown
    <2>1. \A g \in Conns : link[g] = "closed" => link'[g] = "closed"  BY <1>10 DEF BrokerDown
    <2>2. Subscribed /\ DeliveriesClosed => DeliveriesClosed'
      BY <1>10, <2>1 DEF BrokerDown, LinksOK, DeliveriesClosed, TypeOK
    <2> QED  BY <1>10, <2>2, FailureDue DEF BrokerDown
  <1>11. ASSUME NEW g \in Conns, Cut(g) \/ ChannelError(g) \/ Notice(g)  PROVE BudgetOK'
    <2>1. \A h \in Conns : link[h] = "closed" \/ ~channelUp[h]
                           => link'[h] = "closed" \/ ~channelUp'[h]
      BY <1>11 DEF Cut, ChannelError, Notice, Live, TypeOK
    <2>2. Subscribed /\ DeliveriesClosed => DeliveriesClosed'
      BY <1>11, <2>1 DEF Cut, ChannelError, Notice, LinksOK, DeliveriesClosed, TypeOK
    <2>3. CASE Cut(g) \/ ChannelError(g)
      BY <2>2, <2>3, FailureDue DEF Cut, ChannelError
    <2>4. CASE Notice(g)
      <3>1. failures' + retries' >= failures + retries  BY <2>4 DEF Notice, TypeOK
      <3> QED  BY <1>0, <2>2, <2>4, <3>1, SameDue DEF Notice
    <2> QED  BY <1>11, <2>3, <2>4
  <1>12. ASSUME NEW m \in Messages, Send(m)  PROVE BudgetOK'
    <2>1. /\ Subscribed /\ Live(sub) /\ place[m] = "ready" /\ buf' = m
          /\ UNCHANGED <<sub, session, held, cpc, verdict, handled, failures, retries>>
          /\ place' = [place EXCEPT ![m] = "unacked"]
          /\ \A n \in Messages : owner[n] # sub
      BY <1>12 DEF Send
    <2>2. held = None /\ buf = None /\ cpc = "receive"
      <3>1. held \notin Messages /\ buf \notin Messages  BY <2>1 DEF HoldingOK
      <3> QED  BY <2>1, <3>1 DEF HoldingOK, Subscribed, TypeOK
    <2>3. ~DeliveriesClosed /\ ~LastHandled /\ ~LastHandled'
      BY <2>1, <2>2 DEF Live, DeliveriesClosed, LastHandled
    <2>4. \A n \in Messages : n # None /\ place'[n] = IF n = m THEN "unacked" ELSE place[n]
      BY <2>1 DEF TypeOK, ConsumerAssumption
    <2>5. \A n \in Messages : Due(n)' <= Due(n) + 0
      BY <2>1, <2>2, <2>3, <2>4 DEF Due
    <2>6. failures' + retries' >= failures + retries + 0  BY <2>1 DEF TypeOK
    <2>7. \A n \in Messages : place'[n] \in {"acked", "dead"} => place[n] \in {"acked", "dead"}
      BY <2>4
    <2> QED  BY <2>1, <2>5, <2>6, <2>7, NothingMoreDue
  <1> QED
    BY <1>1, <1>2, <1>3, <1>4, <1>5, <1>6, <1>7, <1>8, <1>9, <1>10, <1>11, <1>12
    DEF Next, Consume, Monitor, Network
--------------------------------------------------------------------------------
(* What the goroutine has in hand.                                         *)

\* No step makes the broker do with a message behind the goroutine's back.
LEMMA HandStep ==
    ASSUME ConsumerAssumption, TypeOK, LinksOK, HoldingOK, HandOK, [Next]_vars
    PROVE  HandOK'
  <1> USE DEF broker, session, consume, monitor, bounds
  <1>0. \A m \in Messages : m # None  BY DEF ConsumerAssumption
  <1>1. ASSUME NEW G, Recover(G), UNCHANGED <<buf, held>>  PROVE HandOK'
    BY <1>1 DEF Recover, HandOK
  <1>2. CASE UNCHANGED <<place, buf, held>>
    BY <1>2 DEF HandOK
  <1>3. CASE CReceive
    <2>1. cpc = "receive" /\ held = None /\ Subscribed /\ UNCHANGED place
      BY <1>3 DEF CReceive, HoldingOK, Subscribed
    <2>2. CASE held' = buf /\ buf' = None
      BY <1>0, <2>1, <2>2 DEF HandOK
    <2>3. CASE DeliveriesClosed /\ buf' = None /\ UNCHANGED held
      <3>1. \A m \in Messages : place[m] # "unacked"
        BY <2>1, <2>3 DEF HoldingOK, DeliveriesClosed, Live
      <3> QED  BY <1>0, <2>1, <2>3, <3>1 DEF HandOK
    <2> QED  BY <1>2, <1>3, <2>1, <2>2, <2>3 DEF CReceive
  <1>4. CASE CSettle
    <2>1. /\ cpc = "settle" /\ Subscribed /\ held' = None /\ buf = None /\ buf' = None
          /\ held \in Messages
      BY <1>4 DEF CSettle, Subscribed, HoldingOK, TypeOK
    <2>2. \A m \in Messages : place[m] = "unacked" => m = held /\ Live(sub)
      BY <1>0, <2>1 DEF HoldingOK
    <2>3. CASE Live(sub) /\ place' = [place EXCEPT ![held] = Settled]
      <3>1. Settled # "unacked"  BY DEF Settled, TypeOK, Verdicts
      <3>2. \A m \in Messages : place'[m] # "unacked"
        BY <2>1, <2>2, <2>3, <3>1 DEF TypeOK
      <3> QED  BY <1>0, <2>1, <3>2 DEF HandOK
    <2>4. CASE ~Live(sub) /\ UNCHANGED place
      BY <1>0, <2>1, <2>2, <2>4 DEF HandOK
    <2> QED  BY <1>4, <2>3, <2>4 DEF CSettle, Live
  <1>5. ASSUME NEW m \in Messages, Send(m)  PROVE HandOK'
    <2>1. /\ Subscribed /\ Live(sub) /\ buf' = m /\ held' = held
          /\ place' = [place EXCEPT ![m] = "unacked"]
          /\ \A n \in Messages : owner[n] # sub
      BY <1>5 DEF Send
    <2>2. held \notin Messages  BY <2>1 DEF HoldingOK
    <2>3. \A n \in Messages : place[n] # "unacked"  BY <2>1 DEF HoldingOK
    <2> QED  BY <2>1, <2>2, <2>3 DEF HandOK, TypeOK
  <1>6. CASE CSwap \/ MSwap \/ BrokerDown
    BY <1>1, <1>6 DEF CSwap, MSwap, Install, BrokerDown
  <1>7. ASSUME NEW g \in Conns, Cut(g) \/ ChannelError(g) \/ Notice(g)  PROVE HandOK'
    BY <1>1, <1>2, <1>7 DEF Cut, ChannelError, Notice
  <1>8. CASE CTop \/ CSetup \/ CSubscribe \/ CDial \/ CPause \/ CHandle
    BY <1>2, <1>8 DEF CTop, CSetup, CSubscribe, CDial, CPause, CHandle
  <1>9. CASE MLook \/ MWait \/ MDial \/ BrokerReturns \/ Shutdown \/ UNCHANGED vars
    BY <1>2, <1>9 DEF MLook, MWait, MDial, BrokerReturns, Shutdown, vars
  <1> QED
    BY <1>3, <1>4, <1>5, <1>6, <1>7, <1>8, <1>9 DEF Next, Consume, Monitor, Network
--------------------------------------------------------------------------------
(* The theorems.                                                           *)

\* NewConsumer leaves one connection and nothing in hand.
LEMMA InitOK == ConsumerAssumption /\ Init => IInv
  <1> SUFFICES ASSUME ConsumerAssumption, Init  PROVE IInv
    OBVIOUS
  <1>1. TypeOK
    <2>1. First \in Conns  BY FirstType
    <2>2. /\ cTries \in 0 .. MaxAttempts /\ mTries \in 0 .. MaxAttempts
          /\ handled \in [Messages -> Nat] /\ failures \in Nat /\ retries \in Nat
      BY DEF Init, ConsumerAssumption
    <2>3. brokerUp \in BOOLEAN /\ ctxDone \in BOOLEAN /\ channelUp \in [Conns -> BOOLEAN]
      BY DEF Init
    <2> QED  BY <2>1, <2>2, <2>3 DEF Init, TypeOK, ConsumePcs, MonitorPcs, Verdicts
  <1>2. LinksOK
    BY DEF Init, LinksOK, NoLeakedConnection, WatchesCurrent, Subscribed
  <1>3. HoldingOK  BY DEF Init, HoldingOK, Subscribed, ConsumerAssumption
  <1>4. BudgetOK
    <2>1. \A m \in Messages : m # None  BY DEF ConsumerAssumption
    <2>2. \A m \in Messages : Due(m) = 1  BY <2>1 DEF Init, Due, LastHandled
    <2> QED  BY <2>1, <2>2 DEF Init, BudgetOK
  <1> QED  BY <1>1, <1>2, <1>3, <1>4 DEF IInv

\* IInv holds in every state of the consumer.
THEOREM ConsumerInvariant == Spec => []IInv
  <1>1. Init => IInv  BY InitOK, ConsumerAssumption
  <1>2. IInv /\ [Next]_vars => IInv'
    <2> SUFFICES ASSUME IInv, [Next]_vars  PROVE IInv'
      OBVIOUS
    <2>1. TypeOK'  BY ConsumerAssumption, TypeStep DEF IInv
    <2>2. LinksOK'  BY <2>1, ConsumerAssumption, LinksStep DEF IInv
    <2>3. HoldingOK'  BY ConsumerAssumption, HoldingStep DEF IInv
    <2>4. BudgetOK'  BY <2>1, <2>3, ConsumerAssumption, BudgetStep DEF IInv
    <2> QED  BY <2>1, <2>2, <2>3, <2>4 DEF IInv
  <1> QED  BY <1>1, <1>2, PTL DEF Spec

\* The variables of the consumer, its broker and their connections keep their types.
THEOREM TypeCorrect == Spec => []TypeOK
  <1>1. IInv => TypeOK  BY DEF IInv
  <1> QED  BY <1>1, ConsumerInvariant, PTL

\* Two goroutines that replace one connection leave none open behind them.
THEOREM NothingLeaks == Spec => []NoLeakedConnection
  <1>1. IInv => NoLeakedConnection  BY DEF IInv, LinksOK
  <1> QED  BY <1>1, ConsumerInvariant, PTL

\* monitorReconnect never sleeps on an open connection that has been replaced.
THEOREM MonitorWatchesCurrent == Spec => []WatchesCurrent
  <1>1. IInv => WatchesCurrent  BY DEF IInv, LinksOK
  <1> QED  BY <1>1, ConsumerInvariant, PTL

\* What RabbitMQ counts as unacked is in the hands of the subscribed goroutine.
THEOREM UnackedStaysHeld == Spec => []UnackedIsHeld
  <1>1. IInv => UnackedIsHeld
    BY DEF IInv, HoldingOK, UnackedIsHeld, Subscribed
  <1> QED  BY <1>1, ConsumerInvariant, PTL

\* Every call of the handler after the first is owed to a failure or to an error of
\* the handler, although the goroutines may close each other's connections.
THEOREM RedeliveriesHaveCauses == Spec => []RedeliveriesAreCaused
  <1>1. ASSUME IInv  PROVE RedeliveriesAreCaused
    <2>1. ASSUME NEW m \in Messages  PROVE handled[m] <= 1 + failures + retries
      <3>1. handled[m] + Due(m) <= 1 + failures + retries  BY <1>1 DEF IInv, BudgetOK
      <3>2. handled[m] \in Nat /\ failures \in Nat /\ retries \in Nat
        BY <1>1 DEF IInv, TypeOK
      <3>3. Due(m) \in {0, 1, 2}  BY DueType
      <3> QED  BY <3>1, <3>2, <3>3
    <2> QED  BY <1>1, <2>1 DEF IInv, BudgetOK, RedeliveriesAreCaused
  <1> QED  BY <1>1, ConsumerInvariant, PTL
--------------------------------------------------------------------------------
(* The delivery contract, step by step.                                    *)

\* Nothing has been delivered yet.
LEMMA ContractInit == ConsumerAssumption /\ Init => Contract!DeliveryInit
  <1> SUFFICES ASSUME ConsumerAssumption, Init  PROVE Contract!DeliveryInit
    OBVIOUS
  <1>1. Loop = "idle" /\ ctxDone = FALSE /\ held = None /\ buf = None
    BY DEF Init, Loop
  <1>2. SeenPlace \in [Messages -> {"none", "ready"}]
    BY DEF Init, SeenPlace
  <1> QED
    BY <1>1, <1>2 DEF Contract!DeliveryInit, Contract!LoopInit, Leased

\* A step the contract does not see.
LEMMA Unseen ==
    ASSUME Loop' = Loop, ctxDone' = ctxDone, SeenPlace' = SeenPlace, held' = held, Leased' = Leased
    PROVE  UNCHANGED Contract!deliveryVars
  BY DEF Contract!deliveryVars, Contract!loopVars, SeenPlace, Leased

\* A lost channel takes away the delivery in hand, and nobody sees the one that
\* waits in the client.
LEMMA LossKeeps ==
    ASSUME ConsumerAssumption, TypeOK, HoldingOK, HandOK, NEW G, None \notin G, Recover(G),
           UNCHANGED <<buf, held, ctxDone>>, Loop' = Loop
    PROVE  [Contract!DeliveryNext]_(Contract!deliveryVars)
  <1>0. \A m \in Messages : m # None  BY DEF ConsumerAssumption
  <1>1. CASE held # None /\ owner[held] \in G
    <2>1. held \in Messages /\ buf = None  BY <1>1 DEF HoldingOK, TypeOK
    <2>2. Leased = TRUE /\ Leased' = FALSE /\ held' = held
      BY <1>1, <2>1 DEF Leased, Recover
    <2>3. SeenPlace' = [SeenPlace EXCEPT ![held] = "ready"]
      <3>1. place[held] = "unacked"  BY <1>1, <2>1 DEF HoldingOK
      <3>2. \A m \in Messages : place'[m] = IF m = held THEN "ready" ELSE place[m]
        BY <1>0, <1>1, <2>1, <3>1 DEF Recover, HandOK
      <3> QED  BY <1>0, <2>1, <3>2 DEF SeenPlace
    <2>4. Contract!Drop
      BY <2>2, <2>3
      DEF Contract!Drop, Contract!Put, Contract!Hold, Contract!loopVars, SeenPlace, Leased
    <2> QED  BY <2>4 DEF Contract!DeliveryNext
  <1>2. CASE ~(held # None /\ owner[held] \in G)
    <2>1. Leased' = Leased
      BY <1>2 DEF Leased, Recover, TypeOK
    <2>2. SeenPlace' = SeenPlace
      <3>1. ASSUME NEW m \in Messages  PROVE (IF m = buf THEN "ready" ELSE place'[m])
                                             = IF m = buf THEN "ready" ELSE place[m]
        <4>1. place[m] = "unacked" => m \in {buf, held}  BY DEF HandOK
        <4> QED  BY <1>0, <1>2, <4>1 DEF Recover
      <3> QED  BY <3>1 DEF SeenPlace
    <2> QED  BY <2>1, <2>2, Unseen
  <1> QED  BY <1>1, <1>2

\* Every step is one of the contract or is not seen by it.
LEMMA ContractStep ==
    ASSUME ConsumerAssumption, IInv, HandOK, [Next]_vars
    PROVE  [Contract!DeliveryNext]_(Contract!deliveryVars)
  <1> USE DEF broker, session, consume, monitor, bounds
  <1>0. \A m \in Messages : m # None  BY DEF ConsumerAssumption
  <1>1. TypeOK /\ LinksOK /\ HoldingOK  BY DEF IInv
  <1>2. ASSUME UNCHANGED <<place, owner, buf, held, ctxDone>>, Loop' = Loop
        PROVE  UNCHANGED Contract!deliveryVars
    BY <1>2, Unseen DEF SeenPlace, Leased
  <1>3. ASSUME ctxDone, Loop = "idle", Loop' = "returned",
               UNCHANGED <<place, owner, buf, held, ctxDone>>
        PROVE  Contract!DeliveryNext
    BY <1>3 DEF Contract!DeliveryNext, Contract!Leave, Contract!Become, SeenPlace, Leased
  <1>4. CASE CTop \/ CPause
    <2>1. Loop = "idle" /\ UNCHANGED <<place, owner, buf, held, ctxDone>>
      BY <1>4 DEF CTop, CPause, Loop
    <2>2. CASE ctxDone /\ cpc' = "returned"  BY <1>3, <2>1, <2>2 DEF Loop
    <2>3. CASE cpc' \in {"top", "setup"}  BY <1>2, <2>1, <2>3 DEF Loop
    <2> QED  BY <1>4, <2>2, <2>3 DEF CTop, CPause, CGoto
  <1>5. CASE CSetup \/ CSubscribe \/ CDial
    BY <1>2, <1>5 DEF CSetup, CSubscribe, CDial, CGoto, Loop
  <1>6. CASE CSwap
    <2>1. Recover({current}) /\ Loop' = Loop /\ UNCHANGED <<buf, held, ctxDone>>
      BY <1>6 DEF CSwap, Install, CGoto, Loop
    <2> QED  BY <1>1, <2>1, LossKeeps DEF TypeOK, ConsumerAssumption
  <1>7. CASE CReceive
    <2>1. /\ cpc = "receive" /\ held = None /\ Subscribed /\ Loop = "idle"
          /\ UNCHANGED <<place, owner, ctxDone>>
      BY <1>1, <1>7 DEF CReceive, HoldingOK, Subscribed, Loop
    <2>2. CASE ctxDone /\ cpc' = "returned" /\ UNCHANGED <<buf, held>>
      BY <1>3, <2>1, <2>2 DEF Loop
    <2>3. CASE buf # None /\ held' = buf /\ buf' = None /\ cpc' = "handle"
      <3>1. buf \in Messages /\ SeenPlace[buf] = "ready"  BY <1>1, <2>3 DEF TypeOK, SeenPlace
      <3>2. Contract!Take
        BY <2>1, <2>3 DEF Contract!Take, Contract!Become, Loop
      <3>3. SeenPlace' = [SeenPlace EXCEPT ![buf] = place[buf]]
        BY <1>0, <2>1, <2>3, <3>1 DEF SeenPlace
      <3>4. PICK m \in Messages : m = buf  BY <3>1
      <3>5. CASE place[m] = "unacked"
        <4>1. Leased' = TRUE  BY <1>0, <1>1, <2>1, <2>3, <3>4, <3>5 DEF Leased, HoldingOK
        <4>2. Contract!Deliver(m)
          BY <2>3, <3>1, <3>2, <3>3, <3>4, <3>5, <4>1
          DEF Contract!Deliver, Contract!Put, Contract!Hold, SeenPlace, Leased
        <4> QED  BY <4>2 DEF Contract!DeliveryNext
      <3>6. CASE place[m] = "ready"
        <4>1. Leased' = FALSE  BY <1>0, <1>1, <2>1, <2>3, <3>4, <3>6 DEF Leased, HoldingOK
        <4>2. SeenPlace' = SeenPlace  BY <3>1, <3>3, <3>4, <3>6 DEF SeenPlace
        <4>3. Contract!DeliverStale(m)
          BY <2>3, <3>2, <3>4, <4>1, <4>2
          DEF Contract!DeliverStale, Contract!Hold, SeenPlace, Leased
        <4> QED  BY <4>3 DEF Contract!DeliveryNext
      <3> QED  BY <3>4, <3>5, <3>6 DEF HandOK
    <2>4. CASE DeliveriesClosed /\ buf' = None /\ cpc' = "top" /\ UNCHANGED held
      <3>1. \A m \in Messages : place[m] # "unacked"
        BY <1>1, <2>1, <2>4 DEF HoldingOK, DeliveriesClosed, Live
      <3>2. buf \in Messages => place[buf] = "ready"  BY <3>1 DEF HandOK
      <3>3. SeenPlace' = SeenPlace  BY <1>0, <2>1, <2>4, <3>2 DEF SeenPlace
      <3>4. Leased' = Leased /\ Loop' = Loop  BY <2>1, <2>4 DEF Leased, Loop
      <3> QED  BY <2>1, <2>4, <3>3, <3>4, Unseen
    <2> QED  BY <1>7, <2>2, <2>3, <2>4 DEF CReceive, CGoto
  <1>8. CASE CHandle
    BY <1>2, <1>8 DEF CHandle, CGoto, Loop
  <1>9. CASE CSettle
    <2>1. /\ cpc = "settle" /\ Subscribed /\ held' = None /\ buf = None /\ buf' = None
          /\ held \in Messages /\ held # None /\ ctxDone' = ctxDone
          /\ cpc' \in {"receive", "failed"}
      BY <1>0, <1>1, <1>9 DEF CSettle, Subscribed, HoldingOK, TypeOK, CGoto
    <2>2. Leased' = FALSE  BY <2>1 DEF Leased
    <2>3. SeenPlace = place /\ SeenPlace' = place'
      BY <1>0, <1>1, <1>9, <2>1 DEF SeenPlace, TypeOK, CSettle
    <2>4. CASE Live(sub) /\ cpc' = "receive" /\ place' = [place EXCEPT ![held] = Settled]
      <3>1. Leased = TRUE  BY <1>1, <2>1, <2>4 DEF Leased, HoldingOK, LinksOK
      <3>2. Settled \in {"acked", "ready", "dead"}  BY <1>1 DEF Settled, TypeOK, Verdicts
      <3>3. Contract!Done
        BY <2>1, <2>4 DEF Contract!Done, Contract!Become, Loop
      <3>4. Contract!SettleHeld
        BY <2>1, <2>2, <2>3, <2>4, <3>1, <3>2, <3>3
        DEF Contract!SettleHeld, Contract!Put, Contract!Hold, SeenPlace, Leased
      <3> QED  BY <3>4 DEF Contract!DeliveryNext
    <2>5. CASE ~Live(sub) /\ UNCHANGED place
      <3>1. Leased = FALSE  BY <1>1, <2>1, <2>5 DEF Leased, HoldingOK
      <3>2. Contract!Done \/ Contract!Fail
        BY <2>1 DEF Contract!Done, Contract!Fail, Contract!Become, Loop
      <3>3. Contract!SettleInVain
        BY <2>1, <2>2, <2>3, <2>5, <3>1, <3>2
        DEF Contract!SettleInVain, Contract!Hold, SeenPlace, Leased
      <3> QED  BY <3>3 DEF Contract!DeliveryNext
    <2> QED  BY <1>9, <2>4, <2>5 DEF CSettle, CGoto, Live
  <1>10. CASE MLook \/ MWait \/ MDial \/ BrokerReturns \/ UNCHANGED vars
    BY <1>2, <1>10 DEF MLook, MWait, MDial, BrokerReturns, vars, Loop
  <1>11. CASE MSwap
    <2>1. Recover({current}) /\ Loop' = Loop /\ UNCHANGED <<buf, held, ctxDone>>
      BY <1>11 DEF MSwap, Install, Loop
    <2> QED  BY <1>1, <2>1, LossKeeps DEF TypeOK, ConsumerAssumption
  <1>12. CASE Shutdown
    <2>1. Loop' = Loop /\ SeenPlace' = SeenPlace /\ Leased' = Leased /\ held' = held /\ ctxDone' = TRUE
      BY <1>12 DEF Shutdown, Loop, SeenPlace, Leased
    <2> QED  BY <2>1 DEF Contract!DeliveryNext, Contract!Cancel, SeenPlace, Leased
  <1>13. CASE BrokerDown
    <2>1. Recover(Conns) /\ Loop' = Loop /\ UNCHANGED <<buf, held, ctxDone>>
      BY <1>13 DEF BrokerDown, Loop
    <2> QED  BY <1>1, <2>1, LossKeeps DEF ConsumerAssumption
  <1>14. ASSUME NEW g \in Conns, Cut(g) \/ ChannelError(g)
         PROVE  [Contract!DeliveryNext]_(Contract!deliveryVars)
    <2>1. Recover({g}) /\ Loop' = Loop /\ UNCHANGED <<buf, held, ctxDone>>
      BY <1>14 DEF Cut, ChannelError, Loop
    <2> QED  BY <1>1, <2>1, LossKeeps DEF ConsumerAssumption
  <1>15. ASSUME NEW g \in Conns, Notice(g)
         PROVE  [Contract!DeliveryNext]_(Contract!deliveryVars)
    BY <1>2, <1>15 DEF Notice, Loop
  <1>16. ASSUME NEW m \in Messages, Send(m)
         PROVE  [Contract!DeliveryNext]_(Contract!deliveryVars)
    <2>1. /\ Subscribed /\ Live(sub) /\ place[m] = "ready" /\ buf' = m
          /\ UNCHANGED <<held, cpc, ctxDone>>
          /\ place' = [place EXCEPT ![m] = "unacked"]
          /\ \A n \in Messages : owner[n] # sub
      BY <1>16 DEF Send
    <2>2. held = None /\ buf = None
      <3>1. held \notin Messages /\ buf \notin Messages  BY <1>1, <2>1 DEF HoldingOK
      <3> QED  BY <1>1, <3>1 DEF TypeOK
    <2>3. SeenPlace' = SeenPlace
      <3>1. \A n \in Messages : (IF n = m THEN "ready" ELSE place'[n])
                                = IF n = buf THEN "ready" ELSE place[n]
        BY <1>0, <1>1, <2>1, <2>2 DEF TypeOK
      <3> QED  BY <2>1, <3>1 DEF SeenPlace
    <2>4. Leased' = Leased /\ Loop' = Loop  BY <2>1, <2>2 DEF Leased, Loop
    <2> QED  BY <2>1, <2>3, <2>4, Unseen
  <1> QED
    BY <1>4, <1>5, <1>6, <1>7, <1>8, <1>9, <1>10, <1>11, <1>12, <1>13, <1>14, <1>15, <1>16
    DEF Next, Consume, Monitor, Network

\* The consumer keeps the delivery contract.
THEOREM ConsumerKeepsContract == Spec => KeepsContract
  <1>1. Init => Contract!DeliveryInit  BY ContractInit, ConsumerAssumption
  <1>2. Init => HandOK  BY ConsumerAssumption DEF Init, HandOK, ConsumerAssumption
  <1>3. IInv /\ HandOK /\ [Next]_vars => HandOK'
    BY HandStep, ConsumerAssumption DEF IInv
  <1>4. IInv /\ HandOK /\ [Next]_vars => [Contract!DeliveryNext]_(Contract!deliveryVars)
    BY ContractStep, ConsumerAssumption
  <1> QED
    BY <1>1, <1>2, <1>3, <1>4, ConsumerInvariant, PTL
    DEF Spec, KeepsContract, Contract!DeliverySpec

\* To the process it runs in, the consumer is the loop that WorkerPool counts on.
THEOREM ConsumerIsALoop == Spec => Contract!LoopSpec
  <1>1. Contract!DeliveryInit => Contract!LoopInit  BY DEF Contract!DeliveryInit
  <1>2. [Contract!DeliveryNext]_(Contract!deliveryVars) => [Contract!LoopNext]_(Contract!loopVars)
    <2>1. CASE Contract!DeliveryNext
      <3>1. ASSUME NEW m \in Messages, Contract!Deliver(m) \/ Contract!DeliverStale(m)
            PROVE  Contract!LoopNext
        BY <3>1 DEF Contract!Deliver, Contract!DeliverStale, Contract!LoopNext
      <3>2. ASSUME NEW m \in Messages, Contract!Elsewhere(m)
            PROVE  UNCHANGED Contract!loopVars
        BY <3>2 DEF Contract!Elsewhere
      <3>3. CASE Contract!Drop
        BY <3>3 DEF Contract!Drop
      <3>4. CASE Contract!SettleHeld \/ Contract!SettleInVain \/ Contract!Die
        BY <3>4 DEF Contract!SettleHeld, Contract!SettleInVain, Contract!Die, Contract!LoopNext
      <3>5. CASE Contract!Leave \/ Contract!Cancel
        BY <3>5 DEF Contract!LoopNext
      <3> QED
        BY <2>1, <3>1, <3>2, <3>3, <3>4, <3>5 DEF Contract!DeliveryNext
    <2>2. CASE UNCHANGED Contract!deliveryVars
      BY <2>2 DEF Contract!deliveryVars
    <2> QED  BY <2>1, <2>2
  <1> QED
    BY <1>1, <1>2, ConsumerKeepsContract, PTL
    DEF KeepsContract, Contract!DeliverySpec, Contract!LoopSpec
================================================================================
