------------------------- MODULE RabbitProducerProofs -------------------------
(***************************************************************************)
(* One connection at most, no bound queue without its dead letter queue,   *)
(* and no trouble without a failure, for every number of messages, queues  *)
(* and attempts.                                                           *)
(***************************************************************************)
EXTENDS RabbitProducer, FiniteSetTheorems, TLAPS

\* The declarations are counted from 1.
LEMMA LastType == ProducerAssumption => Last \in Nat \ {0, 1} /\ Len(QueueSeq) \in Nat
  BY DEF ProducerAssumption, Last

\* A set with one more element has one more element at most.
LEMMA AddOne ==
    ASSUME NEW S, NEW x, IsFiniteSet(S), NEW T, T = S \union {x}
    PROVE  IsFiniteSet(T) /\ Cardinality(T) <= Cardinality(S) + 1
           /\ Cardinality(S) \in Nat /\ Cardinality(T) \in Nat
  <1>1. IsFiniteSet(T) /\ Cardinality(S) \in Nat  BY FS_AddElement, FS_CardinalityType
  <1>2. Cardinality(T) \in Nat  BY <1>1, FS_CardinalityType
  <1>3. Cardinality(T) = IF x \in S THEN Cardinality(S) ELSE Cardinality(S) + 1
    BY FS_AddElement
  <1> QED  BY <1>1, <1>2, <1>3

\* Four names name four things at most.
LEMMA FourAtMost ==
    ASSUME NEW a, NEW b, NEW c, NEW d
    PROVE  IsFiniteSet({a, b, c, d}) /\ Cardinality({a, b, c, d}) <= 4
  <1> DEFINE S1 == {a}
             S2 == {a, b}
             S3 == {a, b, c}
             S4 == {a, b, c, d}
  <1>1. IsFiniteSet(S1) /\ Cardinality(S1) = 1  BY FS_Singleton
  <1>2. S2 = S1 \union {b} /\ S3 = S2 \union {c} /\ S4 = S3 \union {d}  OBVIOUS
  <1> HIDE DEF S1, S2, S3, S4
  <1>3. IsFiniteSet(S2) /\ Cardinality(S2) <= 2
    <2>1. Cardinality(S2) <= Cardinality(S1) + 1 /\ Cardinality(S2) \in Nat /\ IsFiniteSet(S2)
      BY <1>1, <1>2, AddOne
    <2> QED  BY <1>1, <2>1
  <1>4. IsFiniteSet(S3) /\ Cardinality(S3) <= 3
    <2>1. Cardinality(S3) <= Cardinality(S2) + 1 /\ Cardinality(S2) \in Nat
          /\ Cardinality(S3) \in Nat /\ IsFiniteSet(S3)
      BY <1>2, <1>3, AddOne
    <2> QED  BY <1>3, <2>1
  <1>5. IsFiniteSet(S4) /\ Cardinality(S4) <= 4
    <2>1. Cardinality(S4) <= Cardinality(S3) + 1 /\ Cardinality(S3) \in Nat
          /\ Cardinality(S4) \in Nat /\ IsFiniteSet(S4)
      BY <1>2, <1>4, AddOne
    <2> QED  BY <1>4, <2>1
  <1> QED  BY <1>5 DEF S4

\* An unused identifier exists: the variables refer to fewer than there are.
LEMMA FreshType ==
    ASSUME ProducerAssumption, TypeOK
    PROVE  Fresh \in Conns /\ Fresh \notin {current, used, watched, mNew}
  <1> DEFINE R == {via[m] : m \in Messages}
             S == {current, used, watched, mNew}
  <1>1. IsFiniteSet(R) /\ Cardinality(R) <= Cardinality(Messages)
    <2>1. via \in Surjection(Messages, R)  BY DEF TypeOK, Surjection
    <2> QED  BY <2>1, FS_Surjection DEF ProducerAssumption
  <1>2. IsFiniteSet(S) /\ Cardinality(S) <= 4  BY FourAtMost
  <1>3. Unused = Conns \ (S \union R)  BY DEF Unused
  <1> HIDE DEF R, S
  <1>4. /\ IsFiniteSet(S \union R)
        /\ Cardinality(S \union R) = Cardinality(S) + Cardinality(R) - Cardinality(S \intersect R)
    BY <1>1, <1>2, FS_Union
  <1>5. /\ Cardinality(R) \in Nat /\ Cardinality(S) \in Nat
        /\ Cardinality(Messages) \in Nat /\ Cardinality(Conns) \in Nat
        /\ Cardinality(S \union R) \in Nat
    BY <1>1, <1>2, <1>4, FS_CardinalityType DEF ProducerAssumption
  <1>6. Cardinality(S \intersect R) \in Nat
    BY <1>1, FS_Intersection, FS_CardinalityType
  <1>7. Cardinality(S \union R) < Cardinality(Conns)
    BY <1>1, <1>2, <1>4, <1>5, <1>6 DEF ProducerAssumption
  <1>8. ~(Conns \subseteq S \union R)
    <2>1. ASSUME Conns \subseteq S \union R
          PROVE  Cardinality(Conns) <= Cardinality(S \union R)
      BY <1>4, <2>1, FS_Subset
    <2> QED  BY <1>5, <1>7, <2>1
  <1>9. Fresh \in Conns \ (S \union R)  BY <1>3, <1>8 DEF Fresh
  <1> QED  BY <1>9 DEF S

\* Each item is what its place in the order says.
LEMMA OrderType ==
    ASSUME ProducerAssumption, NEW i \in 1 .. Last
    PROVE  DeclareOrder[i] \in Items
  BY DEF Items

\* A queue is bound two declarations after its dead letter queue.
LEMMA DeadLetterFirst ==
    ASSUME ProducerAssumption, NEW i \in 1 .. Last, NEW q, DeclareOrder[i] = Of("queueBind", q)
    PROVE  i - 2 \in 1 .. Last /\ DeclareOrder[i - 2] = Of("dlqBind", q)
  <1>1. i \in Int /\ Last \in Nat  BY LastType
  <1>2. i # 1 /\ i # 2  BY DEF DeclareOrder, Exchange, Dlx, Of
  <1>3. DeclareOrder[i] = Of(PerQueue[1 + ((i - 3) % 4)], QueueSeq[1 + ((i - 3) \div 4)])
    BY <1>1, <1>2 DEF DeclareOrder
  <1>4. PerQueue[1 + ((i - 3) % 4)] = "queueBind" /\ QueueSeq[1 + ((i - 3) \div 4)] = q
    BY <1>3 DEF Of
  <1>5. (i - 3) % 4 = 3
    <2>1. (i - 3) % 4 \in 0 .. 3  BY <1>1
    <2> QED  BY <1>4, <2>1 DEF PerQueue
  <1>6. i >= 6 /\ (i - 5) % 4 = 1 /\ (i - 5) \div 4 = (i - 3) \div 4
    BY <1>1, <1>2, <1>5
  <1>7. DeclareOrder[i - 2] = Of(PerQueue[1 + ((i - 5) % 4)], QueueSeq[1 + ((i - 5) \div 4)])
    <2>1. i - 2 \in 1 .. Last /\ i - 2 # 1 /\ i - 2 # 2 /\ (i - 2) - 3 = i - 5  BY <1>1, <1>6
    <2> QED  BY <2>1 DEF DeclareOrder
  <1>8. PerQueue[1 + ((i - 5) % 4)] = "dlqBind"  BY <1>6 DEF PerQueue
  <1> QED  BY <1>1, <1>4, <1>6, <1>7, <1>8
--------------------------------------------------------------------------------
(* Types.                                                                  *)

\* The end of a process leaves its variables as a start finds them.
LEMMA ExitType ==
    ASSUME ProducerAssumption, TypeOK, ExitProcess
    PROVE  /\ link' \in [Conns -> {"up", "cut", "closed"}]
           /\ channel' \in [Conns -> {"open", "closing", "closed"}]
           /\ current' = None /\ ppc' \in {"dial", "exited"}
           /\ tries' = 0 /\ used' = None /\ step' = 1
           /\ mpc' = "none" /\ watched' = None /\ mTries' = 0 /\ mNew' = None
           /\ via' \in [Messages -> Ids] /\ answer' \in [Messages -> {None, "ok", "error"}]
           /\ UNCHANGED <<routed, ctxDone>>
           /\ \A g \in Conns : link'[g] = "closed"
  BY DEF ExitProcess, TypeOK, Ids

\* Every step keeps TypeOK.
LEMMA TypeStep ==
    ASSUME ProducerAssumption, TypeOK, LinksOK, [Next]_vars
    PROVE  TypeOK'
  <1> USE DEF Ids
  <1>0. Last \in Nat \ {0, 1}  BY LastType
  <1>1. CASE ExitProcess /\ UNCHANGED <<broker, failures>>
    BY <1>0, <1>1, ExitType DEF TypeOK, broker, ProducerAssumption
  <1>2. CASE Startup
    <2>1. CASE Open(Fresh) /\ current' = Fresh
      BY <1>0, <1>2, <2>1, FreshType DEF Startup, Open, ExitProcess, TypeOK, ProducerAssumption,
         broker, monitor, publish
    <2>2. CASE tries + 1 < StartupAttempts /\ tries' = tries + 1
               /\ UNCHANGED <<session, ppc, used, step, monitor, publish, ctxDone>>
      <3>1. tries' \in 0 .. StartupAttempts - 1  BY <2>2 DEF TypeOK, ProducerAssumption
      <3> QED
        BY <1>2, <2>2, <3>1 DEF Startup, TypeOK, broker, session, monitor, publish
    <2> QED  BY <1>1, <1>2, <2>1, <2>2 DEF Startup
  <1>3. CASE ReadChannel
    BY <1>3 DEF ReadChannel, TypeOK, broker, session, monitor, publish
  <1>4. CASE Declare
    <2>1. DeclareOrder[step] \in Items  BY OrderType DEF TypeOK
    <2>2. step # Last => step + 1 \in 1 .. Last  BY <1>0 DEF TypeOK
    <2>3. CASE ExitProcess /\ UNCHANGED declared
      BY <1>0, <1>4, <2>3, ExitType DEF Declare, TypeOK, ProducerAssumption
    <2>4. CASE ~(ExitProcess /\ UNCHANGED declared)
      BY <1>0, <1>4, <2>1, <2>2, <2>4 DEF Declare, TypeOK, session, monitor, publish
    <2> QED  BY <2>3, <2>4
  <1>5. CASE Close
    BY <1>5 DEF Close, Shut, TypeOK, broker, monitor, publish
  <1>6. CASE Exit  BY <1>1, <1>6 DEF Exit
  <1>7. CASE Kill
    BY <1>0, <1>7, ExitType DEF Kill, Fail, TypeOK, broker, ProducerAssumption
  <1>8. CASE MLook \/ MWait
    BY <1>8 DEF MLook, MWait, MGoto, TypeOK, ProducerAssumption, broker, session, main, publish
  <1>9. CASE MDial
    <2>1. ~LastAttempt => mTries + 1 \in 0 .. MaxAttempts - 1
      BY DEF LastAttempt, TypeOK, ProducerAssumption
    <2>2. mTries' \in 0 .. MaxAttempts - 1
      BY <1>9, <2>1 DEF MDial, TypeOK, ProducerAssumption
    <2>3. mpc' \in {"swap", "look", "dial"}
      BY <1>9 DEF MDial, MGoto, LookAgain
    <2>4. /\ mNew' \in Ids
          /\ link' \in [Conns -> {"up", "cut", "closed"}]
          /\ channel' \in [Conns -> {"open", "closing", "closed"}]
      BY <1>9, FreshType DEF MDial, Open, TypeOK
    <2> QED
      BY <1>9, <2>2, <2>3, <2>4 DEF MDial, TypeOK, broker, main, publish
  <1>10. CASE MSwap
    BY <1>10 DEF MSwap, MGoto, Install, Shut, LinksOK, TypeOK, broker, main, publish
  <1>11. ASSUME NEW m \in Messages, TakeChannel(m)  PROVE TypeOK'
    BY <1>11 DEF TakeChannel, TypeOK, broker, session, main, monitor
  <1>12. ASSUME NEW m \in Messages, Send(m)  PROVE TypeOK'
    <2>1. answer' \in [Messages -> {None, "ok", "error"}] /\ via' \in [Messages -> Ids]
      BY <1>12 DEF Send, Answers, TypeOK
    <2>2. channel' \in [Conns -> {"open", "closing", "closed"}] /\ routed' \subseteq Messages
      BY <1>12 DEF Send, TypeOK
    <2> QED  BY <1>12, <2>1, <2>2 DEF Send, TypeOK, broker, main, monitor
  <1>13. CASE Terminate
    BY <1>13 DEF Terminate, TypeOK, broker, session, main, monitor, publish
  <1>14. CASE BrokerDown \/ BrokerReturns \/ TopologyLost \/ PeerRestarts
    <2>1. CASE BrokerDown
      <3>1. link' \in [Conns -> {"up", "cut", "closed"}]  BY <2>1 DEF BrokerDown, TypeOK
      <3>2. failures' \in Nat  BY <2>1 DEF BrokerDown, Fail, TypeOK
      <3>3. brokerUp' = FALSE /\ UNCHANGED <<declared, peer, wiped, channel, current, ctxDone>>
            /\ UNCHANGED <<ppc, tries, used, step, mpc, watched, mTries, mNew, via, answer, routed>>
        BY <2>1 DEF BrokerDown, main, monitor, publish
      <3> QED  BY <3>1, <3>2, <3>3, ZenonT(60) DEF TypeOK
    <2>2. CASE BrokerReturns
      BY <2>2 DEF BrokerReturns, TypeOK, session, main, monitor, publish
    <2>3. CASE TopologyLost
      BY <2>3 DEF TopologyLost, Fail, TypeOK, session, main, monitor, publish
    <2>4. CASE PeerRestarts
      BY <1>0, <2>4 DEF PeerRestarts, TypeOK, session, main, monitor, publish
    <2> QED  BY <1>14, <2>1, <2>2, <2>3, <2>4
  <1>15. CASE PeerDeclares
    <2>1. peer + 1 \in 1 .. Last  BY <1>0, <1>15 DEF PeerDeclares, TypeOK
    <2>2. DeclareOrder[peer + 1] \in Items  BY <2>1, OrderType
    <2> QED
      BY <1>15, <2>1, <2>2 DEF PeerDeclares, TypeOK, session, main, monitor, publish
  <1>16. ASSUME NEW g \in Conns, Cut(g) \/ Notice(g)  PROVE TypeOK'
    <2>1. CASE Cut(g)
      <3>1. link' \in [Conns -> {"up", "cut", "closed"}]  BY <2>1 DEF Cut, TypeOK
      <3>2. failures' \in Nat  BY <2>1 DEF Cut, Fail, TypeOK
      <3> QED  BY <2>1, <3>1, <3>2 DEF Cut, TypeOK, broker, main, monitor, publish
    <2>2. CASE Notice(g)
      <3>1. /\ link' \in [Conns -> {"up", "cut", "closed"}]
            /\ channel' \in [Conns -> {"open", "closing", "closed"}]
        BY <2>2 DEF Notice, TypeOK
      <3> QED  BY <2>2, <3>1 DEF Notice, TypeOK, broker, main, monitor, publish
    <2> QED  BY <1>16, <2>1, <2>2
  <1>17. CASE UNCHANGED vars
    BY <1>17 DEF vars, TypeOK, broker, session, main, monitor, publish
  <1> QED
    BY <1>2, <1>3, <1>4, <1>5, <1>6, <1>7, <1>8, <1>9, <1>10, <1>11, <1>12, <1>13, <1>14,
       <1>15, <1>16, <1>17
    DEF Next, Process, Monitor, Handlers, External
--------------------------------------------------------------------------------
(* The connections.                                                        *)

\* A process that ends leaves no connection.
LEMMA ExitLinks ==
    ASSUME ProducerAssumption, TypeOK, ExitProcess
    PROVE  LinksOK'
  BY ExitType DEF LinksOK

\* A step that touches none of what LinksOK speaks of, or only closes
\* connections nobody depends on, keeps it.
LEMMA FewerLinks ==
    ASSUME TypeOK, LinksOK,
           \A g \in Conns : link[g] = "closed" => link'[g] = "closed",
           UNCHANGED <<current, mNew, mpc, watched>>,
           \/ ppc' = ppc
           \/ ppc \in {"topology", "declare"} /\ ppc' \in {"declare", "serving"}
    PROVE  LinksOK'
  <1>1. \A g \in Conns : link'[g] # "closed" => g \in {current', mNew'}
    BY DEF LinksOK
  <1>2. current \in Conns \union {None} /\ watched \in Conns \union {None}
    BY DEF TypeOK, Ids
  <1>3. mpc' \in {"dial", "swap"} => current' = None \/ link'[current'] = "closed"
    BY <1>2 DEF LinksOK
  <1>4. mpc' = "wait" =>
          /\ watched' # None
          /\ watched' = current' \/ (current' = None /\ link'[watched'] = "closed")
    BY <1>2 DEF LinksOK
  <1> QED  BY <1>1, <1>3, <1>4 DEF LinksOK

\* Every step keeps LinksOK.
LEMMA LinksStep ==
    ASSUME ProducerAssumption, TypeOK, LinksOK, [Next]_vars
    PROVE  LinksOK'
  <1>1. CASE ExitProcess  BY <1>1, ExitLinks
  <1>2. CASE Startup
    <2>1. CASE Open(Fresh) /\ current' = Fresh
      <3>1. \A g \in Conns : link[g] = "closed"
        BY <1>2 DEF Startup, LinksOK, TypeOK, ProducerAssumption
      <3>2. CASE ExitProcess  BY <3>2, ExitLinks
      <3>3. CASE ppc' = "topology" /\ mpc' = "look" /\ UNCHANGED <<watched, mNew>>
        <4>1. mNew = None  BY <1>2 DEF Startup, LinksOK
        <4>2. \A g \in Conns : link'[g] # "closed" => g = Fresh
          BY <2>1, <3>1 DEF Open, TypeOK
        <4>3. Fresh # None  BY FreshType DEF ProducerAssumption
        <4> QED  BY <2>1, <3>3, <4>1, <4>2, <4>3 DEF LinksOK
      <3>4. \/ ExitProcess
            \/ ppc' = "topology" /\ mpc' = "look" /\ UNCHANGED <<watched, mNew>>
            \/ UNCHANGED current
        BY <1>2 DEF Startup, monitor, session
      <3>5. current' # current  BY <1>2, <2>1, FreshType
      <3> QED  BY <3>2, <3>3, <3>4, <3>5
    <2>2. CASE UNCHANGED <<session, ppc, monitor>>
      BY <2>2, FewerLinks DEF session, monitor
    <2> QED  BY <1>1, <1>2, <2>1, <2>2 DEF Startup
  <1>3. CASE ReadChannel
    BY <1>3, FewerLinks DEF ReadChannel, session, monitor
  <1>4. CASE Declare
    <2>1. ExitProcess \/ (UNCHANGED <<session, monitor>> /\ ppc' \in {"declare", "serving"})
      BY <1>4 DEF Declare
    <2> QED  BY <1>1, <1>4, <2>1, FewerLinks DEF Declare, session, monitor
  <1>5. CASE Close
    <2>1. current \in Conns  BY <1>5 DEF Close, LinksOK, TypeOK, Ids
    <2>2. \A g \in Conns : link'[g] = IF g = current THEN "closed" ELSE link[g]
      BY <1>5 DEF Close, Shut
    <2>3. \A g \in Conns : link'[g] # "closed" => g = mNew'
      BY <1>5, <2>2 DEF Close, LinksOK, monitor
    <2>4. mpc' = "wait" => watched' # None /\ link'[watched'] = "closed"
      BY <1>5, <2>1, <2>2 DEF Close, LinksOK, monitor
    <2> QED  BY <1>5, <2>3, <2>4 DEF Close, LinksOK, monitor
  <1>6. CASE Exit \/ Kill  BY <1>1, <1>6 DEF Exit, Kill
  <1>7. CASE MLook
    BY <1>7 DEF MLook, MGoto, LinksOK, session, main
  <1>8. CASE MWait
    <2>1. mpc' \in {"ended", "dial"} /\ UNCHANGED <<link, current, mNew, ppc>>
      BY <1>8 DEF MWait, MGoto, session, main
    <2>2. mpc' = "dial" => current = None \/ link[current] = "closed"
      BY <1>8 DEF MWait, MGoto, LinksOK
    <2> QED  BY <1>8, <2>1, <2>2 DEF MWait, LinksOK
  <1>9. CASE MDial
    <2>1. /\ mNew = None
          /\ current = None \/ link[current] = "closed"
          /\ ppc \notin {"dial", "exited"}
      BY <1>9 DEF MDial, LinksOK
    <2>2. \A g \in Conns : link[g] = "closed"
      BY <1>9 DEF MDial, LinksOK, ProducerAssumption
    <2>3. CASE Open(Fresh) /\ mNew' = Fresh /\ mpc' = "swap"
      <3>1. Fresh \in Conns /\ Fresh # current  BY FreshType
      <3>2. \A g \in Conns : link'[g] # "closed" => g = Fresh
        BY <2>2, <2>3 DEF Open, TypeOK
      <3>3. current' = current /\ ppc' = ppc  BY <1>9 DEF MDial, main
      <3>4. current \in Conns => link'[current] = "closed"
        BY <2>2, <2>3, <3>1 DEF Open, TypeOK
      <3>5. current \in Conns \/ current = None  BY DEF TypeOK, Ids
      <3> QED
        BY <2>1, <2>3, <3>1, <3>2, <3>3, <3>4, <3>5 DEF LinksOK, ProducerAssumption
    <2>4. CASE mpc' \in {"look", "dial"} /\ UNCHANGED <<link, mNew>>
      BY <1>9, <2>1, <2>4 DEF MDial, LinksOK, main
    <2> QED  BY <1>9, <2>3, <2>4 DEF MDial, MGoto, LookAgain
  <1>10. CASE MSwap
    <2>1. mNew \in Conns  BY <1>10 DEF MSwap, LinksOK, TypeOK, Ids
    <2>2. \A g \in Conns : link[g] # "closed" => g = mNew
      BY <1>10 DEF MSwap, LinksOK
    <2>3. \A g \in Conns : link'[g] # "closed" => g = mNew
      BY <1>10, <2>2 DEF MSwap, Install, Shut
    <2> QED
      BY <1>10, <2>1, <2>3 DEF MSwap, Install, MGoto, LinksOK, main, ProducerAssumption
  <1>11. ASSUME NEW m \in Messages, TakeChannel(m) \/ Send(m)  PROVE LinksOK'
    BY <1>11, FewerLinks DEF TakeChannel, Send, session, main, monitor
  <1>12. CASE Terminate
    BY <1>12, FewerLinks DEF Terminate, session, main, monitor
  <1>13. CASE BrokerDown
    BY <1>13, FewerLinks DEF BrokerDown, main, monitor, TypeOK
  <1>14. CASE BrokerReturns \/ TopologyLost \/ PeerRestarts \/ PeerDeclares
    BY <1>14, FewerLinks DEF BrokerReturns, TopologyLost, PeerRestarts, PeerDeclares,
       session, main, monitor
  <1>15. ASSUME NEW g \in Conns, Cut(g) \/ Notice(g)  PROVE LinksOK'
    <2>1. \A h \in Conns : link[h] = "closed" => link'[h] = "closed"
      BY <1>15 DEF Cut, Notice, TypeOK
    <2> QED  BY <1>15, <2>1, FewerLinks DEF Cut, Notice, main, monitor
  <1>16. CASE UNCHANGED vars
    BY <1>16, FewerLinks DEF vars, session, main, monitor
  <1> QED
    BY <1>2, <1>3, <1>4, <1>5, <1>6, <1>7, <1>8, <1>9, <1>10, <1>11, <1>12, <1>13, <1>14,
       <1>15, <1>16
    DEF Next, Process, Monitor, Handlers, External

--------------------------------------------------------------------------------
(* The topology.                                                           *)

\* Another item does not disturb what is there, and one that binds a queue finds
\* its dead letter queue bound by the process that declares it.
LEMMA OneMoreItem ==
    ASSUME ProducerAssumption, TypeOK, DeclaredOK, NEW i \in 1 .. Last,
           declared' = declared \union {DeclareOrder[i]},
           \A j \in 1 .. (i - 1) : DeclareOrder[j] \in declared
    PROVE  /\ \A j \in 1 .. i : DeclareOrder[j] \in declared'
           /\ \A q \in {QueueSeq[k] : k \in DOMAIN QueueSeq} :
                 Of("queueBind", q) \in declared' => Of("dlqBind", q) \in declared'
  <1>0. i \in Int /\ Last \in Nat  BY LastType
  <1>1. \A j \in 1 .. i : DeclareOrder[j] \in declared'
    <2>1. \A j \in 1 .. i : j = i \/ j \in 1 .. (i - 1)  BY <1>0
    <2> QED  BY <2>1
  <1>2. ASSUME NEW q \in {QueueSeq[k] : k \in DOMAIN QueueSeq}, Of("queueBind", q) \in declared'
        PROVE  Of("dlqBind", q) \in declared'
    <2>1. CASE Of("queueBind", q) \in declared  BY <2>1 DEF DeclaredOK
    <2>2. CASE DeclareOrder[i] = Of("queueBind", q)
      <3>1. i - 2 \in 1 .. Last /\ DeclareOrder[i - 2] = Of("dlqBind", q)
        BY <2>2, DeadLetterFirst
      <3>2. i - 2 \in 1 .. (i - 1)  BY <1>0, <3>1
      <3> QED  BY <3>1, <3>2
    <2> QED  BY <1>2, <2>1, <2>2
  <1> QED  BY <1>1, <1>2

\* Every step keeps DeclaredOK until the broker loses what was declared.
LEMMA DeclaredStep ==
    ASSUME ProducerAssumption, TypeOK, ~wiped => DeclaredOK, [Next]_vars
    PROVE  ~wiped' => DeclaredOK'
  <1>0. Last \in Nat \ {0, 1} /\ peer \in 0 .. Last /\ step \in 1 .. Last
    BY LastType DEF TypeOK
  <1>1. ASSUME UNCHANGED <<declared, wiped, peer>>,
               step' \in {1, step}
        PROVE  ~wiped' => DeclaredOK'
    <2>1. step' = 1 => 1 .. (step' - 1) = {}  OBVIOUS
    <2> QED  BY <1>1, <2>1 DEF DeclaredOK
  <1>2. ASSUME ExitProcess, UNCHANGED <<declared, wiped, peer>>
        PROVE  ~wiped' => DeclaredOK'
    BY <1>1, <1>2 DEF ExitProcess
  <1>3. CASE Startup
    BY <1>1, <1>2, <1>3 DEF Startup, broker
  <1>4. CASE Declare
    <2>1. CASE ExitProcess /\ UNCHANGED declared  BY <1>2, <1>4, <2>1 DEF Declare
    <2>2. CASE ~(ExitProcess /\ UNCHANGED declared)
      <3>1. /\ declared' = declared \union {DeclareOrder[step]}
            /\ step' \in {1, step + 1}
            /\ UNCHANGED <<wiped, peer>>
        BY <1>4, <2>2 DEF Declare
      <3>2. SUFFICES ASSUME ~wiped  PROVE DeclaredOK'
        BY <3>1
      <3>3. DeclaredOK  BY <3>2
      <3>4. /\ \A j \in 1 .. step : DeclareOrder[j] \in declared'
            /\ \A q \in {QueueSeq[k] : k \in DOMAIN QueueSeq} :
                  Of("queueBind", q) \in declared' => Of("dlqBind", q) \in declared'
        BY <1>0, <3>1, <3>3, OneMoreItem DEF DeclaredOK
      <3>5. 1 .. (step' - 1) \subseteq 1 .. step
        <4>1. CASE step' = 1  BY <4>1
        <4>2. CASE step' = step + 1
          <5>1. step' - 1 = step  BY <1>0, <4>2
          <5> QED  BY <5>1
        <4> QED  BY <3>1, <4>1, <4>2
      <3> QED  BY <3>1, <3>3, <3>4, <3>5 DEF DeclaredOK
    <2> QED  BY <2>1, <2>2
  <1>5. CASE PeerDeclares
    <2>1. /\ declared' = declared \union {DeclareOrder[peer + 1]}
          /\ peer + 1 \in 1 .. Last /\ peer' = peer + 1
          /\ UNCHANGED <<wiped, ppc, step>>
      BY <1>0, <1>5 DEF PeerDeclares, main
    <2>2. SUFFICES ASSUME ~wiped  PROVE DeclaredOK'
      BY <2>1
    <2>3. \A j \in 1 .. ((peer + 1) - 1) : DeclareOrder[j] \in declared
      BY <1>0, <2>2 DEF DeclaredOK
    <2>4. /\ \A j \in 1 .. (peer + 1) : DeclareOrder[j] \in declared'
          /\ \A q \in {QueueSeq[k] : k \in DOMAIN QueueSeq} :
                Of("queueBind", q) \in declared' => Of("dlqBind", q) \in declared'
      BY <2>1, <2>2, <2>3, OneMoreItem
    <2> QED  BY <2>1, <2>2, <2>4 DEF DeclaredOK
  <1>6. CASE PeerRestarts
    BY <1>6 DEF PeerRestarts, DeclaredOK, main
  <1>7. CASE TopologyLost  BY <1>7 DEF TopologyLost
  <1>8. CASE ReadChannel
    BY <1>1, <1>8 DEF ReadChannel, broker
  <1>9. CASE Close \/ Exit \/ Kill \/ Terminate
    BY <1>1, <1>2, <1>9 DEF Close, Exit, Kill, Terminate, broker, main
  <1>10. CASE Monitor
    BY <1>1, <1>10 DEF Monitor, MLook, MWait, MDial, MSwap, broker, main
  <1>11. CASE Handlers
    BY <1>1, <1>11 DEF Handlers, TakeChannel, Send, broker, main
  <1>12. ASSUME BrokerDown \/ BrokerReturns \/ \E g \in Conns : Cut(g) \/ Notice(g)
         PROVE  ~wiped' => DeclaredOK'
    BY <1>1, <1>12 DEF BrokerDown, BrokerReturns, Cut, Notice, broker, main
  <1>13. CASE UNCHANGED vars  BY <1>1, <1>13 DEF vars, broker, main
  <1> QED
    BY <1>3, <1>4, <1>5, <1>6, <1>7, <1>8, <1>9, <1>10, <1>11, <1>12, <1>13
    DEF Next, Process, External

--------------------------------------------------------------------------------
(* Without failures.                                                       *)

\* The whole topology has an exchange and a binding for the key of each message.
LEMMA TopologyIsComplete ==
    ASSUME ProducerAssumption
    PROVE  /\ Exchange \in Items
           /\ \A m \in Messages : Key[m] # None => Of("queueBind", Key[m]) \in Items
  <1>0. Last \in Nat \ {0, 1} /\ Len(QueueSeq) \in Nat  BY LastType
  <1>1. Exchange \in Items
    <2>1. 1 \in 1 .. Last /\ DeclareOrder[1] = Exchange  BY <1>0 DEF DeclareOrder
    <2> QED  BY <2>1, OrderType
  <1>2. ASSUME NEW m \in Messages, Key[m] # None
        PROVE  Of("queueBind", Key[m]) \in Items
    <2>1. PICK k \in 1 .. Len(QueueSeq) : Key[m] = QueueSeq[k]
      BY <1>2 DEF ProducerAssumption
    <2> DEFINE i == 4 * k + 2
    <2>2. k \in Int /\ 1 <= k /\ k <= Len(QueueSeq)  BY <1>0, <2>1
    <2>3. i \in 1 .. Last /\ i # 1 /\ i # 2  BY <1>0, <2>2 DEF Last
    <2>4. (i - 3) % 4 = 3 /\ (i - 3) \div 4 = k - 1  BY <2>2
    <2>5. DeclareOrder[i] = Of(PerQueue[1 + ((i - 3) % 4)], QueueSeq[1 + ((i - 3) \div 4)])
      <3> HIDE DEF i
      <3> QED  BY <2>3 DEF DeclareOrder
    <2> HIDE DEF i
    <2>6. 1 + ((i - 3) % 4) = 4 /\ 1 + ((i - 3) \div 4) = k  BY <2>2, <2>4
    <2>7. PerQueue[4] = "queueBind"  BY DEF PerQueue
    <2>8. DeclareOrder[i] = Of("queueBind", Key[m])  BY <2>1, <2>5, <2>6, <2>7
    <2> QED  BY <2>3, <2>8, OrderType
  <1> QED  BY <1>1, <1>2

\* The end of a process breaks off the calls that are under way, if there are any.
LEMMA ExitCalm ==
    ASSUME ProducerAssumption, TypeOK, CalmOK, TroubleIsCaused, ExitProcess,
           UNCHANGED <<declared, wiped, failures>>,
           ppc = "serving" => failures' # 0
    PROVE  CalmOK' /\ TroubleIsCaused'
  <1> SUFFICES ASSUME failures = 0
               PROVE  CalmOK' /\ TroubleIsCaused'
    BY DEF CalmOK, TroubleIsCaused
  <1>1. /\ ppc' \in {"dial", "exited"} /\ mpc' = "none" /\ current' = None
        /\ \A m \in Messages : via'[m] = None
        /\ \A g \in Conns : link'[g] = "closed" /\ channel'[g] = "closed"
        /\ ctxDone' = ctxDone /\ routed' = routed
    BY DEF ExitProcess
  <1>2. CalmOK'  BY <1>1 DEF CalmOK
  <1>3. \A m \in Messages : via[m] # None => ctxDone  BY DEF CalmOK
  <1>4. \A m \in Messages : answer'[m] = IF via[m] # None THEN "error" ELSE answer[m]
    BY DEF ExitProcess
  <1>5. TroubleIsCaused'  BY <1>1, <1>3, <1>4 DEF TroubleIsCaused
  <1> QED  BY <1>2, <1>5

\* Every step keeps the calm.
LEMMA CalmStep ==
    ASSUME ProducerAssumption, IInv, CalmOK, TroubleIsCaused, [Next]_vars
    PROVE  CalmOK' /\ TroubleIsCaused'
  <1> SUFFICES ASSUME failures' = 0
               PROVE  CalmOK' /\ TroubleIsCaused'
    BY DEF CalmOK, TroubleIsCaused
  <1>0. TypeOK /\ LinksOK /\ failures = 0 /\ ~wiped /\ DeclaredOK
    <2>1. TypeOK /\ LinksOK  BY DEF IInv
    <2>2. failures \in Nat  BY <2>1 DEF TypeOK
    <2>3. failures' = failures \/ failures' = failures + 1
      BY DEF Next, Process, Startup, ReadChannel, Declare, Close, Exit, Monitor, MLook, MWait, MDial,
         MSwap, Handlers, TakeChannel, Send, Terminate, Kill, Fail, External, BrokerDown,
         BrokerReturns, TopologyLost, PeerDeclares, PeerRestarts, Cut, Notice, vars
    <2>4. failures = 0  BY <2>2, <2>3
    <2> QED  BY <2>1, <2>4 DEF IInv, CalmOK
  <1>1. ~Kill /\ ~BrokerDown /\ ~TopologyLost /\ \A g \in Conns : ~Cut(g) /\ ~Notice(g)
    BY <1>0 DEF Kill, BrokerDown, TopologyLost, Cut, Notice, Fail, CalmOK
  <1>2. CASE Startup
    <2>1. CASE ExitProcess
      BY <1>0, <1>2, <2>1, ExitCalm DEF Startup, broker
    <2>2. CASE Open(Fresh) /\ current' = Fresh /\ ppc' = "topology" /\ mpc' = "look"
               /\ UNCHANGED <<publish, ctxDone>>
      <3>1. Fresh \in Conns  BY <1>0, FreshType
      <3>2. \A g \in Conns : /\ link'[g] = IF g = Fresh THEN "up" ELSE link[g]
                             /\ channel'[g] = IF g = Fresh THEN "open" ELSE channel[g]
        BY <1>0, <2>2 DEF Open, TypeOK
      <3>3. \A m \in Messages : via[m] = None  BY <1>0, <1>2 DEF Startup, CalmOK
      <3>4. CalmOK'
        BY <1>0, <1>2, <2>2, <3>1, <3>2, <3>3 DEF CalmOK, Startup, broker, publish
      <3> QED  BY <1>0, <2>2, <3>4 DEF TroubleIsCaused, publish
    <2>3. CASE UNCHANGED <<session, ppc, monitor, publish, ctxDone>>
      BY <1>0, <1>2, <2>3 DEF Startup, CalmOK, TroubleIsCaused, broker, session, monitor, publish
    <2> QED  BY <1>2, <2>1, <2>2, <2>3 DEF Startup
  <1>3. CASE ReadChannel
    BY <1>0, <1>3 DEF ReadChannel, CalmOK, TroubleIsCaused, broker, session, monitor, publish
  <1>4. CASE Declare
    <2>1. CASE ExitProcess /\ UNCHANGED declared
      BY <1>0, <1>4, <2>1, ExitCalm DEF Declare
    <2>2. CASE ~(ExitProcess /\ UNCHANGED declared)
      <3>1. /\ declared' = declared \union {DeclareOrder[step]}
            /\ ppc' = IF step = Last THEN "serving" ELSE ppc
            /\ ppc = "declare"
            /\ UNCHANGED <<wiped, session, monitor, publish, ctxDone>>
        BY <1>4, <2>2 DEF Declare
      <3>2. ASSUME step = Last
            PROVE  Items \subseteq declared'
        <4>1. SUFFICES ASSUME NEW i \in 1 .. Last  PROVE DeclareOrder[i] \in declared'
          BY DEF Items
        <4>2. CASE i = Last  BY <3>1, <3>2, <4>2
        <4>3. CASE i # Last
          <5>1. i \in 1 .. (step - 1)  BY <3>2, <4>1, <4>3, LastType
          <5> QED  BY <1>0, <3>1, <5>1 DEF DeclaredOK
        <4> QED  BY <4>2, <4>3
      <3>3. ppc' = "serving" => Items \subseteq declared'  BY <3>1, <3>2
      <3> QED
        BY <1>0, <3>1, <3>3 DEF CalmOK, TroubleIsCaused, session, monitor, publish
    <2> QED  BY <2>1, <2>2
  <1>5. CASE Close
    <2>1. /\ ctxDone /\ ctxDone' /\ ppc = "serving" /\ ppc' = "closed"
          /\ UNCHANGED <<declared, wiped, publish>>
          /\ \A g \in Conns : /\ link'[g] = IF g = current THEN "closed" ELSE link[g]
                              /\ channel'[g] = IF g = current THEN "closed" ELSE channel[g]
      BY <1>5 DEF Close, Shut, broker
    <2> QED  BY <1>0, <2>1 DEF CalmOK, TroubleIsCaused, publish
  <1>6. CASE Exit
    BY <1>0, <1>6, ExitCalm DEF Exit, broker
  <1>7. CASE MLook
    BY <1>0, <1>7 DEF MLook, MGoto, CalmOK, TroubleIsCaused, broker, session, main, publish
  <1>8. CASE MWait
    <2>1. ~ctxDone => mpc' # "dial"
      <3>1. SUFFICES ASSUME ~ctxDone, link[watched] = "closed"
                     PROVE  FALSE
        BY <1>8 DEF MWait, MGoto
      <3>2. current = None
        BY <1>0, <1>8, <3>1 DEF CalmOK, LinksOK, MWait
      <3>3. ppc \in {"dial", "exited", "closed"}
        BY <1>0, <3>2 DEF LinksOK, TypeOK
      <3> QED  BY <1>0, <1>8, <3>1, <3>3 DEF LinksOK, CalmOK, MWait
    <2>2. mpc' \in {"ended", "dial"} /\ UNCHANGED <<broker, session, main, publish, ctxDone>>
      BY <1>8 DEF MWait, MGoto
    <2> QED
      BY <1>0, <2>1, <2>2 DEF CalmOK, TroubleIsCaused, broker, session, main, publish
  <1>9. CASE MDial
    <2>1. ctxDone /\ ctxDone'  BY <1>0, <1>9 DEF MDial, CalmOK
    <2>2. Fresh \in Conns  BY <1>0, FreshType
    <2>3. \A g \in Conns : \/ link'[g] = link[g] /\ channel'[g] = channel[g]
                           \/ link'[g] = "up" /\ channel'[g] = "open"
      BY <1>0, <1>9, <2>2 DEF MDial, Open, TypeOK
    <2>4. UNCHANGED <<declared, wiped, ppc, publish>>
      BY <1>9 DEF MDial, broker, main
    <2> QED  BY <1>0, <2>1, <2>3, <2>4 DEF CalmOK, TroubleIsCaused, publish
  <1>10. CASE MSwap
    <2>1. ctxDone /\ ctxDone'  BY <1>0, <1>10 DEF MSwap, CalmOK
    <2>2. \A g \in Conns : \/ link'[g] = link[g] /\ channel'[g] = channel[g]
                           \/ link'[g] = "closed" /\ channel'[g] = "closed"
      BY <1>10 DEF MSwap, Install, Shut
    <2>3. UNCHANGED <<declared, wiped, ppc, publish>>
      BY <1>10 DEF MSwap, broker, main
    <2> QED  BY <1>0, <2>1, <2>2, <2>3 DEF CalmOK, TroubleIsCaused, publish
  <1>11. ASSUME NEW m \in Messages, TakeChannel(m)
         PROVE  CalmOK' /\ TroubleIsCaused'
    <2>1. UNCHANGED <<broker, session, main, monitor, routed, ctxDone>>
      BY <1>11 DEF TakeChannel
    <2>2. CASE current = None
      <3>1. ctxDone
        BY <1>0, <1>11, <2>2 DEF TakeChannel, LinksOK, CalmOK
      <3>2. via' = via /\ answer' = [answer EXCEPT ![m] = "error"]
        BY <1>11, <2>2 DEF TakeChannel
      <3> QED
        BY <1>0, <2>1, <3>1, <3>2 DEF CalmOK, TroubleIsCaused, TypeOK, broker, session, main, monitor
    <2>3. CASE current # None
      <3>1. via' = [via EXCEPT ![m] = current] /\ answer' = answer
        BY <1>11, <2>3 DEF TakeChannel
      <3>2. \A k \in Messages : via'[k] = IF k = m THEN current ELSE via[k]
        BY <1>0, <3>1 DEF TypeOK
      <3>3. CalmOK'
        BY <1>0, <1>11, <2>1, <2>3, <3>2 DEF TakeChannel, CalmOK, broker, session, main, monitor
      <3> QED  BY <1>0, <2>1, <3>1, <3>3 DEF TroubleIsCaused
    <2> QED  BY <2>2, <2>3
  <1>12. ASSUME NEW m \in Messages, Send(m)
         PROVE  CalmOK' /\ TroubleIsCaused'
    <2>1. /\ via[m] \in Conns
          /\ ppc \in {"serving", "closed"} /\ Items \subseteq declared
          /\ UNCHANGED <<broker, link, current, main, monitor, ctxDone>>
      BY <1>0, <1>12 DEF Send, CalmOK, TypeOK, Ids
    <2>2. Exchange \in declared /\ (Key[m] # None => Routable(m))
      BY <2>1, TopologyIsComplete DEF Routable
    <2>3. Live(via[m]) \/ Known(via[m])
      BY <1>0, <2>1 DEF CalmOK, Live, Known, TypeOK
    <2>4. Known(via[m]) /\ ~Live(via[m]) => ctxDone
      BY <1>0, <1>12, <2>1 DEF CalmOK, Known, Live, Send
    <2>5. via' = [via EXCEPT ![m] = None] /\ channel' = channel
      BY <1>12, <2>2, <2>3 DEF Send, Answers
    <2>6. CalmOK'
      BY <1>0, <2>1, <2>5 DEF CalmOK, TypeOK, broker, main, monitor
    <2>7. CASE Live(via[m])
      <3>1. /\ answer' = [answer EXCEPT ![m] = "ok"]
            /\ routed' = IF Routable(m) THEN routed \union {m} ELSE routed
        BY <1>12, <2>2, <2>7 DEF Send, Answers, Known, Live
      <3> QED
        BY <1>0, <2>1, <2>2, <2>6, <3>1 DEF TroubleIsCaused, TypeOK
    <2>8. CASE ~Live(via[m])
      <3>1. ctxDone /\ answer' = [answer EXCEPT ![m] = "error"] /\ routed' = routed
        BY <1>12, <2>3, <2>4, <2>8 DEF Send, Answers
      <3> QED
        BY <1>0, <2>1, <2>6, <3>1 DEF TroubleIsCaused, TypeOK
    <2> QED  BY <2>7, <2>8
  <1>13. CASE Terminate
    BY <1>0, <1>13 DEF Terminate, CalmOK, TroubleIsCaused, broker, session, main, monitor, publish
  <1>14. CASE BrokerReturns \/ PeerDeclares \/ PeerRestarts
    <2>1. declared \subseteq declared' /\ UNCHANGED <<wiped, session, main, monitor, publish, ctxDone>>
      BY <1>14 DEF BrokerReturns, PeerDeclares, PeerRestarts
    <2> QED
      BY <1>0, <2>1 DEF CalmOK, TroubleIsCaused, session, main, monitor, publish
  <1>15. CASE UNCHANGED vars
    BY <1>0, <1>15 DEF vars, CalmOK, TroubleIsCaused, broker, session, main, monitor, publish
  <1> QED
    BY <1>1, <1>2, <1>3, <1>4, <1>5, <1>6, <1>7, <1>8, <1>9, <1>10, <1>11, <1>12, <1>13, <1>14, <1>15
    DEF Next, Process, Monitor, Handlers, External

--------------------------------------------------------------------------------
(* The theorems.                                                           *)

\* The process starts with nothing open and nothing declared by itself.
LEMMA InitOK == ProducerAssumption /\ Init => IInv
  <1> SUFFICES ASSUME ProducerAssumption, Init  PROVE IInv
    OBVIOUS
  <1>0. Last \in Nat \ {0, 1}  BY LastType
  <1>1. TypeOK
    <2>1. declared \subseteq Items /\ peer \in 0 .. Last /\ step \in 1 .. Last
      BY <1>0 DEF Init
    <2>2. tries \in 0 .. StartupAttempts - 1 /\ mTries \in 0 .. MaxAttempts - 1
      BY DEF Init, NoMonitor, ProducerAssumption
    <2>3. brokerUp \in BOOLEAN /\ wiped \in BOOLEAN /\ ctxDone \in BOOLEAN
      BY DEF Init
    <2> QED  BY <2>1, <2>2, <2>3 DEF Init, NoMonitor, TypeOK, Ids
  <1>2. LinksOK  BY DEF Init, NoMonitor, LinksOK
  <1>3. DeclaredOK
    <2>1. ASSUME NEW q \in {QueueSeq[i] : i \in DOMAIN QueueSeq},
                 Of("queueBind", q) \in declared
          PROVE  Of("dlqBind", q) \in declared
      <3>1. declared = Items  BY <2>1 DEF Init
      <3>2. PICK i \in 1 .. Last : DeclareOrder[i] = Of("queueBind", q)
        BY <2>1, <3>1 DEF Items
      <3>3. i - 2 \in 1 .. Last /\ DeclareOrder[i - 2] = Of("dlqBind", q)
        BY <3>2, DeadLetterFirst
      <3> QED  BY <3>1, <3>3 DEF Items
    <2>2. \A i \in 1 .. peer : DeclareOrder[i] \in declared
      <3>1. CASE peer = 0  BY <3>1
      <3>2. CASE peer = Last  BY <3>2, OrderType DEF Init
      <3> QED  BY <3>1, <3>2 DEF Init
    <2>3. 1 .. (step - 1) = {}  BY DEF Init
    <2> QED  BY <2>1, <2>2, <2>3 DEF DeclaredOK
  <1> QED  BY <1>1, <1>2, <1>3 DEF IInv

\* IInv holds in every state of the producer.
THEOREM ProducerInvariant == Spec => []IInv
  <1>1. Init => IInv  BY InitOK, ProducerAssumption
  <1>2. IInv /\ [Next]_vars => IInv'
    BY ProducerAssumption, TypeStep, LinksStep, DeclaredStep DEF IInv
  <1> QED  BY <1>1, <1>2, PTL DEF Spec

\* The variables of the producer and of the broker keep their types.
THEOREM TypeCorrect == Spec => []TypeOK
  <1>1. IInv => TypeOK  BY DEF IInv
  <1> QED  BY <1>1, ProducerInvariant, PTL

\* connect, monitorReconnect and Close between them never hold two connections,
\* whatever fails and whenever the producer is closed.
THEOREM AtMostOneConnection == Spec => []OneConnection
  <1>1. ASSUME IInv  PROVE OneConnection
    <2> DEFINE open == {g \in Conns : link[g] # "closed"}
               mine == IF mNew # None THEN mNew ELSE current
    <2>1. open \subseteq {mine}
      <3>1. \A g \in open : g = current \/ g = mNew  BY <1>1 DEF IInv, LinksOK
      <3>2. mNew # None => current = None \/ link[current] = "closed"
        BY <1>1 DEF IInv, LinksOK
      <3>3. mNew = None => None \notin open  BY ProducerAssumption DEF ProducerAssumption
      <3>4. mNew # None => current \notin open
        BY <3>2, ProducerAssumption DEF ProducerAssumption
      <3> QED  BY <3>1, <3>3, <3>4
    <2> HIDE DEF open, mine
    <2>2. IsFiniteSet({mine}) /\ Cardinality({mine}) = 1  BY FS_Singleton
    <2>3. Cardinality(open) <= 1  BY <2>1, <2>2, FS_Subset
    <2> QED  BY <2>3 DEF OneConnection, open
  <1> QED  BY <1>1, ProducerInvariant, PTL

\* The monitor ends with the context, or when Close has taken its connection away:
\* the inductive step of MonitorOK.
LEMMA MonitorStep ==
    ASSUME ProducerAssumption, LinksOK, MonitorOK, [Next]_vars
    PROVE  MonitorOK'
  <1> USE DEF MonitorOK
  <1>1. CASE ExitProcess  BY <1>1 DEF ExitProcess
  <1>2. CASE UNCHANGED monitor /\ UNCHANGED <<ppc, ctxDone>>
    BY <1>2 DEF monitor
  <1>3. CASE Startup
    BY <1>1, <1>2, <1>3 DEF Startup, monitor
  <1>4. CASE Declare
    BY <1>1, <1>4 DEF Declare, monitor
  <1>5. CASE ReadChannel \/ Close
    BY <1>5 DEF ReadChannel, Close, monitor
  <1>6. CASE Exit \/ Kill
    BY <1>1, <1>6 DEF Exit, Kill
  <1>7. CASE MLook
    BY <1>7 DEF MLook, MGoto, LinksOK, main
  <1>8. CASE MWait
    BY <1>8 DEF MWait, MGoto, main
  <1>9. CASE MDial
    BY <1>9 DEF MDial, MGoto, LookAgain, main
  <1>10. CASE MSwap
    BY <1>10 DEF MSwap, MGoto, main
  <1>11. CASE Terminate
    BY <1>11 DEF Terminate, main, monitor
  <1>12. CASE Handlers \/ External \/ UNCHANGED vars
    <2>1. UNCHANGED monitor /\ UNCHANGED <<ppc, ctxDone>>
      BY <1>12 DEF Handlers, TakeChannel, Send, External, BrokerDown, BrokerReturns, TopologyLost,
                   Cut, Notice, PeerDeclares, PeerRestarts, main, vars
    <2> QED  BY <1>2, <2>1
  <1> QED
    BY <1>3, <1>4, <1>5, <1>6, <1>7, <1>8, <1>9, <1>10, <1>11, <1>12 DEF Next, Process, Monitor

\* monitorReconnect: no connection of a serving process is lost unobserved, whatever
\* fails while it is replaced.
THEOREM EveryLossIsNoticed == Spec => []Attended
  <1>1. Init => MonitorOK  BY DEF Init, MonitorOK
  <1>2. IInv /\ MonitorOK /\ [Next]_vars => MonitorOK'
    BY ProducerAssumption, MonitorStep DEF IInv
  <1>3. ASSUME IInv, MonitorOK, Serving
        PROVE  \/ mpc = "look"
               \/ mpc = "wait" /\ watched = current
               \/ mpc \in {"dial", "swap"} /\ link[current] = "closed"
    <2>1. current # None  BY <1>3 DEF Serving, IInv, LinksOK
    <2>2. mpc \in {"look", "wait", "dial", "swap"}
      BY <1>3 DEF Serving, MonitorOK, IInv, TypeOK
    <2>3. mpc = "wait" => watched = current  BY <1>3, <2>1 DEF IInv, LinksOK
    <2>4. mpc \in {"dial", "swap"} => link[current] = "closed"
      BY <1>3, <2>1 DEF IInv, LinksOK
    <2> QED  BY <2>2, <2>3, <2>4
  <1>4. IInv /\ MonitorOK => Attended  BY <1>3 DEF Attended
  <1> QED  BY <1>1, <1>2, <1>4, ProducerInvariant, PTL DEF Spec

\* DeclareTopology's order protects rejected messages, however many processes run
\* it at the same time and wherever each of them stops.
THEOREM RejectedMessagesAreKept == Spec => []DeadLettersHaveAQueue
  <1>1. IInv => DeadLettersHaveAQueue
    BY ProducerAssumption DEF IInv, DeclaredOK, DeadLettersHaveAQueue, ProducerAssumption
  <1> QED  BY <1>1, ProducerInvariant, PTL

\* CalmInv holds in every state of the producer.
LEMMA CalmInvariant == Spec => []CalmInv
  <1>1. Init => CalmInv
    <2> SUFFICES ASSUME Init  PROVE CalmInv
      OBVIOUS
    <2>1. IInv  BY InitOK, ProducerAssumption
    <2>2. CalmOK
      BY ProducerAssumption DEF Init, NoMonitor, CalmOK, ProducerAssumption
    <2>3. TroubleIsCaused
      BY ProducerAssumption DEF Init, TroubleIsCaused, ProducerAssumption
    <2> QED  BY <2>1, <2>2, <2>3 DEF CalmInv
  <1>2. CalmInv /\ [Next]_vars => CalmInv'
    <2> SUFFICES ASSUME CalmInv, [Next]_vars  PROVE CalmInv'
      OBVIOUS
    <2>1. IInv'
      BY ProducerAssumption, TypeStep, LinksStep, DeclaredStep DEF IInv, CalmInv
    <2> QED  BY <2>1, ProducerAssumption, CalmStep DEF CalmInv
  <1> QED  BY <1>1, <1>2, PTL DEF Spec

\* Whatever the other process declares or leaves undone, and however the startup,
\* the monitor and the shutdown interleave with them, no Publish fails and no
\* message is lost before the shutdown as long as nothing else fails.
THEOREM TroubleHasCauses == Spec => []TroubleIsCaused
  <1>1. CalmInv => TroubleIsCaused  BY DEF CalmInv
  <1> QED  BY <1>1, CalmInvariant, PTL
================================================================================
