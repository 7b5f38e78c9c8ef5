------------------------ MODULE ScenarioLifecycleProofs ------------------------
(***************************************************************************)
(* Proofs about ScenarioLifecycle, for every set of scenarios and workers, *)
(* every queue assignment and every number of failures.                    *)
(***************************************************************************)
EXTENDS ScenarioLifecycle, FiniteSetTheorems, TLAPS

--------------------------------------------------------------------------------
(* The event table.                                                        *)

\* What one INSERT does to a history: it becomes the latest row, it adds its
\* status to the facts, and it touches no other scenario.
LEMMA AppendRow ==
    ASSUME events \in [Scenarios -> Seq(Statuses)],
           NEW s \in Scenarios, NEW x \in Statuses,
           Append1(s, x)
    PROVE  /\ events' \in [Scenarios -> Seq(Statuses)]
           /\ Stored(s)' /\ Latest(s)' = x
           /\ Facts(s)' = Facts(s) \union {x}
           /\ \A t \in Scenarios \ {s} : events'[t] = events[t]
<1>1. /\ events[s] \in Seq(Statuses)
      /\ events' = [events EXCEPT ![s] = Append(events[s], x)]
  BY DEF Append1
<1>2. events'[s] = Append(events[s], x)
  BY <1>1
<1>3. /\ Len(events'[s]) = Len(events[s]) + 1
      /\ Len(events[s]) \in Nat
      /\ events'[s][Len(events[s]) + 1] = x
      /\ \A i \in 1 .. Len(events[s]) : events'[s][i] = events[s][i]
  BY <1>1, <1>2
<1>4. Facts(s)' = Facts(s) \union {x}
  <2>1. DOMAIN events[s] = 1 .. Len(events[s])
    BY <1>1
  <2>2. DOMAIN events'[s] = 1 .. (Len(events[s]) + 1)
    BY <1>1, <1>2
  <2>3. DOMAIN events'[s] = DOMAIN events[s] \union {Len(events[s]) + 1}
    BY <1>3, <2>1, <2>2
  <2> QED
    BY <1>3, <2>1, <2>3 DEF Facts
<1>5. events' \in [Scenarios -> Seq(Statuses)]
  BY <1>1
<1>6. Stored(s)' /\ Latest(s)' = x
  <2>1. Len(events'[s]) # 0
    BY <1>3
  <2>2. events'[s] # << >>
    BY <2>1
  <2> QED
    BY <1>2, <1>3, <2>2 DEF Stored, Latest
<1>7. \A t \in Scenarios \ {s} : events'[t] = events[t]
  BY <1>1
<1> QED
  BY <1>4, <1>5, <1>6, <1>7

\* The same for a scenario named by a state function, such as the one a handler
\* works on.
LEMMA RowAppended ==
    ASSUME events \in [Scenarios -> Seq(Statuses)],
           NEW s \in Scenarios, NEW x \in Statuses,
           Append1(s, x)
    PROVE  {events'[s][i] : i \in DOMAIN events'[s]} = Facts(s) \union {x}
BY AppendRow DEF Facts

--------------------------------------------------------------------------------
(* Types.                                                                  *)

\* Spending one of a bound (a failed call, a drop, a crash, a stop) leaves it a natural number.
LEMMA SpendType ==
    ASSUME budget \in [Bounds -> Nat], NEW b \in Bounds, Spend(b)
    PROVE  budget' \in [Bounds -> Nat]
BY DEF Spend

\* A failed INSERT leaves a history of statuses, committed or not.
LEMMA InsertFailsType ==
    ASSUME TypeOK, NEW s \in Scenarios, NEW x \in Statuses, InsertFails(s, x)
    PROVE  /\ events' \in [Scenarios -> Seq(Statuses)]
           /\ budget' \in [Bounds -> Nat]
BY AppendRow, SpendType DEF InsertFails, TypeOK, Bounds

\* A handler that moves on stands at one of the points of handleMessage.
LEMMA GotoType ==
    ASSUME pc \in [Workers -> Pcs], NEW w \in Workers, NEW p \in Pcs, Goto(w, p)
    PROVE  pc' \in [Workers -> Pcs]
BY DEF Goto

\* No step leaves the types: the inductive step of TypeCorrect.
LEMMA TypeStep ==
    ASSUME TypeOK, BusyOK, [Next]_vars
    PROVE  TypeOK'
<1> USE DEF TypeOK, ApiPcs, Places, Bounds
<1>1. ASSUME NEW s \in Scenarios, CreateStore(s)
      PROVE  TypeOK'
  <2>1. /\ events' \in [Scenarios -> Seq(Statuses)]
        /\ budget' \in [Bounds -> Nat]
    BY <1>1, AppendRow, InsertFailsType DEF CreateStore, Statuses
  <2> QED
    BY <1>1, <2>1 DEF CreateStore, handler
<1>2. ASSUME NEW s \in Scenarios, CreatePublish(s)
      PROVE  TypeOK'
  <2>1. budget' \in [Bounds -> Nat]
    BY <1>2, SpendType DEF CreatePublish
  <2>2. msg' \in [Scenarios -> Places] /\ apiPc' \in [Scenarios -> ApiPcs]
    BY <1>2 DEF CreatePublish
  <2> QED
    BY <1>2, <2>1, <2>2 DEF CreatePublish, handler
<1>3. ASSUME NEW s \in Scenarios, StopScenario(s)
      PROVE  TypeOK'
  <2>1. events' \in [Scenarios -> Seq(Statuses)]
    BY <1>3, AppendRow DEF StopScenario, Statuses
  <2> QED
    BY <1>3, <2>1 DEF StopScenario, handler
<1>4. ASSUME NEW s \in Scenarios, PublishForeign(s)
      PROVE  TypeOK'
  BY <1>4 DEF PublishForeign, handler
<1>5. ASSUME NEW w \in Workers, NEW s \in Scenarios, Deliver(w, s)
      PROVE  TypeOK'
  BY <1>5 DEF Deliver, Goto, Pcs
<1>6. ASSUME NEW w \in Workers, Decode(w) \/ CheckStopped(w) \/ FinalCheck(w) \/ Recheck(w)
      PROVE  TypeOK'
  <2>1. pc' \in [Workers -> Pcs]
    BY <1>6, GotoType DEF Decode, CheckStopped, FinalCheck, Recheck, ReadStatus, Pcs,
                          ReportPcs, SettlePcs
  <2>2. budget' \in [Bounds -> Nat]
    BY <1>6, SpendType DEF Decode, CheckStopped, FinalCheck, Recheck, ReadStatus
  <2> QED
    BY <1>6, <2>1, <2>2 DEF Decode, CheckStopped, FinalCheck, Recheck
<1>7. ASSUME NEW w \in Workers, MarkRunning(w)
      PROVE  TypeOK'
  <2>1. job[w] \in Scenarios
    BY <1>7 DEF MarkRunning, BusyOK, Busy
  <2>2. /\ events' \in [Scenarios -> Seq(Statuses)]
        /\ budget' \in [Bounds -> Nat]
    BY <1>7, <2>1, AppendRow, InsertFailsType DEF MarkRunning, Statuses
  <2>3. pc' \in [Workers -> Pcs]
    BY <1>7, GotoType DEF MarkRunning, Pcs, SettlePcs
  <2> QED
    BY <1>7, <2>2, <2>3 DEF MarkRunning
<1>8. ASSUME NEW w \in Workers, MarkOutcome(w)
      PROVE  TypeOK'
  <2>1. job[w] \in Scenarios /\ Outcome(w) \in Statuses
    BY <1>8 DEF MarkOutcome, BusyOK, Busy, Outcome, Statuses, Outcomes
  <2>2. /\ events' \in [Scenarios -> Seq(Statuses)]
        /\ budget' \in [Bounds -> Nat]
    BY <1>8, <2>1, AppendRow, InsertFailsType DEF MarkOutcome
  <2>3. pc' \in [Workers -> Pcs]
    BY <1>8, GotoType DEF MarkOutcome, Pcs, SettlePcs
  <2> QED
    BY <1>8, <2>2, <2>3 DEF MarkOutcome
<1>9. ASSUME NEW w \in Workers, WatcherTick(w)
      PROVE  TypeOK'
  <2>1. budget' \in [Bounds -> Nat]
    BY <1>9, SpendType DEF WatcherTick
  <2> QED
    BY <1>9, <2>1 DEF WatcherTick
<1>10. ASSUME NEW w \in Workers, ExecuteEnds(w) \/ ExecuteCancelled(w)
       PROVE  TypeOK'
  <2>1. pc' \in [Workers -> Pcs]
    BY <1>10, GotoType DEF ExecuteEnds, ExecuteCancelled, Pcs, ReportPcs
  <2> QED
    BY <1>10, <2>1, ZenonT(40) DEF ExecuteEnds, ExecuteCancelled
<1>11. ASSUME NEW w \in Workers, NEW f \in Figures, NEW p \in Pcs,
              ReportCall(w, f, p) \/ IncrCall(w, f, p)
       PROVE  TypeOK'
  <2>1. pc' \in [Workers -> Pcs]
    BY <1>11, GotoType DEF IncrCall, ReportCall, handler, Pcs, SettlePcs
  <2>2. budget' \in [Bounds -> Nat]
    BY <1>11, SpendType DEF IncrCall, ReportCall, AttemptFails
  <2>3. metrics' \in [Figures -> Nat]
    <3>1. UNCHANGED metrics \/ Count(f)
      BY <1>11 DEF IncrCall, ReportCall, AttemptFails
    <3> QED
      BY <3>1 DEF Count
  <2>4. UNCHANGED <<events, msg, apiPc, job, lease, result, watching, cancelled>>
    BY <1>11 DEF IncrCall, ReportCall, handler
  <2> QED
    BY <2>1, <2>2, <2>3, <2>4, SMTT(20)
<1>12. ASSUME NEW w \in Workers, Report(w)
       PROVE  TypeOK'
  <2>1. CASE PublishResult(w)
    <3>1. pc' \in [Workers -> Pcs] /\ budget' \in [Bounds -> Nat]
      BY <2>1, GotoType, SpendType DEF PublishResult, Pcs, SettlePcs
    <3> QED
      BY <2>1, <3>1 DEF PublishResult
  <2> QED
    BY <1>11, <1>12, <2>1 DEF Report, InsertSnapshot, IncrTotal, IncrType, IncrErrors,
                              Figures, Pcs, ReportPcs
<1>13. ASSUME NEW w \in Workers, NEW p \in Places, NEW at \in SettlePcs, Settle(w, at, p)
       PROVE  TypeOK'
  <2>1. job[w] \in Scenarios
    BY <1>13 DEF Settle, SettlePcs, BusyOK, Busy
  <2>2. pc' \in [Workers -> Pcs] /\ budget' \in [Bounds -> Nat]
    BY <1>13, GotoType, SpendType DEF Settle, Pcs
  <2>3. msg' \in [Scenarios -> Places]
    BY <1>13, <2>1 DEF Settle
  <2> QED
    BY <1>13, <2>2, <2>3 DEF Settle, Release
<1>14. ASSUME NEW w \in Workers, Ack(w) \/ Requeue(w) \/ Reject(w)
       PROVE  TypeOK'
  BY <1>13, <1>14 DEF Ack, Requeue, Reject, SettlePcs
<1>15. ASSUME NEW w \in Workers, DropConnection(w) \/ Crash(w)
       PROVE  TypeOK'
  <2>1. msg' \in [Scenarios -> Places]
    BY <1>15 DEF DropConnection, Crash, Redeliver, BusyOK
  <2>2. pc' \in [Workers -> Pcs] /\ budget' \in [Bounds -> Nat]
    BY <1>15, GotoType, SpendType DEF DropConnection, Crash, Pcs
  <2> QED
    BY <1>15, <2>1, <2>2, ZenonT(40) DEF DropConnection, Crash, Release
<1>16. CASE UNCHANGED vars
  BY <1>16 DEF vars
<1> QED
  BY <1>1, <1>2, <1>3, <1>4, <1>5, <1>6, <1>7, <1>8, <1>9, <1>10, <1>12, <1>14, <1>15, <1>16
     DEF Next, Create, HandlerStep

--------------------------------------------------------------------------------
(* Histories only grow.                                                    *)

\* An INSERT, even a failed one, takes nothing from any history: scenario_events is append-only.
LEMMA InsertGrows ==
    ASSUME TypeOK, NEW s \in Scenarios, NEW x \in Statuses,
           Append1(s, x) \/ InsertFails(s, x)
    PROVE  \A t \in Scenarios : /\ Facts(t) \subseteq Facts(t)'
                                /\ Stored(t) => Stored(t)'
                                /\ t # s => events'[t] = events[t]
<1>1. CASE UNCHANGED events
  BY <1>1 DEF Facts, Stored
<1>2. CASE Append1(s, x)
  <2>1. /\ Stored(s)' /\ Facts(s) \subseteq Facts(s)'
        /\ \A t \in Scenarios \ {s} : events'[t] = events[t]
    BY <1>2, AppendRow DEF TypeOK
  <2>2. \A t \in Scenarios \ {s} : Facts(t)' = Facts(t) /\ Stored(t)' = Stored(t)
    BY <2>1 DEF Facts, Stored
  <2> QED
    BY <2>1, <2>2
<1>3. UNCHANGED events \/ Append1(s, x)
  BY DEF InsertFails
<1> QED
  BY <1>1, <1>2, <1>3

\* Only four steps insert a row; every other leaves the table alone.
LEMMA HistoryGrows ==
    ASSUME TypeOK, BusyOK, [Next]_vars
    PROVE  \A t \in Scenarios : /\ Facts(t) \subseteq Facts(t)'
                                /\ Stored(t) => Stored(t)'
<1>1. ASSUME NEW s \in Scenarios, CreateStore(s) \/ StopScenario(s)
      PROVE  \/ UNCHANGED events
             \/ Append1(s, "queued") \/ Append1(s, "stopped")
  BY <1>1 DEF CreateStore, StopScenario, InsertFails
<1>2. ASSUME NEW w \in Workers, MarkRunning(w) \/ MarkOutcome(w)
      PROVE  /\ job[w] \in Scenarios
             /\ Outcome(w) \in Statuses
             /\ \/ UNCHANGED events
                \/ Append1(job[w], "running") \/ Append1(job[w], Outcome(w))
  BY <1>2 DEF MarkRunning, MarkOutcome, InsertFails, BusyOK, Busy, Outcome, Statuses, Outcomes
<1>3. ASSUME NEW s \in Scenarios, CreatePublish(s) \/ PublishForeign(s)
      PROVE  UNCHANGED events
  BY <1>3 DEF CreatePublish, PublishForeign
<1>4. ASSUME NEW w \in Workers,
             \/ \E s \in Scenarios : Deliver(w, s)
             \/ Decode(w) \/ CheckStopped(w) \/ ExecuteCancelled(w) \/ Recheck(w)
             \/ Report(w) \/ FinalCheck(w) \/ Ack(w) \/ Requeue(w) \/ Reject(w)
             \/ ExecuteEnds(w) \/ WatcherTick(w) \/ DropConnection(w) \/ Crash(w)
      PROVE  UNCHANGED events
  BY <1>4 DEF Deliver, Decode, CheckStopped, ExecuteCancelled, Recheck, Report, InsertSnapshot,
              IncrTotal, IncrType, IncrErrors, PublishResult, ReportCall, IncrCall, handler,
              FinalCheck, Ack, Requeue, Reject, Settle, ExecuteEnds, WatcherTick, DropConnection,
              Crash
<1>5. ASSUME UNCHANGED events
      PROVE  \A t \in Scenarios : Facts(t) \subseteq Facts(t)' /\ (Stored(t) => Stored(t)')
  BY <1>5 DEF Facts, Stored
<1>6. CASE UNCHANGED vars
  BY <1>5, <1>6 DEF vars
<1>7. {"queued", "stopped", "running"} \subseteq Statuses
  BY DEF Statuses
<1> QED
  BY <1>1, <1>2, <1>3, <1>4, <1>5, <1>6, <1>7, InsertGrows DEF Next, Create, HandlerStep

--------------------------------------------------------------------------------
(* Handlers and the deliveries they hold.                                  *)

\* The steps of a handler between its delivery and its settlement: they change
\* neither the delivery nor the message.
Inside(w) ==
    \/ Decode(w) \/ CheckStopped(w) \/ MarkRunning(w) \/ ExecuteCancelled(w)
    \/ Recheck(w) \/ Report(w) \/ FinalCheck(w) \/ MarkOutcome(w) \/ ExecuteEnds(w)

\* A step in the middle of handleMessage moves its own worker only and leaves the broker alone.
LEMMA InsideStep ==
    ASSUME TypeOK, NEW w \in Workers, Inside(w)
    PROVE  /\ Busy(w) /\ Busy(w)'
           /\ \A v \in Workers \ {w} : pc'[v] = pc[v]
           /\ UNCHANGED <<msg, apiPc, job, lease>>
<1>1. /\ UNCHANGED <<msg, apiPc, job, lease>>
      /\ pc[w] \in {"decode", "check", "markRunning", "executing", "recheck", "finalCheck",
                    "markOutcome"} \union ReportPcs
  BY DEF Inside, Decode, CheckStopped, MarkRunning, ExecuteCancelled, Recheck, Report,
         InsertSnapshot, IncrTotal, IncrType, IncrErrors, PublishResult, ReportCall, IncrCall,
         handler, FinalCheck, MarkOutcome, ExecuteEnds, ReportPcs
<1>2. \E p \in Pcs \ {"idle", "exited"} : Goto(w, p)
  <2> USE DEF Pcs, ReportPcs, SettlePcs
  <2>1. CASE Decode(w) \/ CheckStopped(w) \/ Recheck(w) \/ FinalCheck(w)
    BY <2>1 DEF Decode, CheckStopped, Recheck, FinalCheck, ReadStatus
  <2>2. CASE Report(w)
    <3>1. CASE UNCHANGED pc
      <4>1. pc[w] \in ReportPcs
        BY <2>2 DEF Report, InsertSnapshot, IncrTotal, IncrType, IncrErrors, PublishResult
      <4> QED
        BY <3>1, <4>1 DEF Goto, TypeOK
    <3>2. CASE ~UNCHANGED pc
      BY <2>2, <3>2 DEF Report, InsertSnapshot, IncrTotal, IncrType, IncrErrors, PublishResult,
                        ReportCall, IncrCall, handler
    <3> QED
      BY <3>1, <3>2
  <2>3. CASE MarkRunning(w) \/ MarkOutcome(w) \/ ExecuteEnds(w) \/ ExecuteCancelled(w)
    BY <2>3 DEF MarkRunning, MarkOutcome, ExecuteEnds, ExecuteCancelled
  <2> QED
    BY <2>1, <2>2, <2>3 DEF Inside
<1>3. Busy(w) /\ Busy(w)'
  BY <1>1, <1>2 DEF Goto, Busy, TypeOK, ReportPcs
<1>4. \A v \in Workers \ {w} : pc'[v] = pc[v]
  BY <1>2 DEF Goto, TypeOK
<1> QED
  BY <1>1, <1>3, <1>4

\* How the remaining steps split: the API, the delivery, the settlement, and
\* what happens to a handler from outside.
LEMMA StepKinds ==
    ASSUME [Next]_vars
    PROVE  \/ \E s \in Scenarios :
                 CreateStore(s) \/ CreatePublish(s) \/ StopScenario(s) \/ PublishForeign(s)
           \/ \E w \in Workers, s \in Scenarios : Deliver(w, s)
           \/ \E w \in Workers : Inside(w)
           \/ \E w \in Workers : WatcherTick(w)
           \/ \E w \in Workers : Ack(w) \/ Requeue(w) \/ Reject(w)
           \/ \E w \in Workers : DropConnection(w) \/ Crash(w)
           \/ UNCHANGED vars
BY DEF Next, Create, HandlerStep, Inside

\* A handler at work keeps its scenario: only Deliver starts it, only settling or a crash ends it.
LEMMA BusyStep ==
    ASSUME TypeOK, BusyOK, [Next]_vars
    PROVE  BusyOK'
<1> USE DEF TypeOK, BusyOK, Busy
<1>1. ASSUME NEW s \in Scenarios,
             CreateStore(s) \/ CreatePublish(s) \/ StopScenario(s) \/ PublishForeign(s)
      PROVE  BusyOK'
  BY <1>1 DEF CreateStore, CreatePublish, StopScenario, PublishForeign, handler
<1>2. ASSUME NEW w \in Workers, NEW s \in Scenarios, Deliver(w, s)
      PROVE  BusyOK'
  BY <1>2 DEF Deliver, Goto
<1>3. ASSUME NEW w \in Workers, Inside(w)
      PROVE  BusyOK'
  BY <1>3, InsideStep
<1>4. ASSUME NEW w \in Workers, WatcherTick(w)
      PROVE  BusyOK'
  BY <1>4 DEF WatcherTick
<1>5. ASSUME NEW w \in Workers, Ack(w) \/ Requeue(w) \/ Reject(w)
      PROVE  BusyOK'
  BY <1>5, ZenonT(40) DEF Ack, Requeue, Reject, Settle, Release, Goto
<1>6. ASSUME NEW w \in Workers, DropConnection(w) \/ Crash(w)
      PROVE  BusyOK'
  BY <1>6 DEF DropConnection, Crash, Release, Goto
<1>7. CASE UNCHANGED vars
  BY <1>7 DEF vars
<1> QED
  BY <1>1, <1>2, <1>3, <1>4, <1>5, <1>6, <1>7, StepKinds

\* CreateScenario keeps to its order, the row before the message.
LEMMA ApiStep ==
    ASSUME TypeOK, BusyOK, ApiOK, BrokerOK, HistoryOK, [Next]_vars
    PROVE  ApiOK'
<1>1. ASSUME NEW s \in Scenarios, CreateStore(s)
      PROVE  ApiOK'
  <2>1. /\ s \notin Undecodable /\ apiPc[s] = "new" /\ msg' = msg
        /\ \/ Append1(s, "queued") /\ apiPc' = [apiPc EXCEPT ![s] = "storing"]
           \/ InsertFails(s, "queued") /\ apiPc' = [apiPc EXCEPT ![s] = "refused"]
    BY <1>1 DEF CreateStore
  <2>2. "queued" \in Statuses
    BY DEF Statuses
  <2>3. \A t \in Scenarios \ {s} : events'[t] = events[t]
    BY <2>1, <2>2, InsertGrows
  <2>4. apiPc'[s] = "storing" => Stored(s)'
    BY <2>1, <2>2, AppendRow DEF TypeOK
  <2> QED
    BY <2>1, <2>3, <2>4 DEF ApiOK, TypeOK, Stored
<1>2. ASSUME NEW s \in Scenarios, StopScenario(s)
      PROVE  ApiOK'
  <2>1. Stored(s) /\ UNCHANGED <<msg, apiPc>>
    BY <1>2 DEF StopScenario
  <2>2. \A t \in Scenarios : Stored(t) => Stored(t)'
    BY <1>2, HistoryGrows DEF Next
  <2>3. \A t \in Scenarios \ {s} : events'[t] = events[t]
    BY <1>2, InsertGrows DEF StopScenario, Statuses
  <2> QED
    BY <2>1, <2>2, <2>3 DEF ApiOK, Stored
<1>3. ASSUME NEW s \in Scenarios, CreatePublish(s) \/ PublishForeign(s)
      PROVE  ApiOK'
  BY <1>3 DEF CreatePublish, PublishForeign, ApiOK, Stored, TypeOK
<1>4. ASSUME NEW w \in Workers, NEW s \in Scenarios, Deliver(w, s)
      PROVE  ApiOK'
  BY <1>4 DEF Deliver, ApiOK, Stored, TypeOK
<1>5. ASSUME NEW w \in Workers, Inside(w)
      PROVE  ApiOK'
  <2>1. UNCHANGED <<msg, apiPc>> /\ Busy(w)
    BY <1>5, InsideStep
  <2>2. /\ job[w] \in Scenarios
        /\ apiPc[job[w]] = "new" => job[w] \in Undecodable
    BY <2>1 DEF BusyOK, BrokerOK, ApiOK
  <2>3. CASE UNCHANGED events
    BY <2>1, <2>3 DEF ApiOK, Stored
  <2>4. CASE MarkRunning(w) \/ MarkOutcome(w)
    <3>1. apiPc[job[w]] # "new"
      BY <2>2, <2>4 DEF MarkRunning, MarkOutcome, HistoryOK, Busy
    <3>2. \A t \in Scenarios : Stored(t) => Stored(t)'
      BY <1>5, HistoryGrows
    <3>3. \A t \in Scenarios \ {job[w]} : events'[t] = events[t]
      BY <2>2, <2>4, InsertGrows
         DEF MarkRunning, MarkOutcome, Outcome, Outcomes, Statuses, InsertFails
    <3> QED
      BY <2>1, <3>1, <3>2, <3>3 DEF ApiOK, Stored
  <2> QED
    BY <1>5, <2>3, <2>4
       DEF Inside, Decode, CheckStopped, ExecuteCancelled, Recheck, Report, InsertSnapshot,
           IncrTotal, IncrType, IncrErrors, PublishResult, ReportCall, IncrCall, handler,
           FinalCheck, ExecuteEnds
<1>6. ASSUME NEW w \in Workers, WatcherTick(w)
      PROVE  ApiOK'
  BY <1>6 DEF WatcherTick, ApiOK, Stored
<1>7. ASSUME NEW w \in Workers,
             Ack(w) \/ Requeue(w) \/ Reject(w) \/ DropConnection(w) \/ Crash(w)
      PROVE  ApiOK'
  <2>1. UNCHANGED <<events, apiPc>>
    BY <1>7 DEF Ack, Requeue, Reject, Settle, DropConnection, Crash
  <2>2. lease[w] => job[w] \in Scenarios /\ msg[job[w]] = "unacked"
    BY DEF BusyOK, BrokerOK
  <2>3. \A t \in Scenarios : msg[t] = "none" => msg'[t] = "none"
    BY <1>7, <2>2 DEF Ack, Requeue, Reject, Settle, DropConnection, Crash, Redeliver, TypeOK
  <2> QED
    BY <2>1, <2>3 DEF ApiOK, Stored
<1>8. CASE UNCHANGED vars
  BY <1>8 DEF vars, ApiOK, Stored
<1> QED
  BY <1>1, <1>2, <1>3, <1>4, <1>5, <1>6, <1>7, <1>8, StepKinds

\* No step hands one delivery to two channels or settles what another channel holds.
LEMMA BrokerStep ==
    ASSUME TypeOK, BusyOK, ApiOK, BrokerOK, HistoryOK, [Next]_vars
    PROVE  BrokerOK'
<1>1. ASSUME UNCHANGED <<msg, pc, job, lease>>
      PROVE  BrokerOK'
  BY <1>1 DEF BrokerOK, Busy
<1>2. ASSUME NEW s \in Scenarios, CreateStore(s) \/ StopScenario(s)
      PROVE  BrokerOK'
  BY <1>1, <1>2 DEF CreateStore, StopScenario, handler
<1>3. ASSUME NEW s \in Scenarios, CreatePublish(s) \/ PublishForeign(s)
      PROVE  BrokerOK'
  <2>1. UNCHANGED <<pc, job, lease>> /\ msg[s] = "none"
    BY <1>3 DEF CreatePublish, PublishForeign, handler, ApiOK
  <2>2. /\ msg'[s] \in {"ready", "lost"}
        /\ \A t \in Scenarios \ {s} : msg'[t] = msg[t]
    BY <1>3 DEF CreatePublish, PublishForeign, TypeOK
  <2>3. \A w \in Workers : Busy(w) => job[w] \in Scenarios \ {s}
    BY <2>1 DEF BrokerOK, BusyOK
  <2> QED
    BY <2>1, <2>2, <2>3 DEF BrokerOK, BusyOK, Busy
<1>4. ASSUME NEW w \in Workers, NEW s \in Scenarios, Deliver(w, s)
      PROVE  BrokerOK'
  <2>1. \A v \in Workers : lease[v] => job[v] \in Scenarios \ {s}
    BY <1>4 DEF Deliver, BrokerOK, BusyOK
  <2>2. /\ msg' = [msg EXCEPT ![s] = "unacked"]
        /\ lease' = [lease EXCEPT ![w] = TRUE]
        /\ job' = [job EXCEPT ![w] = s]
        /\ pc' = [pc EXCEPT ![w] = "decode"]
    BY <1>4 DEF Deliver, Goto
  <2> QED
    BY <2>1, <2>2 DEF BrokerOK, BusyOK, Busy, TypeOK
<1>5. ASSUME NEW w \in Workers, Inside(w)
      PROVE  BrokerOK'
  BY <1>5, InsideStep DEF BrokerOK, Busy
<1>6. ASSUME NEW w \in Workers, WatcherTick(w)
      PROVE  BrokerOK'
  BY <1>1, <1>6 DEF WatcherTick
<1>7. ASSUME NEW w \in Workers, NEW at \in SettlePcs, NEW p \in Places, Settle(w, at, p),
             p = "acked" => job[w] \notin Undecodable,
             p = "dead" => job[w] \in Undecodable,
             p \in {"ready", "acked", "dead"}
      PROVE  BrokerOK'
  <2>1. /\ job[w] \in Scenarios
        /\ \A v \in Workers \ {w} : /\ pc'[v] = pc[v]
                                    /\ job'[v] = job[v]
                                    /\ lease'[v] = lease[v]
        /\ pc'[w] \in {"idle", "exited"} /\ lease'[w] = FALSE
    BY <1>7 DEF Settle, SettlePcs, Release, Goto, BusyOK, Busy, TypeOK
  <2>2. CASE lease[w]
    <3>1. /\ msg'[job[w]] \in {p, "ready"}
          /\ \A t \in Scenarios \ {job[w]} : msg'[t] = msg[t]
      BY <1>7, <2>1, <2>2 DEF Settle, TypeOK
    <3>2. \A v \in Workers \ {w} : lease[v] => job[v] # job[w]
      BY <2>2 DEF BrokerOK
    <3> QED
      BY <1>7, <2>1, <3>1, <3>2 DEF BrokerOK, BusyOK, Busy
  <2>3. CASE ~lease[w]
    <3>1. UNCHANGED msg
      BY <1>7, <2>3 DEF Settle
    <3> QED
      BY <2>1, <3>1 DEF BrokerOK, BusyOK, Busy
  <2> QED
    BY <2>2, <2>3
<1>8. ASSUME NEW w \in Workers, Ack(w) \/ Requeue(w) \/ Reject(w)
      PROVE  BrokerOK'
  BY <1>7, <1>8 DEF Ack, Requeue, Reject, Settle, SettlePcs, Places, HistoryOK, Busy
<1>9. ASSUME NEW w \in Workers, DropConnection(w) \/ Crash(w)
      PROVE  BrokerOK'
  <2>1. /\ \A v \in Workers \ {w} : /\ pc'[v] = pc[v]
                                    /\ job'[v] = job[v]
                                    /\ lease'[v] = lease[v]
        /\ lease'[w] = FALSE
        /\ Busy(w)' => Busy(w) /\ job'[w] = job[w]
    BY <1>9 DEF DropConnection, Crash, Release, Goto, Busy, TypeOK
  <2>2. CASE lease[w]
    <3>1. /\ msg'[job[w]] = "ready" /\ job[w] \in Scenarios
          /\ \A t \in Scenarios \ {job[w]} : msg'[t] = msg[t]
      BY <1>9, <2>2 DEF DropConnection, Crash, Redeliver, TypeOK, BusyOK
    <3>2. \A v \in Workers \ {w} : lease[v] => job[v] # job[w]
      BY <2>2 DEF BrokerOK
    <3> QED
      BY <2>1, <3>1, <3>2 DEF BrokerOK, BusyOK, Busy
  <2>3. CASE ~lease[w]
    <3>1. UNCHANGED msg
      BY <1>9, <2>3 DEF DropConnection, Crash, Redeliver
    <3> QED
      BY <2>1, <3>1 DEF BrokerOK, BusyOK, Busy
  <2> QED
    BY <2>2, <2>3
<1>10. CASE UNCHANGED vars
  BY <1>1, <1>10 DEF vars
<1> QED
  BY <1>2, <1>3, <1>4, <1>5, <1>6, <1>8, <1>9, <1>10, StepKinds

\* What a handler may rely on having been written stays written, whoever else writes.
LEMMA HistoryStep ==
    ASSUME TypeOK, BusyOK, BrokerOK, HistoryOK, [Next]_vars
    PROVE  HistoryOK'
<1> DEFINE Ran == {"executing", "recheck", "finalCheck", "markOutcome"} \union ReportPcs
           Known(w) == /\ pc[w] = "reject" => job[w] \in Undecodable
                       /\ Busy(w) /\ pc[w] \notin {"decode", "reject"} => job[w] \notin Undecodable
                       /\ pc[w] \in Ran => "running" \in Facts(job[w])
                       /\ pc[w] = "ack" => Facts(job[w]) \intersect Fates # {}
<1>1. HistoryOK <=> \A w \in Workers : Known(w)
  BY DEF HistoryOK
<1>2. \A t \in Scenarios : Facts(t) \subseteq Facts(t)'
  BY HistoryGrows
\* A worker whose pc and job stay put knows what it knew.
<1>3. ASSUME NEW v \in Workers, pc'[v] = pc[v], job'[v] = job[v]
      PROVE  Known(v)'
  <2>1. Known(v)
    BY <1>1
  <2>2. Busy(v) => job[v] \in Scenarios
    BY DEF BusyOK
  <2>3. pc[v] \in Ran \union {"ack"} => Facts(job[v]) \subseteq Facts(job[v])'
    BY <1>2, <1>3, <2>2 DEF Busy, ReportPcs, Facts
  <2> QED
    BY <1>3, <2>1, <2>3 DEF Busy, Facts
\* A worker that is idle, gone or still to decode knows nothing.
<1>4. ASSUME NEW v \in Workers, pc'[v] \in {"idle", "exited", "decode"}
      PROVE  Known(v)'
  BY <1>4 DEF Busy, ReportPcs
<1>5. ASSUME NEW s \in Scenarios,
             CreateStore(s) \/ CreatePublish(s) \/ StopScenario(s) \/ PublishForeign(s)
      PROVE  HistoryOK'
  <2>1. UNCHANGED <<pc, job>>
    BY <1>5 DEF CreateStore, CreatePublish, StopScenario, PublishForeign, handler
  <2> QED
    BY <1>1, <1>3, <2>1 DEF HistoryOK
<1>6. ASSUME NEW w \in Workers,
             \/ \E s \in Scenarios : Deliver(w, s)
             \/ Ack(w) \/ Requeue(w) \/ Reject(w) \/ Crash(w)
      PROVE  HistoryOK'
  <2>1. /\ pc'[w] \in {"idle", "exited", "decode"}
        /\ \A v \in Workers \ {w} : pc'[v] = pc[v] /\ job'[v] = job[v]
    BY <1>6 DEF Deliver, Ack, Requeue, Reject, Crash, Settle, Release, Goto, TypeOK
  <2> QED
    BY <1>3, <1>4, <2>1 DEF HistoryOK
<1>7. ASSUME NEW w \in Workers, WatcherTick(w) \/ DropConnection(w)
      PROVE  HistoryOK'
  <2>1. UNCHANGED <<pc, job>>
    BY <1>7 DEF WatcherTick, DropConnection
  <2> QED
    BY <1>3, <2>1 DEF HistoryOK
<1>8. ASSUME NEW w \in Workers, Inside(w)
      PROVE  HistoryOK'
  <2>1. /\ UNCHANGED job /\ Busy(w) /\ Busy(w)' /\ job[w] \in Scenarios
        /\ \A v \in Workers \ {w} : pc'[v] = pc[v]
        /\ Facts(job[w]) \subseteq Facts(job[w])'
    BY <1>2, <1>8, InsideStep DEF BusyOK, Facts
  <2>2. SUFFICES Known(w)'
    BY <1>3, <2>1 DEF HistoryOK
  <2>3. Known(w)
    BY <1>1
  <2>4. CASE Decode(w)
    BY <2>1, <2>4 DEF Decode, Goto, TypeOK, ReportPcs
  <2>5. ASSUME NEW p, pc[w] # "reject", pc[w] # "decode", ReadStatus(w, p),
               p \in {"markRunning"}
                     \/ (p \in {"snapshot", "markOutcome"} /\ "running" \in Facts(job[w])),
               UNCHANGED events
        PROVE  Known(w)'
    <3>1. pc'[w] \in {"ack", "requeue", p}
      BY <2>5 DEF ReadStatus, Goto, TypeOK
    <3>2. pc'[w] = "ack" => IsStopped(job[w])
      BY <2>5 DEF ReadStatus, Goto, TypeOK
    <3>3. IsStopped(job[w]) => "stopped" \in Facts(job[w])
      BY <2>1 DEF IsStopped, Stored, Latest, Facts, TypeOK
    <3> QED
      BY <2>1, <2>3, <2>5, <3>1, <3>2, <3>3 DEF ReportPcs, Fates, Busy
  <2>6. CASE CheckStopped(w) \/ Recheck(w) \/ FinalCheck(w)
    BY <2>3, <2>5, <2>6 DEF CheckStopped, Recheck, FinalCheck
  <2>7. CASE MarkRunning(w)
    <3>1. /\ pc[w] = "markRunning"
          /\ \/ pc'[w] = "executing" /\ Append1(job[w], "running")
             \/ pc'[w] = "requeue"
      BY <2>7 DEF MarkRunning, Goto, TypeOK
    <3>2. pc'[w] = "executing" => "running" \in Facts(job[w])'
      <4>1. ASSUME Append1(job[w], "running")
            PROVE  Facts(job[w])' = Facts(job[w]) \union {"running"}
        <5>1. "running" \in Statuses
          BY DEF Statuses
        <5> DEFINE s == job[w]
        <5>2. Facts(job[w])' = {events'[s][i] : i \in DOMAIN events'[s]}
          BY <2>1 DEF Facts
        <5>3. {events'[s][i] : i \in DOMAIN events'[s]} = Facts(s) \union {"running"}
          BY <2>1, <4>1, <5>1, RowAppended DEF TypeOK
        <5> QED
          BY <5>2, <5>3
      <4> QED
        BY <3>1, <4>1
    <3> QED
      BY <2>1, <2>3, <3>1, <3>2 DEF ReportPcs, Busy
  <2>8. CASE MarkOutcome(w)
    <3>1. /\ pc[w] = "markOutcome"
          /\ \/ pc'[w] = "ack" /\ Append1(job[w], Outcome(w))
             \/ pc'[w] = "requeue"
      BY <2>8 DEF MarkOutcome, Goto, TypeOK
    <3>2. Outcome(w) \in Outcomes /\ Outcome(w) \in Statuses
      BY DEF Outcome, Outcomes, Statuses
    <3>3. pc'[w] = "ack" => Outcome(w) \in Facts(job[w])'
      <4> DEFINE s == job[w]
      <4>1. Facts(job[w])' = {events'[s][i] : i \in DOMAIN events'[s]}
        BY <2>1 DEF Facts
      <4>2. Append1(s, Outcome(w)) =>
               {events'[s][i] : i \in DOMAIN events'[s]} = Facts(s) \union {Outcome(w)}
        BY <2>1, <3>2, RowAppended DEF TypeOK
      <4> QED
        BY <3>1, <4>1, <4>2
    <3> QED
      BY <2>1, <2>3, <3>1, <3>2, <3>3 DEF ReportPcs, Busy, Fates
  <2>9. CASE ExecuteEnds(w) \/ ExecuteCancelled(w)
    <3>1. pc[w] = "executing" /\ pc'[w] \in {"snapshot", "recheck"}
      BY <2>9 DEF ExecuteEnds, ExecuteCancelled, Goto, TypeOK
    <3> QED
      BY <2>1, <2>3, <3>1 DEF ReportPcs, Busy
  <2>10. CASE Report(w)
    <3>1. pc[w] \in ReportPcs /\ pc'[w] \in ReportPcs \union {"requeue", "finalCheck"}
      BY <2>10 DEF Report, InsertSnapshot, IncrTotal, IncrType, IncrErrors, PublishResult,
                   ReportCall, IncrCall, handler, Goto, TypeOK, ReportPcs
    <3> QED
      BY <2>1, <2>3, <3>1 DEF ReportPcs, Busy
  <2> QED
    BY <1>8, <2>4, <2>6, <2>7, <2>8, <2>9, <2>10 DEF Inside
<1>9. CASE UNCHANGED vars
  BY <1>3, <1>9 DEF vars, HistoryOK
<1> QED
  BY <1>5, <1>6, <1>7, <1>8, <1>9, StepKinds

--------------------------------------------------------------------------------
(* The order of the figures.                                               *)

\* The handlers standing at a statement form a finite set, one of whom may leave.
LEMMA AtFinite == \A p : IsFiniteSet(At(p)) /\ Cardinality(At(p)) \in Nat
BY LifecycleAssumption, FS_Subset, FS_CardinalityType DEF At

\* How a jump of one handler changes the number of handlers at a statement.
LEMMA JumpCounts ==
    ASSUME TypeOK, NEW w \in Workers, NEW q, Goto(w, q), NEW p
    PROVE  /\ p = q /\ pc[w] # p => Cardinality(At(p))' = Cardinality(At(p)) + 1
           /\ p # q /\ pc[w] = p => Cardinality(At(p))' = Cardinality(At(p)) - 1
           /\ (p = q <=> pc[w] = p) => Cardinality(At(p))' = Cardinality(At(p))
<1>1. IsFiniteSet(At(p))
  BY AtFinite
<1>2. At(p)' = IF p = q THEN At(p) \union {w} ELSE At(p) \ {w}
  BY DEF At, Goto, TypeOK
<1>3. pc[w] = p <=> w \in At(p)
  BY DEF At
<1>4. CASE p = q
  <2>1. At(p)' = At(p) \union {w}
    BY <1>2, <1>4
  <2>2. Cardinality(At(p) \union {w}) =
           IF w \in At(p) THEN Cardinality(At(p)) ELSE Cardinality(At(p)) + 1
    BY <1>1, FS_AddElement
  <2> QED
    BY <1>3, <1>4, <2>1, <2>2
<1>5. CASE p # q
  <2>1. At(p)' = At(p) \ {w}
    BY <1>2, <1>5
  <2>2. Cardinality(At(p) \ {w}) =
           IF w \in At(p) THEN Cardinality(At(p)) - 1 ELSE Cardinality(At(p))
    BY <1>1, FS_RemoveElement
  <2> QED
    BY <1>3, <1>5, <2>1, <2>2
<1> QED
  BY <1>4, <1>5

\* No step gives back what a failure has used up.
LEMMA BudgetStep ==
    ASSUME TypeOK, BusyOK, [Next]_vars
    PROVE  \A b \in Bounds : budget[b] \in Nat /\ budget'[b] \in Nat /\ budget'[b] <= budget[b]
<1> DEFINE Falls == \A b \in Bounds : budget'[b] <= budget[b]
<1>1. budget \in [Bounds -> Nat] /\ budget' \in [Bounds -> Nat]
  BY TypeStep DEF TypeOK
<1>2. ASSUME \/ UNCHANGED budget
             \/ \E b \in Bounds : Spend(b)
             \/ \E s \in Scenarios : StopScenario(s)
      PROVE  Falls
  BY <1>1, <1>2 DEF Spend, StopScenario, Bounds
<1> HIDE DEF Falls
<1>3. "faults" \in Bounds /\ "drops" \in Bounds /\ "crashes" \in Bounds
  BY DEF Bounds
<1>4. ASSUME NEW s \in Scenarios, CreateStore(s) \/ CreatePublish(s) \/ PublishForeign(s)
      PROVE  Falls
  BY <1>2, <1>3, <1>4 DEF CreateStore, InsertFails, CreatePublish, PublishForeign
<1>5. ASSUME NEW w \in Workers,
             (\E s \in Scenarios : Deliver(w, s)) \/ Inside(w) \/ WatcherTick(w)
      PROVE  Falls
  BY <1>2, <1>3, <1>5
     DEF Deliver, Inside, Decode, CheckStopped, MarkRunning, InsertFails, ExecuteCancelled, Recheck,
         ReadStatus, Report, InsertSnapshot, IncrTotal, IncrType, IncrErrors, ReportCall, IncrCall,
         AttemptFails, PublishResult, FinalCheck, MarkOutcome, ExecuteEnds, WatcherTick
<1>6. ASSUME NEW w \in Workers,
             Ack(w) \/ Requeue(w) \/ Reject(w) \/ DropConnection(w) \/ Crash(w)
      PROVE  Falls
  BY <1>2, <1>3, <1>6 DEF Ack, Requeue, Reject, Settle, DropConnection, Crash
<1>7. ASSUME UNCHANGED vars
      PROVE  Falls
  BY <1>2, <1>7 DEF vars
<1>8. Falls
  <2>1. ASSUME NEW s \in Scenarios, StopScenario(s)
        PROVE  Falls
    BY <1>2, <2>1
  <2> QED
    BY <1>4, <1>5, <1>6, <1>7, <2>1, StepKinds
<1> QED
  BY <1>1, <1>8 DEF Falls

\* A step spends a failed sending or none: the failed calls are never taken back.
LEMMA FailedCallsStep ==
    ASSUME TypeOK, BusyOK, [Next]_vars
    PROVE  /\ FailedCalls \in Int /\ FailedCalls' \in Int /\ FailedCalls <= FailedCalls'
           /\ Spend("faults") => FailedCalls' = FailedCalls + 1
<1>1. budget["faults"] \in Nat /\ budget'["faults"] \in Nat /\ budget'["faults"] <= budget["faults"]
  BY BudgetStep DEF Bounds
<1>2. Spend("faults") => budget'["faults"] = budget["faults"] - 1
  BY DEF Spend, TypeOK, Bounds
<1> QED
  BY <1>1, <1>2, LifecycleAssumption DEF FailedCalls

\* A handler that jumps between statements that increment nothing, or that
\* leaves one of them, keeps the figures in order.
LEMMA QuietJump ==
    ASSUME TypeOK, BusyOK, FiguresOK, [Next]_vars, NEW w \in Workers, NEW q, Goto(w, q),
           q \notin {"incrTotal", "incrType", "incrErrors"} \/ q = pc[w],
           UNCHANGED metrics
    PROVE  FiguresOK'
<1>1. ASSUME NEW p \in {"incrTotal", "incrType", "incrErrors"}
      PROVE  /\ Cardinality(At(p)) \in Nat
             /\ Cardinality(At(p))' \in Int
             /\ Cardinality(At(p))' <= Cardinality(At(p))
  <2>1. p # q \/ q = pc[w]
    BY <1>1
  <2> QED
    BY <2>1, JumpCounts, AtFinite
<1>2. \A f \in Figures : metrics[f] \in Nat /\ metrics'[f] = metrics[f]
  BY DEF TypeOK
<1> QED
  BY <1>1, <1>2, FailedCallsStep DEF FiguresOK, Figures

\* No change of a pc, no change of the order.
LEMMA StillFigures ==
    ASSUME TypeOK, BusyOK, FiguresOK, [Next]_vars, UNCHANGED <<pc, metrics>>
    PROVE  FiguresOK'
<1>1. \A p : Cardinality(At(p))' = Cardinality(At(p)) /\ Cardinality(At(p)) \in Nat
  BY AtFinite DEF At
<1>2. \A f \in Figures : metrics[f] \in Nat /\ metrics'[f] = metrics[f]
  BY DEF TypeOK
<1> QED
  BY <1>1, <1>2, FailedCallsStep DEF FiguresOK, Figures

\* reportResult raises one figure and then stands at the next statement; a sending
\* of an INCR that fails raises it, too, and may leave the handler where it is.
LEMMA CountJump ==
    ASSUME TypeOK, BusyOK, FiguresOK, [Next]_vars, NEW w \in Workers, Report(w)
    PROVE  FiguresOK'
<1> DEFINE N(p) == Cardinality(At(p))
           M(f) == metrics[f]
           Figure == {"incrTotal", "incrType", "incrErrors"}
<1>1. \A p \in Figure : N(p) \in Nat
  BY AtFinite
<1>2. \A f \in Figures : M(f) \in Nat
  BY DEF TypeOK
<1>3. ASSUME NEW q, Goto(w, q)
      PROVE  \A p \in Figure : /\ p = q /\ pc[w] # p => N(p)' = N(p) + 1
                               /\ p # q /\ pc[w] = p => N(p)' = N(p) - 1
                               /\ (p = q <=> pc[w] = p) => N(p)' = N(p)
  BY <1>3, JumpCounts
<1>4. FiguresOK <=> /\ M("errors") + N("incrErrors") <= M("byType") + FailedCalls
                    /\ M("byType") + N("incrType") <= M("total") + FailedCalls
                    /\ M("total") + N("incrTotal") <= M("snapshots") + FailedCalls
  BY DEF FiguresOK
<1>5. FiguresOK' <=> /\ M("errors")' + N("incrErrors")' <= M("byType")' + FailedCalls'
                     /\ M("byType")' + N("incrType")' <= M("total")' + FailedCalls'
                     /\ M("total")' + N("incrTotal")' <= M("snapshots")' + FailedCalls'
  BY DEF FiguresOK
<1>6. /\ FailedCalls \in Int /\ FailedCalls' \in Int /\ FailedCalls <= FailedCalls'
      /\ Spend("faults") => FailedCalls' = FailedCalls + 1
  BY FailedCallsStep
\* A step that counts nothing only jumps away or stays.
<1>7. ASSUME UNCHANGED metrics, NEW q, Goto(w, q), q \notin Figure \/ q = pc[w]
      PROVE  FiguresOK'
  BY <1>7, QuietJump
<1>8. ASSUME NEW f \in Figures, Count(f)
      PROVE  M(f)' = M(f) + 1 /\ \A g \in Figures \ {f} : M(g)' = M(g)
  BY <1>8 DEF Count, TypeOK
\* A sending that counted f and failed: the failure pays for what it counted.
<1>9. ASSUME NEW f \in Figures, Count(f), Spend("faults"),
             NEW q, Goto(w, q), q \notin Figure \/ q = pc[w]
      PROVE  FiguresOK'
  <2>1. \A p \in Figure : N(p)' \in Int /\ N(p)' <= N(p)
    BY <1>1, <1>3, <1>9
  <2>2. FailedCalls' = FailedCalls + 1
    BY <1>6, <1>9
  <2>3. \A g \in Figures : M(g)' \in Nat /\ M(g) <= M(g)' /\ M(g)' <= M(g) + 1
    BY <1>2, <1>8, <1>9
  <2> HIDE DEF N, M, Figure
  <2> QED
    BY <1>1, <1>2, <1>4, <1>5, <1>6, <2>1, <2>2, <2>3 DEF Figures, Figure
\* The two ways a call ends other than by counting once and going on.
<1>10. ASSUME NEW f \in Figures, AttemptFails(f), Goto(w, "requeue") \/ UNCHANGED pc
       PROVE  FiguresOK'
  <2>1. \E q : Goto(w, q) /\ (q \notin Figure \/ q = pc[w])
    BY <1>10 DEF Goto, TypeOK
  <2> QED
    BY <1>7, <1>9, <1>10, <2>1 DEF AttemptFails
\* The call that is answered: it raises f and the handler goes on to next.
<1>11. ASSUME NEW f \in Figures, Count(f), NEW q, Goto(w, q), pc[w] # q,
              \/ f = "snapshots" /\ pc[w] = "snapshot" /\ q = "incrTotal"
              \/ f = "total" /\ pc[w] = "incrTotal" /\ q = "incrType"
              \/ f = "byType" /\ pc[w] = "incrType" /\ q \in {"incrErrors", "publish"}
              \/ f = "errors" /\ pc[w] = "incrErrors" /\ q = "publish"
       PROVE  FiguresOK'
  <2>1. M(f)' = M(f) + 1 /\ \A g \in Figures \ {f} : M(g)' = M(g)
    BY <1>8, <1>11
  <2>2. \A p \in Figure : /\ p = q => N(p)' = N(p) + 1
                          /\ pc[w] = p => N(p)' = N(p) - 1
                          /\ p # q /\ pc[w] # p => N(p)' = N(p)
    BY <1>3, <1>11
  <2> HIDE DEF N, M
  <2>3. CASE f = "snapshots"
    BY <1>1, <1>2, <1>4, <1>5, <1>6, <1>11, <2>1, <2>2, <2>3 DEF Figures
  <2>4. CASE f = "total"
    BY <1>1, <1>2, <1>4, <1>5, <1>6, <1>11, <2>1, <2>2, <2>4 DEF Figures
  <2>5. CASE f = "byType"
    BY <1>1, <1>2, <1>4, <1>5, <1>6, <1>11, <2>1, <2>2, <2>5 DEF Figures
  <2>6. CASE f = "errors"
    BY <1>1, <1>2, <1>4, <1>5, <1>6, <1>11, <2>1, <2>2, <2>6 DEF Figures
  <2> QED
    BY <1>11, <2>3, <2>4, <2>5, <2>6
<1>12. CASE PublishResult(w)
  BY <1>7, <1>12 DEF PublishResult
<1> HIDE DEF N, M, Figure
<1>13. CASE InsertSnapshot(w)
  BY <1>10, <1>11, <1>13 DEF InsertSnapshot, ReportCall, Figures
<1>14. CASE IncrTotal(w)
  BY <1>10, <1>11, <1>14 DEF IncrTotal, IncrCall, ReportCall, handler, Figures
<1>15. CASE IncrType(w)
  BY <1>10, <1>11, <1>15 DEF IncrType, IncrCall, ReportCall, handler, Figures
<1>16. CASE IncrErrors(w)
  BY <1>10, <1>11, <1>16 DEF IncrErrors, IncrCall, ReportCall, handler, Figures
<1> QED
  BY <1>12, <1>13, <1>14, <1>15, <1>16 DEF Report

\* Each handler raises the figures of reportResult in their order, so they stay ordered.
LEMMA FiguresStep ==
    ASSUME TypeOK, BusyOK, FiguresOK, [Next]_vars
    PROVE  FiguresOK'
<1>1. ASSUME NEW s \in Scenarios,
             CreateStore(s) \/ CreatePublish(s) \/ StopScenario(s) \/ PublishForeign(s)
      PROVE  FiguresOK'
  BY <1>1, StillFigures DEF CreateStore, CreatePublish, StopScenario, PublishForeign, handler
<1>2. ASSUME NEW w \in Workers, WatcherTick(w) \/ DropConnection(w)
      PROVE  FiguresOK'
  BY <1>2, StillFigures DEF WatcherTick, DropConnection
<1>3. ASSUME NEW w \in Workers,
             \/ \E s \in Scenarios : Deliver(w, s)
             \/ Ack(w) \/ Requeue(w) \/ Reject(w) \/ Crash(w)
      PROVE  FiguresOK'
  BY <1>3, QuietJump DEF Deliver, Ack, Requeue, Reject, Settle, Crash
<1>4. ASSUME NEW w \in Workers, Inside(w), ~Report(w)
      PROVE  FiguresOK'
  <2>1. UNCHANGED metrics
    BY <1>4 DEF Inside, Decode, CheckStopped, MarkRunning, ExecuteCancelled, Recheck, FinalCheck,
                MarkOutcome, ExecuteEnds
  <2>2. \E q \in Pcs \ {"incrTotal", "incrType", "incrErrors"} : Goto(w, q)
    BY <1>4 DEF Inside, Decode, CheckStopped, MarkRunning, ExecuteCancelled, Recheck, FinalCheck,
                MarkOutcome, ExecuteEnds, ReadStatus, Pcs, ReportPcs, SettlePcs
  <2> QED
    BY <2>1, <2>2, QuietJump
<1>5. CASE UNCHANGED vars
  BY <1>5, StillFigures DEF vars
<1> QED
  BY <1>1, <1>2, <1>3, <1>4, <1>5, CountJump, StepKinds

--------------------------------------------------------------------------------
(* The invariants of the scenario's message.                               *)

\* Which messages a step can put on a queue or acknowledge.
LEMMA MessageStep ==
    ASSUME TypeOK, BusyOK, ApiOK, BrokerOK, HistoryOK, [Next]_vars,
           NEW s \in Scenarios
    PROVE  /\ msg'[s] \in {"ready", "unacked", "acked"} /\ s \notin Undecodable
                 => msg[s] \in {"ready", "unacked", "acked"} \/ Stored(s)
           /\ msg'[s] = "acked" => msg[s] = "acked" \/ Facts(s) \intersect Fates # {}
<1>1. ASSUME UNCHANGED msg
      PROVE  /\ msg'[s] \in {"ready", "unacked", "acked"} => msg[s] \in {"ready", "unacked", "acked"}
             /\ msg'[s] = "acked" => msg[s] = "acked"
  BY <1>1
<1>2. ASSUME NEW r \in Scenarios,
             CreateStore(r) \/ CreatePublish(r) \/ StopScenario(r) \/ PublishForeign(r)
      PROVE  /\ msg'[s] = "acked" => msg[s] = "acked"
             /\ msg'[s] \in {"ready", "unacked", "acked"}
                   => msg[s] \in {"ready", "unacked", "acked"} \/ Stored(s) \/ s \in Undecodable
  BY <1>2 DEF CreateStore, CreatePublish, StopScenario, PublishForeign, ApiOK, TypeOK
<1>3. ASSUME NEW w \in Workers, NEW r \in Scenarios, Deliver(w, r)
      PROVE  /\ msg'[s] = "acked" => msg[s] = "acked"
             /\ msg'[s] \in {"ready", "unacked", "acked"} => msg[s] \in {"ready", "unacked", "acked"}
  BY <1>3 DEF Deliver, TypeOK
<1>4. ASSUME NEW w \in Workers,
             Ack(w) \/ Requeue(w) \/ Reject(w) \/ DropConnection(w) \/ Crash(w)
      PROVE  /\ msg'[s] = "acked" => msg[s] = "acked" \/ Facts(s) \intersect Fates # {}
             /\ msg'[s] \in {"ready", "unacked", "acked"} => msg[s] \in {"ready", "unacked", "acked"}
  <2>1. lease[w] => job[w] \in Scenarios /\ msg[job[w]] = "unacked"
    BY DEF BusyOK, BrokerOK
  <2>2. pc[w] = "ack" => Facts(job[w]) \intersect Fates # {}
    BY DEF HistoryOK
  <2> QED
    BY <1>4, <2>1, <2>2 DEF Ack, Requeue, Reject, Settle, DropConnection, Crash, Redeliver, TypeOK
<1>5. \/ \E w \in Workers : Inside(w) \/ WatcherTick(w)
      \/ UNCHANGED vars
      => UNCHANGED msg
  BY InsideStep DEF WatcherTick, vars
<1> QED
  BY <1>1, <1>2, <1>3, <1>4, <1>5, StepKinds

\* The initial states satisfy the inductive invariant.
LEMMA InvInit == Init => IInv
<1> SUFFICES ASSUME Init
             PROVE  IInv
  OBVIOUS
<1>1. TypeOK
  BY LifecycleAssumption DEF Init, TypeOK, ApiPcs, Places, Pcs, Bounds
<1>2. \A p \in {"incrTotal", "incrType", "incrErrors"} : At(p) = {}
  BY DEF Init, At
<1>3. \A p \in {"incrTotal", "incrType", "incrErrors"} : Cardinality(At(p)) = 0
  BY <1>2, FS_EmptySet
<1>4. FiguresOK
  BY <1>3, LifecycleAssumption DEF Init, FiguresOK, FailedCalls, Figures, Bounds
<1> QED
  BY <1>1, <1>4 DEF Init, IInv, BusyOK, Busy, ApiOK, BrokerOK, HistoryOK, ReportPcs, Stored,
                    DeliveredIsStored, OutcomeBeforeAck

\* Every step keeps it.
LEMMA InvStep == IInv /\ [Next]_vars => IInv'
<1> SUFFICES ASSUME IInv, [Next]_vars
             PROVE  IInv'
  OBVIOUS
<1> USE DEF IInv
<1>1. TypeOK' /\ BusyOK' /\ ApiOK' /\ BrokerOK' /\ HistoryOK' /\ FiguresOK'
  BY TypeStep, BusyStep, ApiStep, BrokerStep, HistoryStep, FiguresStep
<1>2. DeliveredIsStored'
  BY HistoryGrows, MessageStep DEF DeliveredIsStored
<1>3. OutcomeBeforeAck'
  BY HistoryGrows, MessageStep DEF OutcomeBeforeAck
<1> QED
  BY <1>1, <1>2, <1>3

\* The figures are ordered, up to the failed sendings, because every handler
\* between two of them has already raised the larger one.
LEMMA InvImplies == IInv => CounterOrder
<1> SUFFICES ASSUME IInv
             PROVE  CounterOrder
  OBVIOUS
<1>1. \A p : Cardinality(At(p)) \in Nat
  BY AtFinite
<1>2. \A f \in Figures : metrics[f] \in Nat
  BY DEF IInv, TypeOK
<1>3. FailedCalls \in Int
  BY LifecycleAssumption DEF FailedCalls, IInv, TypeOK, Bounds
<1> QED
  BY <1>1, <1>2, <1>3 DEF IInv, FiguresOK, CounterOrder, Figures

\* Every state the API, the workers, the broker and their failures can reach
\* satisfies the inductive invariant, for any scenarios, workers and bounds.
THEOREM InductiveInvariant == Spec => []IInv
BY InvInit, InvStep, PTL DEF Spec

\* The histories, figures and handler states keep their types, for any scenarios,
\* workers and failures.
THEOREM TypeCorrect == Spec => []TypeOK
<1>1. IInv => TypeOK
  BY DEF IInv
<1> QED
  BY <1>1, InductiveInvariant, PTL

\* CreateScenario's order: no worker receives a scenario whose row is not in the
\* table, whatever fails in between.
THEOREM DeliveriesStored == Spec => []DeliveredIsStored
<1>1. IInv => DeliveredIsStored
  BY DEF IInv
<1> QED
  BY <1>1, InductiveInvariant, PTL

\* handleMessage returns nil only when the scenario's fate is in the table: no
\* message is acknowledged before.
THEOREM AckAfterOutcome == Spec => []OutcomeBeforeAck
<1>1. IInv => OutcomeBeforeAck
  BY DEF IInv
<1> QED
  BY <1>1, InductiveInvariant, PTL

\* Errors exceed operations by type, these all operations, and these the snapshots
\* by no more than there were failed sendings: an INCR that the Redis client sends
\* again may count twice, nothing else in reportResult does.
THEOREM CountersOrdered == Spec => []CounterOrder
BY InductiveInvariant, InvImplies, PTL

--------------------------------------------------------------------------------
(* A stop nobody is about to overwrite.                                    *)

\* The step behind StopIsKept: the only rows that can follow a stop row are
\* another stop and the row of a handler that had read the status before.
LEMMA StopStep ==
    ASSUME IInv, [Next]_vars, NEW s \in Scenarios, IsStopped(s),
           \A w \in Workers : ~Committed(w, s)
    PROVE  IsStopped(s)'
<1> USE DEF IInv
<1>1. ASSUME events'[s] = events[s]
      PROVE  IsStopped(s)'
  BY <1>1 DEF IsStopped, Stored, Latest
<1>2. ASSUME NEW r \in Scenarios, NEW x \in Statuses, r # s,
             Append1(r, x) \/ InsertFails(r, x)
      PROVE  IsStopped(s)'
  BY <1>1, <1>2, InsertGrows
<1>3. ASSUME UNCHANGED events
      PROVE  IsStopped(s)'
  BY <1>1, <1>3
<1>4. {"queued", "stopped", "running", "completed", "failed"} \subseteq Statuses
  BY DEF Statuses, Outcomes
<1>5. ASSUME NEW r \in Scenarios, CreateStore(r)
      PROVE  IsStopped(s)'
  <2>1. r # s
    BY <1>5 DEF CreateStore, ApiOK, IsStopped
  <2> QED
    BY <1>2, <1>4, <1>5, <2>1 DEF CreateStore
<1>6. ASSUME NEW r \in Scenarios, StopScenario(r)
      PROVE  IsStopped(s)'
  <2>1. UNCHANGED events \/ Append1(r, "stopped")
    BY <1>6 DEF StopScenario
  <2>2. CASE r = s /\ Append1(r, "stopped")
    BY <1>4, <2>2, AppendRow DEF TypeOK, IsStopped
  <2> QED
    BY <1>2, <1>3, <1>4, <2>1, <2>2
<1>7. ASSUME NEW w \in Workers, MarkRunning(w) \/ MarkOutcome(w)
      PROVE  IsStopped(s)'
  <2>1. job[w] \in Scenarios /\ job[w] # s
    BY <1>7 DEF MarkRunning, MarkOutcome, BusyOK, Busy, Committed, InFlight
  <2>2. Outcome(w) \in Statuses
    BY <1>4 DEF Outcome
  <2> QED
    BY <1>2, <1>4, <1>7, <2>1, <2>2 DEF MarkRunning, MarkOutcome
<1>8. ASSUME NEW r \in Scenarios, CreatePublish(r) \/ PublishForeign(r)
      PROVE  IsStopped(s)'
  BY <1>3, <1>8 DEF CreatePublish, PublishForeign
<1>9. ASSUME NEW w \in Workers,
             \/ \E r \in Scenarios : Deliver(w, r)
             \/ Decode(w) \/ CheckStopped(w) \/ ExecuteCancelled(w) \/ Recheck(w)
             \/ Report(w) \/ FinalCheck(w) \/ Ack(w) \/ Requeue(w) \/ Reject(w)
             \/ ExecuteEnds(w) \/ WatcherTick(w) \/ DropConnection(w) \/ Crash(w)
      PROVE  IsStopped(s)'
  BY <1>3, <1>9
     DEF Deliver, Decode, CheckStopped, ExecuteCancelled, Recheck, Report, InsertSnapshot,
         IncrTotal, IncrType, IncrErrors, PublishResult, ReportCall, IncrCall, handler, FinalCheck,
         Ack, Requeue, Reject, Settle, ExecuteEnds, WatcherTick, DropConnection, Crash
<1>10. CASE UNCHANGED vars
  BY <1>3, <1>10 DEF vars
<1> QED
  BY <1>5, <1>6, <1>7, <1>8, <1>9, <1>10 DEF Next, Create, HandlerStep

\* No handler decides to write once the stop is there to be read.
LEMMA NoNewCommitment ==
    ASSUME IInv, [Next]_vars, NEW s \in Scenarios, IsStopped(s),
           NEW w \in Workers, ~Committed(w, s)
    PROVE  ~Committed(w, s)'
<1> USE DEF IInv
<1> DEFINE Writing == {"markRunning", "markOutcome"}
<1>1. /\ pc \in [Workers -> Pcs]
      /\ job \in [Workers -> Scenarios \union {None}]
  BY DEF TypeOK
<1>2. ASSUME UNCHANGED <<pc, job>>
      PROVE  ~Committed(w, s)'
  BY <1>2 DEF Committed, InFlight
<1>3. ASSUME NEW v \in Workers, NEW p, p \notin Writing, Goto(v, p),
             \/ UNCHANGED job
             \/ \E j : job' = [job EXCEPT ![v] = j]
      PROVE  ~Committed(w, s)'
  BY <1>1, <1>3 DEF Goto, Committed, InFlight
<1>4. ASSUME NEW v \in Workers, NEW p, ReadStatus(v, p), UNCHANGED job
      PROVE  ~Committed(w, s)'
  <2>1. CASE job[v] = s
    <3>1. Goto(v, "ack") \/ Goto(v, "requeue")
      BY <1>4, <2>1 DEF ReadStatus, IsStopped
    <3> QED
      BY <1>3, <1>4, <3>1
  <2>2. CASE job[v] # s
    <3>1. \E q : Goto(v, q)
      BY <1>4 DEF ReadStatus
    <3> QED
      BY <1>1, <1>4, <2>2, <3>1 DEF Goto, Committed, InFlight
  <2> QED
    BY <2>1, <2>2
<1>5. ASSUME NEW v \in Workers, CheckStopped(v) \/ Recheck(v) \/ FinalCheck(v)
      PROVE  ~Committed(w, s)'
  BY <1>4, <1>5 DEF CheckStopped, Recheck, FinalCheck
<1>6. ASSUME NEW v \in Workers, NEW f, NEW next, next \notin Writing,
             ReportCall(v, f, next) \/ IncrCall(v, f, next)
      PROVE  ~Committed(w, s)'
  BY <1>2, <1>3, <1>6 DEF ReportCall, IncrCall, handler
<1>7. ASSUME NEW v \in Workers, Report(v)
      PROVE  ~Committed(w, s)'
  <2>1. CASE InsertSnapshot(v)
    BY <1>6, <2>1 DEF InsertSnapshot
  <2>2. CASE IncrTotal(v)
    BY <1>6, <2>2 DEF IncrTotal
  <2>3. CASE IncrType(v)
    BY <1>6, <2>3 DEF IncrType
  <2>4. CASE IncrErrors(v)
    BY <1>6, <2>4 DEF IncrErrors
  <2>5. CASE PublishResult(v)
    BY <1>3, <2>5 DEF PublishResult
  <2> QED
    BY <1>7, <2>1, <2>2, <2>3, <2>4, <2>5 DEF Report
<1>8. ASSUME NEW v \in Workers, NEW at, NEW place, Settle(v, at, place)
      PROVE  ~Committed(w, s)'
  BY <1>3, <1>8 DEF Settle, Release
<1>9. ASSUME NEW v \in Workers,
             \/ \E r \in Scenarios : Deliver(v, r)
             \/ Decode(v) \/ MarkRunning(v) \/ ExecuteEnds(v) \/ ExecuteCancelled(v)
             \/ MarkOutcome(v) \/ Crash(v)
      PROVE  ~Committed(w, s)'
  BY <1>3, <1>9 DEF Deliver, Decode, MarkRunning, ExecuteEnds, ExecuteCancelled, MarkOutcome,
                    Crash, Release
<1>10. ASSUME NEW v \in Workers, WatcherTick(v) \/ DropConnection(v)
       PROVE  ~Committed(w, s)'
  BY <1>2, <1>10 DEF WatcherTick, DropConnection
<1>11. ASSUME NEW r \in Scenarios, Create(r) \/ StopScenario(r) \/ PublishForeign(r)
       PROVE  ~Committed(w, s)'
  BY <1>2, <1>11 DEF Create, CreateStore, CreatePublish, StopScenario, PublishForeign, handler
<1>12. CASE UNCHANGED vars
  BY <1>2, <1>12 DEF vars
<1> QED
  BY <1>5, <1>7, <1>8, <1>9, <1>10, <1>11, <1>12 DEF Next, HandlerStep, Ack, Requeue, Reject

\* The status reads of handleMessage: a stop is final unless a handler had read
\* the status before StopScenario wrote it.
THEOREM StopIsKept == Spec => StopHolds
<1>1. IInv /\ [Next]_vars
        => [\A s \in Scenarios : StopIsFinal(s) => StopIsFinal(s)']_vars
  BY StopStep, NoNewCommitment DEF StopIsFinal
<1> QED
  BY <1>1, InductiveInvariant, PTL DEF Spec, StopHolds

--------------------------------------------------------------------------------
(* Rows, counted.                                                          *)

\* A set that changes at w alone grows or shrinks by w.
LEMMA OneElement ==
    ASSUME NEW S, NEW T, NEW w, IsFiniteSet(S), \A v : v # w => (v \in S <=> v \in T)
    PROVE  /\ IsFiniteSet(T) /\ Cardinality(S) \in Nat /\ Cardinality(T) \in Nat
           /\ (w \in S <=> w \in T) => Cardinality(T) = Cardinality(S)
           /\ w \in T /\ w \notin S => Cardinality(T) = Cardinality(S) + 1
           /\ w \in S /\ w \notin T => Cardinality(T) = Cardinality(S) - 1
<1>1. CASE w \in S <=> w \in T
  <2>1. T = S
    BY <1>1
  <2> QED
    BY <1>1, <2>1, FS_CardinalityType
<1>2. CASE w \in T /\ w \notin S
  <2>1. T = S \union {w}
    BY <1>2
  <2> QED
    BY <1>2, <2>1, FS_AddElement, FS_CardinalityType
<1>3. CASE w \in S /\ w \notin T
  <2>1. T = S \ {w}
    BY <1>3
  <2> QED
    BY <1>3, <2>1, FS_RemoveElement, FS_CardinalityType
<1> QED
  BY <1>1, <1>2, <1>3

\* The rows of a history that show one of S, whatever S is, are finitely many.
LEMMA RowsFinite ==
    ASSUME TypeOK, NEW t \in Scenarios, NEW S
    PROVE  IsFiniteSet(Rows(t, S)) /\ Cardinality(Rows(t, S)) \in Nat
<1>1. Len(events[t]) \in Nat /\ DOMAIN events[t] = 1 .. Len(events[t])
  BY DEF TypeOK
<1>2. IsFiniteSet(1 .. Len(events[t]))
  BY <1>1, FS_Interval
<1>3. Rows(t, S) \subseteq 1 .. Len(events[t])
  BY <1>1 DEF Rows
<1> QED
  BY <1>2, <1>3, FS_Subset, FS_CardinalityType

\* An INSERT adds at most the row it writes, to its own scenario.
LEMMA RowsStep ==
    ASSUME TypeOK, NEW s \in Scenarios, NEW x \in Statuses, Append1(s, x),
           NEW t \in Scenarios, NEW S
    PROVE  LET before == Cardinality(Rows(t, S))
               after  == Cardinality(Rows(t, S)')
           IN  /\ before \in Nat /\ after \in Nat
               /\ t = s /\ x \in S => after = before + 1
               /\ ~(t = s /\ x \in S) => after = before
<1>1. /\ events \in [Scenarios -> Seq(Statuses)]
      /\ events' = [events EXCEPT ![s] = Append(events[s], x)]
  BY DEF TypeOK, Append1
<1>2. IsFiniteSet(Rows(t, S))
  BY RowsFinite
<1>3. CASE t # s
  <2>1. Rows(t, S)' = Rows(t, S)
    BY <1>1, <1>3 DEF Rows
  <2> QED
    BY <1>2, <1>3, <2>1, FS_CardinalityType
<1>4. CASE t = s
  <2> DEFINE n == Len(events[s]) + 1
  <2>1. events'[s] = Append(events[s], x)
    BY <1>1
  <2>2. /\ n \in Nat /\ DOMAIN events[s] = 1 .. (n - 1) /\ DOMAIN events'[s] = 1 .. n
        /\ events'[s][n] = x
        /\ \A i \in 1 .. (n - 1) : events'[s][i] = events[s][i]
    BY <1>1, <2>1
  <2>3. 1 .. n = 1 .. (n - 1) \union {n} /\ n \notin 1 .. (n - 1)
    BY <2>2
  <2> HIDE DEF n
  <2>4. /\ \A i : i # n => (i \in Rows(s, S) <=> i \in Rows(s, S)')
        /\ n \notin Rows(s, S)
        /\ n \in Rows(s, S)' <=> x \in S
    BY <2>2, <2>3 DEF Rows
  <2> QED
    BY <1>2, <1>4, <2>4, OneElement
<1> QED
  BY <1>3, <1>4

\* The rows of t without an INSERT.
LEMMA RowsStay ==
    ASSUME TypeOK, UNCHANGED events, NEW t \in Scenarios, NEW S
    PROVE  Cardinality(Rows(t, S)) \in Nat /\ Rows(t, S)' = Rows(t, S)
BY RowsFinite DEF Rows

--------------------------------------------------------------------------------
(* Every outcome has a run of its own.                                     *)

\* A handler is a runner of the scenario it has, from its running row to its outcome.
Runner(w, t) == job[w] = t /\ Running(w)

\* A step that moves one handler moves one element of the sets of runners.
LEMMA RunnersStep ==
    ASSUME NEW w \in Workers, NEW t \in Scenarios,
           \A v \in Workers \ {w} : pc'[v] = pc[v] /\ job'[v] = job[v]
    PROVE  LET before == Cardinality(Runners(t))
               after  == Cardinality(Runners(t)')
           IN  /\ before \in Nat /\ after \in Nat
               /\ Runner(w, t) => before > 0
               /\ (Runner(w, t) <=> Runner(w, t)') => after = before
               /\ ~Runner(w, t) /\ Runner(w, t)' => after = before + 1
               /\ Runner(w, t) /\ ~Runner(w, t)' => after = before - 1
<1>1. IsFiniteSet(Runners(t))
  BY FS_Subset, LifecycleAssumption DEF Runners
<1>2. /\ \A v : v # w => (v \in Runners(t) <=> v \in Runners(t)')
      /\ w \in Runners(t) <=> Runner(w, t)
      /\ w \in Runners(t)' <=> Runner(w, t)'
  BY DEF Runners, Runner, Running
<1>3. Runner(w, t) => Cardinality(Runners(t)) > 0
  BY <1>1, <1>2, FS_EmptySet, FS_CardinalityType
<1> QED
  BY <1>1, <1>2, <1>3, OneElement

\* Only a handler that writes its running row becomes a runner, and the one that
\* writes the outcome is none any more: the inductive step of RunsOK.
LEMMA RunsOKStep ==
    ASSUME TypeOK, BusyOK, RunsOK, [Next]_vars
    PROVE  RunsOK'
<1> SUFFICES ASSUME NEW t \in Scenarios
             PROVE  (Cardinality(Rows(t, Outcomes)) + Cardinality(Runners(t))
                        <= Cardinality(Rows(t, {"running"})))'
  BY DEF RunsOK
<1> DEFINE O == Cardinality(Rows(t, Outcomes))
           N == Cardinality(Runners(t))
           R == Cardinality(Rows(t, {"running"}))
           Kept == O' + N' <= R'
<1>0. /\ O \in Nat /\ R \in Nat /\ N \in Nat /\ O + N <= R
      /\ IsFiniteSet(Runners(t))
  <2>1. N \in Nat /\ IsFiniteSet(Runners(t))
    BY FS_Subset, FS_CardinalityType, LifecycleAssumption DEF Runners
  <2>2. O \in Nat /\ R \in Nat
    BY RowsFinite
  <2> QED
    BY <2>1, <2>2 DEF RunsOK
\* The table and the handlers, apart.
<1>1. ASSUME UNCHANGED events
      PROVE  O' = O /\ R' = R
  BY <1>1, RowsStay
<1>2. ASSUME NEW s \in Scenarios, NEW x \in Statuses \ ({"running"} \union Outcomes), Append1(s, x)
      PROVE  O' = O /\ R' = R
  BY <1>2, RowsStep
<1>3. ASSUME NEW w \in Workers, \A v \in Workers \ {w} : pc'[v] = pc[v] /\ job'[v] = job[v],
             Running(w)' => Running(w) /\ job'[w] = job[w]
      PROVE  N' \in Nat /\ N' <= N
  BY <1>3, RunnersStep DEF Runner
<1>4. ASSUME UNCHANGED <<pc, job>>
      PROVE  N' = N
  BY <1>4 DEF Runners, Running
<1>5. ASSUME NEW s \in Scenarios, CreateStore(s) \/ StopScenario(s)
      PROVE  Kept
  <2>1. /\ UNCHANGED <<pc, job>>
        /\ UNCHANGED events \/ Append1(s, "queued") \/ Append1(s, "stopped")
    BY <1>5 DEF CreateStore, StopScenario, InsertFails, handler
  <2>2. O' = O /\ R' = R
    BY <1>1, <1>2, <2>1 DEF Statuses, Outcomes
  <2> QED
    BY <1>0, <1>4, <2>1, <2>2
<1>6. ASSUME UNCHANGED <<events, pc, job>>
      PROVE  Kept
  BY <1>0, <1>1, <1>4, <1>6
<1>7. ASSUME NEW w \in Workers, UNCHANGED events,
             \A v \in Workers \ {w} : pc'[v] = pc[v] /\ job'[v] = job[v],
             Running(w)' => Running(w) /\ job'[w] = job[w]
      PROVE  Kept
  <2>1. O' = O /\ R' = R
    BY <1>1, <1>7
  <2>2. N' \in Nat /\ N' <= N
    BY <1>3, <1>7
  <2> QED
    BY <1>0, <2>1, <2>2
<1>8. ASSUME NEW w \in Workers,
             \/ \E s \in Scenarios : Deliver(w, s)
             \/ Ack(w) \/ Requeue(w) \/ Reject(w) \/ Crash(w)
             \/ Decode(w) \/ CheckStopped(w)
      PROVE  Kept
  <2>1. /\ UNCHANGED events /\ ~Running(w)'
        /\ \A v \in Workers \ {w} : pc'[v] = pc[v] /\ job'[v] = job[v]
    BY <1>8 DEF Deliver, Ack, Requeue, Reject, Settle, Crash, Release, Decode, CheckStopped,
                ReadStatus, Goto, Running, ReportPcs, TypeOK
  <2> QED
    BY <1>7, <2>1
<1>9. ASSUME NEW w \in Workers,
             \/ Recheck(w) \/ FinalCheck(w) \/ Report(w) \/ ExecuteEnds(w) \/ ExecuteCancelled(w)
      PROVE  Kept
  <2>1. UNCHANGED <<events, job>> /\ Running(w)
    BY <1>9 DEF Recheck, FinalCheck, Report, InsertSnapshot, IncrTotal, IncrType, IncrErrors,
                PublishResult, ReportCall, IncrCall, handler, ExecuteEnds, ExecuteCancelled,
                Running, ReportPcs
  <2>2. \A v \in Workers \ {w} : pc'[v] = pc[v]
    BY <1>9, InsideStep DEF Inside
  <2> QED
    BY <1>7, <2>1, <2>2
<1>10. ASSUME NEW w \in Workers, MarkRunning(w)
       PROVE  Kept
  <2>1. /\ UNCHANGED job /\ job[w] \in Scenarios /\ ~Running(w)
        /\ \A v \in Workers \ {w} : pc'[v] = pc[v] /\ job'[v] = job[v]
    BY <1>10 DEF MarkRunning, Goto, Running, ReportPcs, TypeOK, BusyOK, Busy
  <2>2. /\ N' \in Nat
        /\ N' <= N + 1
        /\ job[w] # t \/ ~Running(w)' => N' <= N
    BY <2>1, RunnersStep DEF Runner, N
  <2>3. CASE Append1(job[w], "running") /\ Goto(w, "executing")
    <3>1. O' = O /\ (job[w] = t => R' = R + 1) /\ (job[w] # t => R' = R)
      BY <2>1, <2>3, RowsStep DEF O, R, Statuses, Outcomes
    <3> QED
      BY <1>0, <2>2, <3>1
  <2>4. CASE InsertFails(job[w], "running") /\ Goto(w, "requeue")
    <3>1. ~Running(w)'
      BY <2>4 DEF Goto, Running, ReportPcs, TypeOK
    <3>2. UNCHANGED events \/ Append1(job[w], "running")
      BY <2>4 DEF InsertFails
    <3>3. O' = O /\ R' \in Nat /\ R <= R'
      <4>1. CASE UNCHANGED events
        BY <1>0, <1>1, <4>1
      <4>2. CASE Append1(job[w], "running")
        BY <1>0, <2>1, <4>2, RowsStep DEF O, R, Statuses, Outcomes
      <4> QED
        BY <3>2, <4>1, <4>2
    <3> QED
      BY <1>0, <2>2, <3>1, <3>3
  <2> QED
    BY <1>10, <2>3, <2>4 DEF MarkRunning
<1>11. ASSUME NEW w \in Workers, MarkOutcome(w)
       PROVE  Kept
  <2>1. /\ UNCHANGED job /\ job[w] \in Scenarios /\ Running(w) /\ ~Running(w)'
        /\ \A v \in Workers \ {w} : pc'[v] = pc[v] /\ job'[v] = job[v]
        /\ UNCHANGED events \/ Append1(job[w], Outcome(w))
        /\ Outcome(w) \in Outcomes /\ Outcome(w) \in Statuses
    BY <1>11 DEF MarkOutcome, InsertFails, Goto, Running, ReportPcs, TypeOK, BusyOK, Busy,
                 Outcome, Outcomes, Statuses
  <2>2. N' \in Nat /\ (job[w] = t => N' = N - 1) /\ (job[w] # t => N' = N)
    BY <2>1, RunnersStep DEF Runner, N
  <2>3. R' = R /\ O' \in Nat /\ O' <= O + 1 /\ (job[w] # t => O' = O)
    <3>1. CASE UNCHANGED events
      BY <1>0, <1>1, <3>1
    <3>2. CASE Append1(job[w], Outcome(w))
      BY <1>0, <2>1, <3>2, RowsStep DEF O, R, Outcomes
    <3> QED
      BY <2>1, <3>1, <3>2
  <2> QED
    BY <1>0, <2>2, <2>3
<1>12. ASSUME NEW s \in Scenarios, CreatePublish(s) \/ PublishForeign(s)
       PROVE  Kept
  BY <1>6, <1>12 DEF CreatePublish, PublishForeign, handler
<1>13. ASSUME NEW w \in Workers, WatcherTick(w) \/ DropConnection(w)
       PROVE  Kept
  BY <1>6, <1>13 DEF WatcherTick, DropConnection
<1>14. ASSUME UNCHANGED vars
       PROVE  Kept
  BY <1>6, <1>14 DEF vars
<1>15. Kept
  BY <1>5, <1>8, <1>9, <1>10, <1>11, <1>12, <1>13, <1>14 DEF Next, Create, HandlerStep
<1> QED
  BY <1>15 DEF O, N, R

\* handleMessage writes "running" before every outcome: whatever is repeated, no
\* scenario has more outcomes than it had runs, those under way left aside.
THEOREM OutcomesHaveRuns == Spec => []RunsOK
<1>1. Init => RunsOK
  <2> SUFFICES ASSUME Init, NEW s \in Scenarios
               PROVE  Cardinality(Rows(s, Outcomes)) + Cardinality(Runners(s))
                         <= Cardinality(Rows(s, {"running"}))
    BY DEF RunsOK
  <2>1. Rows(s, Outcomes) = {} /\ Rows(s, {"running"}) = {} /\ Runners(s) = {}
    BY DEF Init, Rows, Runners, Running, ReportPcs
  <2> QED
    BY <2>1, FS_EmptySet
<1>2. IInv /\ RunsOK /\ [Next]_vars => RunsOK'
  BY RunsOKStep DEF IInv
<1> QED
  BY <1>1, <1>2, InductiveInvariant, PTL DEF Spec

--------------------------------------------------------------------------------
(* The contract.                                                           *)

\* Before anything is created, every job of the contract is new.
LEMMA ContractInit == Init => Contract!JobInit
<1> SUFFICES ASSUME Init
             PROVE  Contract!JobInit
  OBVIOUS
<1>1. ASSUME NEW s \in Scenarios
      PROVE  /\ Phase(s) = "new" /\ Facts(s) \ {"queued"} = {}
             /\ Rows(s, {"running"}) = {} /\ Rows(s, Outcomes) = {}
  BY DEF Init, Phase, Facts, Stored, Rows
<1>2. ASSUME NEW s \in Scenarios
      PROVE  Unconcluded(s) = 0
  BY <1>1, FS_EmptySet DEF Unconcluded
<1> QED
  BY <1>1, <1>2 DEF Contract!JobInit

\* Neither a message nor a history moved: the contract stutters.
LEMMA ContractStutter ==
    ASSUME UNCHANGED <<events, msg>>
    PROVE  UNCHANGED Contract!jobVars
BY DEF Contract!jobVars, Phase, Facts, Stored, Unconcluded, Rows

\* The starts without a result, one row later.
LEMMA UnconcludedStep ==
    ASSUME TypeOK, NEW s \in Scenarios, NEW x \in Statuses, Append1(s, x),
           NEW t \in Scenarios
    PROVE  /\ Unconcluded(t) \in Int
           /\ t # s => Unconcluded(t)' = Unconcluded(t)
           /\ t = s /\ x = "running" => Unconcluded(t)' = Unconcluded(t) + 1
           /\ t = s /\ x \in Outcomes => Unconcluded(t)' = Unconcluded(t) - 1
           /\ t = s /\ x \in {"queued", "stopped"} => Unconcluded(t)' = Unconcluded(t) + 0
<1>1. /\ Cardinality(Rows(t, {"running"})) \in Nat /\ Cardinality(Rows(t, {"running"})') \in Nat
      /\ t = s /\ x = "running"
            => Cardinality(Rows(t, {"running"})') = Cardinality(Rows(t, {"running"})) + 1
      /\ ~(t = s /\ x = "running")
            => Cardinality(Rows(t, {"running"})') = Cardinality(Rows(t, {"running"}))
  BY RowsStep
<1>2. /\ Cardinality(Rows(t, Outcomes)) \in Nat /\ Cardinality(Rows(t, Outcomes)') \in Nat
      /\ t = s /\ x \in Outcomes
            => Cardinality(Rows(t, Outcomes)') = Cardinality(Rows(t, Outcomes)) + 1
      /\ ~(t = s /\ x \in Outcomes)
            => Cardinality(Rows(t, Outcomes)') = Cardinality(Rows(t, Outcomes))
  BY RowsStep
<1>3. "running" \notin Outcomes /\ {"queued", "stopped"} \intersect ({"running"} \union Outcomes) = {}
  BY DEF Outcomes
<1> QED
  BY <1>1, <1>2, <1>3 DEF Unconcluded

\* The history of s gained the fact x, n more of its starts are without a result,
\* and no message moved.
LEMMA ContractLearns ==
    ASSUME TypeOK, NEW s \in Scenarios, NEW x \in Statuses, x # "queued",
           Append1(s, x), UNCHANGED msg,
           Stored(s),
           NEW n \in Int, Unconcluded(s)' = Unconcluded(s) + n
    PROVE  Contract!Learn(s, x, n)
<1> DEFINE phase == [r \in Scenarios |-> Phase(r)]
           facts == [r \in Scenarios |-> Facts(r) \ {"queued"}]
           open == [r \in Scenarios |-> Unconcluded(r)]
<1>1. /\ Stored(s)' /\ Facts(s)' = Facts(s) \union {x}
      /\ \A r \in Scenarios \ {s} : Stored(r)' = Stored(r) /\ Facts(r)' = Facts(r)
  <2>1. \A r \in Scenarios \ {s} : events'[r] = events[r]
    BY AppendRow DEF TypeOK
  <2>2. \A r \in Scenarios \ {s} : Stored(r)' = Stored(r) /\ Facts(r)' = Facts(r)
    BY <2>1 DEF Stored, Facts
  <2> QED
    BY <2>2, AppendRow DEF TypeOK
<1>2. phase' = phase
  <2>1. \A r \in Scenarios : Phase(r)' = Phase(r)
    BY <1>1 DEF Phase
  <2> QED
    BY <2>1
<1>3. facts' = [facts EXCEPT ![s] = @ \union {x}]
  BY <1>1
<1>4. open' = [open EXCEPT ![s] = @ + n]
  <2>1. \A r \in Scenarios \ {s} : Unconcluded(r)' = Unconcluded(r)
    BY UnconcludedStep
  <2> QED
    BY <2>1
<1> QED
  BY <1>2, <1>3, <1>4 DEF Contract!Learn

\* The message of s moved, and no history gained a fact.
LEMMA ContractMoves ==
    ASSUME TypeOK, NEW s \in Scenarios, NEW p,
           msg' = [msg EXCEPT ![s] = p], UNCHANGED events
    PROVE  Contract!Move(s, Phase(s), Phase(s)')
<1> DEFINE phase == [r \in Scenarios |-> Phase(r)]
           facts == [r \in Scenarios |-> Facts(r) \ {"queued"}]
           open == [r \in Scenarios |-> Unconcluded(r)]
<1>1. facts' = facts /\ open' = open
  BY DEF Facts, Unconcluded, Rows
<1>2. \A r \in Scenarios \ {s} : Phase(r)' = Phase(r)
  BY DEF Phase, Stored, TypeOK
<1>3. phase' = [phase EXCEPT ![s] = Phase(s)']
  BY <1>2
<1> QED
  BY <1>1, <1>3 DEF Contract!Move

\* The insert of the first row records the scenario.
LEMMA ContractRecords ==
    ASSUME TypeOK, NEW s \in Scenarios, s \notin Undecodable, msg[s] = "none", ~Stored(s),
           Append1(s, "queued"), UNCHANGED msg
    PROVE  Contract!Record(s)
<1> DEFINE phase == [r \in Scenarios |-> Phase(r)]
           facts == [r \in Scenarios |-> Facts(r) \ {"queued"}]
           open == [r \in Scenarios |-> Unconcluded(r)]
<1>1. /\ Stored(s)' /\ Facts(s)' = Facts(s) \union {"queued"}
      /\ \A r \in Scenarios \ {s} : events'[r] = events[r]
  BY AppendRow DEF TypeOK, Statuses
<1>2. \A r \in Scenarios \ {s} : Stored(r)' = Stored(r) /\ Facts(r)' = Facts(r)
  BY <1>1 DEF Stored, Facts
<1>3. facts' = facts
  BY <1>1, <1>2
<1>4. /\ Phase(s) = "new" /\ Phase(s)' = "recorded"
      /\ \A r \in Scenarios \ {s} : Phase(r)' = Phase(r)
  BY <1>1 DEF Phase, Stored
<1>5. phase' = [phase EXCEPT ![s] = "recorded"]
  BY <1>4
<1>6. open' = open
  <2>1. \A r \in Scenarios : Unconcluded(r)' = Unconcluded(r)
    BY UnconcludedStep DEF Statuses
  <2> QED
    BY <2>1
<1> QED
  BY <1>3, <1>4, <1>5, <1>6 DEF Contract!Record, Contract!Move

\* Every step of the platform is a step of the contract or leaves it alone.
LEMMA ContractStep ==
    ASSUME IInv, RunsOK, [Next]_vars
    PROVE  [Contract!JobNext]_(Contract!jobVars)
<1> DEFINE Done == [Contract!JobNext]_(Contract!jobVars)
<1> USE DEF IInv
<1>1. ASSUME UNCHANGED <<events, msg>>
      PROVE  Done
  BY <1>1, ContractStutter
<1>2. ASSUME NEW s \in Scenarios, CreateStore(s)
      PROVE  Done
  <2>1. /\ s \notin Undecodable /\ msg[s] = "none" /\ ~Stored(s) /\ UNCHANGED msg
        /\ UNCHANGED events \/ Append1(s, "queued")
    BY <1>2 DEF CreateStore, InsertFails, ApiOK
  <2> QED
    BY <1>1, <2>1, ContractRecords DEF Contract!JobNext
<1>3. ASSUME NEW s \in Scenarios, StopScenario(s)
      PROVE  Done
  <2>1. /\ Stored(s) /\ UNCHANGED msg
        /\ UNCHANGED events \/ Append1(s, "stopped")
    BY <1>3 DEF StopScenario
  <2>2. [r \in Scenarios |-> Phase(r)][s] # "new"
    BY <2>1 DEF Phase, Stored
  <2>3. CASE Append1(s, "stopped")
    <3>1. Unconcluded(s)' = Unconcluded(s) + 0
      BY <2>3, UnconcludedStep DEF Statuses
    <3>2. Contract!Learn(s, "stopped", 0)
      BY <2>1, <2>3, <3>1, ContractLearns DEF Statuses
    <3> QED
      BY <2>2, <3>2 DEF Contract!JobNext, Contract!StopJob
  <2> QED
    BY <1>1, <2>1, <2>3
<1>4. ASSUME NEW s \in Scenarios, CreatePublish(s)
      PROVE  Done
  <2>1. /\ apiPc[s] = "storing" /\ UNCHANGED events
        /\ \E p \in {"ready", "lost"} : msg' = [msg EXCEPT ![s] = p]
    BY <1>4 DEF CreatePublish
  <2>2. Phase(s) = "recorded" /\ Phase(s)' \in {"owed", "lost"}
    BY <2>1 DEF ApiOK, Phase, Stored, TypeOK
  <2>3. Contract!Move(s, Phase(s), Phase(s)')
    BY <2>1, ContractMoves
  <2> QED
    BY <2>2, <2>3 DEF Contract!JobNext, Contract!Owe, Contract!Lose
<1>5. ASSUME NEW s \in Scenarios, PublishForeign(s)
      PROVE  Done
  <2>1. /\ s \in Undecodable /\ msg[s] = "none" /\ UNCHANGED events
        /\ msg' = [msg EXCEPT ![s] = "ready"]
    BY <1>5 DEF PublishForeign
  <2>2. Phase(s) = "new" /\ Phase(s)' = "owed"
    BY <2>1 DEF ApiOK, Phase, Stored, TypeOK
  <2>3. Contract!Move(s, Phase(s), Phase(s)')
    BY <2>1, ContractMoves
  <2> QED
    BY <2>1, <2>2, <2>3 DEF Contract!JobNext, Contract!Inject
\* A message that stays ready or unacked, or becomes settled.
<1>6. ASSUME NEW s \in Scenarios, NEW p \in {"ready", "unacked", "acked", "dead"},
             msg[s] \in {"ready", "unacked"}, msg' = [msg EXCEPT ![s] = p], UNCHANGED events,
             p = "acked" => Facts(s) \intersect Fates # {},
             p = "dead" => s \in Undecodable
      PROVE  Done
  <2>1. /\ Phase(s) = "owed"
        /\ Phase(s)' = CASE p = "acked" -> "settled" [] p = "dead" -> "discarded" [] OTHER -> "owed"
    BY <1>6 DEF Phase, Stored, TypeOK
  <2>2. Contract!Move(s, Phase(s), Phase(s)')
    BY <1>6, ContractMoves
  <2>3. CASE p = "acked"
    <3>1. (Facts(s) \ {"queued"}) \intersect Contract!Fates # {}
      BY <1>6, <2>3 DEF Contract!Fates, Fates, Outcomes
    <3> QED
      BY <2>1, <2>2, <2>3, <3>1 DEF Contract!JobNext, Contract!Settle
  <2>4. CASE p = "dead"
    BY <1>6, <2>1, <2>2, <2>4 DEF Contract!JobNext, Contract!Discard
  <2>5. CASE p \in {"ready", "unacked"}
    <3>1. Contract!Move(s, "owed", "owed")
      BY <2>1, <2>2, <2>5
    <3>2. UNCHANGED Contract!jobVars
      BY <3>1 DEF Contract!Move, Contract!jobVars
    <3> QED
      BY <3>2
  <2> QED
    BY <2>3, <2>4, <2>5
<1>7. ASSUME NEW w \in Workers, NEW s \in Scenarios, Deliver(w, s)
      PROVE  Done
  BY <1>6, <1>7 DEF Deliver
<1>8. ASSUME NEW w \in Workers, Ack(w) \/ Requeue(w) \/ Reject(w) \/ DropConnection(w) \/ Crash(w)
      PROVE  Done
  <2>1. UNCHANGED events
    BY <1>8 DEF Ack, Requeue, Reject, Settle, DropConnection, Crash
  <2>2. CASE lease[w]
    <3>1. job[w] \in Scenarios /\ msg[job[w]] = "unacked"
      BY <2>2 DEF BusyOK, BrokerOK
    <3>2. /\ pc[w] = "ack" => Facts(job[w]) \intersect Fates # {}
          /\ pc[w] = "reject" => job[w] \in Undecodable
      BY DEF HistoryOK
    <3>3. \E p \in {"ready", "acked", "dead"} :
              /\ msg' = [msg EXCEPT ![job[w]] = p]
              /\ p = "acked" => pc[w] = "ack"
              /\ p = "dead" => pc[w] = "reject"
      BY <1>8, <2>2 DEF Ack, Requeue, Reject, Settle, DropConnection, Crash, Redeliver
    <3> QED
      BY <1>6, <2>1, <3>1, <3>2, <3>3
  <2>3. CASE ~lease[w]
    BY <1>1, <1>8, <2>1, <2>3
       DEF Ack, Requeue, Reject, Settle, DropConnection, Crash, Redeliver
  <2> QED
    BY <2>2, <2>3
<1>9. ASSUME NEW w \in Workers, MarkRunning(w) \/ MarkOutcome(w)
      PROVE  Done
  <2>0. PICK s \in Scenarios : s = job[w]
    BY <1>9 DEF MarkRunning, MarkOutcome, BusyOK, Busy
  <2> DEFINE phase == [r \in Scenarios |-> Phase(r)]
             open == [r \in Scenarios |-> Unconcluded(r)]
  <2>1. s \notin Undecodable /\ msg[s] \in {"ready", "unacked", "acked"}
    BY <1>9, <2>0 DEF MarkRunning, MarkOutcome, BusyOK, Busy, HistoryOK, BrokerOK
  <2>2. phase[s] \in {"owed", "settled"} /\ Stored(s)
    BY <2>1 DEF Phase, DeliveredIsStored, Stored
  <2>3. UNCHANGED msg
    BY <1>9 DEF MarkRunning, MarkOutcome
  <2>4. CASE Append1(s, "running")
    <3>1. Unconcluded(s)' = Unconcluded(s) + 1
      BY <2>1, <2>4, UnconcludedStep DEF Statuses
    <3>2. Contract!Learn(s, "running", 1)
      BY <2>1, <2>2, <2>3, <2>4, <3>1, ContractLearns DEF Statuses
    <3> QED
      BY <2>1, <2>2, <3>2 DEF Contract!JobNext, Contract!Start
  <2>5. CASE MarkOutcome(w) /\ Append1(s, Outcome(w))
    <3>1. Outcome(w) \in Outcomes /\ Outcome(w) \in Statuses
      BY DEF Outcome, Outcomes, Statuses
    <3>2. open[s] > 0
      <4>1. Cardinality(Runners(s)) \in Nat /\ Cardinality(Runners(s)) > 0
        <5>1. w \in Runners(s)
          BY <2>0, <2>5 DEF MarkOutcome, Runners, Running
        <5>2. IsFiniteSet(Runners(s))
          BY FS_Subset, LifecycleAssumption DEF Runners
        <5> QED
          BY <5>1, <5>2, FS_EmptySet, FS_CardinalityType
      <4>2. /\ Cardinality(Rows(s, Outcomes)) \in Nat
            /\ Cardinality(Rows(s, {"running"})) \in Nat
        BY <2>1, RowsFinite
      <4>3. Cardinality(Rows(s, Outcomes)) + Cardinality(Runners(s))
               <= Cardinality(Rows(s, {"running"}))
        BY <2>1 DEF RunsOK
      <4>4. Unconcluded(s) > 0
        BY <4>1, <4>2, <4>3 DEF Unconcluded
      <4> QED
        BY <2>1, <4>4
    <3>3. Unconcluded(s)' = Unconcluded(s) - 1 /\ Unconcluded(s) \in Int
      BY <2>1, <2>5, <3>1, UnconcludedStep
    <3>4. Contract!Learn(s, Outcome(w), -1)
      <4>1. Unconcluded(s)' = Unconcluded(s) + (-1)
        BY <3>3
      <4> QED
        BY <2>1, <2>2, <2>3, <2>5, <3>1, <4>1, ContractLearns DEF Outcomes
    <3> QED
      BY <2>1, <3>1, <3>2, <3>4 DEF Contract!JobNext, Contract!Conclude
  <2> QED
    BY <1>1, <1>9, <2>0, <2>3, <2>4, <2>5 DEF MarkRunning, MarkOutcome, InsertFails
<1>10. ASSUME NEW w \in Workers,
              \/ Decode(w) \/ CheckStopped(w) \/ ExecuteCancelled(w) \/ Recheck(w)
              \/ Report(w) \/ FinalCheck(w) \/ ExecuteEnds(w) \/ WatcherTick(w)
       PROVE  Done
  BY <1>1, <1>10
     DEF Decode, CheckStopped, ExecuteCancelled, Recheck, Report, InsertSnapshot, IncrTotal,
         IncrType, IncrErrors, PublishResult, ReportCall, IncrCall, handler, FinalCheck,
         ExecuteEnds, WatcherTick
<1>11. CASE UNCHANGED vars
  BY <1>1, <1>11 DEF vars
<1> QED
  BY <1>2, <1>3, <1>4, <1>5, <1>7, <1>8, <1>9, <1>10, <1>11 DEF Next, Create, HandlerStep

\* API, table, broker and workers implement JobContract: every step is one of the
\* contract's or a stutter under the refinement mapping.
THEOREM LifecycleImplementsContract == Spec => ImplementsContract
BY ContractInit, ContractStep, InductiveInvariant, OutcomesHaveRuns, PTL
   DEF Spec, ImplementsContract, Contract!JobSpec

--------------------------------------------------------------------------------
(* Stops heard and messages kept.                                          *)

\* A handler enters the execution with its watcher and leaves it without, and a
\* cancellation leaves with the execution it ended: the inductive step of WatchOK.
LEMMA WatchStep ==
    ASSUME TypeOK, WatchOK, [Next]_vars
    PROVE  WatchOK'
<1> USE DEF WatchOK, StopsAreHeard, TypeOK
<1>1. ASSUME UNCHANGED <<pc, watching, cancelled>>
      PROVE  WatchOK'
  BY <1>1
\* Outside the execution there is neither a watcher nor a cancellation to leave behind.
<1>2. ASSUME NEW w \in Workers, NEW p \in Pcs \ {"executing"}, pc[w] # "executing",
             Goto(w, p), UNCHANGED <<watching, cancelled>>
      PROVE  WatchOK'
  BY <1>2 DEF Goto
<1>3. ASSUME NEW w \in Workers,
             \/ \E s \in Scenarios : Deliver(w, s)
             \/ Decode(w) \/ CheckStopped(w) \/ Recheck(w) \/ FinalCheck(w) \/ MarkOutcome(w)
             \/ Ack(w) \/ Requeue(w) \/ Reject(w)
      PROVE  WatchOK'
  <2>1. /\ pc[w] # "executing" /\ UNCHANGED <<watching, cancelled>>
        /\ \E p \in Pcs \ {"executing"} : Goto(w, p)
    BY <1>3 DEF Deliver, Decode, CheckStopped, Recheck, FinalCheck, ReadStatus, MarkOutcome,
                Ack, Requeue, Reject, Settle, Pcs, ReportPcs, SettlePcs
  <2> QED
    BY <1>2, <2>1
<1>4. ASSUME NEW w \in Workers, Report(w)
      PROVE  WatchOK'
  <2>1. /\ pc[w] # "executing" /\ UNCHANGED <<watching, cancelled>>
        /\ \E p \in Pcs \ {"executing"} : Goto(w, p)
    <3>1. /\ pc[w] \in ReportPcs /\ UNCHANGED <<watching, cancelled>>
          /\ UNCHANGED pc \/ \E p \in Pcs \ {"executing"} : Goto(w, p)
      BY <1>4 DEF Report, InsertSnapshot, IncrTotal, IncrType, IncrErrors, PublishResult,
                  ReportCall, IncrCall, handler, Pcs, ReportPcs, SettlePcs
    <3>2. UNCHANGED pc => Goto(w, pc[w])
      BY DEF Goto, IInv, TypeOK
    <3> QED
      BY <3>1, <3>2 DEF Pcs, ReportPcs
  <2> QED
    BY <1>2, <2>1
<1>5. ASSUME NEW w \in Workers, MarkRunning(w)
      PROVE  WatchOK'
  <2>1. CASE Goto(w, "executing") /\ watching' = [watching EXCEPT ![w] = TRUE]
    BY <1>5, <2>1 DEF MarkRunning, Goto
  <2>2. CASE Goto(w, "requeue") /\ UNCHANGED watching
    BY <1>2, <1>5, <2>2 DEF MarkRunning, Pcs, SettlePcs
  <2> QED
    BY <1>5, <2>1, <2>2 DEF MarkRunning
<1>6. ASSUME NEW w \in Workers, WatcherTick(w)
      PROVE  WatchOK'
  BY <1>1, <1>6 DEF WatcherTick
<1>7. ASSUME NEW w \in Workers, ExecuteEnds(w) \/ ExecuteCancelled(w) \/ Crash(w)
      PROVE  WatchOK'
  <2>1. /\ pc'[w] # "executing" /\ ~watching'[w] /\ ~cancelled'[w]
        /\ \A v \in Workers \ {w} : /\ pc'[v] = pc[v] /\ watching'[v] = watching[v]
                                    /\ cancelled'[v] = cancelled[v]
    BY <1>7 DEF ExecuteEnds, ExecuteCancelled, Crash, Goto
  <2> QED
    BY <2>1
<1>8. ASSUME NEW w \in Workers, DropConnection(w)
      PROVE  WatchOK'
  BY <1>1, <1>8 DEF DropConnection
<1>9. ASSUME NEW s \in Scenarios,
             CreateStore(s) \/ CreatePublish(s) \/ StopScenario(s) \/ PublishForeign(s)
      PROVE  WatchOK'
  BY <1>1, <1>9 DEF CreateStore, CreatePublish, StopScenario, PublishForeign, handler
<1>10. ASSUME UNCHANGED vars
       PROVE  WatchOK'
  BY <1>1, <1>10 DEF vars
<1> QED
  BY <1>3, <1>4, <1>5, <1>6, <1>7, <1>8, <1>9, <1>10 DEF Next, Create, HandlerStep

\* watchScenarioStop: no execution is without its watcher before it is cancelled,
\* and none leaves one, or a cancellation, to the next execution.
THEOREM EveryStopIsHeard == Spec => []StopsAreHeard
<1>1. Init => WatchOK
  BY DEF Init, WatchOK, StopsAreHeard
<1>2. IInv /\ WatchOK /\ [Next]_vars => WatchOK'
  BY WatchStep DEF IInv
<1>3. WatchOK => StopsAreHeard
  BY DEF WatchOK
<1> QED
  BY <1>1, <1>2, <1>3, InductiveInvariant, PTL DEF Spec

\* A delivery that is given up goes back or is settled: the inductive step of HeldOK.
LEMMA HeldStep ==
    ASSUME TypeOK, BusyOK, BrokerOK, HeldOK, [Next]_vars
    PROVE  HeldOK'
<1> USE DEF TypeOK
<1>1. ASSUME UNCHANGED <<job, lease>>, \A s \in Scenarios : msg'[s] = "unacked" => msg[s] = "unacked"
      PROVE  HeldOK'
  BY <1>1 DEF HeldOK
\* A step of w: what was out to another worker still is.
<1>0. ASSUME NEW w \in Workers,
             \A v \in Workers \ {w} : lease'[v] = lease[v] /\ job'[v] = job[v],
             \A s \in Scenarios : msg'[s] = "unacked"
                 => \/ msg[s] = "unacked" /\ (~lease[w] \/ job[w] # s)
                    \/ lease'[w] /\ job'[w] = s
      PROVE  HeldOK'
  <2> SUFFICES ASSUME NEW s \in Scenarios, msg'[s] = "unacked"
               PROVE  \E v \in Workers : lease'[v] /\ job'[v] = s
    BY DEF HeldOK
  <2>1. CASE lease'[w] /\ job'[w] = s
    BY <2>1
  <2>2. CASE msg[s] = "unacked" /\ (~lease[w] \/ job[w] # s)
    <3>1. PICK v \in Workers : lease[v] /\ job[v] = s
      BY <2>2 DEF HeldOK
    <3>2. v \in Workers \ {w}
      BY <2>2, <3>1
    <3>3. lease'[v] /\ job'[v] = s
      BY <1>0, <3>1, <3>2
    <3> QED
      BY <3>3
  <2> QED
    BY <1>0, <2>1, <2>2
<1>2. ASSUME NEW s \in Scenarios, CreateStore(s) \/ StopScenario(s)
      PROVE  HeldOK'
  BY <1>1, <1>2 DEF CreateStore, StopScenario, handler
<1>3. ASSUME NEW s \in Scenarios, CreatePublish(s) \/ PublishForeign(s)
      PROVE  HeldOK'
  <2>1. UNCHANGED <<job, lease>> /\ \E p \in {"ready", "lost"} : msg' = [msg EXCEPT ![s] = p]
    BY <1>3 DEF CreatePublish, PublishForeign, handler
  <2> QED
    BY <1>1, <2>1
<1>4. ASSUME NEW w \in Workers, NEW s \in Scenarios, Deliver(w, s)
      PROVE  HeldOK'
  <2>1. ~lease[w]
    BY <1>4 DEF Deliver, BusyOK, Busy
  <2>2. /\ lease'[w] /\ job'[w] = s
        /\ \A r \in Scenarios \ {s} : msg'[r] = msg[r]
        /\ \A v \in Workers \ {w} : lease'[v] = lease[v] /\ job'[v] = job[v]
    BY <1>4 DEF Deliver
  <2> QED
    BY <1>0, <2>1, <2>2
<1>5. ASSUME NEW w \in Workers, Inside(w)
      PROVE  HeldOK'
  BY <1>1, <1>5, InsideStep
<1>6. ASSUME NEW w \in Workers, WatcherTick(w)
      PROVE  HeldOK'
  BY <1>1, <1>6 DEF WatcherTick
<1>7. ASSUME NEW w \in Workers,
             Ack(w) \/ Requeue(w) \/ Reject(w) \/ DropConnection(w) \/ Crash(w)
      PROVE  HeldOK'
  <2>1. \A v \in Workers \ {w} : lease'[v] = lease[v] /\ job'[v] = job[v]
    BY <1>7 DEF Ack, Requeue, Reject, Settle, DropConnection, Crash, Release
  <2>2. CASE lease[w]
    <3>1. job[w] \in Scenarios
      BY <2>2 DEF BusyOK
    <3>2. \E p \in {"ready", "acked", "dead"} : msg' = [msg EXCEPT ![job[w]] = p]
      BY <1>7, <2>2 DEF Ack, Requeue, Reject, Settle, DropConnection, Crash, Redeliver
    <3>3. msg'[job[w]] # "unacked" /\ \A r \in Scenarios \ {job[w]} : msg'[r] = msg[r]
      BY <3>1, <3>2
    <3>4. \A s \in Scenarios : msg'[s] = "unacked" => msg[s] = "unacked" /\ job[w] # s
      BY <3>3
    <3> QED
      BY <1>0, <2>1, <3>4
  <2>3. CASE ~lease[w]
    <3>1. UNCHANGED msg
      BY <1>7, <2>3 DEF Ack, Requeue, Reject, Settle, DropConnection, Crash, Redeliver
    <3> QED
      BY <1>0, <2>1, <2>3, <3>1
  <2> QED
    BY <2>2, <2>3
<1>8. ASSUME UNCHANGED vars
      PROVE  HeldOK'
  BY <1>1, <1>8 DEF vars
<1> QED
  BY <1>2, <1>3, <1>4, <1>5, <1>6, <1>7, <1>8, StepKinds

\* Consume settles or loses every delivery it is handed, and the broker takes back
\* what is lost: a scenario that was put on a queue waits there, is with a handler
\* that can settle it, or has its fate in the table.
THEOREM NoMessageIsForgotten == Spec => []NothingIsForgotten
<1>1. Init => HeldOK
  BY DEF Init, HeldOK
<1>2. IInv /\ HeldOK /\ [Next]_vars => HeldOK'
  BY HeldStep DEF IInv
<1>3. IInv /\ HeldOK => NothingIsForgotten
  <2> SUFFICES ASSUME IInv, HeldOK, NEW s \in Scenarios, msg[s] \notin {"none", "lost"}
               PROVE  \/ msg[s] = "ready"
                      \/ \E w \in Workers : InFlight(w, s) /\ lease[w]
                      \/ msg[s] = "dead" /\ s \in Undecodable
                      \/ msg[s] = "acked" /\ Facts(s) \intersect Fates # {}
    BY DEF NothingIsForgotten
  <2>1. msg[s] \in {"ready", "unacked", "acked", "dead"}
    BY DEF IInv, TypeOK, Places
  <2>2. msg[s] = "unacked" => \E w \in Workers : InFlight(w, s) /\ lease[w]
    BY DEF IInv, HeldOK, BusyOK, Busy, InFlight
  <2>3. /\ msg[s] = "dead" => s \in Undecodable
        /\ msg[s] = "acked" => Facts(s) \intersect Fates # {}
    BY DEF IInv, BrokerOK, OutcomeBeforeAck
  <2> QED
    BY <2>1, <2>2, <2>3
<1> QED
  BY <1>1, <1>2, <1>3, InductiveInvariant, PTL DEF Spec

--------------------------------------------------------------------------------
(* Each worker keeps the delivery contract.                                *)

\* A step that moves no message and leaves the worker as it stands is not seen.
LEMMA DeliveryUnseen ==
    ASSUME NEW w \in Workers, UNCHANGED <<msg, Loop(w), Held(w), lease[w]>>
    PROVE  UNCHANGED Delivery(w)!deliveryVars
BY DEF Delivery!deliveryVars, Delivery!loopVars

\* Nor is one of another worker that moves no message.
LEMMA OthersUnseen ==
    ASSUME NEW w \in Workers, UNCHANGED msg,
           pc'[w] = pc[w], job'[w] = job[w], lease'[w] = lease[w]
    PROVE  UNCHANGED Delivery(w)!deliveryVars
BY DeliveryUnseen DEF Loop, Held, Busy

\* A message that another client, worker or the broker moves is not the one the
\* worker can settle.
LEMMA DeliveryElsewhere ==
    ASSUME NEW w \in Workers, pc'[w] = pc[w], job'[w] = job[w], lease'[w] = lease[w],
           BusyOK, NEW s \in Scenarios, lease[w] => s # job[w],
           NEW p \in {"ready", "lost", "unacked", "acked", "dead"},
           \/ msg[s] = "none" /\ p \in {"ready", "lost"}
           \/ msg[s] = "ready" /\ p = "unacked"
           \/ msg[s] = "unacked" /\ p \in {"ready", "acked", "dead"},
           msg' = [msg EXCEPT ![s] = p]
    PROVE  Delivery(w)!DeliveryNext
<1>1. Loop(w)' = Loop(w) /\ Held(w)' = Held(w)
  BY DEF Loop, Held, Busy
<1>2. lease[w] => s # Held(w)
  BY DEF BusyOK, Held
<1>3. <<msg[s], p>> \in Delivery(w)!Moves
  BY DEF Delivery!Moves
<1>4. Delivery(w)!Elsewhere(s)
  BY <1>1, <1>2, <1>3 DEF Delivery!Elsewhere, Delivery!Put, Delivery!loopVars
<1> QED
  BY <1>4 DEF Delivery!DeliveryNext

\* Its own steps.
LEMMA DeliveryOwn ==
    ASSUME LifecycleAssumption, IInv, NEW w \in Workers,
           \/ \E s \in Scenarios : Deliver(w, s)
           \/ Ack(w) \/ Requeue(w) \/ Reject(w) \/ DropConnection(w) \/ Crash(w)
    PROVE  Delivery(w)!DeliveryNext
<1> USE DEF Delivery!Become, Delivery!Put, Delivery!Hold
<1>1. TypeOK /\ BusyOK  BY DEF IInv
<1>2. ASSUME NEW s \in Scenarios, Deliver(w, s)  PROVE Delivery(w)!DeliveryNext
  <2>1. Loop(w) = "idle" /\ Loop(w)' = "busy" /\ Held(w)' = s /\ lease'[w] = TRUE
    BY <1>1, <1>2 DEF Deliver, Goto, Loop, Held, Busy, TypeOK
  <2>2. Delivery(w)!Deliver(s)
    BY <1>2, <2>1 DEF Deliver, Delivery!Deliver, Delivery!Take
  <2> QED  BY <2>2 DEF Delivery!DeliveryNext
<1>3. ASSUME NEW at \in SettlePcs, NEW p \in {"acked", "ready", "dead"}, Settle(w, at, p)
      PROVE  Delivery(w)!DeliveryNext
  <2>1. /\ Busy(w) /\ Held(w) = job[w] /\ Loop(w) = "busy"
        /\ Held(w)' = None /\ lease'[w] = FALSE
    BY <1>1, <1>3 DEF Settle, SettlePcs, Release, Goto, Held, Loop, Busy, TypeOK
  <2>2. CASE lease[w]
    <3>1. Loop(w)' = "idle"
      BY <1>1, <1>3, <2>2 DEF Settle, Goto, Loop, Busy, TypeOK
    <3>2. msg' = [msg EXCEPT ![job[w]] = p] \/ msg' = [msg EXCEPT ![job[w]] = "ready"]
      BY <1>3, <2>2 DEF Settle
    <3>3. Delivery(w)!SettleHeld
      BY <2>1, <2>2, <3>1, <3>2 DEF Delivery!SettleHeld, Delivery!Done
    <3> QED  BY <3>3 DEF Delivery!DeliveryNext
  <2>3. CASE ~lease[w]
    <3>1. Loop(w)' \in {"idle", "failed"} /\ msg' = msg
      BY <1>1, <1>3, <2>3 DEF Settle, Goto, Loop, Busy, TypeOK
    <3>2. Delivery(w)!SettleInVain
      BY <2>1, <2>3, <3>1 DEF Delivery!SettleInVain, Delivery!Done, Delivery!Fail
    <3> QED  BY <3>2 DEF Delivery!DeliveryNext
  <2> QED  BY <2>2, <2>3
<1>4. CASE Ack(w) \/ Requeue(w) \/ Reject(w)
  BY <1>3, <1>4 DEF Ack, Requeue, Reject, SettlePcs
<1>5. CASE DropConnection(w)
  <2>1. /\ lease[w] /\ lease'[w] = FALSE /\ msg' = [msg EXCEPT ![job[w]] = "ready"]
        /\ UNCHANGED <<pc, job>>
    BY <1>1, <1>5 DEF DropConnection, Redeliver, TypeOK
  <2>2. Held(w) = job[w] /\ Held(w)' = Held(w) /\ Loop(w)' = Loop(w)
    BY <1>1, <2>1 DEF Held, Loop, Busy, BusyOK
  <2>3. Delivery(w)!Drop
    BY <2>1, <2>2 DEF Delivery!Drop, Delivery!loopVars
  <2> QED  BY <2>3 DEF Delivery!DeliveryNext
<1>6. CASE Crash(w)
  <2>1. /\ pc'[w] = "idle" /\ lease'[w] = FALSE
        /\ msg' = IF lease[w] THEN [msg EXCEPT ![job[w]] = "ready"] ELSE msg
    BY <1>1, <1>6 DEF Crash, Redeliver, Release, Goto, TypeOK
  <2>2. lease[w] => Held(w) = job[w]
    BY <1>1 DEF Held, BusyOK
  <2>3. Loop(w)' = "idle" /\ Held(w)' = None
    BY <2>1 DEF Loop, Held, Busy
  <2>4. Delivery(w)!Die
    BY <2>1, <2>2, <2>3 DEF Delivery!Die, Delivery!Restart
  <2> QED  BY <2>4 DEF Delivery!DeliveryNext
<1> QED
  BY <1>2, <1>4, <1>5, <1>6

\* Every step is one of the contract of worker w, or not seen by it.
LEMMA DeliveryStep ==
    ASSUME LifecycleAssumption, IInv, NEW w \in Workers, [Next]_vars
    PROVE  [Delivery(w)!DeliveryNext]_(Delivery(w)!deliveryVars)
<1>0. TypeOK /\ BusyOK /\ ApiOK /\ BrokerOK  BY DEF IInv
<1>1. ASSUME NEW s \in Scenarios,
             CreateStore(s) \/ CreatePublish(s) \/ StopScenario(s) \/ PublishForeign(s)
      PROVE  [Delivery(w)!DeliveryNext]_(Delivery(w)!deliveryVars)
  <2>1. UNCHANGED <<pc, job, lease>>
    BY <1>1 DEF CreateStore, CreatePublish, StopScenario, PublishForeign, handler
  <2>2. CASE UNCHANGED msg
    BY <2>1, <2>2, OthersUnseen
  <2>3. CASE CreatePublish(s) \/ PublishForeign(s)
    <3>1. msg[s] = "none"
      BY <1>0, <2>3 DEF CreatePublish, PublishForeign, ApiOK
    <3>2. PICK p \in {"ready", "lost"} : msg' = [msg EXCEPT ![s] = p]
      BY <2>3 DEF CreatePublish, PublishForeign
    <3>3. lease[w] => s # job[w]
      BY <1>0, <3>1 DEF BrokerOK
    <3> QED  BY <1>0, <2>1, <3>1, <3>2, <3>3, DeliveryElsewhere
  <2> QED  BY <1>1, <2>2, <2>3 DEF CreateStore, StopScenario
<1>2. ASSUME NEW v \in Workers,
             Inside(v) \/ WatcherTick(v)
      PROVE  [Delivery(w)!DeliveryNext]_(Delivery(w)!deliveryVars)
  <2>1. CASE Inside(v)
    <3>1. UNCHANGED <<msg, job, lease>> /\ (v # w => pc'[w] = pc[w])
      BY <1>0, <2>1, InsideStep
    <3>2. CASE v # w  BY <3>1, <3>2, OthersUnseen
    <3>3. CASE v = w
      <4>1. Busy(w) /\ Busy(w)'  BY <1>0, <2>1, <3>3, InsideStep
      <4>2. Loop(w)' = Loop(w) /\ Held(w)' = Held(w)
        BY <3>1, <4>1 DEF Loop, Held, Busy
      <4> QED  BY <3>1, <4>2, DeliveryUnseen
    <3> QED  BY <3>2, <3>3
  <2>2. CASE WatcherTick(v)
    BY <2>2, OthersUnseen DEF WatcherTick
  <2> QED  BY <1>2, <2>1, <2>2
<1>3. ASSUME NEW v \in Workers,
             \/ \E s \in Scenarios : Deliver(v, s)
             \/ Ack(v) \/ Requeue(v) \/ Reject(v) \/ DropConnection(v) \/ Crash(v)
      PROVE  [Delivery(w)!DeliveryNext]_(Delivery(w)!deliveryVars)
  <2>1. CASE v = w
    BY <1>3, <2>1, DeliveryOwn
  <2>2. CASE v # w
    <3>1. pc'[w] = pc[w] /\ job'[w] = job[w] /\ lease'[w] = lease[w]
      BY <1>0, <1>3, <2>2
      DEF Deliver, Ack, Requeue, Reject, Settle, DropConnection, Crash, Release, Goto, TypeOK
    <3>2. ASSUME NEW s \in Scenarios, Deliver(v, s)  PROVE Delivery(w)!DeliveryNext
      <4>1. msg[s] = "ready" /\ msg' = [msg EXCEPT ![s] = "unacked"]
        BY <3>2 DEF Deliver
      <4>2. lease[w] => s # job[w]  BY <1>0, <4>1 DEF BrokerOK
      <4> QED  BY <1>0, <3>1, <4>1, <4>2, DeliveryElsewhere
    <3>3. ASSUME Ack(v) \/ Requeue(v) \/ Reject(v) \/ DropConnection(v) \/ Crash(v)
          PROVE  [Delivery(w)!DeliveryNext]_(Delivery(w)!deliveryVars)
      <4>1. CASE lease[v]
        <5>1. PICK s \in Scenarios : s = job[v]  BY <1>0, <4>1 DEF BusyOK
        <5>2. msg[s] = "unacked" /\ (lease[w] => s # job[w])
          BY <1>0, <2>2, <4>1, <5>1 DEF BrokerOK
        <5>3. PICK p \in {"ready", "acked", "dead"} : msg' = [msg EXCEPT ![s] = p]
          BY <3>3, <4>1, <5>1
          DEF Ack, Requeue, Reject, Settle, DropConnection, Crash, Redeliver
        <5> QED  BY <1>0, <3>1, <5>2, <5>3, DeliveryElsewhere
      <4>2. CASE ~lease[v]
        <5>1. UNCHANGED msg
          BY <3>3, <4>2
          DEF Ack, Requeue, Reject, Settle, DropConnection, Crash, Redeliver
        <5> QED  BY <3>1, <5>1, OthersUnseen
      <4> QED  BY <4>1, <4>2
    <3> QED  BY <1>3, <3>2, <3>3
  <2> QED  BY <2>1, <2>2
<1>4. CASE UNCHANGED vars
  BY <1>4, OthersUnseen DEF vars
<1> QED
  BY <1>1, <1>2, <1>3, <1>4, StepKinds

\* Of all that happens to a delivery, through crashes, dropped connections and the
\* other workers on its queue, each worker sees what DeliveryContract allows: the
\* same contract RabbitConsumer is shown to keep.
THEOREM WorkersKeepDeliveries == Spec => WorkersKeepContract
<1>1. ASSUME NEW w \in Workers
      PROVE  Spec => Delivery(w)!DeliverySpec
  <2>1. Init => Delivery(w)!DeliveryInit
    BY <1>1 DEF Init, Loop, Held, Busy, Delivery!DeliveryInit, Delivery!LoopInit
  <2>2. IInv /\ [Next]_vars => [Delivery(w)!DeliveryNext]_(Delivery(w)!deliveryVars)
    BY <1>1, DeliveryStep, LifecycleAssumption
  <2> QED
    BY <2>1, <2>2, InductiveInvariant, PTL DEF Spec, Delivery!DeliverySpec
<1> QED
  BY <1>1 DEF WorkersKeepContract

--------------------------------------------------------------------------------
(* Outcomes and stops that stay the latest row.                            *)

\* An INSERT moves the latest row of its own scenario only.
LEMMA LatestStep ==
    ASSUME TypeOK, NEW s \in Scenarios, NEW x \in Statuses,
           UNCHANGED events \/ Append1(s, x)
    PROVE  /\ \A t \in Scenarios : t # s => Latest(t)' = Latest(t)
           /\ Latest(s)' \in {x, Latest(s)}
<1>1. CASE UNCHANGED events
  BY <1>1 DEF Latest
<1>2. CASE Append1(s, x)
  BY <1>2, AppendRow DEF TypeOK, Latest
<1> QED
  BY <1>1, <1>2

\* While every handler holds its delivery, nobody writes over the fate of a
\* scenario that is acknowledged or about to be.
LEMMA SettledStep ==
    ASSUME IInv, budget["drops"] <= MaxDrops, SettledOK, [Next]_vars
    PROVE  SettledOK'
<1> SUFFICES ASSUME Undropped'
             PROVE  /\ \A w \in Workers : Busy(w)' => lease'[w]
                    /\ \A w \in Workers : pc'[w] = "ack" => Latest(job[w])' \in Fates
                    /\ \A s \in Scenarios : msg'[s] = "acked" => Latest(s)' \in Fates
  BY DEF SettledOK
<1> DEFINE Done == /\ \A w \in Workers : Busy(w)' => lease'[w]
                   /\ \A w \in Workers : pc'[w] = "ack" => Latest(job[w])' \in Fates
                   /\ \A s \in Scenarios : msg'[s] = "acked" => Latest(s)' \in Fates
<1>1. /\ Undropped
      /\ budget["drops"] = MaxDrops /\ budget'["drops"] = MaxDrops /\ MaxDrops \in Nat
  BY BudgetStep, LifecycleAssumption DEF IInv, Bounds, Undropped
<1>2. /\ \A w \in Workers : Busy(w) => lease[w]
      /\ \A w \in Workers : pc[w] = "ack" => job[w] \in Scenarios /\ Latest(job[w]) \in Fates
      /\ \A s \in Scenarios : msg[s] = "acked" => Latest(s) \in Fates
  BY <1>1 DEF SettledOK, IInv, BusyOK, Busy
<1>3. ~Spend("drops")
  BY <1>1 DEF Spend, IInv, TypeOK, Bounds
<1>4. /\ \A w \in Workers : lease[w] => job[w] \in Scenarios /\ msg[job[w]] = "unacked"
      /\ \A v, w \in Workers : lease[v] /\ lease[w] /\ job[v] = job[w] => v = w
  BY DEF IInv, BrokerOK, BusyOK
<1>5. TypeOK /\ Fates \subseteq Statuses /\ {"queued", "running"} \subseteq Statuses
  BY DEF IInv, Fates, Outcomes, Statuses
<1>6. ASSUME UNCHANGED events
      PROVE  \A s : Latest(s)' = Latest(s)
  BY <1>6 DEF Latest
<1>7. ASSUME NEW s \in Scenarios, CreateStore(s)
      PROVE  Done
  <2>1. /\ msg[s] = "none" /\ UNCHANGED <<msg, pc, job, lease>>
        /\ UNCHANGED events \/ Append1(s, "queued")
    BY <1>7 DEF CreateStore, InsertFails, handler, IInv, ApiOK
  <2>2. \A w \in Workers : lease[w] => job[w] # s
    BY <1>4, <2>1
  <2>3. \A t \in Scenarios : t # s => Latest(t)' = Latest(t)
    BY <1>5, <2>1, LatestStep
  <2> QED
    BY <1>2, <2>1, <2>2, <2>3 DEF Busy
<1>8. ASSUME NEW s \in Scenarios, StopScenario(s)
      PROVE  Done
  <2>1. /\ UNCHANGED <<msg, pc, job, lease>>
        /\ UNCHANGED events \/ Append1(s, "stopped")
    BY <1>8 DEF StopScenario, handler
  <2>2. /\ \A t \in Scenarios : t # s => Latest(t)' = Latest(t)
        /\ Latest(s)' \in {"stopped", Latest(s)}
    BY <1>5, <2>1, LatestStep DEF Fates
  <2>3. \A t \in Scenarios : Latest(t) \in Fates => Latest(t)' \in Fates
    BY <2>2 DEF Fates
  <2> QED
    BY <1>2, <2>1, <2>3 DEF Busy
<1>9. ASSUME NEW s \in Scenarios, CreatePublish(s) \/ PublishForeign(s)
      PROVE  Done
  <2>1. /\ UNCHANGED <<events, pc, job, lease>>
        /\ \A t \in Scenarios : msg'[t] = "acked" => msg[t] = "acked"
    BY <1>5, <1>9 DEF CreatePublish, PublishForeign, handler, TypeOK
  <2> QED
    BY <1>2, <1>6, <2>1 DEF Busy
<1>10. ASSUME NEW w \in Workers, NEW s \in Scenarios, Deliver(w, s)
       PROVE  Done
  BY <1>2, <1>5, <1>6, <1>10 DEF Deliver, Goto, TypeOK, Busy
<1>11. ASSUME NEW w \in Workers, Inside(w)
       PROVE  Done
  <2>1. /\ UNCHANGED <<msg, job, lease>> /\ Busy(w) /\ lease[w]
        /\ \A v \in Workers \ {w} : pc'[v] = pc[v]
    BY <1>2, <1>5, <1>11, InsideStep
  <2>2. /\ job[w] \in Scenarios /\ msg[job[w]] = "unacked"
        /\ \A v \in Workers \ {w} : Busy(v) => job[v] # job[w]
    BY <1>2, <1>4, <2>1
  <2>3. Outcome(w) \in Fates
    BY DEF Outcome, Fates, Outcomes
  <2>4. \A t \in Scenarios : t # job[w] => Latest(t)' = Latest(t)
    <3>1. CASE UNCHANGED events
      BY <1>6, <3>1
    <3>2. CASE MarkRunning(w)
      BY <1>5, <2>2, <3>2, LatestStep DEF MarkRunning, InsertFails
    <3>3. CASE MarkOutcome(w)
      BY <1>5, <2>2, <2>3, <3>3, LatestStep DEF MarkOutcome, InsertFails
    <3> QED
      BY <1>11, <3>1, <3>2, <3>3
         DEF Inside, Decode, CheckStopped, ExecuteCancelled, Recheck, Report, InsertSnapshot,
             IncrTotal, IncrType, IncrErrors, PublishResult, ReportCall, IncrCall, handler,
             FinalCheck, ExecuteEnds
  <2>5. pc'[w] = "ack" => Latest(job[w])' \in Fates
    <3>0. pc \in [Workers -> Pcs]
      BY <1>5 DEF TypeOK
    <3>1. ASSUME NEW p, p # "ack", ReadStatus(w, p), UNCHANGED events
          PROVE  pc'[w] = "ack" => Latest(job[w])' \in Fates
      <4>1. pc'[w] = "ack" => IsStopped(job[w])
        BY <3>0, <3>1 DEF ReadStatus, Goto
      <4> QED
        BY <2>1, <3>1, <4>1 DEF IsStopped, Latest, Fates
    <3>2. CASE CheckStopped(w) \/ Recheck(w) \/ FinalCheck(w)
      BY <3>1, <3>2 DEF CheckStopped, Recheck, FinalCheck
    <3>3. CASE MarkOutcome(w)
      <4>1. CASE Append1(job[w], Outcome(w)) /\ Goto(w, "ack")
        <5>1. PICK s \in Scenarios : s = job[w] /\ s = job'[w]
          BY <2>1, <2>2
        <5>2. Latest(s)' = Outcome(w)
          BY <1>5, <2>3, <4>1, <5>1, AppendRow DEF TypeOK
        <5> QED
          BY <2>3, <5>1, <5>2 DEF Latest
      <4>2. CASE Goto(w, "requeue")
        BY <3>0, <4>2 DEF Goto
      <4> QED
        BY <3>3, <4>1, <4>2 DEF MarkOutcome
    <3>4. CASE Decode(w) \/ MarkRunning(w) \/ ExecuteCancelled(w) \/ ExecuteEnds(w)
      BY <3>0, <3>4 DEF Decode, MarkRunning, ExecuteCancelled, ExecuteEnds, Goto
    <3>5. CASE Report(w)
      BY <3>0, <3>5
         DEF Report, InsertSnapshot, IncrTotal, IncrType, IncrErrors, PublishResult, ReportCall,
             IncrCall, handler, Goto
    <3> QED
      BY <1>11, <3>2, <3>3, <3>4, <3>5 DEF Inside
  <2>6. ASSUME NEW v \in Workers
        PROVE  /\ Busy(v)' => lease'[v]
               /\ pc'[v] = "ack" => Latest(job[v])' \in Fates
    <3>1. CASE v = w
      BY <2>1, <2>5, <3>1
    <3>2. CASE v # w
      <4>1. Busy(v)' = Busy(v) /\ pc'[v] = pc[v] /\ job'[v] = job[v] /\ lease'[v] = lease[v]
        BY <2>1, <3>2 DEF Busy
      <4>2. pc[v] = "ack" => Busy(v)
        BY DEF Busy
      <4>3. pc[v] = "ack" => Latest(job[v])' = Latest(job[v])
        <5>1. SUFFICES ASSUME pc[v] = "ack"
                       PROVE  Latest(job[v])' = Latest(job[v])
          OBVIOUS
        <5>2. PICK t \in Scenarios : t = job[v] /\ t = job'[v] /\ t # job[w]
          BY <1>2, <2>2, <3>2, <4>1, <4>2, <5>1
        <5> QED
          BY <2>4, <5>2 DEF Latest
      <4> QED
        BY <1>2, <4>1, <4>3
    <3> QED
      BY <3>1, <3>2
  <2>7. ASSUME NEW s \in Scenarios, msg'[s] = "acked"
        PROVE  Latest(s)' \in Fates
    BY <1>2, <2>1, <2>2, <2>4, <2>7
  <2> QED
    BY <2>6, <2>7
<1>12. ASSUME NEW w \in Workers, WatcherTick(w)
       PROVE  Done
  BY <1>2, <1>6, <1>12 DEF WatcherTick, Busy
<1>13. ASSUME NEW w \in Workers, Ack(w) \/ Requeue(w) \/ Reject(w)
       PROVE  Done
  <2>1. /\ lease[w] /\ job[w] \in Scenarios /\ UNCHANGED events
        /\ pc' = [pc EXCEPT ![w] = "idle"] /\ lease' = [lease EXCEPT ![w] = FALSE]
        /\ job' = [job EXCEPT ![w] = None]
        /\ \/ pc[w] = "ack" /\ msg' = [msg EXCEPT ![job[w]] = "acked"]
           \/ msg' = [msg EXCEPT ![job[w]] = "ready"]
           \/ msg' = [msg EXCEPT ![job[w]] = "dead"]
    BY <1>2, <1>3, <1>4, <1>13 DEF Ack, Requeue, Reject, Settle, Goto, Release, Busy
  <2>2. \A v \in Workers : pc'[v] = "ack" => v # w
    BY <1>5, <2>1 DEF TypeOK
  <2>3. \A s \in Scenarios : msg'[s] = "acked" => Latest(s) \in Fates
    BY <1>2, <1>5, <2>1 DEF TypeOK
  <2> QED
    BY <1>2, <1>5, <1>6, <2>1, <2>2, <2>3 DEF Busy, TypeOK
<1>14. ASSUME NEW w \in Workers, DropConnection(w) \/ Crash(w)
       PROVE  Done
  <2>1. Crash(w) /\ UNCHANGED events
    BY <1>3, <1>14 DEF DropConnection, Crash
  <2>2. \A s \in Scenarios : msg'[s] = "acked" => msg[s] = "acked"
    BY <1>4, <1>5, <2>1 DEF Crash, Redeliver, TypeOK
  <2> QED
    BY <1>2, <1>5, <1>6, <2>1, <2>2 DEF Crash, Goto, Release, Busy, TypeOK
<1>15. ASSUME UNCHANGED vars
       PROVE  Done
  BY <1>2, <1>6, <1>15 DEF vars, Busy
<1> HIDE DEF Done
<1>16. Done
  <2>1. (\E s \in Scenarios : CreateStore(s) \/ CreatePublish(s) \/ StopScenario(s) \/ PublishForeign(s)) => Done
    BY <1>7, <1>8, <1>9
  <2> QED
    BY <1>10, <1>11, <1>12, <1>13, <1>14, <1>15, <2>1, StepKinds
<1> QED
  BY <1>16 DEF Done

--------------------------------------------------------------------------------
(* Runs and outcomes, counted.                                             *)

\* How often a worker has recorded that it runs s.
Runs(s) == Cardinality(Rows(s, {"running"}))

\* Only an INSERT of "running" adds a run, and to its own scenario.
LEMMA RunsStep ==
    ASSUME TypeOK, NEW s \in Scenarios, NEW x \in Statuses, Append1(s, x),
           NEW t \in Scenarios
    PROVE  /\ Runs(t) \in Nat /\ Runs(t)' \in Nat
           /\ t # s \/ x # "running" => Runs(t)' = Runs(t)
           /\ Runs(t)' <= Runs(t) + 1
BY RowsStep DEF Runs

\* The history of t without an INSERT.
LEMMA RunsStay ==
    ASSUME TypeOK, UNCHANGED events, NEW t \in Scenarios
    PROVE  Runs(t) \in Nat /\ Runs(t)' = Runs(t)
BY RowsStay DEF Runs

\* The handler of w may still record that its scenario runs.
MayStart(w) == pc[w] \in {"decode", "check", "markRunning"} \/ (pc[w] = "requeue" /\ lease[w])

\* There are finitely many starters: they are workers.
LEMMA StartersFinite == \A t : IsFiniteSet(Starters(t)) /\ Cardinality(Starters(t)) \in Nat
BY FS_Subset, FS_CardinalityType, LifecycleAssumption DEF Starters

\* A step that moves one handler moves one element of the sets of starters.
LEMMA StartersStep ==
    ASSUME NEW w \in Workers, NEW t \in Scenarios,
           \A v \in Workers \ {w} : pc'[v] = pc[v] /\ job'[v] = job[v] /\ lease'[v] = lease[v]
    PROVE  LET before == Cardinality(Starters(t))
               after  == Cardinality(Starters(t)')
           IN  /\ before \in Nat /\ after \in Nat /\ after <= before + 1
               /\ ~(job'[w] = t /\ MayStart(w)') => after <= before
               /\ job[w] = t /\ MayStart(w) => after <= before
               /\ job[w] = t /\ MayStart(w) /\ ~(job'[w] = t /\ MayStart(w)') => after = before - 1
<1>1. IsFiniteSet(Starters(t))
  BY FS_Subset, LifecycleAssumption DEF Starters
<1>2. /\ \A v : v # w => (v \in Starters(t) <=> v \in Starters(t)')
      /\ w \in Starters(t) <=> job[w] = t /\ MayStart(w)
      /\ w \in Starters(t)' <=> job'[w] = t /\ MayStart(w)'
  BY DEF Starters, MayStart
<1>3. /\ Cardinality(Starters(t)) \in Nat /\ Cardinality(Starters(t)') \in Nat
      /\ (w \in Starters(t) <=> w \in Starters(t)')
            => Cardinality(Starters(t)') = Cardinality(Starters(t))
      /\ w \in Starters(t)' /\ w \notin Starters(t)
            => Cardinality(Starters(t)') = Cardinality(Starters(t)) + 1
      /\ w \in Starters(t) /\ w \notin Starters(t)'
            => Cardinality(Starters(t)') = Cardinality(Starters(t)) - 1
  BY <1>1, <1>2, OneElement
<1> QED
  BY <1>2, <1>3

\* What a failure has used up is never given back, and each adds one.
LEMMA SpentStep ==
    ASSUME TypeOK, BusyOK, [Next]_vars
    PROVE  /\ Spent \in Int /\ Spent' \in Int /\ Spent <= Spent'
           /\ \A b \in {"faults", "drops", "crashes"} : Spend(b) => Spent' = Spent + 1
<1>1. \A b \in Bounds : budget[b] \in Nat /\ budget'[b] \in Nat /\ budget'[b] <= budget[b]
  BY BudgetStep
<1>2. MaxFaults \in Nat /\ MaxDrops \in Nat /\ MaxCrashes \in Nat
  BY LifecycleAssumption
<1>3. ASSUME NEW b \in Bounds, Spend(b)
      PROVE  budget'[b] = budget[b] - 1 /\ \A c \in Bounds \ {b} : budget'[c] = budget[c]
  BY <1>3 DEF Spend, TypeOK
<1> QED
  BY <1>1, <1>2, <1>3 DEF Spent, FailedCalls, Bounds

\* Every further run of a scenario is owed to a failure: the inductive step of
\* RerunsAreCaused.
LEMMA RerunsStep ==
    ASSUME IInv, RerunsOK, [Next]_vars
    PROVE  RerunsOK'
<1> DEFINE C(t) == Cardinality(Starters(t))
           Total(t) == Runs(t) + C(t) + Undelivered(t)
<1> SUFFICES ASSUME NEW t \in Scenarios
             PROVE  Total(t)' <= 1 + Spent'
  BY DEF RerunsOK, Runs
<1>1. /\ TypeOK /\ BusyOK /\ BrokerOK /\ HistoryOK
      /\ {"queued", "stopped", "running", "completed", "failed"} \subseteq Statuses
  BY DEF IInv, Statuses, Outcomes
<1>2. Total(t) <= 1 + Spent
  BY DEF RerunsOK, Runs
<1>3. /\ Spent \in Int /\ Spent' \in Int /\ Spent <= Spent'
      /\ \A b \in {"faults", "drops", "crashes"} : Spend(b) => Spent' = Spent + 1
  BY <1>1, SpentStep
<1>4. /\ Undelivered(t) \in {0, 1} /\ Undelivered(t)' \in {0, 1}
      /\ msg'[t] = msg[t] => Undelivered(t)' = Undelivered(t)
  BY DEF Undelivered
<1>5. C(t) \in Nat
  BY StartersFinite
<1>6. ASSUME UNCHANGED <<pc, job, lease>>
      PROVE  C(t)' = C(t)
  BY <1>6 DEF Starters
<1>7. ASSUME Runs(t) \in Nat, Runs(t)' \in Nat, C(t)' \in Nat,
             \/ Runs(t)' + C(t)' + Undelivered(t)' <= Runs(t) + C(t) + Undelivered(t)
             \/ /\ Spent' = Spent + 1
                /\ Runs(t)' + C(t)' + Undelivered(t)' <= Runs(t) + C(t) + Undelivered(t) + 1
      PROVE  Total(t)' <= 1 + Spent'
  BY <1>2, <1>3, <1>4, <1>5, <1>7
<1> HIDE DEF C
<1>8. ASSUME NEW s \in Scenarios, CreateStore(s) \/ StopScenario(s)
      PROVE  Total(t)' <= 1 + Spent'
  <2>1. /\ UNCHANGED <<msg, pc, job, lease>>
        /\ UNCHANGED events \/ Append1(s, "queued") \/ Append1(s, "stopped")
    BY <1>8 DEF CreateStore, StopScenario, InsertFails, handler
  <2>2. Runs(t) \in Nat /\ Runs(t)' = Runs(t)
    BY <1>1, <2>1, RunsStep, RunsStay
  <2> QED
    BY <1>4, <1>5, <1>6, <1>7, <2>1, <2>2
<1>9. ASSUME NEW s \in Scenarios, CreatePublish(s) \/ PublishForeign(s)
      PROVE  Total(t)' <= 1 + Spent'
  <2>1. /\ UNCHANGED <<events, pc, job, lease>>
        /\ msg'[t] = msg[t] \/ msg[t] = "none"
    BY <1>1, <1>9 DEF CreatePublish, PublishForeign, handler, TypeOK, IInv, ApiOK
  <2>2. Undelivered(t)' <= Undelivered(t)
    BY <1>4, <2>1 DEF Undelivered
  <2>3. Runs(t) \in Nat /\ Runs(t)' = Runs(t)
    BY <1>1, <2>1, RunsStay
  <2> QED
    BY <1>4, <1>5, <1>6, <1>7, <2>1, <2>2, <2>3
<1>10. ASSUME NEW w \in Workers, NEW s \in Scenarios, Deliver(w, s)
       PROVE  Total(t)' <= 1 + Spent'
  <2>1. /\ UNCHANGED events /\ pc[w] = "idle" /\ job'[w] = s
        /\ \A v \in Workers \ {w} : pc'[v] = pc[v] /\ job'[v] = job[v] /\ lease'[v] = lease[v]
        /\ t # s => msg'[t] = msg[t]
        /\ t = s => msg[t] = "ready" /\ msg'[t] = "unacked"
    BY <1>1, <1>10 DEF Deliver, Goto, TypeOK
  <2>2. /\ C(t)' \in Nat /\ C(t)' <= C(t) + 1
        /\ t # s => C(t)' <= C(t)
    BY <2>1, StartersStep DEF C
  <2>3. t = s => Undelivered(t) = 1 /\ Undelivered(t)' = 0
    BY <2>1 DEF Undelivered
  <2>4. Runs(t) \in Nat /\ Runs(t)' = Runs(t)
    BY <1>1, <2>1, RunsStay
  <2> QED
    BY <1>4, <1>5, <1>7, <2>1, <2>2, <2>3, <2>4
<1>11. ASSUME NEW w \in Workers, Inside(w)
       PROVE  Total(t)' <= 1 + Spent'
  <2>1. /\ UNCHANGED <<msg, job, lease>> /\ Busy(w) /\ job[w] \in Scenarios
        /\ \A v \in Workers \ {w} : pc'[v] = pc[v] /\ job'[v] = job[v] /\ lease'[v] = lease[v]
        /\ Undelivered(t)' = Undelivered(t)
    BY <1>1, <1>4, <1>11, InsideStep DEF BusyOK
  <2>2. /\ C(t)' \in Nat /\ C(t)' <= C(t) + 1
        /\ ~(job'[w] = t /\ MayStart(w)') => C(t)' <= C(t)
        /\ job[w] = t /\ MayStart(w) => C(t)' <= C(t)
        /\ job[w] = t /\ MayStart(w) /\ ~(job'[w] = t /\ MayStart(w)') => C(t)' = C(t) - 1
    BY <2>1, StartersStep DEF C
  <2>3. CASE MarkRunning(w)
    <3>1. MayStart(w) /\ (UNCHANGED events \/ Append1(job[w], "running"))
      BY <2>3 DEF MarkRunning, InsertFails, MayStart
    <3>2. /\ Runs(t) \in Nat /\ Runs(t)' \in Nat
          /\ job[w] # t => Runs(t)' = Runs(t)
          /\ Runs(t)' <= Runs(t) + 1
      BY <1>1, <2>1, <3>1, RunsStep, RunsStay
    <3>3. CASE job[w] # t
      BY <1>4, <1>5, <1>7, <2>1, <2>2, <3>2, <3>3
    <3>4. CASE job[w] = t /\ Spend("faults")
      BY <1>3, <1>4, <1>5, <1>7, <2>1, <2>2, <3>1, <3>2, <3>4
    <3>5. CASE job[w] = t /\ Goto(w, "executing")
      <4>1. ~MayStart(w)'
        BY <1>1, <3>5 DEF Goto, MayStart, TypeOK
      <4> QED
        BY <1>4, <1>5, <1>7, <2>1, <2>2, <3>1, <3>2, <3>5, <4>1
    <3> QED
      BY <2>3, <3>3, <3>4, <3>5 DEF MarkRunning, InsertFails
  <2>4. CASE ~MarkRunning(w)
    <3>1. Runs(t) \in Nat /\ Runs(t)' = Runs(t)
      <4>1. CASE MarkOutcome(w)
        <5>1. Outcome(w) \in Statuses /\ Outcome(w) # "running"
          BY <1>1 DEF Outcome
        <5>2. UNCHANGED events \/ Append1(job[w], Outcome(w))
          BY <4>1 DEF MarkOutcome, InsertFails
        <5> QED
          BY <1>1, <2>1, <5>1, <5>2, RunsStep, RunsStay
      <4>2. CASE ~MarkOutcome(w)
        <5>1. UNCHANGED events
          BY <1>11, <2>4, <4>2
             DEF Inside, Decode, CheckStopped, ExecuteCancelled, Recheck, Report, InsertSnapshot,
                 IncrTotal, IncrType, IncrErrors, PublishResult, ReportCall, IncrCall, handler,
                 FinalCheck, ExecuteEnds
        <5> QED
          BY <1>1, <5>1, RunsStay
      <4> QED
        BY <4>1, <4>2
    <3>2. MayStart(w) \/ ~MayStart(w)' \/ Spend("faults")
      <4>0. pc \in [Workers -> Pcs]
        BY <1>1 DEF TypeOK
      <4>1. CASE Decode(w) \/ CheckStopped(w)
        BY <4>1 DEF Decode, CheckStopped, MayStart
      <4>2. CASE Recheck(w) \/ FinalCheck(w)
        <5>1. Stored(job[w])
          <6>1. Facts(job[w]) # {}
            BY <1>1, <4>2 DEF Recheck, FinalCheck, HistoryOK
          <6> QED
            BY <6>1 DEF Facts, Stored
        <5>2. \/ Spend("faults")
              \/ \E p \in {"ack", "snapshot", "markOutcome"} : Goto(w, p)
          BY <4>2, <5>1 DEF Recheck, FinalCheck, ReadStatus
        <5> QED
          BY <4>0, <5>2 DEF Goto, MayStart
      <4>3. CASE Report(w)
        <5>1. \/ Spend("faults")
              \/ \E p \in ReportPcs \union {"finalCheck"} : Goto(w, p)
          BY <4>3 DEF Report, InsertSnapshot, IncrTotal, IncrType, IncrErrors, PublishResult,
                      ReportCall, IncrCall, AttemptFails, ReportPcs
        <5> QED
          BY <4>0, <5>1 DEF Goto, MayStart, ReportPcs
      <4>4. CASE MarkOutcome(w)
        BY <4>0, <4>4 DEF MarkOutcome, InsertFails, Goto, MayStart
      <4>5. CASE ExecuteEnds(w) \/ ExecuteCancelled(w)
        BY <4>0, <4>5 DEF ExecuteEnds, ExecuteCancelled, Goto, MayStart
      <4> QED
        BY <1>11, <2>4, <4>1, <4>2, <4>3, <4>4, <4>5 DEF Inside
    <3>3. C(t)' <= C(t) \/ Spent' = Spent + 1
      BY <1>3, <2>1, <2>2, <3>2
    <3> QED
      BY <1>4, <1>5, <1>7, <2>1, <2>2, <3>1, <3>3
  <2> QED
    BY <2>3, <2>4
<1>12. ASSUME NEW w \in Workers, WatcherTick(w)
       PROVE  Total(t)' <= 1 + Spent'
  <2>1. UNCHANGED <<events, msg, pc, job, lease>>
    BY <1>12 DEF WatcherTick
  <2>2. Runs(t) \in Nat /\ Runs(t)' = Runs(t)
    BY <1>1, <2>1, RunsStay
  <2> QED
    BY <1>4, <1>5, <1>6, <1>7, <2>1, <2>2
\* A delivery that is settled or taken back. It was unacked: the message did not wait.
<1>13. ASSUME NEW w \in Workers,
              Ack(w) \/ Requeue(w) \/ Reject(w) \/ DropConnection(w) \/ Crash(w)
       PROVE  Total(t)' <= 1 + Spent'
  <2>1. /\ UNCHANGED events
        /\ \A v \in Workers \ {w} : pc'[v] = pc[v] /\ job'[v] = job[v] /\ lease'[v] = lease[v]
        /\ ~MayStart(w)' \/ (MayStart(w) /\ job'[w] = job[w])
        /\ pc[w] = "requeue" /\ lease[w] => ~MayStart(w)'
    BY <1>1, <1>13
       DEF Ack, Requeue, Reject, Settle, DropConnection, Crash, Goto, Release, MayStart, TypeOK
  <2>2. Runs(t) \in Nat /\ Runs(t)' = Runs(t)
    BY <1>1, <2>1, RunsStay
  <2>3. /\ C(t)' \in Nat
        /\ C(t)' <= C(t)
        /\ job[w] = t /\ pc[w] = "requeue" /\ lease[w] => C(t)' = C(t) - 1
    <3>1. /\ C(t)' \in Nat /\ C(t)' <= C(t) + 1
          /\ ~(job'[w] = t /\ MayStart(w)') => C(t)' <= C(t)
          /\ job[w] = t /\ MayStart(w) => C(t)' <= C(t)
          /\ job[w] = t /\ MayStart(w) /\ ~(job'[w] = t /\ MayStart(w)') => C(t)' = C(t) - 1
      BY <2>1, StartersStep DEF C
    <3>2. pc[w] = "requeue" /\ lease[w] => MayStart(w)
      BY DEF MayStart
    <3> QED
      BY <2>1, <3>1, <3>2
  <2>4. lease[w] => job[w] \in Scenarios /\ msg[job[w]] = "unacked"
    BY <1>1 DEF BusyOK, BrokerOK
  <2>5. CASE ~lease[w] \/ job[w] # t
    <3>1. msg'[t] = msg[t]
      BY <1>1, <1>13, <2>4, <2>5
         DEF Ack, Requeue, Reject, Settle, DropConnection, Crash, Redeliver, TypeOK
    <3> QED
      BY <1>4, <1>5, <1>7, <2>2, <2>3, <3>1
  <2>6. CASE lease[w] /\ job[w] = t
    <3>1. Undelivered(t) = 0
      BY <2>4, <2>6 DEF Undelivered
    <3>2. \/ Spend("drops") \/ Spend("crashes")
          \/ pc[w] = "requeue"
          \/ msg'[t] \in {"acked", "dead"}
      BY <1>1, <1>13, <2>6 DEF Ack, Requeue, Reject, Settle, DropConnection, Crash, TypeOK
    <3>3. msg'[t] \in {"acked", "dead"} => Undelivered(t)' = 0
      BY DEF Undelivered
    <3>4. \/ Spent' = Spent + 1 \/ C(t)' = C(t) - 1 \/ Undelivered(t)' = 0
      BY <1>3, <2>3, <2>6, <3>2, <3>3
    <3> QED
      BY <1>4, <1>5, <1>7, <2>2, <2>3, <3>1, <3>4
  <2> QED
    BY <2>5, <2>6
<1>14. ASSUME UNCHANGED vars
       PROVE  Total(t)' <= 1 + Spent'
  <2>1. UNCHANGED <<events, msg, pc, job, lease>>
    BY <1>14 DEF vars
  <2>2. Runs(t) \in Nat /\ Runs(t)' = Runs(t)
    BY <1>1, <2>1, RunsStay
  <2> QED
    BY <1>4, <1>5, <1>6, <1>7, <2>1, <2>2
<1> QED
  <2> HIDE DEF Total
  <2>1. (\E s \in Scenarios : CreateStore(s) \/ CreatePublish(s) \/ StopScenario(s) \/ PublishForeign(s))
           => Total(t)' <= 1 + Spent'
    BY <1>8, <1>9
  <2> QED
    BY <1>10, <1>11, <1>12, <1>13, <1>14, <2>1, StepKinds

\* An INSERT adds one row, of its own status.
LEMMA RowsCount ==
    ASSUME TypeOK, NEW s \in Scenarios, NEW x \in Statuses, Append1(s, x),
           NEW r, IsFiniteSet(AllRows({r}))
    PROVE  /\ IsFiniteSet(AllRows({r})') /\ NumRows({r}) \in Nat /\ NumRows({r})' \in Nat
           /\ x # r => NumRows({r})' = NumRows({r})
           /\ x = r => NumRows({r})' = NumRows({r}) + 1
<1> DEFINE n == Len(events[s]) + 1
           A == AllRows({r})
           B == AllRows({r})'
<1>1. /\ events \in [Scenarios -> Seq(Statuses)]
      /\ events' = [events EXCEPT ![s] = Append(events[s], x)]
  BY DEF TypeOK, Append1
<1>2. /\ \A e : e \in A <=> \E t \in Scenarios : \E i \in DOMAIN events[t] : events[t][i] = r /\ e = <<t, i>>
      /\ \A e : e \in B <=> \E t \in Scenarios : \E i \in DOMAIN events'[t] : events'[t][i] = r /\ e = <<t, i>>
  BY DEF AllRows, Rows
<1>3. \A t \in Scenarios \ {s} : events'[t] = events[t]
  BY <1>1
<1>4. /\ n \in Nat /\ DOMAIN events[s] = 1 .. (n - 1) /\ DOMAIN events'[s] = 1 .. n
      /\ events'[s][n] = x
      /\ \A i \in 1 .. (n - 1) : events'[s][i] = events[s][i]
  <2>1. events'[s] = Append(events[s], x)
    BY <1>1
  <2> QED
    BY <1>1, <2>1
<1>5. 1 .. n = 1 .. (n - 1) \union {n} /\ n \notin 1 .. (n - 1)
  BY <1>4
<1> HIDE DEF n, A, B
<1>6. <<s, n>> \notin A
  BY <1>2, <1>4, <1>5
<1>7. <<s, n>> \in B <=> x = r
  BY <1>2, <1>4, <1>5
<1>8. \A e : e # <<s, n>> => (e \in A <=> e \in B)
  <2> SUFFICES ASSUME NEW e, e # <<s, n>>
               PROVE  e \in A <=> e \in B
    OBVIOUS
  <2>1. ASSUME e \in A  PROVE e \in B
    <3>1. PICK t \in Scenarios : \E i \in DOMAIN events[t] : events[t][i] = r /\ e = <<t, i>>
      BY <1>2, <2>1
    <3>2. PICK i \in DOMAIN events[t] : events[t][i] = r /\ e = <<t, i>>
      BY <3>1
    <3>3. i \in DOMAIN events'[t] /\ events'[t][i] = r
      BY <1>3, <1>4, <1>5, <3>2
    <3> QED
      BY <1>2, <3>2, <3>3
  <2>2. ASSUME e \in B  PROVE e \in A
    <3>1. PICK t \in Scenarios : \E i \in DOMAIN events'[t] : events'[t][i] = r /\ e = <<t, i>>
      BY <1>2, <2>2
    <3>2. PICK i \in DOMAIN events'[t] : events'[t][i] = r /\ e = <<t, i>>
      BY <3>1
    <3>3. i \in DOMAIN events[t] /\ events[t][i] = r
      BY <1>3, <1>4, <1>5, <3>2
    <3> QED
      BY <1>2, <3>2, <3>3
  <2> QED
    BY <2>1, <2>2
<1>9. /\ IsFiniteSet(B) /\ Cardinality(A) \in Nat /\ Cardinality(B) \in Nat
      /\ x # r => Cardinality(B) = Cardinality(A)
      /\ x = r => Cardinality(B) = Cardinality(A) + 1
  <2>1. IsFiniteSet(A)
    BY DEF A
  <2> QED
    BY <1>6, <1>7, <1>8, <2>1, OneElement
<1> QED
  BY <1>9 DEF A, B, NumRows

\* The statements between the figures of a result and its outcome.
Closing == {"publish", "finalCheck", "markOutcome"}

\* A step that moves one handler moves one element of the sets of those that conclude.
LEMMA ConcludingStep ==
    ASSUME NEW w \in Workers, NEW r,
           \A v \in Workers \ {w} : pc'[v] = pc[v] /\ result'[v] = result[v]
    PROVE  LET before == Cardinality(Concluding(r))
               after  == Cardinality(Concluding(r)')
               stood  == result[w] = r /\ pc[w] \in Closing
               stands == result'[w] = r /\ pc'[w] \in Closing
           IN  /\ before \in Nat /\ after \in Nat
               /\ (stood <=> stands) => after = before
               /\ stands /\ ~stood => after = before + 1
               /\ stood /\ ~stands => after = before - 1
<1>1. IsFiniteSet(Concluding(r))
  BY FS_Subset, LifecycleAssumption DEF Concluding
<1>2. /\ \A v : v # w => (v \in Concluding(r) <=> v \in Concluding(r)')
      /\ w \in Concluding(r) <=> result[w] = r /\ pc[w] \in Closing
      /\ w \in Concluding(r)' <=> result'[w] = r /\ pc'[w] \in Closing
  BY DEF Concluding, Closing
<1> QED
  BY <1>1, <1>2, OneElement

\* The same for the handlers at incrErrors.
LEMMA AtStep ==
    ASSUME NEW w \in Workers, NEW p,
           \A v \in Workers \ {w} : pc'[v] = pc[v]
    PROVE  LET before == Cardinality(At(p))
               after  == Cardinality(At(p)')
           IN  /\ before \in Nat /\ after \in Nat
               /\ (pc[w] = p <=> pc'[w] = p) => after = before
               /\ pc'[w] = p /\ pc[w] # p => after = before + 1
               /\ pc[w] = p /\ pc'[w] # p => after = before - 1
<1>1. /\ \A v : v # w => (v \in At(p) <=> v \in At(p)')
      /\ w \in At(p) <=> pc[w] = p
      /\ w \in At(p)' <=> pc'[w] = p
  BY DEF At
<1> QED
  BY <1>1, AtFinite, OneElement

\* An outcome is stored only by a handler that has counted it: the inductive
\* step of OutcomesAreCounted.
LEMMA CountedStep ==
    ASSUME IInv, CountedOK, [Next]_vars
    PROVE  CountedOK'
<1> DEFINE F  == NumRows({"failed"})
           K  == NumRows({"completed"})
           CE == Cardinality(Concluding("error"))
           CO == Cardinality(Concluding("ok"))
           CI == Cardinality(At("incrErrors"))
           E  == metrics["errors"]
           T  == metrics["byType"]
           Fin == \A r \in Outcomes : IsFiniteSet(AllRows({r}))
           Err == \A w \in Workers : pc[w] = "incrErrors" => result[w] = "error"
           Sums == F + CE <= E /\ F + K + CE + CO + CI <= T
<1>0. /\ TypeOK /\ BusyOK
      /\ pc \in [Workers -> Pcs] /\ result \in [Workers -> {"ok", "error"}]
      /\ metrics \in [Figures -> Nat]
      /\ {"queued", "stopped", "running", "completed", "failed"} \subseteq Statuses
  BY DEF IInv, TypeOK, Statuses, Outcomes
<1>1. Fin /\ Err /\ F + CE <= E /\ F + K + CE + CO + CI <= T
  BY DEF CountedOK
<1>2. F \in Nat /\ K \in Nat /\ CE \in Nat /\ CO \in Nat /\ CI \in Nat /\ E \in Nat /\ T \in Nat
  <2>1. F \in Nat /\ K \in Nat
    BY <1>1, FS_CardinalityType DEF NumRows, Outcomes
  <2>2. CE \in Nat /\ CO \in Nat
    BY LifecycleAssumption, FS_Subset, FS_CardinalityType DEF Concluding
  <2> QED
    BY <1>0, <2>1, <2>2, AtFinite DEF Figures
<1>2a. PICK f \in Nat, k \in Nat, ce \in Nat, co \in Nat, ci \in Nat, e \in Nat, n \in Nat :
          f = F /\ k = K /\ ce = CE /\ co = CO /\ ci = CI /\ e = E /\ n = T
  BY <1>2
<1>2b. f + ce <= e /\ f + k + ce + co + ci <= n
  BY <1>1, <1>2a
\* What the rows do.
<1>3. ASSUME UNCHANGED events
      PROVE  Fin' /\ F' = F /\ K' = K
  <2>1. \A r : AllRows({r})' = AllRows({r})
    BY <1>3 DEF AllRows, Rows
  <2> QED
    BY <1>1, <2>1 DEF NumRows
<1>4. ASSUME NEW s \in Scenarios, NEW x \in Statuses, Append1(s, x)
      PROVE  /\ Fin'
             /\ x # "failed" => F' = F
             /\ x = "failed" => F' = F + 1
             /\ x # "completed" => K' = K
             /\ x = "completed" => K' = K + 1
  BY <1>0, <1>1, <1>4, RowsCount DEF Outcomes
<1>5. ASSUME Fin', Err', Sums'
      PROVE  CountedOK'
  BY <1>5 DEF CountedOK
<1> HIDE DEF F, K, CE, CO, CI, E, T, Fin, Err, Sums
\* No row and no move, and no figure that falls.
<1> DEFINE Raised == E' \in Nat /\ T' \in Nat /\ E <= E' /\ T <= T'
<1>6. ASSUME UNCHANGED <<pc, result>>, Raised,
             Fin' /\ F' = F /\ K' = K
      PROVE  CountedOK'
  <2>1. CE' = CE /\ CO' = CO /\ CI' = CI /\ (Err => Err')
    BY <1>6 DEF Err, CE, CO, CI, Concluding, At
  <2>2. Sums'
    BY <1>1, <1>2, <1>6, <2>1 DEF Sums
  <2> QED
    BY <1>1, <1>5, <1>6, <2>1, <2>2
\* How the handlers that are counted change when one of them moves.
<1>7. ASSUME NEW w \in Workers,
             \A v \in Workers \ {w} : pc'[v] = pc[v] /\ result'[v] = result[v]
      PROVE  /\ CE' \in Nat /\ CO' \in Nat /\ CI' \in Nat
             /\ pc'[w] \notin Closing => CE' <= CE /\ CO' <= CO
             /\ pc'[w] # "incrErrors" => CI' <= CI
             /\ pc'[w] \in Closing /\ pc[w] \in Closing /\ result'[w] = result[w]
                   => CE' = CE /\ CO' = CO
             /\ pc[w] \notin Closing /\ pc'[w] \in Closing /\ result'[w] = "error"
                   => CE' = CE + 1 /\ CO' = CO
             /\ pc[w] \notin Closing /\ pc'[w] \in Closing /\ result'[w] = "ok"
                   => CE' = CE /\ CO' = CO + 1
             /\ pc[w] \in Closing /\ pc'[w] \notin Closing /\ result[w] = "error"
                   => CE' = CE - 1 /\ CO' = CO
             /\ pc[w] \in Closing /\ pc'[w] \notin Closing /\ result[w] = "ok"
                   => CE' = CE /\ CO' = CO - 1
             /\ pc[w] = "incrErrors" /\ pc'[w] # "incrErrors" => CI' = CI - 1
             /\ pc[w] # "incrErrors" /\ pc'[w] = "incrErrors" => CI' = CI + 1
  <2>1. /\ CE' \in Nat
        /\ ((result[w] = "error" /\ pc[w] \in Closing) <=> (result'[w] = "error" /\ pc'[w] \in Closing))
              => CE' = CE
        /\ result'[w] = "error" /\ pc'[w] \in Closing /\ ~(result[w] = "error" /\ pc[w] \in Closing)
              => CE' = CE + 1
        /\ result[w] = "error" /\ pc[w] \in Closing /\ ~(result'[w] = "error" /\ pc'[w] \in Closing)
              => CE' = CE - 1
    BY <1>7, ConcludingStep DEF CE
  <2>2. /\ CO' \in Nat
        /\ ((result[w] = "ok" /\ pc[w] \in Closing) <=> (result'[w] = "ok" /\ pc'[w] \in Closing))
              => CO' = CO
        /\ result'[w] = "ok" /\ pc'[w] \in Closing /\ ~(result[w] = "ok" /\ pc[w] \in Closing)
              => CO' = CO + 1
        /\ result[w] = "ok" /\ pc[w] \in Closing /\ ~(result'[w] = "ok" /\ pc'[w] \in Closing)
              => CO' = CO - 1
    BY <1>7, ConcludingStep DEF CO
  <2>3. /\ CI' \in Nat
        /\ (pc[w] = "incrErrors" <=> pc'[w] = "incrErrors") => CI' = CI
        /\ pc'[w] = "incrErrors" /\ pc[w] # "incrErrors" => CI' = CI + 1
        /\ pc[w] = "incrErrors" /\ pc'[w] # "incrErrors" => CI' = CI - 1
    BY <1>7, AtStep DEF CI
  <2> QED
    BY <1>2, <2>1, <2>2, <2>3
\* A handler that goes where nothing is counted.
<1>8. ASSUME NEW w \in Workers,
             \A v \in Workers \ {w} : pc'[v] = pc[v] /\ result'[v] = result[v],
             pc'[w] \notin Closing \union {"incrErrors"},
             Fin' /\ F' = F /\ K' = K, Raised
      PROVE  CountedOK'
  <2>1. CE' <= CE /\ CO' <= CO /\ CI' <= CI /\ CE' \in Nat /\ CO' \in Nat /\ CI' \in Nat
    BY <1>7, <1>8
  <2>2. Err'
    BY <1>1, <1>8 DEF Err
  <2>3. Sums'
    BY <1>1, <1>2, <1>8, <2>1 DEF Sums
  <2> QED
    BY <1>5, <1>8, <2>2, <2>3
<1>9. ASSUME UNCHANGED metrics
      PROVE  E' = E /\ T' = T /\ Raised
  BY <1>2, <1>9 DEF E, T
<1>10. ASSUME NEW s \in Scenarios,
              CreateStore(s) \/ CreatePublish(s) \/ StopScenario(s) \/ PublishForeign(s)
       PROVE  CountedOK'
  <2>1. /\ UNCHANGED <<pc, result, metrics>>
        /\ UNCHANGED events \/ Append1(s, "queued") \/ Append1(s, "stopped")
    BY <1>10 DEF CreateStore, CreatePublish, StopScenario, PublishForeign, InsertFails, handler
  <2> QED
    BY <1>0, <1>3, <1>4, <1>6, <1>9, <2>1
<1>11. ASSUME NEW w \in Workers,
              \/ \E s \in Scenarios : Deliver(w, s)
              \/ Ack(w) \/ Requeue(w) \/ Reject(w) \/ Crash(w)
              \/ Decode(w) \/ CheckStopped(w) \/ Recheck(w)
              \/ ExecuteEnds(w) \/ ExecuteCancelled(w)
       PROVE  CountedOK'
  <2>1. /\ UNCHANGED <<events, metrics>>
        /\ \A v \in Workers \ {w} : pc'[v] = pc[v] /\ result'[v] = result[v]
        /\ pc'[w] \notin Closing \union {"incrErrors"}
    BY <1>0, <1>11
       DEF Deliver, Ack, Requeue, Reject, Settle, Crash, Release, Decode, CheckStopped, Recheck,
           ReadStatus, ExecuteEnds, ExecuteCancelled, Goto, Closing
  <2> QED
    BY <1>3, <1>8, <1>9, <2>1
<1>12. ASSUME NEW w \in Workers, MarkRunning(w)
       PROVE  CountedOK'
  <2>1. /\ UNCHANGED metrics /\ job[w] \in Scenarios
        /\ UNCHANGED events \/ Append1(job[w], "running")
        /\ \A v \in Workers \ {w} : pc'[v] = pc[v] /\ result'[v] = result[v]
        /\ pc'[w] \notin Closing \union {"incrErrors"}
    BY <1>0, <1>12 DEF MarkRunning, InsertFails, Goto, Closing, BusyOK, Busy
  <2>2. Fin' /\ F' = F /\ K' = K
    BY <1>0, <1>3, <1>4, <2>1
  <2> QED
    BY <1>8, <1>9, <2>1, <2>2
<1>13. ASSUME NEW w \in Workers, WatcherTick(w) \/ DropConnection(w)
       PROVE  CountedOK'
  <2>1. UNCHANGED <<pc, result, metrics, events>>
    BY <1>13 DEF WatcherTick, DropConnection
  <2> QED
    BY <1>3, <1>6, <1>9, <2>1
<1>14. ASSUME NEW w \in Workers, NEW g \in Figures, Count(g)
       PROVE  /\ g = "errors" => E' = E + 1
              /\ g # "errors" => E' = E
              /\ g = "byType" => T' = T + 1
              /\ g # "byType" => T' = T
              /\ Raised
  <2>1. /\ g = "errors" => E' = E + 1
        /\ g # "errors" => E' = E
        /\ g = "byType" => T' = T + 1
        /\ g # "byType" => T' = T
    BY <1>0, <1>14 DEF Count, E, T, Figures
  <2> QED
    BY <1>2, <2>1
<1>15. ASSUME NEW w \in Workers, Report(w)
       PROVE  CountedOK'
  <2>1. /\ UNCHANGED <<events, result>>
        /\ \A v \in Workers \ {w} : pc'[v] = pc[v] /\ result'[v] = result[v]
    BY <1>0, <1>15 DEF Report, InsertSnapshot, IncrTotal, IncrType, IncrErrors, PublishResult,
                       ReportCall, IncrCall, handler, Goto
  <2>2. Fin' /\ F' = F /\ K' = K
    BY <1>3, <2>1
  <2>3. Raised
    <3>1. UNCHANGED metrics \/ \E g \in Figures : Count(g)
      BY <1>15 DEF Report, InsertSnapshot, IncrTotal, IncrType, IncrErrors, PublishResult,
                   ReportCall, IncrCall, AttemptFails, Figures
    <3> QED
      BY <1>9, <1>14, <3>1
  \* A call that gives up, a sending that will be repeated, a figure nothing is owed to.
  <2>4. CASE \/ pc'[w] \in {"requeue", "incrTotal", "incrType"}
             \/ UNCHANGED pc
    BY <1>6, <1>8, <2>1, <2>2, <2>3, <2>4 DEF Closing
  <2>5. CASE /\ pc[w] = "incrType" /\ Count("byType")
             /\ Goto(w, IF result[w] = "error" THEN "incrErrors" ELSE "publish")
    <3>1. /\ pc[w] = "incrType" /\ result[w] \in {"ok", "error"} /\ result'[w] = result[w]
          /\ pc'[w] \in {"incrErrors", "publish"}
          /\ pc'[w] = "incrErrors" => result[w] = "error"
          /\ pc'[w] = "publish" => result[w] = "ok"
      BY <1>0, <2>1, <2>5 DEF Goto
    <3>2. E' = E /\ T' = T + 1
      BY <1>14, <2>5 DEF Figures
    <3>3. Err'
      BY <1>1, <2>1, <3>1 DEF Err
    <3>4. /\ CE' \in Nat /\ CO' \in Nat /\ CI' \in Nat
          /\ CE' <= CE /\ CO' + CI' <= CO + CI + 1
      <4>1. CASE pc'[w] = "publish"
        BY <1>2, <1>7, <2>1, <3>1, <4>1 DEF Closing
      <4>2. CASE pc'[w] = "incrErrors"
        BY <1>2, <1>7, <2>1, <3>1, <4>2 DEF Closing
      <4> QED
        BY <3>1, <4>1, <4>2
    <3>5. Sums'
      <4>1. PICK x \in Nat, y \in Nat, z \in Nat : x = CE' /\ y = CO' /\ z = CI'
        BY <1>2, <2>2, <3>2, <3>4
      <4>2. x <= ce /\ y + z <= co + ci + 1
        BY <1>2a, <2>2, <3>2, <3>4, <4>1
      <4>3. f + x <= e /\ f + k + x + y + z <= n + 1
        BY <1>2b, <4>2
      <4> QED
        BY <1>2a, <2>2, <3>2, <3>4, <4>1, <4>3 DEF Sums
    <3> QED
      BY <1>5, <2>2, <3>3, <3>5
  <2>6. CASE pc[w] = "incrErrors" /\ Count("errors") /\ Goto(w, "publish")
    <3>1. /\ pc[w] = "incrErrors" /\ result[w] = "error" /\ result'[w] = "error"
          /\ pc'[w] = "publish"
      BY <1>0, <1>1, <2>1, <2>6 DEF Err, Goto
    <3>2. E' = E + 1 /\ T' = T
      BY <1>14, <2>6 DEF Figures
    <3>3. Err'
      BY <1>1, <2>1, <3>1 DEF Err
    <3>4. /\ CE' \in Nat /\ CO' \in Nat /\ CI' \in Nat
          /\ CE' <= CE + 1 /\ CO' <= CO /\ CI' = CI - 1
      BY <1>2, <1>7, <2>1, <3>1 DEF Closing
    <3>5. Sums'
      <4>1. PICK x \in Nat, y \in Nat, z \in Nat : x = CE' /\ y = CO' /\ z = CI'
        BY <1>2, <2>2, <3>2, <3>4
      <4>2. x <= ce + 1 /\ y <= co /\ z = ci - 1
        BY <1>2a, <2>2, <3>2, <3>4, <4>1
      <4>3. f + x <= e + 1 /\ f + k + x + y + z <= n
        BY <1>2b, <4>2
      <4> QED
        BY <1>2a, <2>2, <3>2, <3>4, <4>1, <4>3 DEF Sums
    <3> QED
      BY <1>5, <2>2, <3>3, <3>5
  <2>7. CASE PublishResult(w)
    <3>1. /\ pc[w] = "publish" /\ result'[w] = result[w] /\ UNCHANGED metrics
          /\ pc'[w] \in {"finalCheck", "requeue"}
      BY <1>0, <2>7 DEF PublishResult, Goto
    <3>2. CASE pc'[w] = "finalCheck"
      <4>1. CE' = CE /\ CO' = CO /\ CI' <= CI /\ CI' \in Nat
        BY <1>7, <2>1, <3>1, <3>2 DEF Closing
      <4>2. Err'
        BY <1>1, <2>1, <3>2 DEF Err
      <4>3. E' = E /\ T' = T
        BY <1>9, <3>1
      <4>4. Sums'
        <5>1. PICK x \in Nat, y \in Nat, z \in Nat : x = CE' /\ y = CO' /\ z = CI'
          BY <1>2, <2>2, <4>1, <4>3
        <5>2. x = ce /\ y = co /\ z <= ci
          BY <1>2a, <2>2, <4>1, <4>3, <5>1
        <5>3. f + x <= e /\ f + k + x + y + z <= n
          BY <1>2b, <5>2
        <5> QED
          BY <1>2a, <2>2, <4>1, <4>3, <5>1, <5>3 DEF Sums
      <4> QED
        BY <1>5, <2>2, <4>2, <4>4
    <3>3. CASE pc'[w] = "requeue"
      BY <1>8, <1>9, <2>1, <2>2, <3>1, <3>3 DEF Closing
    <3> QED
      BY <3>1, <3>2, <3>3
  <2> QED
    <3>1. CASE InsertSnapshot(w) \/ IncrTotal(w)
      <4>1. pc'[w] \in {"requeue", "incrTotal", "incrType"} \/ UNCHANGED pc
        BY <1>0, <3>1 DEF InsertSnapshot, IncrTotal, ReportCall, IncrCall, handler, Goto
      <4> QED
        BY <2>4, <4>1
    <3>2. ASSUME Goto(w, "requeue")  PROVE pc'[w] = "requeue"
      BY <1>0, <3>2 DEF Goto
    <3>3. CASE IncrType(w)
      BY <2>4, <2>5, <3>2, <3>3 DEF IncrType, ReportCall, IncrCall, handler
    <3>4. CASE IncrErrors(w)
      BY <2>4, <2>6, <3>2, <3>4 DEF IncrErrors, ReportCall, IncrCall, handler
    <3> QED
      BY <1>15, <2>7, <3>1, <3>3, <3>4 DEF Report
<1>16. ASSUME NEW w \in Workers, FinalCheck(w)
       PROVE  CountedOK'
  <2>1. /\ UNCHANGED <<events, result, metrics>> /\ pc[w] = "finalCheck"
        /\ \A v \in Workers \ {w} : pc'[v] = pc[v] /\ result'[v] = result[v]
        /\ pc'[w] \in {"markOutcome", "ack", "requeue"}
    BY <1>0, <1>16 DEF FinalCheck, ReadStatus, Goto
  <2>2. Fin' /\ F' = F /\ K' = K /\ E' = E /\ T' = T /\ Raised
    BY <1>3, <1>9, <2>1
  <2>3. CASE pc'[w] = "markOutcome"
    <3>1. CE' = CE /\ CO' = CO /\ CI' <= CI /\ CI' \in Nat
      BY <1>7, <2>1, <2>3 DEF Closing
    <3>2. Err'
      BY <1>1, <2>1, <2>3 DEF Err
    <3>3. Sums'
      <4>1. PICK x \in Nat, y \in Nat, z \in Nat : x = CE' /\ y = CO' /\ z = CI'
        BY <1>2, <2>2, <3>1
      <4>2. x = ce /\ y = co /\ z <= ci
        BY <1>2a, <2>2, <3>1, <4>1
      <4>3. f + x <= e /\ f + k + x + y + z <= n
        BY <1>2b, <4>2
      <4> QED
        BY <1>2a, <2>2, <3>1, <4>1, <4>3 DEF Sums
    <3> QED
      BY <1>5, <2>2, <3>2, <3>3
  <2>4. CASE pc'[w] \in {"ack", "requeue"}
    BY <1>8, <2>1, <2>2, <2>4 DEF Closing
  <2> QED
    BY <2>1, <2>3, <2>4
<1>17. ASSUME NEW w \in Workers, MarkOutcome(w)
       PROVE  CountedOK'
  <2>1. /\ UNCHANGED <<result, metrics>> /\ pc[w] = "markOutcome" /\ job[w] \in Scenarios
        /\ \A v \in Workers \ {w} : pc'[v] = pc[v] /\ result'[v] = result[v]
        /\ pc'[w] \in {"ack", "requeue"}
        /\ UNCHANGED events \/ Append1(job[w], Outcome(w))
        /\ result[w] \in {"ok", "error"}
    BY <1>0, <1>17 DEF MarkOutcome, InsertFails, Goto, BusyOK, Busy
  <2>2. E' = E /\ T' = T /\ Raised
    BY <1>9, <2>1
  <2>3. CASE UNCHANGED events
    BY <1>3, <1>8, <2>1, <2>2, <2>3 DEF Closing
  <2>4. CASE Append1(job[w], Outcome(w))
    <3>1. /\ Outcome(w) \in Statuses
          /\ result[w] = "error" => Outcome(w) = "failed"
          /\ result[w] = "ok" => Outcome(w) = "completed"
      BY <1>0, <2>1 DEF Outcome
    <3>2. /\ Fin'
          /\ result[w] = "error" => F' = F + 1 /\ K' = K
          /\ result[w] = "ok" => F' = F /\ K' = K + 1
      BY <1>4, <2>1, <2>4, <3>1
    <3>3. /\ CE' \in Nat /\ CO' \in Nat /\ CI' \in Nat /\ CI' <= CI
          /\ result[w] = "error" => CE' = CE - 1 /\ CO' = CO
          /\ result[w] = "ok" => CE' = CE /\ CO' = CO - 1
      BY <1>7, <2>1 DEF Closing
    <3>4. Err'
      BY <1>1, <2>1 DEF Err
    <3>5. ASSUME result[w] = "error"  PROVE Sums'
      <4>1. PICK x \in Nat, y \in Nat, z \in Nat : x = CE' /\ y = CO' /\ z = CI'
        BY <1>2, <2>2, <3>2, <3>3, <3>5
      <4>2. x = ce - 1 /\ y = co /\ z <= ci
        BY <1>2a, <2>2, <3>2, <3>3, <3>5, <4>1
      <4>3. (f + 1) + x <= e /\ (f + 1) + k + x + y + z <= n
        BY <1>2b, <4>2
      <4> QED
        BY <1>2a, <2>2, <3>2, <3>3, <3>5, <4>1, <4>3 DEF Sums
    <3>6. ASSUME result[w] = "ok"  PROVE Sums'
      <4>1. PICK x \in Nat, y \in Nat, z \in Nat : x = CE' /\ y = CO' /\ z = CI'
        BY <1>2, <2>2, <3>2, <3>3, <3>6
      <4>2. x = ce /\ y = co - 1 /\ z <= ci
        BY <1>2a, <2>2, <3>2, <3>3, <3>6, <4>1
      <4>3. f + x <= e /\ f + (k + 1) + x + y + z <= n
        BY <1>2b, <4>2
      <4> QED
        BY <1>2a, <2>2, <3>2, <3>3, <3>6, <4>1, <4>3 DEF Sums
    <3> QED
      BY <1>5, <2>1, <3>2, <3>4, <3>5, <3>6
  <2> QED
    BY <2>1, <2>3, <2>4
<1>18. ASSUME UNCHANGED vars
       PROVE  CountedOK'
  <2>1. UNCHANGED <<pc, result, metrics, events>>
    BY <1>18 DEF vars
  <2> QED
    BY <1>3, <1>6, <1>9, <2>1
<1> QED
  <2>1. ASSUME NEW w \in Workers, Inside(w)
        PROVE  CountedOK'
    BY <1>11, <1>12, <1>15, <1>16, <1>17, <2>1 DEF Inside
  <2> QED
    BY <1>10, <1>11, <1>13, <1>18, <2>1, StepKinds

\* Nothing has run, failed or been counted before the first step.
LEMMA HistoryInit == Init => HistoryInv
<1> SUFFICES ASSUME Init
             PROVE  HistoryInv
  OBVIOUS
<1>1. /\ MaxStops \in Nat /\ MaxFaults \in Nat /\ MaxDrops \in Nat /\ MaxCrashes \in Nat
      /\ budget["faults"] = MaxFaults /\ budget["drops"] = MaxDrops /\ budget["crashes"] = MaxCrashes
  BY LifecycleAssumption DEF Init, Bounds
<1>2. SettledOK
  BY DEF Init, SettledOK, Busy
<1>3. RerunsOK
  <2>1. Spent = 0
    BY <1>1 DEF Spent, FailedCalls
  <2>2. ASSUME NEW s \in Scenarios
        PROVE  Rows(s, {"running"}) = {} /\ Starters(s) = {} /\ Undelivered(s) = 1
    BY DEF Init, Rows, Starters, Undelivered
  <2> QED
    BY <2>1, <2>2, FS_EmptySet DEF RerunsOK
<1>4. CountedOK
  <2>1. \A r : AllRows({r}) = {}
    BY DEF Init, AllRows, Rows
  <2>2. /\ Concluding("error") = {} /\ Concluding("ok") = {} /\ At("incrErrors") = {}
        /\ metrics["errors"] = 0 /\ metrics["byType"] = 0
    BY DEF Init, Concluding, At, Figures
  <2>4. \A r : NumRows({r}) = 0
    BY <2>1, FS_EmptySet DEF NumRows
  <2>5. /\ Cardinality(Concluding("error")) = 0 /\ Cardinality(Concluding("ok")) = 0
        /\ Cardinality(At("incrErrors")) = 0
    BY <2>2, FS_EmptySet
  <2>6. \A r \in Outcomes : IsFiniteSet(AllRows({r}))
    BY <2>1, FS_EmptySet
  <2>7. \A w \in Workers : pc[w] = "incrErrors" => result[w] = "error"
    BY DEF Init
  <2>8. NumRows({"failed"}) + Cardinality(Concluding("error")) <= metrics["errors"]
    <3>1. NumRows({"failed"}) = 0 /\ metrics["errors"] = 0
      BY <2>2, <2>4
    <3> QED
      BY <2>5, <3>1
  <2>9. NumRows({"failed"}) + NumRows({"completed"})
           + Cardinality(Concluding("error")) + Cardinality(Concluding("ok"))
           + Cardinality(At("incrErrors")) <= metrics["byType"]
    <3>1. NumRows({"failed"}) = 0 /\ NumRows({"completed"}) = 0 /\ metrics["byType"] = 0
      BY <2>2, <2>4
    <3> QED
      BY <2>5, <3>1
  <2> QED
    BY <2>6, <2>7, <2>8, <2>9 DEF CountedOK
<1> QED
  BY <1>1, <1>2, <1>3, <1>4 DEF HistoryInv

\* Every step keeps it.
LEMMA HistoryInvStep == IInv /\ HistoryInv /\ [Next]_vars => HistoryInv'
<1> SUFFICES ASSUME IInv, HistoryInv, [Next]_vars
             PROVE  HistoryInv'
  OBVIOUS
<1>1. budget'["drops"] <= MaxDrops
  BY BudgetStep, LifecycleAssumption DEF IInv, HistoryInv, Bounds
<1>2. SettledOK' /\ RerunsOK' /\ CountedOK'
  BY SettledStep, RerunsStep, CountedStep DEF HistoryInv
<1> QED
  BY <1>1, <1>2 DEF HistoryInv

\* What every reachable history, delivery and figure have to do with each other.
THEOREM HistoryInvariant == Spec => []HistoryInv
BY HistoryInit, HistoryInvStep, InductiveInvariant, PTL DEF Spec

\* handleMessage's order of outcome and acknowledgement: while no connection
\* drops, the API lists no acknowledged scenario as queued or running.
THEOREM SettledStaysTerminal == Spec => []SettledIsTerminal
<1>1. HistoryInv => SettledIsTerminal
  BY DEF HistoryInv, SettledOK, Undropped, SettledIsTerminal
<1> QED
  BY <1>1, HistoryInvariant, PTL

\* Consume's requeueing: a scenario runs once more than the calls that failed, the
\* connections that dropped and the workers that crashed, at most.
THEOREM RerunsHaveCauses == Spec => []RerunsAreCaused
<1>1. IInv /\ HistoryInv => RerunsAreCaused
  <2> SUFFICES ASSUME IInv, HistoryInv, NEW s \in Scenarios
               PROVE  Runs(s) <= 1 + Spent
    BY DEF RerunsAreCaused, Runs
  <2>1. Runs(s) + Cardinality(Starters(s)) + Undelivered(s) <= 1 + Spent
    BY DEF HistoryInv, RerunsOK, Runs
  <2>2. Runs(s) \in Nat
    <3>1. Len(events[s]) \in Nat /\ DOMAIN events[s] = 1 .. Len(events[s])
      BY DEF IInv, TypeOK
    <3>2. IsFiniteSet(1 .. Len(events[s]))
      BY <3>1, FS_Interval
    <3>3. Rows(s, {"running"}) \subseteq 1 .. Len(events[s])
      BY <3>1 DEF Rows
    <3>4. IsFiniteSet(Rows(s, {"running"}))
      BY <3>2, <3>3, FS_Subset
    <3> QED
      BY <3>4, FS_CardinalityType DEF Runs
  <2>3. Cardinality(Starters(s)) \in Nat /\ Undelivered(s) \in {0, 1} /\ Spent \in Int
    BY StartersFinite, LifecycleAssumption DEF Undelivered, Spent, FailedCalls, IInv, TypeOK, Bounds
  <2> QED
    BY <2>1, <2>2, <2>3
<1> QED
  BY <1>1, InductiveInvariant, HistoryInvariant, PTL

\* reportResult before appendScenarioStatus: an outcome row is never ahead of the
\* figures, for any number of scenarios and however often an INCR counted.
THEOREM OutcomesWereCounted == Spec => []OutcomesAreCounted
<1>1. IInv /\ HistoryInv => OutcomesAreCounted
  <2> SUFFICES ASSUME IInv, HistoryInv
               PROVE  OutcomesAreCounted
    OBVIOUS
  <2>1. NumRows({"failed"}) \in Nat /\ NumRows({"completed"}) \in Nat
    BY FS_CardinalityType DEF HistoryInv, CountedOK, NumRows, Outcomes
  <2>2. Cardinality(Concluding("error")) \in Nat /\ Cardinality(Concluding("ok")) \in Nat
    BY LifecycleAssumption, FS_Subset, FS_CardinalityType DEF Concluding
  <2>3. Cardinality(At("incrErrors")) \in Nat /\ metrics["errors"] \in Nat /\ metrics["byType"] \in Nat
    BY AtFinite DEF IInv, TypeOK, Figures
  <2>4. /\ NumRows({"failed"}) + Cardinality(Concluding("error")) <= metrics["errors"]
        /\ NumRows({"failed"}) + NumRows({"completed"})
           + Cardinality(Concluding("error")) + Cardinality(Concluding("ok"))
           + Cardinality(At("incrErrors")) <= metrics["byType"]
    BY DEF HistoryInv, CountedOK
  <2> QED
    BY <2>1, <2>2, <2>3, <2>4 DEF OutcomesAreCounted
<1> QED
  BY <1>1, InductiveInvariant, HistoryInvariant, PTL
================================================================================
