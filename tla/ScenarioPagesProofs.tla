------------------------- MODULE ScenarioPagesProofs --------------------------
(***************************************************************************)
(* What the pages show holds of every history the life cycle can write:    *)
(* any number of Workers, stops, failures, visits and lost answers.        *)
(***************************************************************************)
EXTENDS ScenarioPages, ScenarioLifecycleProofs

\* The polling tab, its handlers and the user only make steps of the life cycle.
LEMMA PagesAreLifecycle == PagesAssumption /\ [PagesNext]_allVars => [Next]_vars
  <1>1. PagesAssumption /\ StopRow => Next  BY DEF PagesAssumption, StopRow, Next
  <1>2. Underneath => Next  BY DEF Underneath
  <1>3. ASSUME NEW p \in Parts, UIStep(p) \/ CallFails(p)  PROVE UNCHANGED vars
    BY <1>3 DEF UIStep, ReadStatusFor, ReadScenario, ReadEvents, Ignored, Swap, Show, CallFails
  <1>4. CreateReply \/ Open \/ Redirect \/ User \/ Poll => UNCHANGED vars
    BY DEF CreateReply, Open, Redirect, Show, User, ClickStop, Follow, Poll
  <1> QED  BY <1>1, <1>2, <1>3, <1>4 DEF PagesNext, UI, allVars

\* The pages add a tab to the life cycle and take nothing away from what is known
\* of it: every behaviour with them is one of ScenarioLifecycle.
THEOREM PagesKeepTheLifecycle == PagesSpec => Spec
  <1>1. PagesInit => Init  BY DEF PagesInit
  <1>2. [PagesNext]_allVars => [Next]_vars  BY PagesAreLifecycle, PagesAssumption
  <1> QED  BY <1>1, <1>2, PTL DEF PagesSpec, Spec

--------------------------------------------------------------------------------
(* What the pages rely on.                                                 *)

\* One more row.
LEMMA LongerByOne ==
    ASSUME events \in [Scenarios -> Seq(Statuses)], NEW s \in Scenarios, NEW x \in Statuses,
           UNCHANGED events \/ Append1(s, x)
    PROVE  \A t \in Scenarios : Len(events[t]) <= Len(events'[t])
  <1>1. \A t \in Scenarios : Len(events[t]) \in Nat  OBVIOUS
  <1>2. CASE UNCHANGED events  BY <1>1, <1>2
  <1>3. CASE Append1(s, x)
    <2>1. events' = [events EXCEPT ![s] = Append(events[s], x)] /\ events[s] \in Seq(Statuses)
      BY <1>3 DEF Append1
    <2>2. events'[s] = Append(events[s], x) /\ \A t \in Scenarios \ {s} : events'[t] = events[t]
      BY <2>1
    <2>3. Len(events'[s]) = Len(events[s]) + 1  BY <2>1, <2>2
    <2> QED  BY <1>1, <2>2, <2>3
  <1> QED  BY <1>2, <1>3

\* The history of the scenario shown never gets shorter.
LEMMA HistoryKeepsPlaces ==
    ASSUME PagesAssumption, IInv, [Next]_vars
    PROVE  Len(events[Shown]) \in Nat /\ Len(events[Shown]) <= Len(events'[Shown])
  <1>0. /\ events \in [Scenarios -> Seq(Statuses)] /\ TypeOK /\ BusyOK
        /\ Shown \in Scenarios
        /\ {"queued", "running", "stopped"} \subseteq Statuses
    BY DEF IInv, TypeOK, PagesAssumption, Statuses
  <1>1. Len(events[Shown]) \in Nat  BY <1>0
  <1>2. ASSUME NEW s \in Scenarios, CreateStore(s) \/ StopScenario(s)
        PROVE  Len(events[Shown]) <= Len(events'[Shown])
    <2>1. UNCHANGED events \/ Append1(s, "queued") \/ Append1(s, "stopped")
      BY <1>2 DEF CreateStore, StopScenario, InsertFails
    <2> QED  BY <1>0, <2>1, LongerByOne
  <1>3. ASSUME NEW w \in Workers, MarkRunning(w) \/ MarkOutcome(w)
        PROVE  Len(events[Shown]) <= Len(events'[Shown])
    <2>1. /\ job[w] \in Scenarios /\ Outcome(w) \in Statuses
          /\ \/ UNCHANGED events
             \/ Append1(job[w], "running") \/ Append1(job[w], Outcome(w))
      BY <1>0, <1>3 DEF MarkRunning, MarkOutcome, InsertFails, BusyOK, Busy, Outcome, Statuses,
         Outcomes
    <2> QED  BY <1>0, <2>1, LongerByOne
  <1>4. CASE UNCHANGED events  BY <1>1, <1>4
  <1>5. ASSUME NEW w \in Workers, Inside(w), ~MarkRunning(w), ~MarkOutcome(w)
        PROVE  UNCHANGED events
    BY <1>5 DEF Inside, Decode, CheckStopped, ExecuteCancelled, Recheck, Report, InsertSnapshot,
                IncrTotal, IncrType, IncrErrors, PublishResult, ReportCall, IncrCall, handler,
                FinalCheck, ExecuteEnds
  <1>6. ASSUME NEW w \in Workers,
               \/ \E s \in Scenarios : Deliver(w, s)
               \/ Ack(w) \/ Requeue(w) \/ Reject(w)
               \/ WatcherTick(w) \/ DropConnection(w) \/ Crash(w)
        PROVE  UNCHANGED events
    BY <1>6 DEF Deliver, Ack, Requeue, Reject, Settle, WatcherTick, DropConnection, Crash
  <1>7. ASSUME NEW s \in Scenarios, CreatePublish(s) \/ PublishForeign(s)
        PROVE  UNCHANGED events
    BY <1>7 DEF CreatePublish, PublishForeign
  <1>8. CASE UNCHANGED vars  BY <1>1, <1>8 DEF vars
  <1> QED
    BY <1>1, <1>2, <1>3, <1>4, <1>5, <1>6, <1>7, <1>8, StepKinds

\* The API does not take back that it has accepted a scenario.
LEMMA AcceptedStays ==
    ASSUME PagesAssumption, IInv, [Next]_vars, apiPc[Shown] = "accepted"
    PROVE  apiPc'[Shown] = "accepted"
  <1>0. TypeOK /\ Shown \in Scenarios /\ apiPc \in [Scenarios -> ApiPcs]
    BY DEF IInv, TypeOK, PagesAssumption
  <1>1. ASSUME NEW s \in Scenarios, CreateStore(s) \/ CreatePublish(s)
        PROVE  apiPc'[Shown] = "accepted"
    BY <1>0, <1>1 DEF CreateStore, CreatePublish
  <1>2. ASSUME NEW s \in Scenarios, StopScenario(s) \/ PublishForeign(s)
        PROVE  UNCHANGED apiPc
    BY <1>2 DEF StopScenario, PublishForeign
  <1>3. ASSUME NEW w \in Workers, Inside(w)  PROVE UNCHANGED apiPc
    BY <1>0, <1>3, InsideStep
  <1>4. ASSUME NEW w \in Workers,
               \/ \E s \in Scenarios : Deliver(w, s)
               \/ Ack(w) \/ Requeue(w) \/ Reject(w)
               \/ WatcherTick(w) \/ DropConnection(w) \/ Crash(w)
        PROVE  UNCHANGED apiPc
    BY <1>4 DEF Deliver, Ack, Requeue, Reject, Settle, WatcherTick, DropConnection, Crash
  <1>5. CASE UNCHANGED vars  BY <1>5 DEF vars
  <1> QED  BY <1>1, <1>2, <1>3, <1>4, <1>5, StepKinds

--------------------------------------------------------------------------------
(* The steps.                                                              *)

Seen == 0 .. Len(events[Shown])
Requests == [kind : Kinds, first : Seen, reply : {Failed, Waiting} \union Seen, attached : BOOLEAN]

\* A longer history has room for the same places.
LEMMA RowsGrow ==
    ASSUME PagesAssumption, IInv, [Next]_vars
    PROVE  Seen \subseteq Seen' /\ Requests \subseteq Requests' /\ 0 \in Seen /\ 0 \in Seen'
           /\ Len(events[Shown]) \in Seen /\ Len(events'[Shown]) \in Seen'
           /\ Seen \subseteq Nat /\ Seen' \subseteq Nat
  <1>1. Len(events[Shown]) \in Nat /\ Len(events[Shown]) <= Len(events'[Shown])
    BY HistoryKeepsPlaces
  <1>2. Len(events'[Shown]) \in Nat
    <2>1. TypeOK'  BY InvStep DEF IInv
    <2> QED  BY <2>1 DEF TypeOK, PagesAssumption
  <1>3. Seen \subseteq Seen' /\ 0 \in Seen /\ 0 \in Seen' /\ Seen \subseteq Nat /\ Seen' \subseteq Nat
        /\ Len(events[Shown]) \in Seen /\ Len(events'[Shown]) \in Seen'
    BY <1>1, <1>2 DEF Seen
  <1>4. Requests \subseteq Requests'  BY <1>3 DEF Requests
  <1> QED  BY <1>3, <1>4

\* A step of the life cycle alone leaves the pages as true as they were.
LEMMA UnderneathKeeps ==
    ASSUME PagesAssumption, IInv, PagesInv, [Next]_vars, UNCHANGED pageVars
    PROVE  PagesInv'
  <1>1. Seen \subseteq Seen' /\ Requests \subseteq Requests' /\ TypeOK'
    BY RowsGrow, InvStep DEF IInv
  <1>2. request \in [Parts -> Requests] /\ place \in Seen  BY DEF PagesInv, PagesTypeOK, Requests, Seen
  <1>3. PagesTypeOK'
    BY <1>1, <1>2 DEF PagesInv, PagesTypeOK, pageVars, Requests, Seen
  <1>4. PageOK'
    BY AcceptedStays DEF PagesInv, PageOK, RequestOK, BannerIsTrue, pageVars
  <1> QED  BY <1>3, <1>4 DEF PagesInv

\* A step that asks, answers or drops one request, and leaves what is shown alone.
LEMMA OneRequest ==
    ASSUME PagesAssumption, IInv, PagesInv, [Next]_vars, NEW p \in Parts, NEW r \in Requests',
           request' = [request EXCEPT ![p] = r],
           UNCHANGED <<page, place, flag, banner>>,
           submitted' \in BOOLEAN, visits' \in 0 .. MaxVisits, uiFaults' \in 0 .. MaxUIFaults,
           RequestOK(p)'
    PROVE  PagesInv'
  <1>1. Seen \subseteq Seen' /\ Requests \subseteq Requests' /\ TypeOK'
    BY RowsGrow, InvStep DEF IInv
  <1>2. request \in [Parts -> Requests] /\ place \in Seen  BY DEF PagesInv, PagesTypeOK, Requests, Seen
  <1>3. request' \in [Parts -> Requests'] /\ place' \in Seen'  BY <1>1, <1>2
  <1>4. PagesTypeOK'
    BY <1>1, <1>3 DEF PagesInv, PagesTypeOK, Requests, Seen
  <1>5. \A q \in Parts \ {p} : request'[q] = request[q]  BY <1>2
  <1>6. \A q \in Parts : RequestOK(q)'
    <2>1. ASSUME NEW q \in Parts \ {p}  PROVE RequestOK(q)'
      BY <1>5, AcceptedStays DEF PagesInv, PageOK, RequestOK
    <2> QED  BY <2>1
  <1>7. (place > 0 => flag > 0)' /\ BannerIsTrue'
    BY AcceptedStays DEF PagesInv, PageOK, BannerIsTrue
  <1> QED  BY <1>4, <1>6, <1>7 DEF PagesInv, PageOK

\* What is shown is replaced by what request p was answered, and everything else
\* under way for it loses its target.
LEMMA Replaced ==
    ASSUME PagesAssumption, IInv, PagesInv, UNCHANGED vars, NEW p \in Parts,
           request' = Finish(p), place' \in Seen, flag' \in 0 .. place', place' > 0 => flag' > 0,
           page' \in {"other", "scenarios", "detail"}, banner' \in BOOLEAN,
           banner' => apiPc[Shown] = "accepted",
           UNCHANGED <<submitted, visits, uiFaults>>
    PROVE  PagesInv'
  <1>1. Seen' = Seen /\ Requests' = Requests /\ TypeOK' /\ 0 \in Seen /\ UNCHANGED <<events, apiPc>>
    BY RowsGrow DEF Seen, Requests, vars, IInv, TypeOK, handler
  <1>2. request \in [Parts -> Requests]  BY DEF PagesInv, PagesTypeOK, Requests, Seen
  <1>3. \A q \in Parts : request'[q] = IF q = p THEN NoRequest
                                       ELSE IF q = "link" THEN request[q]
                                       ELSE [request[q] EXCEPT !.attached = FALSE]
    BY DEF Finish
  <1>4. NoRequest \in Requests
    BY <1>1 DEF NoRequest, Requests, Kinds, Waiting
  <1>5. \A q \in Parts : request'[q] \in Requests
    <2>1. \A q \in Parts : [request[q] EXCEPT !.attached = FALSE] \in Requests
      BY <1>2 DEF Requests
    <2> QED  BY <1>2, <1>3, <1>4, <2>1
  <1>6. request' \in [Parts -> Requests']
    <2>1. request' = [q \in Parts |-> request'[q]]  BY DEF Finish
    <2> QED  BY <1>1, <1>5, <2>1
  <1>7. PagesTypeOK'
    BY <1>1, <1>6 DEF PagesInv, PagesTypeOK, Requests, Seen
  <1>8. ASSUME NEW q \in Parts  PROVE RequestOK(q)'
    <2>1. CASE q = p
      BY <1>3, <2>1 DEF RequestOK, NoRequest, Waiting, Parts
    <2>2. CASE q # p /\ q = "link"
      BY <1>1, <1>3, <2>2, ZenonT(40) DEF RequestOK, PagesInv, PageOK
    <2>3. CASE q # p /\ q # "link"
      <3>1. /\ request'[q].kind = request[q].kind /\ request'[q].first = request[q].first
            /\ request'[q].reply = request[q].reply /\ ~request'[q].attached
        <4>1. request'[q] = [request[q] EXCEPT !.attached = FALSE]  BY <1>3, <2>3, Zenon
        <4>2. request[q] \in Requests  BY <1>2
        <4> QED  BY <4>1, <4>2 DEF Requests
      <3> QED  BY <1>1, <2>3, <3>1 DEF RequestOK, PagesInv, PageOK
    <2> QED  BY <2>1, <2>2, <2>3
  <1> QED  BY <1>1, <1>7, <1>8 DEF PagesInv, PageOK, BannerIsTrue

\* Every step keeps PagesInv.
LEMMA PagesStep ==
    ASSUME PagesAssumption, IInv, PagesInv, [PagesNext]_allVars
    PROVE  PagesInv'
  <1>0. /\ [Next]_vars
        /\ Seen \subseteq Seen' /\ Requests \subseteq Requests' /\ 0 \in Seen'
        /\ Len(events[Shown]) \in Seen /\ Len(events'[Shown]) \in Seen'
        /\ Seen \subseteq Nat /\ Seen' \subseteq Nat
        /\ request \in [Parts -> Requests] /\ place \in Seen /\ flag \in 0 .. place
    BY PagesAreLifecycle, RowsGrow DEF PagesInv, PagesTypeOK, Requests, Seen
  <1>a. /\ submitted \in BOOLEAN /\ visits \in 0 .. MaxVisits /\ uiFaults \in 0 .. MaxUIFaults
        /\ MaxVisits \in Nat /\ MaxUIFaults \in Nat
    BY DEF PagesInv, PagesTypeOK, PagesAssumption
  <1>1. CASE Underneath \/ UNCHANGED allVars
    BY <1>0, <1>1, UnderneathKeeps DEF Underneath, allVars
  <1>2. ASSUME NEW p \in Parts, NEW kind \in Kinds, Send(p, kind),
               UNCHANGED <<page, place, flag, banner>>,
               submitted' \in BOOLEAN, visits' \in 0 .. MaxVisits, uiFaults' = uiFaults,
               p = "link" => kind \in {"list", "detail", "create"},
               p # "link" => kind \in {"row", "events", "stop"}
        PROVE  PagesInv'
    <2> DEFINE r == [NoRequest EXCEPT !.kind = kind, !.attached = TRUE]
    <2>1. NoRequest \in Requests' /\ NoRequest.first = 0 /\ NoRequest.reply = Waiting
      BY <1>0 DEF NoRequest, Requests, Kinds
    <2>2. /\ r \in Requests' /\ r.kind = kind /\ r.first = 0 /\ r.reply = Waiting
      BY <2>1 DEF Requests
    <2>3. request' = [request EXCEPT ![p] = r]  BY <1>2 DEF Send
    <2>4. request'[p] = r  BY <1>0, <2>3
    <2> HIDE DEF r
    <2>5. RequestOK(p)'
      <3>1. ~(Waiting >= 0) /\ ~(Waiting > 0)  BY DEF Waiting
      <3> QED  BY <1>2, <2>2, <2>4, <3>1 DEF RequestOK
    <2> QED  BY <1>0, <1>2, <1>a, <2>2, <2>3, <2>5, OneRequest
  <1>3. ASSUME NEW kind \in {"list", "detail", "create"}, Follow(kind)  PROVE PagesInv'
    <2>1. visits' \in 0 .. MaxVisits  BY <1>3, <1>a DEF Follow
    <2>2. submitted' = TRUE \/ submitted' = submitted  BY <1>3 DEF Follow
    <2>3. submitted' \in BOOLEAN  BY <1>a, <2>2
    <2>4. "link" \in Parts /\ kind \in Kinds  BY DEF Parts, Kinds
    <2>5. Send("link", kind) /\ UNCHANGED <<page, place, flag, banner>> /\ uiFaults' = uiFaults
      BY <1>3 DEF Follow
    <2> QED  BY <1>2, <2>1, <2>3, <2>4, <2>5
  <1>4. CASE Poll \/ ClickStop
    BY <1>2, <1>4, <1>a DEF Poll, ClickStop, Parts, Kinds
  <1>5. ASSUME NEW p \in Parts, ReadStatusFor(p)  PROVE PagesInv'
    <2> DEFINE n == Len(events[Shown])
               r == [request[p] EXCEPT !.first = n, !.reply = n]
    <2>1. request' = [request EXCEPT ![p] = r]  BY <1>0, <1>5 DEF ReadStatusFor
    <2>2. n \in Seen' /\ n \in Nat /\ place <= n  BY <1>0 DEF Seen
    <2>3. /\ r.kind = request[p].kind /\ r.first = n /\ r.reply = n
          /\ r.attached = request[p].attached /\ r \in Requests'
      BY <1>0, <2>2 DEF Requests
    <2>4. request'[p] = r  BY <1>0, <2>1
    <2>5. UNCHANGED <<page, place, flag, banner, submitted, visits, uiFaults>> /\ r.kind \in {"list", "row"}
      BY <1>5, <2>3 DEF ReadStatusFor, Unpaged, Pending
    <2> HIDE DEF r, n
    <2>6. RequestOK(p)'
      BY <2>2, <2>3, <2>4, <2>5 DEF RequestOK, PagesInv, PageOK
    <2> QED  BY <1>0, <1>a, <2>1, <2>3, <2>5, <2>6, OneRequest
  <1>6. ASSUME NEW p \in Parts, NEW ask \in Requests', request' = [request EXCEPT ![p] = ask],
               ask.kind = request[p].kind, ask.attached = request[p].attached,
               ask.reply \in {Failed, Waiting},
               ask.kind = "create" => ask.first = request[p].first,
               UNCHANGED <<page, place, flag, banner, submitted, visits>>,
               uiFaults' \in 0 .. MaxUIFaults
        PROVE  PagesInv'
    <2>1. request'[p] = ask  BY <1>0, <1>6
    <2>2. ~(ask.reply >= 0) /\ ~(ask.reply > 0)  BY <1>6 DEF Failed, Waiting
    <2>3. RequestOK(p)'  BY <1>6, <2>1, <2>2 DEF RequestOK, PagesInv, PageOK
    <2> QED  BY <1>0, <1>a, <1>6, <2>3, OneRequest
  <1>7. ASSUME NEW p \in Parts, ReadScenario(p)  PROVE PagesInv'
    <2>0. UNCHANGED <<page, place, flag, banner, submitted, visits, uiFaults>>
          /\ request[p].reply = Waiting
      BY <1>7 DEF ReadScenario, Unpaged, Pending
    <2>1. CASE request' = [request EXCEPT ![p].first = Len(events[Shown])]
      <3> DEFINE r == [request[p] EXCEPT !.first = Len(events[Shown])]
      <3>1. request' = [request EXCEPT ![p] = r]  BY <1>0, <2>1
      <3>2. r \in Requests' /\ r.kind = request[p].kind /\ r.attached = request[p].attached
            /\ r.reply = Waiting /\ r.kind # "create"
        BY <1>0, <1>7, <2>0 DEF Requests, ReadScenario, Pending
      <3> QED  BY <1>6, <1>a, <2>0, <3>1, <3>2
    <2>2. CASE Answer(p, Failed)
      <3> DEFINE r == [request[p] EXCEPT !.reply = Failed]
      <3>1. request' = [request EXCEPT ![p] = r]  BY <1>0, <2>2 DEF Answer
      <3>2. r \in Requests' /\ r.kind = request[p].kind /\ r.attached = request[p].attached
            /\ r.reply = Failed /\ r.first = request[p].first
        BY <1>0 DEF Requests
      <3> QED  BY <1>6, <1>a, <2>0, <3>1, <3>2
    <2> QED  BY <1>7, <2>1, <2>2 DEF ReadScenario
  <1>8. ASSUME NEW p \in Parts, ReadEvents(p)  PROVE PagesInv'
    <2> DEFINE n == Len(events[Shown])
               r == [request[p] EXCEPT !.reply = n]
    <2>1. request' = [request EXCEPT ![p] = r]  BY <1>8 DEF ReadEvents, EventsLast
    <2>2. n \in Seen' /\ n \in Nat /\ place <= n /\ request[p].first <= n /\ request[p].first > 0
      BY <1>0, <1>8 DEF Seen, Requests, ReadEvents
    <2>3. /\ r.kind = request[p].kind /\ r.first = request[p].first /\ r.reply = n
          /\ r.attached = request[p].attached /\ r \in Requests'
      BY <1>0, <2>2 DEF Requests
    <2>4. request'[p] = r  BY <1>0, <2>1
    <2>5. UNCHANGED <<page, place, flag, banner, submitted, visits, uiFaults>>
          /\ r.kind \in {"detail", "events"}
      BY <1>8, <2>3 DEF ReadEvents, Unpaged, Pending
    <2> HIDE DEF r, n
    <2>6. RequestOK(p)'
      <3>1. RequestOK(p)  BY DEF PagesInv, PageOK
      <3>2. /\ p = "link" => r.kind \in {"none", "list", "detail", "create"}
            /\ p # "link" => r.kind \notin {"list", "detail", "create"}
        BY <2>3, <3>1, Zenon DEF RequestOK
      <3>3. r.first <= r.reply /\ r.first > 0 /\ r.kind # "create" /\ place <= r.reply
        BY <2>2, <2>3, <2>5
      <3>4. place \in Int /\ r.reply \in Int /\ r.reply >= place
        BY <2>2, <2>3, <3>3 DEF PagesInv, PagesTypeOK, Seen
      <3> QED  BY <2>4, <2>5, <3>2, <3>3, <3>4, Zenon DEF RequestOK
    <2> QED  BY <1>0, <1>a, <2>1, <2>3, <2>5, <2>6, OneRequest
  <1>9. CASE StopRow
    <2>0. UNCHANGED <<page, place, flag, banner, submitted, visits, uiFaults>>
          /\ request["stop"].reply = Waiting /\ request["stop"].kind = "stop" /\ "stop" \in Parts
          /\ StopScenario(Shown)
      BY <1>9 DEF StopRow, Unpaged, Pending, Parts
    <2> DEFINE n == IF budget'["faults"] = budget["faults"] THEN Len(events'[Shown]) ELSE Failed
               f == IF n = Failed THEN 0 ELSE n
               r == [request["stop"] EXCEPT !.first = f, !.reply = n]
    <2>1. request' = [request EXCEPT !["stop"] = r]  BY <1>0, <1>9, <2>0 DEF StopRow
    <2>2. f \in Seen' /\ n \in {Failed} \union Seen'  BY <1>0
    <2>3. /\ r.kind = "stop" /\ r.first = f /\ r.reply = n
          /\ r.attached = request["stop"].attached /\ r \in Requests'
      <3> HIDE DEF n, f
      <3>1. request["stop"] \in Requests'  BY <1>0, <2>0
      <3> QED  BY <2>0, <2>2, <3>1 DEF Requests
    <2>4. request'["stop"] = r  BY <1>0, <2>0, <2>1
    <2>5. n >= 0 => n = Len(events'[Shown]) /\ f = n /\ place <= n
      <3>1. Len(events[Shown]) <= Len(events'[Shown])  BY <1>0, HistoryKeepsPlaces
      <3>2. place <= Len(events[Shown]) /\ Len(events[Shown]) \in Nat
        BY <1>0 DEF Seen
      <3>3. Len(events'[Shown]) \in Nat  BY <1>0
      <3>4. ~(Failed >= 0) /\ Failed \notin Nat  BY DEF Failed
      <3>5. CASE budget'["faults"] = budget["faults"]
        <4>1. n = Len(events'[Shown])  BY <3>5
        <4>2. n # Failed  BY <3>3, <3>4, <4>1
        <4>3. f = n  BY <4>2
        <4>4. place \in Int  BY <1>0 DEF Seen
        <4>5. place <= Len(events'[Shown])  BY <3>1, <3>2, <3>3, <4>4
        <4> HIDE DEF n, f
        <4> QED  BY <4>1, <4>3, <4>5
      <3>6. CASE budget'["faults"] # budget["faults"]
        BY <3>4, <3>6
      <3> QED  BY <3>5, <3>6
    <2>6. n \in Int /\ f \in Int  BY <1>0, <2>2 DEF Failed
    <2> HIDE DEF n, f, r
    <2>7. RequestOK("stop")'
      BY <2>0, <2>3, <2>4, <2>5, <2>6 DEF RequestOK
    <2> QED  BY <1>0, <1>a, <2>0, <2>1, <2>3, <2>7, OneRequest
  <1>10. CASE CreateReply
    <2>0. UNCHANGED <<page, place, flag, banner, submitted, visits, uiFaults>> /\ UNCHANGED vars
          /\ request["link"].kind = "create" /\ request["link"].reply = Waiting /\ "link" \in Parts
      BY <1>10 DEF CreateReply, Unpaged, Pending, Parts
    <2>1. CASE Answer("link", Failed)
      <3> DEFINE r == [request["link"] EXCEPT !.reply = Failed]
      <3>1. request' = [request EXCEPT !["link"] = r]  BY <1>0, <2>1 DEF Answer
      <3>2. r \in Requests' /\ r.kind = request["link"].kind
            /\ r.attached = request["link"].attached /\ r.reply = Failed
            /\ r.first = request["link"].first
        BY <1>0, <2>0 DEF Requests
      <3> QED  BY <1>6, <1>a, <2>0, <3>1, <3>2
    <2>2. CASE Answer("link", 0) /\ apiPc[Shown] = "accepted"
      <3> DEFINE r == [request["link"] EXCEPT !.reply = 0, !.first = 0]
      <3>0. request["link"].first = 0
        BY <2>0 DEF PagesInv, PageOK, RequestOK
      <3>1. request' = [request EXCEPT !["link"] = r]  BY <1>0, <2>0, <2>2, <3>0 DEF Answer, Requests
      <3>2. r \in Requests' /\ r.kind = "create" /\ r.reply = 0 /\ r.first = 0
        BY <1>0, <2>0, <3>0 DEF Requests
      <3>3. request'["link"] = r  BY <1>0, <2>0, <3>1
      <3>4. apiPc'[Shown] = "accepted"  BY <1>0, <2>2, AcceptedStays
      <3> HIDE DEF r
      <3>5. RequestOK("link")'  BY <3>2, <3>3, <3>4 DEF RequestOK
      <3> QED  BY <1>0, <1>a, <2>0, <3>1, <3>2, <3>5, OneRequest
    <2> QED  BY <1>10, <2>1, <2>2 DEF CreateReply
  <1>11. ASSUME NEW p \in Parts, CallFails(p)  PROVE PagesInv'
    <2> DEFINE r == [request[p] EXCEPT !.reply = Failed]
    <2>1. request' = [request EXCEPT ![p] = r]  BY <1>0, <1>11 DEF CallFails, ErrorReply, Answer
    <2>2. r \in Requests' /\ r.kind = request[p].kind /\ r.attached = request[p].attached
          /\ r.reply = Failed /\ r.first = request[p].first
      BY <1>0 DEF Requests
    <2>3. UNCHANGED <<page, place, flag, banner, submitted, visits>> /\ uiFaults' \in 0 .. MaxUIFaults
      BY <1>11, <1>a DEF CallFails, Unpaged
    <2> QED  BY <1>6, <2>1, <2>2, <2>3
  <1>12. ASSUME NEW p \in Parts, Ignored(p)  PROVE PagesInv'
    <2>1. request'[p] = NoRequest /\ NoRequest \in Requests'
      BY <1>0, <1>12 DEF Ignored, NoRequest, Requests, Kinds, Waiting
    <2>2. RequestOK(p)'  BY <2>1 DEF RequestOK, NoRequest, Waiting
    <2> QED  BY <1>0, <1>12, <1>a, <2>1, <2>2, OneRequest DEF Ignored
  <1>13. ASSUME NEW p \in Parts, Show(p), request[p].reply >= 0,
                page' \in {"other", "scenarios", "detail"}, banner' \in BOOLEAN, banner' => banner
         PROVE  PagesInv'
    <2>1. request[p].reply \in Seen /\ request[p].first \in Seen
      BY <1>0, <1>13 DEF Requests, Failed, Waiting
    <2>2. request[p].first <= request[p].reply
          /\ (request[p].reply > 0 => request[p].first > 0)
      BY <1>13 DEF PagesInv, PageOK, RequestOK
    <2>3. place' \in Seen /\ flag' \in 0 .. place' /\ (place' > 0 => flag' > 0)
      BY <1>0, <1>13, <2>1, <2>2 DEF Show, Seen
    <2>4. banner' => apiPc[Shown] = "accepted"
      BY <1>13 DEF PagesInv, PageOK, BannerIsTrue
    <2> QED  BY <1>13, <2>3, <2>4, Replaced DEF Show
  <1>14. ASSUME NEW p \in Parts, Swap(p)  PROVE PagesInv'
    <2>1. request[p].reply >= 0
      BY <1>0, <1>14 DEF Swap, Answered, Requests, Seen
    <2>2. page' \in {"other", "scenarios", "detail"} /\ banner' \in BOOLEAN /\ banner' = banner
      BY <1>14 DEF Swap, PagesInv, PagesTypeOK
    <2> QED  BY <1>13, <1>14, <2>1, <2>2 DEF Swap
  <1>15. CASE Open
    <2>1. Show("link") /\ request["link"].reply >= 0 /\ page' \in {"scenarios", "detail"}
          /\ banner' = FALSE /\ "link" \in Parts
      BY <1>15 DEF Open, Parts
    <2> QED  BY <1>13, <2>1
  <1>16. CASE Redirect
    <2>1. apiPc[Shown] = "accepted" /\ "link" \in Parts
      BY <1>16 DEF Redirect, PagesInv, PageOK, RequestOK, Parts
    <2>2. place' \in Seen /\ flag' = place'  BY <1>0, <1>16 DEF Redirect
    <2>3. flag' \in 0 .. place' /\ (place' > 0 => flag' > 0)  BY <1>0, <2>2
    <2> QED  BY <1>16, <2>1, <2>2, <2>3, Replaced DEF Redirect
  <1> QED
    BY <1>1, <1>3, <1>4, <1>5, <1>7, <1>8, <1>9, <1>10, <1>11, <1>12, <1>14, <1>15, <1>16
    DEF PagesNext, UI, User, UIStep

--------------------------------------------------------------------------------
(* The theorems.                                                           *)

\* The tab starts elsewhere, with nothing under way.
LEMMA PagesInitially == PagesAssumption /\ PagesInit => PagesInv
  <1> SUFFICES ASSUME PagesAssumption, PagesInit  PROVE PagesInv
    OBVIOUS
  <1>1. IInv  BY InvInit DEF PagesInit
  <1>2. TypeOK /\ Seen = {0}
    BY <1>1 DEF IInv, TypeOK, PagesInit, Init, PagesAssumption, Seen
  <1>3. NoRequest \in Requests  BY <1>2 DEF NoRequest, Requests, Kinds
  <1>4. PagesTypeOK
    <2>1. place \in 0 .. Len(events[Shown]) /\ flag \in 0 .. place
      BY <1>2 DEF PagesInit, Seen
    <2>2. visits \in 0 .. MaxVisits /\ uiFaults \in 0 .. MaxUIFaults
      BY DEF PagesInit, PagesAssumption
    <2>3. request \in [Parts -> Requests]  BY <1>3 DEF PagesInit
    <2> QED  BY <1>2, <2>1, <2>2, <2>3 DEF PagesInit, PagesTypeOK, Requests, Seen
  <1>5. PageOK
    <2>1. ~(Waiting >= 0) /\ ~(Waiting > 0)  BY DEF Waiting
    <2> QED  BY <2>1 DEF PagesInit, PageOK, RequestOK, NoRequest, BannerIsTrue
  <1> QED  BY <1>4, <1>5 DEF PagesInv

\* PagesInv holds in every state of the life cycle with its pages.
THEOREM PagesInvariant == PagesSpec => [](IInv /\ PagesInv)
  <1>1. PagesInit => IInv /\ PagesInv
    BY PagesInitially, InvInit, PagesAssumption DEF PagesInit
  <1>2. (IInv /\ PagesInv) /\ [PagesNext]_allVars => (IInv /\ PagesInv)'
    BY PagesStep, PagesAreLifecycle, InvStep, PagesAssumption
  <1> QED  BY <1>1, <1>2, PTL DEF PagesSpec

\* A detail page that no longer polls has the row it stopped for in its table,
\* although status and rows are read by two calls.
THEOREM FinalPageShowsFate == PagesSpec => []FinalTableShowsFate
  <1>1. ASSUME IInv, PagesInv  PROVE FinalTableShowsFate
    <2> SUFFICES ASSUME page = "detail", place > 0, ~Polls
                 PROVE  \E i \in 1 .. place : events[Shown][i] \in Fates
      BY DEF FinalTableShowsFate
    <2>1. flag \in 0 .. place /\ flag > 0 /\ place \in Nat
      BY <1>1 DEF PagesInv, PagesTypeOK, PageOK, IInv, TypeOK, PagesAssumption
    <2>2. flag \in 1 .. place  BY <2>1
    <2>3. events[Shown][flag] \in Fates
      BY DEF Polls, isTerminalScenarioStatus, Fates, Outcomes
    <2> QED  BY <2>2, <2>3
  <1> QED  BY <1>1, PagesInvariant, PTL

\* The list says "Scenario queued" of accepted scenarios only.
THEOREM BannerTellsTheTruth == PagesSpec => []BannerIsTrue
  <1>1. PagesInv => BannerIsTrue  BY DEF PagesInv, PageOK
  <1> QED  BY <1>1, PagesInvariant, PTL

\* Whatever order the answers to the poll and to the Stop button arrive in, the
\* part they replace does not go back to an older row.
THEOREM PageNeverGoesBack == PagesSpec => NeverGoesBack
  <1>1. ASSUME IInv, PagesInv, [PagesNext]_allVars
        PROVE  [place' < place => request'["link"] # request["link"]]_allVars
    <2> SUFFICES ASSUME place' < place  PROVE request'["link"] # request["link"]
      OBVIOUS
    <2>1. place \in Int /\ ~(place < place) /\ place' # place
      BY <1>1 DEF PagesInv, PagesTypeOK
    <2>2. request \in [Parts -> Requests] /\ "link" \in Parts
      BY <1>1 DEF PagesInv, PagesTypeOK, Requests, Seen, Parts
    <2>3. ASSUME NEW p \in Parts, Swap(p)  PROVE FALSE
      <3>1. request[p].attached /\ request[p].reply >= 0 /\ p # "link"
            /\ place' = request[p].reply
        <4>1. request[p].attached /\ request[p].reply \notin {Failed, Waiting} /\ p # "link"
              /\ place' = request[p].reply
          BY <2>3 DEF Swap, Show, Answered, HasTarget
        <4>2. request[p].reply \in Seen  BY <2>2, <4>1 DEF Requests
        <4> QED  BY <4>1, <4>2 DEF Seen
      <3>2. place' >= place /\ place' \in Int
        BY <1>1, <2>2, <3>1 DEF PagesInv, PageOK, RequestOK, Requests, Seen, Failed, Waiting
      <3> QED  BY <2>1, <3>2
    <2>4. CASE Open \/ Redirect
      <3>1. request["link"].kind # "none" /\ request' = Finish("link")
        BY <2>4 DEF Open, Redirect, Show
      <3>2. request'["link"].kind = "none"
        BY <2>2, <3>1 DEF Finish, NoRequest
      <3> QED  BY <3>1, <3>2
    <2>5. ASSUME NEW p \in Parts,
                 ReadStatusFor(p) \/ ReadScenario(p) \/ ReadEvents(p) \/ Ignored(p) \/ CallFails(p)
          PROVE  UNCHANGED place
      BY <2>5 DEF ReadStatusFor, ReadScenario, ReadEvents, Ignored, CallFails, Unpaged
    <2>6. Underneath \/ StopRow \/ CreateReply \/ User \/ Poll \/ UNCHANGED allVars => UNCHANGED place
      BY DEF Underneath, StopRow, CreateReply, User, ClickStop, Follow, Poll, Unpaged, pageVars,
         allVars
    <2> QED  BY <1>1, <2>1, <2>3, <2>4, <2>5, <2>6 DEF PagesNext, UI, UIStep
  <1> QED  BY <1>1, PagesInvariant, PTL DEF PagesSpec, NeverGoesBack
================================================================================
