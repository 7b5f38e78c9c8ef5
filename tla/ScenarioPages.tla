----------------------------- MODULE ScenarioPages -----------------------------
(***************************************************************************)
(* The scenario pages of the UI over the life cycle of one scenario: a     *)
(* browser tab, the UI handlers that answer it, and the API reads they     *)
(* make.  The history only grows, so what a page shows is a place in it:   *)
(* the list shows the row at that place, the detail page all rows up to it.*)
(*                                                                         *)
(* htmx (external) polls an element every two seconds as long as the       *)
(* template gave it hx-get, swaps a response in unless its status is an    *)
(* error, and has nowhere to put one whose target has been replaced.  The  *)
(* body is boosted: following a link is such a request too.                *)
(***************************************************************************)
EXTENDS ScenarioLifecycle

CONSTANTS
    Shown,          \* the scenario on the pages
    MaxVisits,      \* bound: links followed
    MaxUIFaults     \* bound: calls of the UI to the API that fail or time out

ASSUME PagesAssumption ==
    /\ Shown \in Scenarios \ Undecodable
    /\ MaxVisits \in Nat
    /\ MaxUIFaults \in Nat

VARIABLES
    page,       \* "other", "scenarios" or "detail"
    place,      \* the last row of the history it shows; 0: not the scenario
    flag,       \* the row the template's Terminal was computed from
    banner,     \* the list says "Scenario queued"
    request,    \* the request under way for each part of the page
    submitted,  \* the form has been sent
    visits, uiFaults

pageVars == <<page, place, flag, banner, request, submitted, visits, uiFaults>>
allVars == <<vars, pageVars>>

\* A link or the form; the polling element; the Stop button.
Parts == {"link", "poll", "stop"}
Kinds == {"none", "list", "detail", "create", "row", "events", "stop"}

Waiting == -1       \* the UI has not answered
Failed  == -2       \* it has, with an error status

\* first is what GetScenario returned, reply what the answer shows.
NoRequest == [kind |-> "none", first |-> 0, reply |-> Waiting, attached |-> FALSE]

PagesTypeOK ==
    /\ TypeOK
    /\ page \in {"other", "scenarios", "detail"}
    /\ place \in 0 .. Len(events[Shown]) /\ flag \in 0 .. place
    /\ banner \in BOOLEAN /\ submitted \in BOOLEAN
    /\ request \in [Parts -> [kind     : Kinds,
                              first    : 0 .. Len(events[Shown]),
                              reply    : {Failed, Waiting} \union 0 .. Len(events[Shown]),
                              attached : BOOLEAN]]
    /\ visits \in 0 .. MaxVisits /\ uiFaults \in 0 .. MaxUIFaults

PagesInit ==
    /\ Init
    /\ page = "other" /\ place = 0 /\ flag = 0 /\ banner = FALSE /\ submitted = FALSE
    /\ request = [p \in Parts |-> NoRequest]
    /\ visits = 0 /\ uiFaults = 0

--------------------------------------------------------------------------------
(* The tab.                                                                *)

\* A bug: a scenario that has left the queue is terminal.
LeftQueue(status) == status \in {"running", "completed", "failed", "stopped"}

isTerminalScenarioStatus(status) == status \in {"completed", "failed", "stopped"}

\* The element has hx-get, and the row its Stop button.
Polls == page # "other" /\ place > 0 /\ ~isTerminalScenarioStatus(events[Shown][flag])

Send(p, kind) ==
    /\ request[p].kind = "none"
    /\ request' = [request EXCEPT ![p] = [NoRequest EXCEPT !.kind = kind, !.attached = TRUE]]

\* A link to the list or the detail page, or the form, sent once.
Follow(kind) ==
    /\ visits < MaxVisits /\ visits' = visits + 1
    /\ Send("link", kind)
    /\ IF kind = "create" THEN ~submitted /\ submitted' = TRUE ELSE UNCHANGED submitted
    /\ UNCHANGED <<vars, page, place, flag, banner, uiFaults>>

\* hx-trigger="every 2s": an element has one request at a time.
Poll ==
    /\ Polls
    /\ Send("poll", IF page = "detail" THEN "events" ELSE "row")
    /\ UNCHANGED <<vars, page, place, flag, banner, submitted, visits, uiFaults>>

ClickStop ==
    /\ Polls /\ page = "scenarios"
    /\ Send("stop", "stop")
    /\ UNCHANGED <<vars, page, place, flag, banner, submitted, visits, uiFaults>>

--------------------------------------------------------------------------------
(* The handlers of the UI, one call to the API at a time.                  *)

Pending(p, kinds) == request[p].kind \in kinds /\ request[p].reply = Waiting

Answer(p, r) == request' = [request EXCEPT ![p].reply = r]

Unpaged == <<page, place, flag, banner, submitted, visits>>

\* ListScenarios and ScenarioRow.  The list may not have the scenario yet.
ReadStatusFor(p) ==
    /\ Pending(p, {"list", "row"})
    /\ request' = [request EXCEPT ![p].first = Len(events[Shown]),
                                  ![p].reply = Len(events[Shown])]
    /\ UNCHANGED <<vars, Unpaged, uiFaults>>

\* ScenarioDetail and ScenarioEvents: GetScenario, whose 404 ends them ...
ReadScenario(p) ==
    /\ Pending(p, {"detail", "events"})
    /\ request[p].first = 0
    /\ IF Stored(Shown) THEN request' = [request EXCEPT ![p].first = Len(events[Shown])]
                        ELSE Answer(p, Failed)
    /\ UNCHANGED <<vars, Unpaged, uiFaults>>

\* A bug: the status is read after the events.
EventsFirst(ask, n) == [ask EXCEPT !.reply = ask.first, !.first = n]

EventsLast(ask, n) == [ask EXCEPT !.reply = n]

\* ... then ListScenarioEvents.
ReadEvents(p) ==
    /\ Pending(p, {"detail", "events"})
    /\ request[p].first > 0
    /\ request' = [request EXCEPT ![p] = EventsLast(@, Len(events[Shown]))]
    /\ UNCHANGED <<vars, Unpaged, uiFaults>>

\* StopScenario of the API, which answers with the row it has inserted.
StopRow ==
    /\ Pending("stop", {"stop"})
    /\ StopScenario(Shown)
    /\ LET n == IF budget'["faults"] = budget["faults"] THEN Len(events'[Shown]) ELSE Failed
       IN  request' = [request EXCEPT !["stop"].first = IF n = Failed THEN 0 ELSE n,
                                      !["stop"].reply = n]
    /\ UNCHANGED <<Unpaged, uiFaults>>

\* CreateScenario redirects to the list if the API has accepted the scenario.
CreateReply ==
    /\ Pending("link", {"create"})
    /\ apiPc[Shown] \in {"accepted", "refused"}
    /\ Answer("link", IF apiPc[Shown] = "accepted" THEN 0 ELSE Failed)
    /\ UNCHANGED <<vars, Unpaged, uiFaults>>

\* A bug: an error is taken for an empty answer.
TakenForAnswer == 0

ErrorReply == Failed

\* The call fails or takes longer than ten seconds; the API may still act on it.
CallFails(p) ==
    /\ Pending(p, Kinds \ {"none"})
    /\ uiFaults < MaxUIFaults /\ uiFaults' = uiFaults + 1
    /\ Answer(p, ErrorReply)
    /\ UNCHANGED <<vars, Unpaged>>

--------------------------------------------------------------------------------
(* Answers that reach the tab.                                             *)

\* A bug (of a swap by id): the element that is there now is replaced.
AnyTarget(p) == TRUE

HasTarget(p) == request[p].attached

Answered(p) == request[p].reply # Waiting

\* Nothing is swapped for an error status, nor without a target.
Ignored(p) ==
    /\ Answered(p)
    /\ request[p].reply = Failed \/ ~HasTarget(p)
    /\ request' = [request EXCEPT ![p] = NoRequest]
    /\ UNCHANGED <<vars, page, place, flag, banner, submitted, visits, uiFaults>>

\* What else was under way for the part that is replaced has lost its target.
Finish(p) == [q \in Parts |-> IF q = p THEN NoRequest
                              ELSE IF q = "link" THEN request[q]
                              ELSE [request[q] EXCEPT !.attached = FALSE]]

Show(p) ==
    /\ place' = request[p].reply
    /\ flag' = request[p].first
    /\ request' = Finish(p)
    /\ UNCHANGED <<vars, submitted, visits, uiFaults>>

\* The element, or the row of the Stop button, is replaced.
Swap(p) ==
    /\ p # "link"
    /\ Answered(p) /\ request[p].reply # Failed /\ HasTarget(p)
    /\ Show(p)
    /\ UNCHANGED <<page, banner>>

\* The body is replaced.
Open ==
    /\ request["link"].kind \in {"list", "detail"} /\ request["link"].reply >= 0
    /\ page' = IF request["link"].kind = "list" THEN "scenarios" ELSE "detail"
    /\ banner' = FALSE
    /\ Show("link")

\* 303 to /scenarios?success=1, which is read at once; the body is replaced.
Redirect ==
    /\ request["link"].kind = "create" /\ request["link"].reply >= 0
    /\ page' = "scenarios" /\ banner' = TRUE
    /\ place' = Len(events[Shown]) /\ flag' = Len(events[Shown])
    /\ request' = Finish("link")
    /\ UNCHANGED <<vars, submitted, visits, uiFaults>>

--------------------------------------------------------------------------------
\* The life cycle goes on; the API creates what the form has sent.
Underneath ==
    /\ Next
    /\ apiPc'[Shown] # apiPc[Shown] => submitted
    /\ UNCHANGED pageVars

UIStep(p) ==
    \/ ReadStatusFor(p) \/ ReadScenario(p) \/ ReadEvents(p) \/ Ignored(p) \/ Swap(p)

UI == StopRow \/ CreateReply \/ Open \/ Redirect \/ \E p \in Parts : UIStep(p)

User == ClickStop \/ \E kind \in {"list", "detail", "create"} : Follow(kind)

PagesNext == Underneath \/ UI \/ User \/ Poll \/ \E p \in Parts : CallFails(p)

\* The UI answers, htmx swaps and polls.
PagesSpec ==
    /\ PagesInit /\ [][PagesNext]_allVars
    /\ \A p \in Parts : WF_allVars(UIStep(p))
    /\ WF_allVars(Open \/ Redirect) /\ WF_allVars(Poll)

--------------------------------------------------------------------------------
(* Properties.                                                             *)

\* A detail page that has stopped polling shows how the scenario ended: its
\* Terminal comes from the first of two reads, so the table of the second one
\* has at least the row it was computed from (CHANGELOG.md:24).
FinalTableShowsFate == page = "detail" /\ place > 0 /\ ~Polls =>
    \E i \in 1 .. place : events[Shown][i] \in Fates

\* A page goes back to an older row only when a link opens another one, whatever
\* order the answers to the poll and to the Stop button arrive in.
NeverGoesBack == [][place' < place => request'["link"] # request["link"]]_allVars

\* "Scenario queued" is said only of a scenario the API accepted.
BannerIsTrue == banner => apiPc[Shown] = "accepted"

\* A page that shows the scenario comes to show its latest row, or an end that
\* was written over later (a stop after it, another run's outcome): such a row
\* has lost its poll and its Stop button for good.
UpToDate == place = Len(events[Shown]) \/ events[Shown][flag] \in Fates

PageCatchesUp == <>[](page # "other" /\ place > 0 => UpToDate)
--------------------------------------------------------------------------------
(* The inductive invariant behind the safety properties.                   *)

\* What a request asks and has been answered: the status read is no later than the
\* rows, an answer that can still be swapped in is not behind the page, and only an
\* accepted scenario is redirected to the list.
RequestOK(p) ==
    /\ p = "link" => request[p].kind \in {"none", "list", "detail", "create"}
    /\ p # "link" => request[p].kind \notin {"list", "detail", "create"}
    /\ request[p].reply >= 0 => request[p].first <= request[p].reply
    /\ request[p].reply > 0 => request[p].first > 0
    /\ request[p].kind = "create" => request[p].first = 0
    /\ request[p].kind = "create" /\ request[p].reply >= 0 => apiPc[Shown] = "accepted"
    /\ p # "link" /\ request[p].attached /\ request[p].reply >= 0 => request[p].reply >= place

PageOK ==
    /\ \A p \in Parts : RequestOK(p)
    /\ place > 0 => flag > 0
    /\ BannerIsTrue

PagesInv == PagesTypeOK /\ PageOK
================================================================================
