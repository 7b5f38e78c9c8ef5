----------------------------- MODULE ServiceProcess -----------------------------
(***************************************************************************)
(* main of the Worker, the API and the UI: the calls it makes one after    *)
(* the other until the HTTP server runs, the shutdown on a signal, and the *)
(* next start by Kubernetes.  The process Self runs one of them; or it is  *)
(* not deployed, and the other processes apply the schema next to each     *)
(* other.  To the schema Self is one more of them: it takes their steps.   *)
(*                                                                         *)
(* http.Server.Shutdown (external) closes the listener and waits for the   *)
(* requests under way.  It does not cancel them: a stream ends when its    *)
(* client leaves, which may be never, and main waits ten seconds.          *)
(* The Close of pgxpool and the Disconnect of Mongo (external) wait for    *)
(* every connection that is in use, without a limit, and hand out no more. *)
(***************************************************************************)
EXTENDS SchemaInit

CONSTANTS
    Services,       \* the programs: "worker", "api", "ui"
    Self,           \* the process followed
    Requests,       \* bound: requests at a time
    MaxTries,       \* attempts to connect: 30 to RabbitMQ, 10 to the stores
    MaxFaults,      \* bound: failures while Self is deployed
    MaxPeerFaults   \* bound: processes that fail while it is not

ASSUME ServiceAssumption ==
    /\ Services \subseteq {"worker", "api", "ui"}
    /\ Self \in Procs
    /\ MaxTries \in Nat \ {0}
    /\ MaxFaults \in Nat
    /\ MaxPeerFaults \in Nat

Absent == "absent"

\* What main calls before it serves.
Stages ==
    [worker |-> <<"telemetry", "metrics", "postgres", "schema", "redis", "producer",
                  "topology">>,
     api    |-> <<"telemetry", "postgres", "schema", "redis", "mongo", "producer",
                  "topology", "chaos">>,
     ui     |-> <<"telemetry", "redis", "templates">>,
     absent |-> << >>]

\* Connecting is tried again; every other call gets one attempt.
Retried == {"postgres", "redis", "mongo", "producer"}

\* The clients that lend connections: to close one waits until all are back.
Pools == {"postgres", "mongo"}

\* Programs with an event stream: logs, and the dashboard of the UI.
Streaming == {"api", "ui"}

VARIABLES
    service,    \* the program Self runs; Absent: the other processes run
    main,       \* where its main stands
    stage,      \* the calls of its boot sequence that have returned
    tries,      \* failed attempts at the client now being created
    ctxDone,    \* the process context is cancelled
    listening,  \* the HTTP server accepts requests
    requests,   \* each request: none, a call, a call that uses a connection, or a stream
    late,       \* Shutdown has returned the error of its timeout
    faults      \* failures so far

processVars == <<service, main, stage, tries, ctxDone, listening, requests, late>>

Ended == {"exited", "aborted"}
Mains == {"booting", "serving", "draining", "joining", "closing"} \union Ended

RequestStates == {"none", "call", "stream"} \union Pools

FaultLimit == IF service = Absent THEN MaxPeerFaults ELSE MaxFaults

ProcessTypeOK ==
    /\ SchemaTypeOK
    /\ service \in Services \union {Absent}
    /\ main \in Mains
    /\ stage \in 0 .. Len(Stages[service])
    /\ tries \in 0 .. MaxTries - 1
    /\ ctxDone \in BOOLEAN
    /\ listening \in BOOLEAN
    /\ requests \in [Requests -> RequestStates]
    /\ late \in BOOLEAN
    /\ faults \in 0 .. FaultLimit

Quiet == [c \in Requests |-> "none"]

ServiceInit ==
    /\ SchemaInit
    /\ service \in Services \union {Absent}
    /\ at = [p \in Procs |-> IF service = Absent
                            THEN IF p = Self THEN Down ELSE 1
                            ELSE IF p = Self /\ service # "ui" THEN 1 ELSE Down]
    /\ old => service = Absent
    /\ main = IF service = Absent THEN "aborted" ELSE "booting"
    /\ stage = 0 /\ tries = 0 /\ ctxDone = FALSE
    /\ listening = FALSE /\ requests = Quiet /\ late = FALSE /\ faults = 0

Fault == faults < FaultLimit /\ faults' = faults + 1

\* A call that fails because something is wrong, or because its context is done.
Failing ==
    \/ Fault
    \/ ctxDone /\ UNCHANGED faults

--------------------------------------------------------------------------------
(* The boot sequence.                                                      *)

Booting(call) ==
    /\ main = "booting"
    /\ Stages[service][stage + 1] = call

\* The call has returned: the next one, or the server.
Advance ==
    /\ stage' = stage + 1
    /\ tries' = 0
    /\ main' = IF stage' = Len(Stages[service]) THEN "serving" ELSE "booting"
    /\ listening' = (main' = "serving")
    /\ UNCHANGED <<service, ctxDone, requests, late>>

\* The process ends, and with it its requests.  os.Exit runs no deferred call.
EndProcess(end) ==
    /\ main' = end
    /\ stage' = 0 /\ tries' = 0 /\ listening' = FALSE /\ requests' = Quiet
    /\ late' = FALSE /\ ctxDone' = FALSE
    /\ UNCHANGED service

Die(end) ==
    /\ EndProcess(end)
    /\ IF at[Self] = Down THEN UNCHANGED schemaVars ELSE Abandon(Self)

\* The failed attempt was the last one.
GivesUp == tries + 1 = MaxTries \/ ctxDone

BootCall(call) ==
    /\ Booting(call)
    /\ call # "schema"
    /\ \/ Advance /\ UNCHANGED <<schemaVars, faults>>
       \/ /\ Failing
          /\ call \notin Retried \/ GivesUp
          /\ Die("aborted")
       \/ /\ Failing
          /\ call \in Retried /\ ~GivesUp
          /\ tries' = tries + 1
          /\ UNCHANGED <<schemaVars, service, main, stage, ctxDone, listening, requests,
                         late>>

\* InitSchema, one statement after the other; an error of any of them ends main.
ApplySchema ==
    /\ Booting("schema")
    /\ \/ Begin(Self) /\ UNCHANGED <<processVars, faults>>
       \/ Succeed(Self) /\ UNCHANGED <<processVars, faults>>
       \/ Collide(Self) /\ EndProcess("aborted") /\ UNCHANGED faults
       \/ at[Self] # Applied /\ Failing /\ Die("aborted")
       \/ at[Self] = Applied /\ Advance /\ UNCHANGED <<schemaVars, faults>>

--------------------------------------------------------------------------------
(* Serving and the way out.                                                *)

Arrive(c) ==
    /\ listening
    /\ requests[c] = "none"
    /\ \E kind \in {"call"} \union (IF service \in Streaming THEN {"stream"} ELSE {}) :
          requests' = [requests EXCEPT ![c] = kind]
    /\ UNCHANGED <<schemaVars, service, main, stage, tries, ctxDone, listening, late,
                   faults>>

\* Close(client) has been called.
CloseCalled(client) ==
    /\ main = "closing"
    /\ \E i \in DOMAIN Stages[service] : Stages[service][i] = client /\ stage <= i

\* The handler of an API call makes a call to Postgres or Mongo; a client that is
\* being closed, or is closed, answers with an error at once.
Borrow(c) ==
    /\ service = "api"
    /\ requests[c] = "call"
    /\ \E client \in Pools : /\ ~CloseCalled(client)
                            /\ requests' = [requests EXCEPT ![c] = client]
    /\ UNCHANGED <<schemaVars, service, main, stage, tries, ctxDone, listening, late,
                   faults>>

\* The store answers, which it may never do: Shutdown cancels no request's context.
GiveBack(c) ==
    /\ requests[c] \in Pools
    /\ requests' = [requests EXCEPT ![c] = "call"]
    /\ UNCHANGED <<schemaVars, service, main, stage, tries, ctxDone, listening, late,
                   faults>>

\* The handler of a call returns, the client of a stream leaves.
Answered(c) ==
    /\ requests[c] \in {"call", "stream"}
    /\ requests' = [requests EXCEPT ![c] = "none"]
    /\ UNCHANGED <<schemaVars, service, main, stage, tries, ctxDone, listening, late,
                   faults>>

Cancel(accepts) ==
    /\ ctxDone' = TRUE
    /\ listening' = accepts
    /\ UNCHANGED <<schemaVars, service, main, stage, tries, requests, late>>

Signal ==
    /\ ~ctxDone
    /\ main \notin Ended
    /\ Cancel(listening)
    /\ UNCHANGED faults

\* ListenAndServe fails, its goroutine calls stop.
ServerFails == listening /\ Fault /\ Cancel(FALSE)

\* <-ctx.Done(), then Shutdown closes the listener.
Wake ==
    /\ main = "serving" /\ ctxDone
    /\ main' = "draining"
    /\ listening' = FALSE
    /\ UNCHANGED <<schemaVars, service, stage, tries, ctxDone, requests, late, faults>>

Drained == requests = Quiet

AfterShutdown(isLate) ==
    /\ main = "draining"
    /\ main' = IF service = "worker" THEN "joining" ELSE "closing"
    /\ late' = isLate
    /\ UNCHANGED <<schemaVars, service, stage, tries, ctxDone, listening, requests, faults>>

\* Shutdown returns nil when all is answered, and its context's error before.
ShutdownReturns == AfterShutdown(~Drained)

\* A request that Shutdown has given up uses a connection of the client main closes.
HeldByRequest ==
    /\ main = "closing"
    /\ \E c \in Requests : requests[c] = Stages[service][stage]

\* The deferred calls, the last one first; the schema has nothing to close.
Close ==
    /\ main = "closing"
    /\ ~HeldByRequest
    /\ \/ stage > 1 /\ stage' = stage - 1
          /\ UNCHANGED <<schemaVars, service, main, tries, ctxDone, listening, requests,
                         late>>
       \/ stage = 1 /\ Die("exited")
    /\ UNCHANGED faults

\* The process is killed, or the pod evicted.
Crash == main \notin Ended /\ Fault /\ Die("aborted")

\* Kubernetes starts the container again.
StartAgain ==
    /\ main \in Ended /\ service # Absent
    /\ main' = "booting"
    /\ UNCHANGED <<service, stage, tries, ctxDone, listening, requests, late, faults>>
    /\ IF service = "ui" THEN UNCHANGED schemaVars ELSE Restart(Self)

--------------------------------------------------------------------------------
Boot == ApplySchema \/ \E call \in {Stages[service][i] : i \in DOMAIN Stages[service]} :
                           BootCall(call)

ServiceMain == Boot \/ Wake \/ ShutdownReturns \/ Close \/ StartAgain

\* A peer at work on the schema.
Peer(p) ==
    /\ p # Self
    /\ service = Absent
    /\ Apply(p) \/ Restart(p)
    /\ UNCHANGED <<processVars, faults>>

PeerFails(p) ==
    /\ p # Self
    /\ service = Absent
    /\ Abandon(p)
    /\ Fault
    /\ UNCHANGED processVars

Database ==
    /\ \/ \E p \in Procs : OrphanEnds(p)
       \/ service = Absent /\ Others
    /\ UNCHANGED <<processVars, faults>>

ServiceNext ==
    \/ ServiceMain \/ Signal \/ ServerFails \/ Crash \/ Database
    \/ \E c \in Requests : Arrive(c) \/ Borrow(c) \/ GiveBack(c) \/ Answered(c)
    \/ \E p \in Procs : Peer(p) \/ PeerFails(p)
================================================================================
