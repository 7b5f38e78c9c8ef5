--------------------------- MODULE ChaosExperiments ---------------------------
(***************************************************************************)
(* Chaos experiments: the Chaos Mesh objects in Kubernetes, the records    *)
(* the API keeps of them in MongoDB, and the requests that change both.    *)
(*                                                                         *)
(* Kubernetes tells objects apart by kind and name; the API's identifier,  *)
(* and the _id of the record, is the name alone.  A request is a sequence  *)
(* of calls to two stores with no transaction around them: every call is   *)
(* one step, may fail with or without having taken effect, and the process *)
(* may die between any two.  chaos-ctrl changes the objects only.          *)
(***************************************************************************)
EXTENDS Naturals

CONSTANTS
    Names,      \* names of experiments
    Kinds,      \* the resources of chaosGVRs
    Requests,   \* requests under way at a time
    None,       \* no name, kind, phase or record
    MaxFaults   \* bound: failed calls and lost processes

\* What Status and List report of a live object; the record starts as "pending".
Phases == {"running", "completed", "deleting"}
Record == [kind : Kinds, status : Phases \union {"pending"}]

ASSUME ChaosAssumption ==
    /\ Kinds # {}
    /\ None \notin Names \union Kinds
    /\ None \notin Phases
    /\ None \notin Record
    /\ MaxFaults \in Nat

VARIABLES
    objects,    \* [Names -> [Kinds -> phase or "absent"]]: Kubernetes
    records,    \* [Names -> record or None]: MongoDB
    at,         \* the call each request makes next
    name, kind, \* what it is about, None where it is about everything
    todo,       \* kinds its client call has still to look at
    seen,       \* phases it has read and not stored yet
    faults,     \* failed calls so far
    excused     \* names whose object and record may disagree, and why is known

vars == <<objects, records, at, name, kind, todo, seen, faults, excused>>
request == <<at, name, kind, todo, seen>>

Calls  == {"idle", "apply", "store", "delete", "unstore", "status", "find", "list",
           "findAll", "persist"}
Unread == [n \in Names |-> None]

TypeOK ==
    /\ objects \in [Names -> [Kinds -> Phases \union {"absent"}]]
    /\ records \in [Names -> Record \union {None}]
    /\ at \in [Requests -> Calls]
    /\ name \in [Requests -> Names \union {None}]
    /\ kind \in [Requests -> Kinds \union {None}]
    /\ todo \in [Requests -> SUBSET Kinds]
    /\ seen \in [Requests -> [Names -> Phases \union {None}]]
    /\ faults \in Nat
    /\ excused \in SUBSET Names

Init ==
    /\ objects = [n \in Names |-> [k \in Kinds |-> "absent"]]
    /\ records = [n \in Names |-> None]
    /\ at = [r \in Requests |-> "idle"]
    /\ name = [r \in Requests |-> None]
    /\ kind = [r \in Requests |-> None]
    /\ todo = [r \in Requests |-> {}]
    /\ seen = [r \in Requests |-> Unread]
    /\ faults = 0
    /\ excused = {}

--------------------------------------------------------------------------------
Fault == faults < MaxFaults /\ faults' = faults + 1

Exists(n, k) == objects[n][k] # "absent"

\* Injecting faults, or about to be told that its time is over.
Active(n) == {k \in Kinds : objects[n][k] \in {"running", "completed"}}

SetObject(n, k, phase) == objects' = [objects EXCEPT ![n][k] = phase]

\* statusFromObject of the object a call returned, what was known before if none.
PhaseOf(n, k, old) == IF Exists(n, k) THEN objects[n][k] ELSE old

\* A bug: the deletion stops after Kubernetes.
RemoveNothing(n) == UNCHANGED records

Remove(n) == records' = [records EXCEPT ![n] = None]

\* A bug: only the first phase is ever persisted.
FirstPhase(n, phase) == records[n] # None /\ records[n].status = "pending"

Outdated(n, phase) == records[n] # None /\ records[n].status # phase

Goto(r, call) == at' = [at EXCEPT ![r] = call]

\* The handler returns, with whatever status code.
Reply(r) ==
    /\ Goto(r, "idle")
    /\ name' = [name EXCEPT ![r] = None]
    /\ kind' = [kind EXCEPT ![r] = None]
    /\ todo' = [todo EXCEPT ![r] = {}]
    /\ seen' = [seen EXCEPT ![r] = Unread]

Proceed(r, call) == Goto(r, call) /\ UNCHANGED <<name, kind, todo, seen>>

Excuse(n) == excused' = excused \union {n}

ExcuseIf(n, cause) == IF cause THEN Excuse(n) ELSE UNCHANGED excused

\* A request stands between its call to Kubernetes and its call to MongoDB.
Midway(n, call) == \E r \in Requests : at[r] = call /\ name[r] = n

--------------------------------------------------------------------------------
(* Requests that arrive.                                                   *)

Receive(r, call, n, k) ==
    /\ at[r] = "idle"
    /\ Goto(r, call)
    /\ name' = [name EXCEPT ![r] = n]
    /\ kind' = [kind EXCEPT ![r] = k]
    /\ todo' = [todo EXCEPT ![r] = Kinds]
    /\ UNCHANGED <<objects, records, seen, faults, excused>>

CreateRequest(r) == \E n \in Names, k \in Kinds : Receive(r, "apply", n, k)
DeleteRequest(r) == \E n \in Names : Receive(r, "delete", n, None)
GetRequest(r, n) == Receive(r, "status", n, None)
ListRequest(r)   == Receive(r, "list", None, None)

--------------------------------------------------------------------------------
(* CreateExperiment: Apply, then InsertOne.                                *)

\* Kubernetes refuses a second object of the same kind and name, even one that
\* is being deleted.  Another kind of that name is none of its concern.
Apply(r) ==
    LET n == name[r]  k == kind[r] IN
    /\ at[r] = "apply"
    /\ \/ /\ ~Exists(n, k)
          /\ SetObject(n, k, "running")
          /\ Proceed(r, "store")
          /\ ExcuseIf(n, Midway(n, "unstore") \/ \E j \in Kinds : Exists(n, j))
          /\ UNCHANGED faults
       \/ /\ Exists(n, k)
          /\ Reply(r)
          /\ UNCHANGED <<objects, faults, excused>>
       \/ /\ Fault
          /\ Reply(r)
          /\ \/ UNCHANGED <<objects, excused>>
             \/ /\ ~Exists(n, k)
                /\ SetObject(n, k, "running")
                /\ Excuse(n)
    /\ UNCHANGED records

\* A duplicate _id leaves the old record and answers 500.
Store(r) ==
    LET n == name[r]
        Insert == records' = [records EXCEPT ![n] = [kind |-> kind[r], status |-> "pending"]]
    IN
    /\ at[r] = "store"
    /\ \/ /\ IF records[n] = None THEN Insert ELSE UNCHANGED records
          /\ UNCHANGED <<faults, excused>>
       \/ /\ Fault
          /\ \/ UNCHANGED records /\ Excuse(n)
             \/ records[n] = None /\ Insert /\ UNCHANGED excused
    /\ Reply(r)
    /\ UNCHANGED objects

--------------------------------------------------------------------------------
(* DeleteExperiment: Delete, then DeleteOne.                               *)

\* One Delete call of the loop over the kinds, whose order is not fixed.  The
\* first object found ends the loop; Kubernetes accepts the deletion of an
\* object that is being deleted already.
Delete(r) ==
    LET n == name[r] IN
    /\ at[r] = "delete"
    /\ \E k \in todo[r] :
          \/ /\ ~Exists(n, k)
             /\ IF todo[r] = {k}
                THEN Reply(r)
                ELSE /\ todo' = [todo EXCEPT ![r] = @ \ {k}]
                     /\ UNCHANGED <<at, name, kind, seen>>
             /\ UNCHANGED <<objects, faults, excused>>
          \/ /\ Exists(n, k)
             /\ SetObject(n, k, "deleting")
             /\ Proceed(r, "unstore")
             /\ ExcuseIf(n, Midway(n, "store"))
             /\ UNCHANGED faults
          \/ /\ Fault
             /\ Reply(r)
             /\ \/ UNCHANGED <<objects, excused>>
                \/ /\ Exists(n, k)
                   /\ SetObject(n, k, "deleting")
                   /\ Excuse(n)
    /\ UNCHANGED records

Unstore(r) ==
    LET n == name[r] IN
    /\ at[r] = "unstore"
    /\ \/ Remove(n) /\ UNCHANGED <<faults, excused>>
       \/ /\ Fault
          /\ \/ UNCHANGED records /\ Excuse(n)
             \/ Remove(n) /\ UNCHANGED excused
    /\ Reply(r)
    /\ UNCHANGED objects

--------------------------------------------------------------------------------
(* GetExperiment and ListExperiments: read the phase, persist it.          *)

\* One Get call of the loop in Status.  Any error answers "not found".
Status(r) ==
    LET n == name[r] IN
    /\ at[r] = "status"
    /\ \/ \E k \in todo[r] :
             /\ UNCHANGED faults
             /\ \/ /\ Exists(n, k)
                   /\ seen' = [seen EXCEPT ![r][n] = PhaseOf(n, k, None)]
                   /\ Goto(r, "find")
                   /\ UNCHANGED <<name, kind, todo>>
                \/ /\ ~Exists(n, k)
                   /\ IF todo[r] = {k}
                      THEN Reply(r)
                      ELSE /\ todo' = [todo EXCEPT ![r] = @ \ {k}]
                           /\ UNCHANGED <<at, name, kind, seen>>
       \/ Fault /\ Reply(r)
    /\ UNCHANGED <<objects, records, excused>>

\* findRecord; the phase is persisted when the record shows another one.
Find(r) ==
    LET n == name[r] IN
    /\ at[r] = "find"
    /\ \/ /\ IF Outdated(n, seen[r][n])
             THEN Proceed(r, "persist")
             ELSE Reply(r)
          /\ UNCHANGED faults
       \/ Fault /\ Reply(r)
    /\ UNCHANGED <<objects, records, excused>>

\* One List call of the loop over the kinds.  byID keeps what it read last of
\* a name; a failed call empties it.
List(r) ==
    /\ at[r] = "list"
    /\ \/ \E k \in todo[r] :
             /\ seen' = [seen EXCEPT ![r] =
                            [n \in Names |-> PhaseOf(n, k, @[n])]]
             /\ todo' = [todo EXCEPT ![r] = @ \ {k}]
             /\ Goto(r, IF todo[r] = {k} THEN "findAll" ELSE "list")
             /\ UNCHANGED <<name, kind, faults>>
       \/ /\ Fault
          /\ Goto(r, "findAll")
          /\ seen' = [seen EXCEPT ![r] = Unread]
          /\ todo' = [todo EXCEPT ![r] = {}]
          /\ UNCHANGED <<name, kind>>
    /\ UNCHANGED <<objects, records, excused>>

\* The cursor over all records: those with a live phase are persisted in turn.
FindAll(r) ==
    LET known == [n \in Names |-> IF records[n] = None THEN None ELSE seen[r][n]] IN
    /\ at[r] = "findAll"
    /\ \/ /\ IF known = Unread
             THEN Reply(r)
             ELSE /\ seen' = [seen EXCEPT ![r] = known]
                  /\ Goto(r, "persist")
                  /\ UNCHANGED <<name, kind, todo>>
          /\ UNCHANGED faults
       \/ Fault /\ Reply(r)
    /\ UNCHANGED <<objects, records, excused>>

\* persistChaosStatus: UpdateOne changes nothing when the record is gone, and
\* its error is dropped.
Persist(r) ==
    /\ at[r] = "persist"
    /\ \E n \in Names :
          LET rest == [seen[r] EXCEPT ![n] = None] IN
          /\ seen[r][n] # None
          /\ \/ /\ records' = IF records[n] = None THEN records
                              ELSE [records EXCEPT ![n].status = seen[r][n]]
                /\ UNCHANGED faults
             \/ Fault /\ UNCHANGED records
          /\ IF rest = Unread
             THEN Reply(r)
             ELSE /\ seen' = [seen EXCEPT ![r] = rest]
                  /\ UNCHANGED <<at, name, kind, todo>>
    /\ UNCHANGED <<objects, excused>>

--------------------------------------------------------------------------------
(* What else happens: chaos-ctrl, Chaos Mesh, and the death of a process.  *)

CliApply(n, k) ==
    /\ ~Exists(n, k)
    /\ SetObject(n, k, "running")
    /\ Excuse(n)
    /\ UNCHANGED <<records, request, faults>>

CliDelete(n, k) ==
    /\ Exists(n, k)
    /\ SetObject(n, k, "deleting")
    /\ Excuse(n)
    /\ UNCHANGED <<records, request, faults>>

\* inferPhaseFromObject: the duration has elapsed.
Complete(n, k) ==
    /\ objects[n][k] = "running"
    /\ SetObject(n, k, "completed")
    /\ UNCHANGED <<records, request, faults, excused>>

\* Chaos Mesh removes its finalizer.
Finalise(n, k) ==
    /\ objects[n][k] = "deleting"
    /\ SetObject(n, k, "absent")
    /\ UNCHANGED <<records, request, faults, excused>>

\* The process dies, or the client goes away and its context with it.
Abandon(r) ==
    /\ at[r] # "idle"
    /\ Fault
    /\ Reply(r)
    /\ ExcuseIf(name[r], at[r] \in {"store", "unstore"})
    /\ UNCHANGED <<objects, records>>

--------------------------------------------------------------------------------
Handle(r) == Apply(r) \/ Store(r) \/ Delete(r) \/ Unstore(r) \/ Status(r) \/ Find(r)
             \/ List(r) \/ FindAll(r) \/ Persist(r)

Arrive(r) == CreateRequest(r) \/ DeleteRequest(r) \/ ListRequest(r)
             \/ \E n \in Names : GetRequest(r, n)

Cluster(n, k) == CliApply(n, k) \/ CliDelete(n, k) \/ Complete(n, k) \/ Finalise(n, k)

Next ==
    \/ \E r \in Requests : Arrive(r) \/ Handle(r) \/ Abandon(r)
    \/ \E n \in Names, k \in Kinds : Cluster(n, k)

Spec == Init /\ [][Next]_vars

--------------------------------------------------------------------------------
(* Properties.                                                             *)

\* No request stands between the two halves of a change of n.
Quiet(n) == ~Midway(n, "store") /\ ~Midway(n, "unstore")

\* Between requests, what MongoDB says exists is what Kubernetes injects, kind
\* included.  The exceptions are all in the actions: a call that failed halfway
\* or a process that died there, a name used for two kinds, a creation and a
\* deletion of one name that overlap, and chaos-ctrl.
StoresAgree ==
    \A n \in Names : n \notin excused /\ Quiet(n) =>
        Active(n) = IF records[n] = None THEN {} ELSE {records[n].kind}

\* Why they agree: what one name's object, record and half-done requests look
\* like as long as nothing excuses a difference.
NameOK(n) ==
    /\ \A j, k \in Kinds : Exists(n, j) /\ Exists(n, k) => j = k
    /\ \A r \in Requests : at[r] = "store" /\ name[r] = n =>
          /\ Active(n) = {kind[r]}
          /\ records[n] = None
          /\ ~Midway(n, "unstore")
          /\ \A q \in Requests : at[q] = "store" /\ name[q] = n => q = r
    /\ Midway(n, "unstore") => Active(n) = {}

RequestsOK ==
    \A r \in Requests :
        /\ at[r] \in {"apply", "store", "delete", "unstore", "status", "find"}
              => name[r] \in Names
        /\ at[r] \in {"apply", "store"} => kind[r] \in Kinds

\* The inductive invariant behind StoresAgree: an unfinished creation has its
\* object and no record, an unfinished deletion has no active object.
IInv ==
    /\ TypeOK
    /\ RequestsOK
    /\ \A n \in Names \ excused : NameOK(n)
    /\ StoresAgree

\* client.go: "Delete removes an experiment by name.": when it has answered nil,
\* no experiment of that name goes on.
DeleteRemovesByName ==
    [][\A r \in Requests :
          at[r] = "delete" /\ at'[r] = "unstore" => Active(name[r])' = {}]_vars

--------------------------------------------------------------------------------
(* Liveness.  Requests are served; a page that shows an experiment asks    *)
(* for its status every three seconds.                                     *)

FairSpec ==
    /\ Spec
    /\ \A r \in Requests : WF_vars(Handle(r))
    /\ \A n \in Names : SF_vars(\E r \in Requests : GetRequest(r, n))

\* Synchronisation: an experiment that is over is recorded as completed in the
\* end, whatever reads and writes of its status are under way.
CompletionIsRecorded ==
    \A n \in Names :
        (<>[](records[n] # None /\ \A k \in Kinds : objects[n][k] = "completed"))
            => <>[](records[n] # None /\ records[n].status = "completed")
================================================================================
