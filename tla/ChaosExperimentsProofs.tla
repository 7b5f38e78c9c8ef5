------------------------ MODULE ChaosExperimentsProofs ------------------------
(***************************************************************************)
(* Kubernetes and MongoDB agree between requests, for every number of      *)
(* names, kinds and concurrent requests.                                   *)
(***************************************************************************)
EXTENDS ChaosExperiments, TLAPS

\* The part of TypeOK that is about the requests.
RequestTyped ==
    /\ at \in [Requests -> Calls]
    /\ name \in [Requests -> Names \union {None}]
    /\ kind \in [Requests -> Kinds \union {None}]
    /\ todo \in [Requests -> SUBSET Kinds]
    /\ seen \in [Requests -> [Names -> Phases \union {None}]]

\* A request that replies, and one that proceeds, keep the types of the request
\* variables.
LEMMA ReplyType ==
    ASSUME TypeOK, NEW r \in Requests, Reply(r)
    PROVE  RequestTyped'
  BY DEF RequestTyped, TypeOK, Reply, Goto, Calls, Unread

\* The only effect of one call on an object.
LEMMA SetObjectType ==
    ASSUME TypeOK, NEW n \in Names, NEW k \in Kinds, NEW p \in Phases \union {"absent"},
           SetObject(n, k, p)
    PROVE  objects' \in [Names -> [Kinds -> Phases \union {"absent"}]]
  BY DEF TypeOK, SetObject

\* What a call saw of an object is a phase, or what was known before.
LEMMA PhaseOfType ==
    ASSUME TypeOK, NEW n \in Names, NEW k \in Kinds, NEW old \in Phases \union {None}
    PROVE  PhaseOf(n, k, old) \in Phases \union {None}
  BY DEF TypeOK, PhaseOf, Exists

\* A reply drops what the request was about.
LEMMA ReplyKeeps ==
    ASSUME TypeOK, RequestsOK, NEW r \in Requests, Reply(r)
    PROVE  RequestsOK'
  <1>1. at' = [at EXCEPT ![r] = "idle"] /\ name' = [name EXCEPT ![r] = None]
        /\ kind' = [kind EXCEPT ![r] = None]
    BY DEF Reply, Goto
  <1> QED  BY <1>1 DEF RequestsOK, TypeOK

\* A request that goes on keeps its name and kind.
LEMMA MoveKeeps ==
    ASSUME TypeOK, RequestsOK, NEW r \in Requests, NEW call,
           \/ Goto(r, call)
           \/ at' = at,
           name[r] \in Names \/ call \in {"list", "findAll", "persist"},
           call \in {"apply", "store"} => kind[r] \in Kinds,
           UNCHANGED <<name, kind>>
    PROVE  RequestsOK'
  BY DEF RequestsOK, Goto, TypeOK

\* The handlers of the API, one call at a time, keep TypeOK and RequestsOK.
LEMMA HandleType ==
    ASSUME ChaosAssumption, TypeOK, RequestsOK, NEW r \in Requests, Handle(r)
    PROVE  TypeOK' /\ RequestsOK'
  <1> USE DEF Calls, RequestTyped
  <1>1. CASE Apply(r)
    <2>1. name[r] \in Names /\ kind[r] \in Kinds  BY <1>1 DEF RequestsOK, Apply
    <2>2. objects' \in [Names -> [Kinds -> Phases \union {"absent"}]]
      BY <1>1, <2>1, SetObjectType DEF Apply, Phases, TypeOK
    <2>3. RequestTyped'
      BY <1>1, ReplyType DEF Apply, Proceed, Goto, TypeOK
    <2>4. faults' \in Nat /\ excused' \in SUBSET Names /\ UNCHANGED records
      BY <1>1, <2>1 DEF Apply, Fault, ExcuseIf, Excuse, TypeOK
    <2>5. RequestsOK'
      <3>1. \/ Reply(r)
            \/ Goto(r, "store") /\ UNCHANGED <<name, kind>>
        BY <1>1 DEF Apply, Proceed
      <3> QED  BY <2>1, <3>1, ReplyKeeps, MoveKeeps
    <2> QED  BY <2>2, <2>3, <2>4, <2>5 DEF TypeOK
  <1>2. CASE Store(r)
    <2>1. name[r] \in Names /\ kind[r] \in Kinds  BY <1>2 DEF RequestsOK, Store
    <2>2. records' \in [Names -> Record \union {None}]
      <3>1. [kind |-> kind[r], status |-> "pending"] \in Record  BY <2>1 DEF Record
      <3> QED  BY <1>2, <2>1, <3>1 DEF Store, TypeOK
    <2>3. faults' \in Nat /\ excused' \in SUBSET Names /\ UNCHANGED objects
      BY <1>2, <2>1 DEF Store, Fault, Excuse, TypeOK
    <2>5. Reply(r)  BY <1>2 DEF Store
    <2>4. RequestsOK'  BY <2>5, ReplyKeeps
    <2> QED  BY <2>2, <2>3, <2>4, <2>5, ReplyType DEF TypeOK
  <1>3. CASE Delete(r)
    <2>1. name[r] \in Names  BY <1>3 DEF RequestsOK, Delete
    <2>2. objects' \in [Names -> [Kinds -> Phases \union {"absent"}]]
      BY <1>3, <2>1, SetObjectType DEF Delete, Phases, TypeOK
    <2>3. RequestTyped'
      <3>1. CASE Reply(r)  BY <3>1, ReplyType
      <3>2. CASE Proceed(r, "unstore")  BY <3>2 DEF Proceed, Goto, TypeOK
      <3>3. CASE \E k \in Kinds : /\ todo' = [todo EXCEPT ![r] = @ \ {k}]
                                 /\ UNCHANGED <<at, name, kind, seen>>
        BY <3>3 DEF TypeOK
      <3> QED  BY <1>3, <3>1, <3>2, <3>3 DEF Delete, TypeOK
    <2>4. faults' \in Nat /\ excused' \in SUBSET Names /\ UNCHANGED records
      BY <1>3, <2>1 DEF Delete, Fault, ExcuseIf, Excuse, TypeOK
    <2>5. RequestsOK'
      <3>1. \/ Reply(r)
            \/ (Goto(r, "unstore") \/ at' = at) /\ UNCHANGED <<name, kind>>
        BY <1>3 DEF Delete, Proceed
      <3> QED  BY <2>1, <3>1, ReplyKeeps, MoveKeeps
    <2> QED  BY <2>2, <2>3, <2>4, <2>5 DEF TypeOK
  <1>4. CASE Unstore(r)
    <2>1. name[r] \in Names  BY <1>4 DEF RequestsOK, Unstore
    <2>2. records' \in [Names -> Record \union {None}]
      BY <1>4, <2>1 DEF Unstore, Remove, TypeOK
    <2>3. faults' \in Nat /\ excused' \in SUBSET Names /\ UNCHANGED objects
      BY <1>4, <2>1 DEF Unstore, Fault, Excuse, TypeOK
    <2>5. Reply(r)  BY <1>4 DEF Unstore
    <2>4. RequestsOK'  BY <2>5, ReplyKeeps
    <2> QED  BY <2>2, <2>3, <2>4, <2>5, ReplyType DEF TypeOK
  <1>5. CASE Status(r)
    <2>1. name[r] \in Names  BY <1>5 DEF RequestsOK, Status
    <2>2. RequestTyped'
      <3>1. CASE Reply(r)  BY <3>1, ReplyType
      <3>2. CASE \E k \in Kinds : /\ seen' = [seen EXCEPT ![r][name[r]] = PhaseOf(name[r], k, None)]
                                 /\ Goto(r, "find")
                                 /\ UNCHANGED <<name, kind, todo>>
        <4>1. PICK k \in Kinds :
                 seen' = [seen EXCEPT ![r][name[r]] = PhaseOf(name[r], k, None)]
          BY <3>2
        <4>2. PhaseOf(name[r], k, None) \in Phases \union {None}  BY <2>1, PhaseOfType
        <4>3. seen' \in [Requests -> [Names -> Phases \union {None}]]
          BY <2>1, <4>1, <4>2 DEF TypeOK
        <4> QED  BY <3>2, <4>3 DEF Goto, TypeOK
      <3>3. CASE \E k \in Kinds : /\ todo' = [todo EXCEPT ![r] = @ \ {k}]
                                 /\ UNCHANGED <<at, name, kind, seen>>
        BY <3>3 DEF TypeOK
      <3> QED  BY <1>5, <3>1, <3>2, <3>3 DEF Status, TypeOK
    <2>3. RequestsOK'
      <3>1. \/ Reply(r)
            \/ (Goto(r, "find") \/ at' = at) /\ UNCHANGED <<name, kind>>
        BY <1>5 DEF Status
      <3> QED  BY <2>1, <3>1, ReplyKeeps, MoveKeeps
    <2> QED  BY <1>5, <2>2, <2>3 DEF Status, Fault, TypeOK
  <1>6. CASE Find(r)
    <2>1. RequestTyped'
      BY <1>6, ReplyType DEF Find, Proceed, Goto, TypeOK
    <2>2. RequestsOK'
      <3>1. \/ Reply(r)
            \/ Goto(r, "persist") /\ UNCHANGED <<name, kind>>
        BY <1>6 DEF Find, Proceed
      <3> QED  BY <3>1, ReplyKeeps, MoveKeeps
    <2> QED  BY <1>6, <2>1, <2>2 DEF Find, Fault, TypeOK
  <1>7. CASE List(r)
    <2>1. ASSUME NEW k \in todo[r],
                 seen' = [seen EXCEPT ![r] = [n \in Names |-> PhaseOf(n, k, @[n])]]
          PROVE  seen' \in [Requests -> [Names -> Phases \union {None}]]
      <3> DEFINE row == [n \in Names |-> PhaseOf(n, k, seen[r][n])]
      <3>1. \A n \in Names : PhaseOf(n, k, seen[r][n]) \in Phases \union {None}
        BY <2>1, PhaseOfType DEF TypeOK
      <3>2. row \in [Names -> Phases \union {None}]  BY <3>1
      <3>3. seen' = [seen EXCEPT ![r] = row]  BY <2>1
      <3> HIDE DEF row
      <3> QED  BY <3>2, <3>3 DEF TypeOK
    <2>2. seen' \in [Requests -> [Names -> Phases \union {None}]]
      <3>1. CASE \E k \in todo[r] :
                    seen' = [seen EXCEPT ![r] = [n \in Names |-> PhaseOf(n, k, @[n])]]
        BY <3>1, <2>1
      <3>2. CASE seen' = [seen EXCEPT ![r] = Unread]  BY <3>2 DEF Unread, TypeOK
      <3> QED  BY <1>7, <3>1, <3>2 DEF List
    <2>3. /\ at' \in [Requests -> Calls] /\ UNCHANGED <<name, kind>>
          /\ todo' \in [Requests -> SUBSET Kinds]
      <3>1. CASE \E k \in todo[r] : /\ todo' = [todo EXCEPT ![r] = @ \ {k}]
                                   /\ Goto(r, IF todo[r] = {k} THEN "findAll" ELSE "list")
                                   /\ UNCHANGED <<name, kind>>
        BY <3>1 DEF Goto, TypeOK
      <3>2. CASE /\ todo' = [todo EXCEPT ![r] = {}]
                 /\ Goto(r, "findAll")
                 /\ UNCHANGED <<name, kind>>
        BY <3>2 DEF Goto, TypeOK
      <3> QED  BY <1>7, <3>1, <3>2 DEF List
    <2>4. RequestsOK'
      <3>1. /\ Goto(r, "findAll") \/ Goto(r, "list")
            /\ UNCHANGED <<name, kind>>
        BY <1>7 DEF List, Goto
      <3> QED  BY <3>1, MoveKeeps
    <2> QED  BY <1>7, <2>2, <2>3, <2>4 DEF List, Fault, TypeOK
  <1>8. CASE FindAll(r)
    <2>1. RequestTyped'
      <3> DEFINE known == [n \in Names |-> IF records[n] = None THEN None ELSE seen[r][n]]
      <3>1. known \in [Names -> Phases \union {None}]  BY DEF TypeOK
      <3>2. CASE Reply(r)  BY <3>2, ReplyType
      <3>3. CASE /\ seen' = [seen EXCEPT ![r] = known]
                 /\ Goto(r, "persist")
                 /\ UNCHANGED <<name, kind, todo>>
        <4> HIDE DEF known
        <4> QED  BY <3>1, <3>3 DEF Goto, TypeOK
      <3> QED  BY <1>8, <3>2, <3>3 DEF FindAll
    <2>2. RequestsOK'
      <3>1. \/ Reply(r)
            \/ Goto(r, "persist") /\ UNCHANGED <<name, kind>>
        BY <1>8 DEF FindAll
      <3> QED  BY <3>1, ReplyKeeps, MoveKeeps
    <2> QED  BY <1>8, <2>1, <2>2 DEF FindAll, Fault, TypeOK
  <1>9. CASE Persist(r)
    <2>1. RequestTyped'
      <3>1. CASE Reply(r)  BY <3>1, ReplyType
      <3>2. CASE \E n \in Names : /\ seen' = [seen EXCEPT ![r] = [seen[r] EXCEPT ![n] = None]]
                                 /\ UNCHANGED <<at, name, kind, todo>>
        BY <3>2 DEF TypeOK
      <3> QED  BY <1>9, <3>1, <3>2 DEF Persist
    <2>2. records' \in [Names -> Record \union {None}]
      BY <1>9 DEF Persist, Record, TypeOK
    <2>3. RequestsOK'
      <3>1. \/ Reply(r)
            \/ at' = at /\ UNCHANGED <<name, kind>>
        BY <1>9 DEF Persist
      <3> QED  BY <3>1, ReplyKeeps DEF RequestsOK
    <2> QED  BY <1>9, <2>1, <2>2, <2>3 DEF Persist, Fault, TypeOK
  <1> QED  BY <1>1, <1>2, <1>3, <1>4, <1>5, <1>6, <1>7, <1>8, <1>9 DEF Handle

\* Every other step keeps them too.
LEMMA TypeStep ==
    ASSUME ChaosAssumption, TypeOK, RequestsOK, [Next]_vars
    PROVE  TypeOK' /\ RequestsOK'
  <1>1. ASSUME NEW r \in Requests, NEW call \in Calls, NEW n \in Names \union {None},
               NEW k \in Kinds \union {None}, Receive(r, call, n, k),
               call \in {"apply", "delete", "status"} => n \in Names,
               call = "apply" => k \in Kinds,
               call \notin {"store", "unstore", "find"}
        PROVE  TypeOK' /\ RequestsOK'
    BY <1>1 DEF Receive, Goto, TypeOK, RequestsOK
  <1>2. ASSUME NEW r \in Requests, Arrive(r)
        PROVE  TypeOK' /\ RequestsOK'
    BY <1>1, <1>2 DEF Arrive, CreateRequest, DeleteRequest, GetRequest, ListRequest, Calls
  <1>3. ASSUME NEW r \in Requests, Abandon(r)
        PROVE  TypeOK' /\ RequestsOK'
    <2>1. at[r] \in {"store", "unstore"} => name[r] \in Names  BY DEF RequestsOK
    <2>2. excused' \in SUBSET Names
      BY <1>3, <2>1 DEF Abandon, ExcuseIf, Excuse, TypeOK
    <2>3. RequestsOK'
      BY <1>3, ReplyKeeps DEF Abandon
    <2> QED  BY <1>3, <2>2, <2>3, ReplyType DEF Abandon, Fault, RequestTyped, TypeOK
  <1>4. ASSUME NEW n \in Names, NEW k \in Kinds, Cluster(n, k)
        PROVE  TypeOK' /\ RequestsOK'
    <2>1. objects' \in [Names -> [Kinds -> Phases \union {"absent"}]]
      BY <1>4, SetObjectType
      DEF Cluster, CliApply, CliDelete, Complete, Finalise, Phases
    <2> QED
      BY <1>4, <2>1 DEF Cluster, CliApply, CliDelete, Complete, Finalise, Excuse, request,
                        TypeOK, RequestsOK
  <1>5. CASE UNCHANGED vars  BY <1>5 DEF vars, TypeOK, RequestsOK
  <1> QED  BY <1>2, <1>3, <1>4, <1>5, HandleType DEF Next

--------------------------------------------------------------------------------
(* Agreement, one name at a time.                                          *)

\* What the inductive invariant says of one name.
Agrees(n) ==
    /\ NameOK(n)
    /\ Quiet(n) => Active(n) = IF records[n] = None THEN {} ELSE {records[n].kind}

\* Nothing that Agrees(n) speaks of has changed.
Untouched(n) ==
    /\ \A k \in Kinds : Exists(n, k)' => Exists(n, k)
    /\ Active(n)' = Active(n)
    /\ records'[n] = None <=> records[n] = None
    /\ records[n] # None => records'[n].kind = records[n].kind
    /\ \A r \in Requests :
          /\ (at'[r] = "store" /\ name'[r] = n) <=> (at[r] = "store" /\ name[r] = n)
          /\ (at'[r] = "unstore" /\ name'[r] = n) <=> (at[r] = "unstore" /\ name[r] = n)
          /\ at[r] = "store" /\ name[r] = n => kind'[r] = kind[r]

\* A step that leaves a name untouched leaves it in agreement.
LEMMA Frame ==
    ASSUME NEW n \in Names, Agrees(n), Untouched(n)
    PROVE  Agrees(n)'
  <1>1. Midway(n, "store")' <=> Midway(n, "store")  BY DEF Untouched, Midway
  <1>2. Midway(n, "unstore")' <=> Midway(n, "unstore")  BY DEF Untouched, Midway
  <1>3. NameOK(n)'  BY <1>2 DEF Untouched, Agrees, NameOK
  <1>4. Quiet(n)' <=> Quiet(n)  BY <1>1, <1>2 DEF Quiet
  <1> QED  BY <1>3, <1>4 DEF Agrees, Untouched

\* Requests that only read, arrive, reply or persist a status do not count.
LEMMA ReadersStep ==
    ASSUME ChaosAssumption, TypeOK, RequestsOK, NEW n \in Names, NEW r \in Requests,
           Status(r) \/ Find(r) \/ List(r) \/ FindAll(r) \/ Persist(r) \/ Arrive(r)
    PROVE  Untouched(n)
  <1>1. UNCHANGED objects
    BY DEF Status, Find, List, FindAll, Persist, Arrive, CreateRequest, DeleteRequest,
           GetRequest, ListRequest, Receive
  <1>2. /\ records'[n] = None <=> records[n] = None
        /\ records[n] # None => records'[n].kind = records[n].kind
    <2>1. CASE Persist(r)
      <3>1. PICK m \in Names :
               /\ seen[r][m] # None
               /\ \/ records' = IF records[m] = None THEN records
                                ELSE [records EXCEPT ![m].status = seen[r][m]]
                  \/ UNCHANGED records
        BY <2>1 DEF Persist
      <3>2. CASE UNCHANGED records  BY <3>2
      <3>3. CASE records[m] # None /\ records' = [records EXCEPT ![m].status = seen[r][m]]
        <4>1. records[m] \in Record  BY <3>3 DEF TypeOK
        <4>2. records'[m] # None /\ records'[m].kind = records[m].kind
          <5>1. records'[m] = [records[m] EXCEPT !.status = seen[r][m]]
            BY <3>3 DEF TypeOK
          <5>2. seen[r][m] \in Phases  BY <3>1 DEF TypeOK
          <5>3. records'[m] \in Record  BY <4>1, <5>1, <5>2 DEF Record
          <5>4. records'[m].kind = records[m].kind  BY <4>1, <5>1 DEF Record
          <5> QED  BY <5>3, <5>4 DEF ChaosAssumption
        <4>3. n # m => records'[n] = records[n]  BY <3>3 DEF TypeOK
        <4> QED  BY <3>3, <4>2, <4>3
      <3> QED  BY <3>1, <3>2, <3>3
    <2>2. CASE ~Persist(r)
      BY <2>2 DEF Status, Find, List, FindAll, Arrive, CreateRequest, DeleteRequest,
                  GetRequest, ListRequest, Receive
    <2> QED  BY <2>1, <2>2
  <1>3. /\ at[r] \notin {"store", "unstore"} /\ at'[r] \notin {"store", "unstore"}
        /\ \A q \in Requests \ {r} : /\ at'[q] = at[q]
                                     /\ name'[q] = name[q]
                                     /\ kind'[q] = kind[q]
    BY DEF Status, Find, List, FindAll, Persist, Arrive, CreateRequest, DeleteRequest,
           GetRequest, ListRequest, Receive, Reply, Proceed, Goto, TypeOK
  <1> QED  BY <1>1, <1>2, <1>3 DEF Untouched, Exists, Active

\* A request that is not midway before or after its step is about no name, and
\* other requests stand where they stood.
LEMMA Bystanders ==
    ASSUME TypeOK, NEW r \in Requests, Reply(r) \/ \E call \in Calls : Proceed(r, call)
    PROVE  \A q \in Requests \ {r} : at'[q] = at[q] /\ name'[q] = name[q] /\ kind'[q] = kind[q]
  BY DEF TypeOK, Reply, Proceed, Goto

\* CreateExperiment's call to Kubernetes.
LEMMA ApplyStep ==
    ASSUME ChaosAssumption, TypeOK, RequestsOK, NEW n \in Names, NEW r \in Requests,
           Apply(r), n \notin excused', Agrees(n)
    PROVE  Agrees(n)'
  <1>1. name[r] \in Names /\ kind[r] \in Kinds /\ at[r] = "apply"
    BY DEF RequestsOK, Apply
  <1>2. \A q \in Requests \ {r} : at'[q] = at[q] /\ name'[q] = name[q] /\ kind'[q] = kind[q]
    BY Bystanders DEF Apply, Calls
  <1>3. UNCHANGED records  BY DEF Apply
  <1>4. CASE Reply(r) /\ UNCHANGED objects
    <2>1. at'[r] = "idle"  BY <1>4 DEF Reply, Goto, TypeOK
    <2>2. Untouched(n)  BY <1>1, <1>2, <1>3, <1>4, <2>1 DEF Untouched, Exists, Active
    <2> QED  BY <2>2, Frame
  <1>5. CASE Reply(r) /\ Excuse(name[r]) /\ SetObject(name[r], kind[r], "running")
    <2>1. n # name[r]  BY <1>5 DEF Excuse
    <2>2. objects'[n] = objects[n]  BY <1>1, <1>5, <2>1 DEF SetObject, TypeOK
    <2>3. at'[r] = "idle"  BY <1>5 DEF Reply, Goto, TypeOK
    <2>4. Untouched(n)  BY <1>1, <1>2, <1>3, <2>2, <2>3 DEF Untouched, Exists, Active
    <2> QED  BY <2>4, Frame
  <1>6. CASE /\ Proceed(r, "store")
             /\ ~Exists(name[r], kind[r])
             /\ SetObject(name[r], kind[r], "running")
             /\ ExcuseIf(name[r], \/ Midway(name[r], "unstore")
                                  \/ \E j \in Kinds : Exists(name[r], j))
    <2>1. at'[r] = "store" /\ name'[r] = name[r] /\ kind'[r] = kind[r]
      BY <1>6 DEF Proceed, Goto, TypeOK
    <2>2. CASE n # name[r]
      <3>1. objects'[n] = objects[n]  BY <1>1, <1>6, <2>2 DEF SetObject, TypeOK
      <3>2. Untouched(n)
        BY <1>1, <1>2, <1>3, <2>1, <2>2, <3>1 DEF Untouched, Exists, Active
      <3> QED  BY <3>2, Frame
    <2>3. CASE n = name[r]
      <3>1. ~Midway(n, "unstore") /\ \A j \in Kinds : ~Exists(n, j)
        BY <1>6, <2>3 DEF ExcuseIf, Excuse
      <3>2. Active(n) = {}  BY <3>1 DEF Active, Exists
      <3>3. ~Midway(n, "store")
        BY <3>2, <1>1 DEF Agrees, NameOK, Midway
      <3>4. records[n] = None  BY <3>1, <3>2, <3>3 DEF Agrees, Quiet
      <3>5. /\ objects'[n][kind[r]] = "running"
            /\ \A j \in Kinds \ {kind[r]} : objects'[n][j] = objects[n][j]
        BY <1>1, <1>6, <2>3 DEF SetObject, TypeOK
      <3>6. Active(n)' = {kind[r]} /\ \A j \in Kinds : Exists(n, j)' => j = kind[r]
        BY <1>1, <3>1, <3>5 DEF Active, Exists
      <3>7. /\ ~Midway(n, "unstore")'
            /\ \A q \in Requests : at'[q] = "store" /\ name'[q] = n => q = r
        BY <1>2, <2>1, <3>1, <3>3 DEF Midway
      <3>8. NameOK(n)'
        BY <1>3, <2>1, <3>4, <3>6, <3>7 DEF NameOK
      <3>9. ~Quiet(n)'  BY <2>1, <2>3 DEF Quiet, Midway
      <3> QED  BY <3>8, <3>9 DEF Agrees
    <2> QED  BY <2>2, <2>3
  <1> QED  BY <1>4, <1>5, <1>6 DEF Apply

\* CreateExperiment's call to MongoDB.
LEMMA StoreStep ==
    ASSUME ChaosAssumption, TypeOK, RequestsOK, NEW n \in Names, NEW r \in Requests,
           Store(r), n \notin excused', Agrees(n)
    PROVE  Agrees(n)'
  <1>1. name[r] \in Names /\ kind[r] \in Kinds /\ at[r] = "store"
    BY DEF RequestsOK, Store
  <1>2. \A q \in Requests \ {r} : at'[q] = at[q] /\ name'[q] = name[q] /\ kind'[q] = kind[q]
    BY Bystanders DEF Store
  <1>3. at'[r] = "idle" /\ UNCHANGED objects  BY DEF Store, Reply, Goto, TypeOK
  <1>4. CASE n # name[r]
    <2>1. records'[n] = records[n]  BY <1>1, <1>4 DEF Store, TypeOK
    <2>2. Untouched(n)  BY <1>2, <1>3, <1>4, <2>1 DEF Untouched, Exists, Active
    <2> QED  BY <2>2, Frame
  <1>5. CASE n = name[r]
    <2>1. /\ Active(n) = {kind[r]} /\ records[n] = None /\ ~Midway(n, "unstore")
          /\ \A q \in Requests : at[q] = "store" /\ name[q] = n => q = r
      BY <1>1, <1>5 DEF Agrees, NameOK
    <2>2. records'[n] = [kind |-> kind[r], status |-> "pending"]
      BY <1>1, <1>5, <2>1 DEF Store, Excuse, TypeOK
    <2>3. records'[n] \in Record /\ records'[n].kind = kind[r]
      BY <1>1, <2>2 DEF Record
    <2>4. records'[n] # None  BY <2>3 DEF ChaosAssumption
    <2>5. ~Midway(n, "store")' /\ ~Midway(n, "unstore")'
      BY <1>2, <1>3, <2>1 DEF Midway
    <2>6. Active(n)' = {kind[r]} /\ \A k \in Kinds : Exists(n, k)' <=> Exists(n, k)
      BY <1>3, <2>1 DEF Active, Exists
    <2>7. NameOK(n)'
      BY <2>5, <2>6 DEF NameOK, Midway, Agrees
    <2> QED  BY <2>3, <2>4, <2>6, <2>7 DEF Agrees
  <1> QED  BY <1>4, <1>5

\* DeleteExperiment's calls to Kubernetes.
LEMMA DeleteStep ==
    ASSUME ChaosAssumption, TypeOK, RequestsOK, NEW n \in Names, NEW r \in Requests,
           Delete(r), n \notin excused', Agrees(n)
    PROVE  Agrees(n)'
  <1>1. name[r] \in Names /\ at[r] = "delete"  BY DEF RequestsOK, Delete
  <1>2. PICK k \in Kinds :
           \/ UNCHANGED objects /\ Reply(r)
           \/ UNCHANGED <<objects, at, name, kind>>
           \/ SetObject(name[r], k, "deleting") /\ Excuse(name[r]) /\ Reply(r)
           \/ /\ Exists(name[r], k)
              /\ SetObject(name[r], k, "deleting")
              /\ Proceed(r, "unstore")
              /\ ExcuseIf(name[r], Midway(name[r], "store"))
    BY DEF Delete, TypeOK
  <1>3. UNCHANGED records  BY DEF Delete
  <1>4. CASE UNCHANGED objects /\ Reply(r)
    <2>1. at'[r] = "idle"  BY <1>4 DEF Reply, Goto, TypeOK
    <2>2. Untouched(n)
      BY <1>1, <1>3, <1>4, <2>1, Bystanders DEF Untouched, Exists, Active
    <2> QED  BY <2>2, Frame
  <1>5. CASE UNCHANGED <<objects, at, name, kind>>
    <2>1. Untouched(n)  BY <1>3, <1>5 DEF Untouched, Exists, Active
    <2> QED  BY <2>1, Frame
  <1>6. CASE SetObject(name[r], k, "deleting") /\ Excuse(name[r]) /\ Reply(r)
    <2>1. n # name[r]  BY <1>6 DEF Excuse
    <2>2. objects'[n] = objects[n]  BY <1>1, <1>6, <2>1 DEF SetObject, TypeOK
    <2>3. at'[r] = "idle"  BY <1>6 DEF Reply, Goto, TypeOK
    <2>4. Untouched(n)
      BY <1>1, <1>3, <1>6, <2>2, <2>3, Bystanders DEF Untouched, Exists, Active
    <2> QED  BY <2>4, Frame
  <1>7. CASE /\ Exists(name[r], k)
             /\ SetObject(name[r], k, "deleting")
             /\ Proceed(r, "unstore")
             /\ ExcuseIf(name[r], Midway(name[r], "store"))
    <2>1. at'[r] = "unstore" /\ name'[r] = name[r]
      BY <1>7 DEF Proceed, Goto, TypeOK
    <2>2. \A q \in Requests \ {r} : at'[q] = at[q] /\ name'[q] = name[q] /\ kind'[q] = kind[q]
      BY <1>7, Bystanders DEF Calls
    <2>3. CASE n # name[r]
      <3>1. objects'[n] = objects[n]  BY <1>1, <1>7, <2>3 DEF SetObject, TypeOK
      <3>2. Untouched(n)
        BY <1>1, <1>3, <2>1, <2>2, <2>3, <3>1 DEF Untouched, Exists, Active
      <3> QED  BY <3>2, Frame
    <2>4. CASE n = name[r]
      <3>1. ~Midway(n, "store")  BY <1>7, <2>4 DEF ExcuseIf, Excuse
      <3>2. \A j \in Kinds : Exists(n, j) => j = k
        BY <1>7, <2>4 DEF Agrees, NameOK
      <3>3. /\ objects'[n][k] = "deleting"
            /\ \A j \in Kinds \ {k} : objects'[n][j] = objects[n][j]
        BY <1>1, <1>7, <2>4 DEF SetObject, TypeOK
      <3>4. Active(n)' = {} /\ \A j \in Kinds : Exists(n, j)' => j = k
        BY <3>2, <3>3 DEF Active, Exists
      <3>5. ~Midway(n, "store")'  BY <2>1, <2>2, <3>1 DEF Midway
      <3>6. NameOK(n)'  BY <3>4, <3>5 DEF NameOK, Midway
      <3>7. ~Quiet(n)'  BY <2>1, <2>4 DEF Quiet, Midway
      <3> QED  BY <3>6, <3>7 DEF Agrees
    <2> QED  BY <2>3, <2>4
  <1> QED  BY <1>2, <1>4, <1>5, <1>6, <1>7

\* DeleteExperiment's call to MongoDB.
LEMMA UnstoreStep ==
    ASSUME ChaosAssumption, TypeOK, RequestsOK, NEW n \in Names, NEW r \in Requests,
           Unstore(r), n \notin excused', Agrees(n)
    PROVE  Agrees(n)'
  <1>1. name[r] \in Names /\ at[r] = "unstore"  BY DEF RequestsOK, Unstore
  <1>2. \A q \in Requests \ {r} : at'[q] = at[q] /\ name'[q] = name[q] /\ kind'[q] = kind[q]
    BY Bystanders DEF Unstore
  <1>3. at'[r] = "idle" /\ UNCHANGED objects  BY DEF Unstore, Reply, Goto, TypeOK
  <1>4. CASE n # name[r]
    <2>1. records'[n] = records[n]  BY <1>1, <1>4 DEF Unstore, Remove, TypeOK
    <2>2. Untouched(n)  BY <1>2, <1>3, <1>4, <2>1 DEF Untouched, Exists, Active
    <2> QED  BY <2>2, Frame
  <1>5. CASE n = name[r]
    <2>1. Midway(n, "unstore")  BY <1>1, <1>5 DEF Midway
    <2>2. Active(n) = {} /\ ~Midway(n, "store")
      BY <2>1 DEF Agrees, NameOK, Midway
    <2>3. records'[n] = None
      BY <1>1, <1>5 DEF Unstore, Remove, Excuse, TypeOK
    <2>4. Active(n)' = {} /\ \A k \in Kinds : Exists(n, k)' <=> Exists(n, k)
      BY <1>3, <2>2 DEF Active, Exists
    <2>5. ~Midway(n, "store")'  BY <1>2, <1>3, <2>2 DEF Midway
    <2>6. NameOK(n)'  BY <2>4, <2>5 DEF NameOK, Midway, Agrees
    <2> QED  BY <2>3, <2>4, <2>6 DEF Agrees
  <1> QED  BY <1>4, <1>5

\* A process that dies, and what happens in the cluster.
LEMMA OthersStep ==
    ASSUME ChaosAssumption, TypeOK, RequestsOK, NEW n \in Names, n \notin excused', Agrees(n),
           \/ \E r \in Requests : Abandon(r)
           \/ \E m \in Names, k \in Kinds : Cluster(m, k)
    PROVE  Agrees(n)'
  <1>1. ASSUME NEW r \in Requests, Abandon(r)
        PROVE  Agrees(n)'
    <2>1. at'[r] = "idle" /\ UNCHANGED <<objects, records>>
      BY <1>1 DEF Abandon, Reply, Goto, TypeOK
    <2>2. at[r] \in {"store", "unstore"} => name[r] # n
      BY <1>1 DEF Abandon, ExcuseIf, Excuse
    <2>3. Reply(r)  BY <1>1 DEF Abandon
    <2>4. Untouched(n)
      BY <2>1, <2>2, <2>3, Bystanders DEF Untouched, Exists, Active
    <2> QED  BY <2>4, Frame
  <1>2. ASSUME NEW m \in Names, NEW k \in Kinds, Cluster(m, k)
        PROVE  Agrees(n)'
    <2>1. UNCHANGED <<records, at, name, kind>>
      BY <1>2 DEF Cluster, CliApply, CliDelete, Complete, Finalise, request
    <2>2. CASE CliApply(m, k) \/ CliDelete(m, k)
      <3>1. n # m  BY <2>2 DEF CliApply, CliDelete, Excuse
      <3>2. objects'[n] = objects[n]
        BY <2>2, <3>1 DEF CliApply, CliDelete, SetObject, TypeOK
      <3> QED  BY <2>1, <3>2, Frame DEF Untouched, Exists, Active
    <2>3. CASE Complete(m, k) \/ Finalise(m, k)
      <3>1. PICK p \in {"completed", "absent"} :
               /\ objects' = [objects EXCEPT ![m][k] = p]
               /\ objects[m][k] = IF p = "completed" THEN "running" ELSE "deleting"
        BY <2>3 DEF Complete, Finalise, SetObject
      <3>2. \A j \in Kinds :
               /\ objects'[n][j] # "absent" => objects[n][j] # "absent"
               /\ objects'[n][j] \in {"running", "completed"}
                     <=> objects[n][j] \in {"running", "completed"}
        BY <3>1 DEF TypeOK
      <3> QED  BY <2>1, <3>2, Frame DEF Untouched, Exists, Active
    <2> QED  BY <1>2, <2>2, <2>3 DEF Cluster
  <1> QED  BY <1>1, <1>2

--------------------------------------------------------------------------------
(* The theorems.                                                           *)

\* The invariant is a type and one agreement per name that nothing excuses.
LEMMA InvariantByName ==
    IInv <=> TypeOK /\ RequestsOK /\ \A n \in Names \ excused : Agrees(n)
  BY DEF IInv, Agrees, StoresAgree

\* No step of any request, of chaos-ctrl or of Chaos Mesh leaves the inductive
\* invariant: an unfinished creation has its object and no record, an unfinished
\* deletion no active object.
THEOREM InductiveInvariant == Spec => []IInv
  <1> USE ChaosAssumption
  <1>1. Init => IInv
    <2> SUFFICES ASSUME Init PROVE IInv  OBVIOUS
    <2>1. TypeOK  BY DEF Init, TypeOK, Calls, Unread, Phases
    <2>2. RequestsOK  BY DEF Init, RequestsOK
    <2>3. \A n \in Names : Agrees(n)
      BY DEF Init, Agrees, NameOK, Exists, Active, Midway
    <2> QED  BY <2>1, <2>2, <2>3, InvariantByName
  <1>2. IInv /\ [Next]_vars => IInv'
    <2> SUFFICES ASSUME IInv, [Next]_vars PROVE IInv'  OBVIOUS
    <2>1. TypeOK /\ RequestsOK  BY DEF IInv
    <2>2. TypeOK' /\ RequestsOK'  BY <2>1, TypeStep
    <2>3. ASSUME NEW n \in Names, n \notin excused', [Next]_vars
          PROVE  Agrees(n)'
      <3>1. n \notin excused
        BY <2>3, ZenonT(40) DEF vars, Next, Arrive, CreateRequest, DeleteRequest, GetRequest,
                    ListRequest, Receive, Handle, Apply, Store, Delete, Unstore, Status,
                    Find, List, FindAll, Persist, Abandon, Cluster, CliApply, CliDelete,
                    Complete, Finalise, ExcuseIf, Excuse
      <3>2. Agrees(n)  BY <3>1, InvariantByName
      <3>3. CASE UNCHANGED vars
        BY <3>2, <3>3, Frame DEF vars, Untouched, Exists, Active
      <3>4. ASSUME NEW r \in Requests, Arrive(r) \/ Handle(r)
            PROVE  Agrees(n)'
        BY <2>1, <2>3, <3>2, <3>4, ApplyStep, StoreStep, DeleteStep, UnstoreStep, ReadersStep,
           Frame DEF Handle
      <3>5. CASE \/ \E r \in Requests : Abandon(r)
                 \/ \E m \in Names, k \in Kinds : Cluster(m, k)
        BY <2>1, <2>3, <3>2, <3>5, OthersStep
      <3> QED  BY <2>3, <3>3, <3>4, <3>5, SMTT(20) DEF Next
    <2>4. (\A n \in Names \ excused : Agrees(n))'  BY <2>3
    <2> QED  BY <2>2, <2>4, InvariantByName DEF IInv, Agrees, StoresAgree
  <1> QED  BY <1>1, <1>2, PTL DEF Spec

\* For any number of names, kinds, concurrent requests and failures: between
\* requests MongoDB lists exactly what Kubernetes injects, unless one of the
\* listed causes excuses the name.
THEOREM StoresStayInAgreement == Spec => []StoresAgree
  <1>1. IInv => StoresAgree  BY DEF IInv
  <1> QED  BY <1>1, InductiveInvariant, PTL

\* The variables keep their types.
THEOREM TypeCorrect == Spec => []TypeOK
  <1>1. IInv => TypeOK  BY DEF IInv
  <1> QED  BY <1>1, InductiveInvariant, PTL
================================================================================
