---------------------------- MODULE WorkerPoolProofs ----------------------------
(***************************************************************************)
(* The schema, whatever number of processes applies it and however often   *)
(* they fail; and the pool of a Worker in its process, for every number of *)
(* consumers, requests, attempts and failures.                             *)
(***************************************************************************)
EXTENDS WorkerPool, FiniteSetTheorems, TLAPS

--------------------------------------------------------------------------------
(* The schema: each step of SchemaNext keeps SchemaInv.                    *)

LEMMA SchemaInitially ==
    ASSUME SchemaAssumption, SchemaInit
    PROVE  SchemaInv
  <1> USE DEF SchemaInit, Rows, Down, Applied, Copying
  <1>1. SchemaTypeOK
    <2>1. tables \subseteq Tables  BY DEF Tables
    <2>2. at \in [Procs -> 0 .. 6]  OBVIOUS
    <2>3. orphan \in [Procs -> 0 .. 5]  OBVIOUS
    <2>4. copies \in [Rows -> Nat]  OBVIOUS
    <2>5. plan \in [Procs -> SUBSET (Tables \union Rows)] /\ bequest = plan  OBVIOUS
    <2>6. /\ old \in BOOLEAN /\ overlap \in BOOLEAN /\ load \subseteq Rows
          /\ busy \in [Procs -> BOOLEAN] /\ known \in [Procs -> SUBSET StatusRows]
      OBVIOUS
    <2> HIDE DEF SchemaInit
    <2> QED  BY <2>1, <2>2, <2>3, <2>4, <2>5, <2>6 DEF SchemaTypeOK
  <1>2. PlansOK  BY DEF PlansOK
  <1>3. CarriedOK  BY DEF CarriedOK
  <1>4. OneCopy  BY DEF OneCopy, CopyUnderWay
  <1> QED  BY <1>1, <1>2, <1>3, <1>4 DEF SchemaInv

\* What a statement begun now is going to add.
LEMMA AddsType ==
    ASSUME SchemaTypeOK, NEW n \in 1 .. Applied - 1
    PROVE  Adds(n) \subseteq IF n = Copying THEN StatusRows ELSE Tables
  <1>1. Statements[n] \in Tables \/ n = Copying
    BY DEF Statements, Tables, Copying, Applied
  <1> QED  BY <1>1 DEF Adds, Missing, SchemaTypeOK

LEMMA BeginKeeps ==
    ASSUME SchemaAssumption, SchemaInv, NEW p \in Procs, Begin(p)
    PROVE  SchemaInv'
  <1> USE DEF SchemaInv, Begin, database
  <1>1. at[p] \in 1 .. Applied - 1 /\ ~busy[p]  OBVIOUS
  <1>2. plan'[p] \subseteq IF at[p] = Copying THEN StatusRows ELSE Tables
    BY <1>1, AddsType DEF SchemaTypeOK
  <1>3. SchemaTypeOK'
    <2>1. plan' \in [Procs -> SUBSET (Tables \union Rows)]
      BY <1>2 DEF SchemaTypeOK, Rows
    <2>2. known' \in [Procs -> SUBSET StatusRows]  BY DEF SchemaTypeOK
    <2>3. overlap' \in BOOLEAN  BY DEF SchemaTypeOK
    <2>4. busy' \in [Procs -> BOOLEAN]  BY DEF SchemaTypeOK
    <2> QED  BY <2>1, <2>2, <2>3, <2>4 DEF SchemaTypeOK
  <1>4. PlansOK'
    BY <1>1, <1>2 DEF PlansOK, SchemaTypeOK
  <1>5. CarriedOK'
    <2> SUFFICES ASSUME NEW q \in Procs, NEW r \in known'[q]
                 PROVE  /\ at[q] > Copying => copies[r] > 0
                        /\ busy'[q] /\ at[q] = Copying => r \in plan'[q] \/ copies[r] > 0
      BY DEF CarriedOK
    <2>1. CASE q = p /\ at[p] = Copying
      <3>1. r \in load /\ r \in StatusRows  BY <2>1 DEF SchemaTypeOK
      <3>2. copies[r] \in Nat  BY <3>1 DEF SchemaTypeOK, Rows
      <3>3. plan'[p] = Missing  BY <2>1 DEF Adds, SchemaTypeOK
      <3>4. r \in plan'[p] \/ copies[r] > 0  BY <3>1, <3>2, <3>3 DEF Missing
      <3> QED  BY <2>1, <3>4 DEF Copying
    <2>2. CASE q # p
      BY <2>2 DEF CarriedOK, SchemaTypeOK
    <2>3. CASE q = p /\ at[p] # Copying
      BY <2>3 DEF CarriedOK, SchemaTypeOK
    <2> QED  BY <2>1, <2>2, <2>3
  <1>6. OneCopy'
    <2>1. CASE at[p] # Copying
      <3>1. \A q \in Procs : /\ CopyUnderWay(q)' <=> CopyUnderWay(q)
                             /\ busy'[q] /\ at[q] = Copying => busy[q] /\ plan'[q] = plan[q]
        BY <2>1 DEF CopyUnderWay, SchemaTypeOK
      <3> QED  BY <2>1, <3>1 DEF OneCopy
    <2>2. CASE at[p] = Copying
      <3> SUFFICES ASSUME ~overlap'  PROVE OneCopy'
        BY DEF OneCopy
      <3>1. ~overlap /\ \A q \in Procs : ~CopyUnderWay(q)  BY <2>2
      <3>2. \A q \in Procs \ {p} : ~CopyUnderWay(q)'
        BY <3>1 DEF CopyUnderWay, SchemaTypeOK
      <3>3. \A r \in plan'[p] : copies[r] = 0
        BY <2>2 DEF Adds, Missing, SchemaTypeOK
      <3>4. \A q \in Procs : orphan[q] # Copying
        BY <3>1 DEF CopyUnderWay
      <3> QED  BY <3>1, <3>2, <3>3, <3>4 DEF OneCopy, CopyUnderWay
    <2> QED  BY <2>1, <2>2
  <1> QED  BY <1>3, <1>4, <1>5, <1>6

\* What a statement that takes effect does to the tables.
LEMMA CommitsEffect ==
    ASSUME SchemaAssumption, SchemaInv, NEW n \in 1 .. Applied - 1, NEW adds,
           adds \subseteq (IF n = Copying THEN StatusRows ELSE Tables),
           Commits(n, adds)
    PROVE  /\ tables' \subseteq Tables
           /\ copies' \in [Rows -> Nat]
           /\ \A r \in Rows : copies[r] > 0 => copies'[r] > 0
           /\ \A r \in LoadRows : copies'[r] = 0
           /\ n = Copying => \A r \in adds : copies'[r] > 0
           /\ \A r \in Rows : /\ n # Copying => copies'[r] = copies[r]
                              /\ r \notin adds => copies'[r] = copies[r]
                              /\ copies[r] = 0 => copies'[r] <= 1
  <1>1. copies \in [Rows -> Nat] /\ tables \subseteq Tables
        /\ \A r \in LoadRows : r \in Rows /\ copies[r] = 0
    BY DEF SchemaInv, SchemaTypeOK, CarriedOK, Rows
  <1>2. CASE n = Copying
    <2>1. copies' = [r \in Rows |-> IF r \in adds THEN copies[r] + 1 ELSE copies[r]]
          /\ tables' = tables
      BY <1>2 DEF Commits
    <2>2. adds \subseteq Rows /\ \A r \in LoadRows : r \notin adds
      BY <1>2 DEF Rows, SchemaAssumption
    <2> QED  BY <1>1, <1>2, <2>1, <2>2
  <1>3. CASE n # Copying
    BY <1>1, <1>3 DEF Commits
  <1> QED  BY <1>2, <1>3

LEMMA SucceedKeeps ==
    ASSUME SchemaAssumption, SchemaInv, NEW p \in Procs, Succeed(p)
    PROVE  SchemaInv'
  <1> USE DEF SchemaInv, Succeed
  <1>1. busy[p] /\ at[p] \in 1 .. Applied - 1
        /\ plan[p] \subseteq (IF at[p] = Copying THEN StatusRows ELSE Tables)
    BY DEF PlansOK
  <1>2. /\ tables' \subseteq Tables
        /\ copies' \in [Rows -> Nat]
        /\ \A r \in Rows : copies[r] > 0 => copies'[r] > 0
        /\ \A r \in LoadRows : copies'[r] = 0
        /\ at[p] = Copying => \A r \in plan[p] : copies'[r] > 0
        /\ \A r \in Rows : /\ at[p] # Copying => copies'[r] = copies[r]
                           /\ r \notin plan[p] => copies'[r] = copies[r]
                           /\ copies[r] = 0 => copies'[r] <= 1
    BY <1>1, CommitsEffect
  <1>3. SchemaTypeOK'
    <2>1. at' \in [Procs -> 0 .. Applied]  BY <1>1 DEF SchemaTypeOK, Applied
    <2> QED  BY <1>2, <2>1 DEF SchemaTypeOK
  <1>4. PlansOK'
    BY DEF PlansOK, SchemaTypeOK
  <1>5. CarriedOK'
    <2> SUFFICES ASSUME NEW q \in Procs, NEW r \in known[q]
                 PROVE  /\ at'[q] > Copying => copies'[r] > 0
                        /\ busy'[q] /\ at'[q] = Copying => r \in plan'[q] \/ copies'[r] > 0
      BY <1>2 DEF CarriedOK
    <2>1. r \in Rows  BY DEF SchemaTypeOK, Rows
    <2>2. CASE q # p
      <3>1. at'[q] = at[q] /\ busy'[q] = busy[q] /\ plan'[q] = plan[q]
        BY <2>2 DEF SchemaTypeOK
      <3> QED  BY <1>2, <2>1, <3>1 DEF CarriedOK
    <2>3. CASE q = p
      <3>1. at'[p] = at[p] + 1 /\ ~busy'[p]  BY DEF SchemaTypeOK
      <3>2. at[p] > Copying => copies[r] > 0  BY <2>3 DEF CarriedOK
      <3>3. at[p] = Copying => r \in plan[p] \/ copies[r] > 0
        BY <1>1, <2>3 DEF CarriedOK
      <3>4. at[p] >= Copying => copies'[r] > 0
        <4>1. CASE at[p] = Copying  BY <1>2, <2>1, <3>3, <4>1
        <4>2. CASE at[p] > Copying  BY <1>2, <2>1, <3>2, <4>2
        <4> QED  BY <1>1, <4>1, <4>2 DEF Copying
      <3> QED  BY <1>1, <2>3, <3>1, <3>4 DEF Copying
    <2> QED  BY <2>2, <2>3
  <1>6. OneCopy'
    <2> SUFFICES ASSUME ~overlap  PROVE OneCopy'
      BY DEF OneCopy
    <2>1. \A q \in Procs : /\ CopyUnderWay(q)' => CopyUnderWay(q)
                           /\ busy'[q] => busy[q] /\ q # p /\ at'[q] = at[q] /\ plan'[q] = plan[q]
      BY DEF CopyUnderWay, SchemaTypeOK
    <2>2. CASE at[p] # Copying
      BY <1>2, <2>1, <2>2 DEF OneCopy, SchemaTypeOK, PlansOK, Rows
    <2>3. CASE at[p] = Copying
      <3>1. CopyUnderWay(p) /\ \A q \in Procs : CopyUnderWay(q) => q = p
        BY <1>1, <2>3 DEF OneCopy, CopyUnderWay
      <3>2. orphan[p] # Copying /\ \A r \in plan[p] : copies[r] = 0
        BY <1>1, <2>3 DEF OneCopy
      <3>3. \A q \in Procs : ~CopyUnderWay(q)'
        BY <2>1, <3>1, <3>2 DEF CopyUnderWay
      <3>4. \A r \in Rows : copies'[r] <= 1
        <4> TAKE r \in Rows
        <4>1. CASE r \in plan[p]  BY <1>2, <3>2, <4>1
        <4>2. CASE r \notin plan[p]  BY <1>2, <4>2 DEF OneCopy
        <4> QED  BY <4>1, <4>2
      <3> QED  BY <3>3, <3>4 DEF OneCopy, CopyUnderWay
    <2> QED  BY <2>2, <2>3
  <1> QED  BY <1>3, <1>4, <1>5, <1>6

\* A process that exits, whether its statement fails or goes on without it.
LEMMA AbandonKeeps ==
    ASSUME SchemaAssumption, SchemaInv, NEW p \in Procs, Abandon(p) \/ Collide(p)
    PROVE  SchemaInv'
  <1> USE DEF SchemaInv, GoDown, database
  <1>1. /\ at' = [at EXCEPT ![p] = Down] /\ busy' = [busy EXCEPT ![p] = FALSE]
        /\ plan' = [plan EXCEPT ![p] = {}]
        /\ UNCHANGED <<tables, load, copies, old, known, overlap>>
        /\ \/ UNCHANGED <<orphan, bequest>>
           \/ /\ busy[p] /\ orphan[p] = 0
              /\ orphan' = [orphan EXCEPT ![p] = at[p]]
              /\ bequest' = [bequest EXCEPT ![p] = plan[p]]
    BY DEF Abandon, Collide
  <1>2. busy[p] => at[p] \in 1 .. Applied - 1
                   /\ plan[p] \subseteq (IF at[p] = Copying THEN StatusRows ELSE Tables)
    BY DEF PlansOK
  <1>3. SchemaTypeOK'
    <2>1. at' \in [Procs -> 0 .. Applied]  BY <1>1 DEF SchemaTypeOK, Applied, Down
    <2>2. orphan' \in [Procs -> 0 .. Applied - 1]
      BY <1>1, <1>2 DEF SchemaTypeOK, Applied
    <2>3. bequest' \in [Procs -> SUBSET (Tables \union Rows)]
      BY <1>1 DEF SchemaTypeOK
    <2> QED  BY <1>1, <2>1, <2>2, <2>3 DEF SchemaTypeOK
  <1>4. PlansOK'
    <2> SUFFICES ASSUME NEW q \in Procs
                 PROVE  /\ busy'[q] => busy[q] /\ at'[q] = at[q] /\ plan'[q] = plan[q]
                        /\ orphan'[q] # 0 =>
                              bequest'[q] \subseteq (IF orphan'[q] = Copying THEN StatusRows ELSE Tables)
      BY DEF PlansOK
    <2>1. busy'[q] => busy[q] /\ at'[q] = at[q] /\ plan'[q] = plan[q]
      BY <1>1 DEF SchemaTypeOK
    <2>2. CASE orphan'[q] = orphan[q] /\ bequest'[q] = bequest[q]
      BY <2>1, <2>2 DEF PlansOK
    <2>3. CASE q = p /\ busy[p] /\ orphan'[p] = at[p] /\ bequest'[p] = plan[p]
      BY <1>2, <2>1, <2>3
    <2> QED  BY <1>1, <2>2, <2>3 DEF SchemaTypeOK
  <1>5. CarriedOK'
    BY <1>1 DEF CarriedOK, SchemaTypeOK, Down, Copying
  <1>6. OneCopy'
    <2> SUFFICES ASSUME ~overlap  PROVE OneCopy'
      BY <1>1 DEF OneCopy
    <2>1. \A q \in Procs : CopyUnderWay(q)' => CopyUnderWay(q)
      BY <1>1 DEF CopyUnderWay, SchemaTypeOK
    <2>2. ASSUME NEW q \in Procs
          PROVE  /\ busy'[q] /\ at'[q] = Copying =>
                       orphan'[q] # Copying /\ \A r \in plan'[q] : copies[r] = 0
                 /\ orphan'[q] = Copying => \A r \in bequest'[q] : copies[r] = 0
      <3>1. busy'[q] => q # p /\ busy[q] /\ at'[q] = at[q] /\ plan'[q] = plan[q]
                        /\ orphan'[q] = orphan[q]
        BY <1>1 DEF SchemaTypeOK
      <3>2. CASE orphan'[q] = orphan[q] /\ bequest'[q] = bequest[q]
        BY <3>1, <3>2 DEF OneCopy
      <3>3. CASE q = p /\ busy[p] /\ orphan'[p] = at[p] /\ bequest'[p] = plan[p]
        BY <3>1, <3>3 DEF OneCopy
      <3> QED  BY <1>1, <3>2, <3>3 DEF SchemaTypeOK
    <2> QED  BY <1>1, <2>1, <2>2 DEF OneCopy
  <1> QED  BY <1>3, <1>4, <1>5, <1>6

LEMMA OrphanEndsKeeps ==
    ASSUME SchemaAssumption, SchemaInv, NEW p \in Procs, OrphanEnds(p)
    PROVE  SchemaInv'
  <1> USE DEF SchemaInv, OrphanEnds
  <1>1. orphan[p] \in 1 .. Applied - 1
        /\ bequest[p] \subseteq (IF orphan[p] = Copying THEN StatusRows ELSE Tables)
    BY DEF PlansOK, SchemaTypeOK, Applied
  <1>2. /\ tables' \subseteq Tables
        /\ copies' \in [Rows -> Nat]
        /\ \A r \in Rows : copies[r] > 0 => copies'[r] > 0
        /\ \A r \in LoadRows : copies'[r] = 0
        /\ \A r \in Rows : /\ orphan[p] # Copying => copies'[r] = copies[r]
                           /\ r \notin bequest[p] => copies'[r] = copies[r]
                           /\ copies[r] = 0 => copies'[r] <= 1
    <2>1. CASE Commits(orphan[p], bequest[p])  BY <1>1, <2>1, CommitsEffect
    <2>2. CASE UNCHANGED <<tables, copies>>
      BY <2>2 DEF SchemaTypeOK, CarriedOK, Rows
    <2> QED  BY <2>1, <2>2
  <1>3. SchemaTypeOK'
    <2>1. orphan' \in [Procs -> 0 .. Applied - 1]  BY DEF SchemaTypeOK, Applied
    <2> QED  BY <1>2, <2>1 DEF SchemaTypeOK
  <1>4. PlansOK'
    BY DEF PlansOK, SchemaTypeOK
  <1>5. CarriedOK'
    <2>1. \A q \in Procs : known[q] \subseteq Rows  BY DEF SchemaTypeOK, Rows
    <2> QED  BY <1>2, <2>1 DEF CarriedOK
  <1>6. OneCopy'
    <2> SUFFICES ASSUME ~overlap  PROVE OneCopy'
      BY DEF OneCopy
    <2>1. \A q \in Procs : /\ CopyUnderWay(q)' => CopyUnderWay(q)
                           /\ orphan'[q] = Copying => q # p /\ orphan'[q] = orphan[q]
                                                      /\ bequest'[q] = bequest[q]
      BY DEF CopyUnderWay, SchemaTypeOK, Copying
    <2>2. CASE orphan[p] # Copying
      BY <1>2, <2>1, <2>2 DEF OneCopy, SchemaTypeOK, PlansOK, Rows
    <2>3. CASE orphan[p] = Copying
      <3>1. CopyUnderWay(p) /\ \A q \in Procs : CopyUnderWay(q) => q = p
        BY <2>3 DEF OneCopy, CopyUnderWay
      <3>2. ~(busy[p] /\ at[p] = Copying) /\ \A r \in bequest[p] : copies[r] = 0
        BY <2>3 DEF OneCopy
      <3>3. \A q \in Procs : ~CopyUnderWay(q)'
        BY <2>1, <3>1, <3>2 DEF CopyUnderWay
      <3>4. \A r \in Rows : copies'[r] <= 1
        <4> TAKE r \in Rows
        <4>1. CASE r \in bequest[p]  BY <1>2, <3>2, <4>1
        <4>2. CASE r \notin bequest[p]  BY <1>2, <4>2 DEF OneCopy
        <4> QED  BY <4>1, <4>2
      <3> QED  BY <3>3, <3>4 DEF OneCopy, CopyUnderWay
    <2> QED  BY <2>2, <2>3
  <1> QED  BY <1>3, <1>4, <1>5, <1>6

LEMMA RestartKeeps ==
    ASSUME SchemaAssumption, SchemaInv, NEW p \in Procs, Restart(p)
    PROVE  SchemaInv'
  <1> USE DEF SchemaInv, Restart, database
  <1>1. SchemaTypeOK'
    <2>1. at' \in [Procs -> 0 .. Applied]  BY DEF SchemaTypeOK, Applied
    <2> QED  BY <2>1 DEF SchemaTypeOK
  <1>2. ~busy[p]  BY DEF PlansOK, Down
  <1>3. PlansOK'  BY <1>2 DEF PlansOK, SchemaTypeOK
  <1>4. CarriedOK'  BY <1>2 DEF CarriedOK, SchemaTypeOK, Copying
  <1>5. OneCopy'  BY <1>2 DEF OneCopy, CopyUnderWay, SchemaTypeOK
  <1> QED  BY <1>1, <1>3, <1>4, <1>5

LEMMA OthersKeep ==
    ASSUME SchemaAssumption, SchemaInv, Others
    PROVE  SchemaInv'
  <1>1. load' \subseteq Rows /\ old' \in BOOLEAN
        /\ UNCHANGED <<tables, copies, at, busy, plan, orphan, bequest, known, overlap>>
    BY DEF Others, OldLeaves, OldStatus, Workload, LoadEvent, SchemaInv, SchemaTypeOK, Rows
  <1>2. SchemaTypeOK'  BY <1>1 DEF SchemaInv, SchemaTypeOK
  <1>3. PlansOK'  BY <1>1 DEF SchemaInv, PlansOK
  <1>4. CarriedOK'  BY <1>1 DEF SchemaInv, CarriedOK
  <1>5. OneCopy'  BY <1>1 DEF SchemaInv, OneCopy, CopyUnderWay
  <1> QED  BY <1>2, <1>3, <1>4, <1>5 DEF SchemaInv

LEMMA SchemaStutter ==
    ASSUME SchemaInv, UNCHANGED schemaVars
    PROVE  SchemaInv'
  BY DEF schemaVars, SchemaInv, SchemaTypeOK, PlansOK, CarriedOK, OneCopy, CopyUnderWay

\* The inductive invariant of the schema.
THEOREM SchemaInvariant == SchemaSpec => []SchemaInv
  <1>1. SchemaInit => SchemaInv  BY SchemaInitially, SchemaAssumption
  <1>2. SchemaInv /\ [SchemaNext]_schemaVars => SchemaInv'
    BY BeginKeeps, SucceedKeeps, AbandonKeeps, OrphanEndsKeeps, RestartKeeps, OthersKeep,
       SchemaStutter, SchemaAssumption DEF SchemaNext, Apply
  <1> QED  BY <1>1, <1>2, PTL DEF SchemaSpec

\* Whatever a process knew when its copy began has been carried over once it
\* serves, and no workload row ever is.
THEOREM StatusesCarried == SchemaSpec => []StatusesAreCarriedOver
  <1>1. SchemaInv => StatusesAreCarriedOver
    BY DEF SchemaInv, CarriedOK, StatusesAreCarriedOver, Applied, Copying
  <1> QED  BY <1>1, SchemaInvariant, PTL

\* Without two copies under way at once no status is copied twice.
THEOREM CopiesAreSingle == SchemaSpec => []CopiedOnce
  <1>1. SchemaInv => CopiedOnce
    BY DEF SchemaInv, OneCopy, CopiedOnce
  <1> QED  BY <1>1, SchemaInvariant, PTL

--------------------------------------------------------------------------------
(* The process implements the schema: every step is a step of SchemaNext   *)
(* or leaves the schema alone.                                             *)

LEMMA DieImplements ==
    ASSUME ServiceAssumption, NEW end, Die(end)
    PROVE  [SchemaNext]_schemaVars
  BY DEF Die, ServiceAssumption, SchemaNext

LEMMA ServiceImplements ==
    ASSUME ServiceAssumption, ServiceNext
    PROVE  [SchemaNext]_schemaVars
  <1> USE DEF ServiceAssumption
  <1>1. ASSUME Boot  PROVE [SchemaNext]_schemaVars
    <2>1. ASSUME NEW call, BootCall(call)  PROVE [SchemaNext]_schemaVars
      BY <2>1, DieImplements DEF BootCall
    <2>2. ASSUME ApplySchema  PROVE [SchemaNext]_schemaVars
      BY <2>2, DieImplements DEF ApplySchema, SchemaNext, Apply
    <2> QED  BY <1>1, <2>1, <2>2 DEF Boot
  <1>2. ASSUME Close \/ Crash  PROVE [SchemaNext]_schemaVars
    BY <1>2, DieImplements DEF Close, Crash
  <1>3. ASSUME StartAgain  PROVE [SchemaNext]_schemaVars
    BY <1>3 DEF StartAgain, SchemaNext
  <1>4. ASSUME Wake \/ ShutdownReturns \/ Signal \/ ServerFails
        PROVE  [SchemaNext]_schemaVars
    BY <1>4 DEF Wake, ShutdownReturns, AfterShutdown, Signal, ServerFails, Cancel
  <1>5. ASSUME NEW c \in Requests, Arrive(c) \/ Borrow(c) \/ GiveBack(c) \/ Answered(c)
        PROVE  [SchemaNext]_schemaVars
    BY <1>5 DEF Arrive, Borrow, GiveBack, Answered
  <1>6. ASSUME NEW p \in Procs, Peer(p) \/ PeerFails(p)  PROVE [SchemaNext]_schemaVars
    BY <1>6 DEF Peer, PeerFails, SchemaNext
  <1>7. ASSUME Database  PROVE [SchemaNext]_schemaVars
    BY <1>7 DEF Database, SchemaNext
  <1> QED  BY <1>1, <1>2, <1>3, <1>4, <1>5, <1>6, <1>7 DEF ServiceNext, ServiceMain

\* The pool leaves the schema and the rest of the process alone.
LEMMA PoolApart ==
    ASSUME Pool \/ \E i \in Slots : Consume(i)
    PROVE  UNCHANGED outside
  BY DEF Pool, CreateConsumer, OnReady, PoolDone, PoolJoin, Consume, Take, Store,
         Answers, Handled, Send, Leave, Step

LEMMA NextImplements ==
    ASSUME ServiceAssumption, [Next]_vars
    PROVE  [SchemaNext]_schemaVars
  <1>1. CASE WithPool(ServiceNext)  BY <1>1, ServiceImplements DEF WithPool
  <1>2. CASE JoinPool  BY <1>2 DEF JoinPool
  <1>3. CASE Pool \/ \E i \in Slots : Consume(i)  BY <1>3, PoolApart DEF outside
  <1>4. CASE UNCHANGED vars  BY <1>4 DEF vars
  <1> QED  BY <1>1, <1>2, <1>3, <1>4 DEF Next

\* A Worker, API or UI in its process applies the schema as SchemaSpec says, next
\* to whoever else does.
THEOREM PoolImplementsSchema == Spec => SchemaSpec
  <1>1. Init => SchemaInit  BY DEF Init, ServiceInit
  <1>2. [Next]_vars => [SchemaNext]_schemaVars
    BY ServiceAssumption, NextImplements
  <1> QED  BY <1>1, <1>2, PTL DEF Spec, SchemaSpec

--------------------------------------------------------------------------------
(* The process: types, MainOK, and what the pool has to know of main.      *)

ProcessStep ==
    /\ service' = service
    /\ main' \in Mains
    /\ stage' \in 0 .. Len(Stages[service])
    /\ tries' \in 0 .. MaxTries - 1
    /\ ctxDone' \in BOOLEAN
    /\ listening' \in BOOLEAN
    /\ requests' \in [Requests -> RequestStates]
    /\ late' \in BOOLEAN
    /\ faults' \in 0 .. FaultLimit
    /\ MainOK'
    /\ main' = "booting" => main \in {"booting"} \union Ended
    /\ main' = "closing" => main = "closing" \/ service # "worker"

LEMMA StagesLen ==
    ASSUME ServiceAssumption, NEW s \in Services \union {Absent}
    PROVE  Len(Stages[s]) \in Nat /\ (s # Absent => Len(Stages[s]) > 0)
  <1>1. s \in {"worker", "api", "ui", "absent"}  BY DEF ServiceAssumption, Absent
  <1>2. CASE s = "worker"  BY <1>2 DEF Stages, Absent
  <1>3. CASE s = "api"  BY <1>3 DEF Stages, Absent
  <1>4. CASE s = "ui"  BY <1>4 DEF Stages, Absent
  <1>5. CASE s = "absent"  BY <1>5 DEF Stages, Absent
  <1> QED  BY <1>1, <1>2, <1>3, <1>4, <1>5

\* A failure is counted up to the bound.
LEMMA FaultType ==
    ASSUME ServiceAssumption, ProcessTypeOK, Fault
    PROVE  faults' \in 0 .. FaultLimit
  BY DEF ServiceAssumption, ProcessTypeOK, Fault, FaultLimit

\* A process that ends: its first state but for its program.
LEMMA EndKeeps ==
    ASSUME ServiceAssumption, ProcessTypeOK, NEW end \in Ended, EndProcess(end),
           main # "aborted" \/ service # Absent, MainOK, faults' \in 0 .. FaultLimit
    PROVE  ProcessStep
  <1>1. Len(Stages[service]) \in Nat  BY StagesLen DEF ProcessTypeOK
  <1>2. service # Absent  BY DEF MainOK
  <1>3. main' \in Ended /\ stage' = 0 /\ tries' = 0 /\ requests' = Quiet
        /\ listening' = FALSE /\ late' = FALSE /\ ctxDone' = FALSE /\ service' = service
    BY DEF EndProcess
  <1>4. Quiet \in [Requests -> RequestStates]  BY DEF Quiet, RequestStates
  <1>5. MainOK'  BY <1>2, <1>3 DEF MainOK, Ended
  <1>6. stage' \in 0 .. Len(Stages[service]) /\ tries' \in 0 .. MaxTries - 1
    BY <1>1, <1>3 DEF ServiceAssumption
  <1> QED  BY <1>3, <1>4, <1>5, <1>6 DEF ProcessStep, Ended, Mains

LEMMA AdvanceKeeps ==
    ASSUME ServiceAssumption, ProcessTypeOK, MainOK, main = "booting", Advance,
           UNCHANGED faults
    PROVE  ProcessStep
  <1>1. Len(Stages[service]) \in Nat /\ stage < Len(Stages[service]) /\ stage \in Nat
    BY StagesLen DEF ProcessTypeOK, MainOK
  <1>2. service # Absent  BY DEF MainOK
  <1>3. stage' = stage + 1 /\ tries' = 0 /\ UNCHANGED <<service, ctxDone, requests, late>>
        /\ \/ main' = "serving" /\ listening' = TRUE
           \/ main' = "booting" /\ stage' # Len(Stages[service]) /\ listening' = FALSE
    BY DEF Advance
  <1>4. stage' \in 0 .. Len(Stages[service])
        /\ (main' = "booting" => stage' < Len(Stages[service]))
    BY <1>1, <1>3
  <1>5. tries' \in 0 .. MaxTries - 1  BY <1>3 DEF ServiceAssumption
  <1>6. MainOK'  BY <1>2, <1>3, <1>4 DEF MainOK, Ended
  <1>7. main' \in Mains /\ listening' \in BOOLEAN  BY <1>3 DEF Mains
  <1> QED  BY <1>3, <1>4, <1>5, <1>6, <1>7 DEF ProcessStep, ProcessTypeOK, FaultLimit

\* A step that leaves main, its stage and its attempts alone and lets no request
\* in behind Shutdown's back.
LEMMA SameKeeps ==
    ASSUME ProcessTypeOK, MainOK,
           UNCHANGED <<service, main, stage, tries, late>>,
           ctxDone' \in BOOLEAN, listening' \in BOOLEAN, listening' => listening,
           requests' \in [Requests -> RequestStates],
           (main \in {"joining", "closing"} /\ Drained) => Drained',
           faults' \in 0 .. FaultLimit
    PROVE  ProcessStep
  <1>1. MainOK'  BY DEF MainOK
  <1> QED  BY <1>1 DEF ProcessStep, ProcessTypeOK

LEMMA BootKeeps ==
    ASSUME ServiceAssumption, ProcessTypeOK, MainOK, Boot
    PROVE  ProcessStep
  <1> USE DEF Ended
  <1>1. ASSUME Failing  PROVE faults' \in 0 .. FaultLimit
    BY <1>1, FaultType DEF Failing, ProcessTypeOK
  <1>2. ASSUME NEW call, BootCall(call)  PROVE ProcessStep
    <2>1. main = "booting"  BY <1>2 DEF BootCall, Booting
    <2>2. CASE Advance /\ UNCHANGED <<schemaVars, faults>>
      BY <2>1, <2>2, AdvanceKeeps
    <2>3. CASE Failing /\ Die("aborted")
      <3>1. EndProcess("aborted")  BY <2>3 DEF Die
      <3> QED  BY <1>1, <2>1, <2>3, <3>1, EndKeeps
    <2>4. CASE /\ Failing /\ ~GivesUp /\ tries' = tries + 1
               /\ UNCHANGED <<service, main, stage, ctxDone, listening, requests, late>>
      <3>1. tries' \in 0 .. MaxTries - 1
        BY <2>4 DEF GivesUp, ProcessTypeOK, ServiceAssumption
      <3>2. MainOK'  BY <2>4 DEF MainOK, Drained
      <3> QED  BY <1>1, <2>4, <3>1, <3>2 DEF ProcessStep, ProcessTypeOK
    <2> QED  BY <1>2, <2>2, <2>3, <2>4 DEF BootCall
  <1>3. ASSUME ApplySchema  PROVE ProcessStep
    <2>1. main = "booting"  BY <1>3 DEF ApplySchema, Booting
    <2>2. CASE UNCHANGED <<processVars, faults>>
      BY <2>2, SameKeeps DEF processVars, ProcessTypeOK, Drained
    <2>3. CASE EndProcess("aborted") /\ UNCHANGED faults
      BY <2>1, <2>3, EndKeeps DEF ProcessTypeOK
    <2>4. CASE Failing /\ Die("aborted")
      <3>1. EndProcess("aborted")  BY <2>4 DEF Die
      <3> QED  BY <1>1, <2>1, <2>4, <3>1, EndKeeps
    <2>5. CASE Advance /\ UNCHANGED <<schemaVars, faults>>
      BY <2>1, <2>5, AdvanceKeeps
    <2> QED  BY <1>3, <2>2, <2>3, <2>4, <2>5 DEF ApplySchema
  <1> QED  BY <1>2, <1>3 DEF Boot

\* The way out: a signal, the shutdown of the server and the deferred calls.
LEMMA WayOutKeeps ==
    ASSUME ServiceAssumption, ProcessTypeOK, MainOK,
           Signal \/ ServerFails \/ Wake \/ ShutdownReturns \/ Close \/ Crash
    PROVE  ProcessStep
  <1>1. CASE Signal
    BY <1>1, SameKeeps DEF Signal, Cancel, Drained, ProcessTypeOK
  <1>2. CASE ServerFails
    BY <1>2, SameKeeps, FaultType DEF ServerFails, Cancel, Drained, ProcessTypeOK
  <1>3. CASE Wake
    <2>1. main' = "draining" /\ main = "serving" /\ listening' = FALSE
          /\ UNCHANGED <<service, stage, tries, ctxDone, requests, late, faults>>
      BY <1>3 DEF Wake
    <2>2. MainOK'  BY <2>1 DEF MainOK, Ended
    <2> QED  BY <2>1, <2>2 DEF ProcessStep, ProcessTypeOK, Mains
  <1>4. CASE ShutdownReturns
    <2>1. /\ main = "draining"
          /\ main' = (IF service = "worker" THEN "joining" ELSE "closing")
          /\ late' = ~Drained
          /\ UNCHANGED <<service, stage, tries, ctxDone, listening, requests, faults>>
      BY <1>4 DEF ShutdownReturns, AfterShutdown
    <2>2. late' \in BOOLEAN /\ (late' \/ Drained')
      BY <2>1 DEF Drained
    <2>3. MainOK'  BY <2>1, <2>2 DEF MainOK, Ended
    <2> QED  BY <2>1, <2>2, <2>3 DEF ProcessStep, ProcessTypeOK, Mains
  <1>5. CASE Close
    <2>1. main = "closing" /\ UNCHANGED faults  BY <1>5 DEF Close
    <2>2. CASE stage > 1 /\ stage' = stage - 1
               /\ UNCHANGED <<service, main, tries, ctxDone, listening, requests, late>>
      <3>1. Len(Stages[service]) \in Nat  BY StagesLen DEF ProcessTypeOK
      <3>2. stage' \in 0 .. Len(Stages[service])  BY <2>2, <3>1 DEF ProcessTypeOK
      <3>3. MainOK'  BY <2>1, <2>2 DEF MainOK, Drained, Ended
      <3> QED  BY <2>1, <2>2, <3>2, <3>3 DEF ProcessStep, ProcessTypeOK
    <2>3. CASE Die("exited")
      <3>1. EndProcess("exited")  BY <2>3 DEF Die
      <3> QED  BY <2>1, <3>1, EndKeeps DEF ProcessTypeOK, Ended
    <2> QED  BY <1>5, <2>2, <2>3 DEF Close
  <1>6. CASE Crash
    <2>1. EndProcess("aborted") /\ main \notin Ended /\ faults' \in 0 .. FaultLimit
      BY <1>6, FaultType DEF Crash, Die
    <2> QED  BY <2>1, EndKeeps DEF Ended
  <1> QED  BY <1>1, <1>2, <1>3, <1>4, <1>5, <1>6

LEMMA ServiceKeeps ==
    ASSUME ServiceAssumption, ProcessTypeOK, MainOK, ServiceNext
    PROVE  ProcessStep
  <1>1. ASSUME StartAgain  PROVE ProcessStep
    <2>1. /\ main \in Ended /\ service # Absent /\ main' = "booting" /\ stage = 0
          /\ UNCHANGED <<service, stage, tries, ctxDone, listening, requests, late, faults>>
      BY <1>1 DEF StartAgain, MainOK
    <2>2. Len(Stages[service]) > 0  BY <2>1, StagesLen DEF ProcessTypeOK
    <2>3. MainOK'  BY <2>1, <2>2 DEF MainOK, Ended
    <2> QED  BY <2>1, <2>3 DEF ProcessStep, ProcessTypeOK, Mains, Ended
  <1>2. ASSUME NEW c \in Requests, Arrive(c)  PROVE ProcessStep
    <2>1. /\ listening
          /\ requests' \in [Requests -> RequestStates]
          /\ UNCHANGED <<service, main, stage, tries, ctxDone, listening, late, faults>>
      BY <1>2 DEF Arrive, ProcessTypeOK, RequestStates
    <2>2. main = "serving"  BY <2>1 DEF MainOK
    <2> QED  BY <2>1, <2>2, SameKeeps DEF ProcessTypeOK
  <1>3. ASSUME NEW c \in Requests, Borrow(c) \/ GiveBack(c) \/ Answered(c)
        PROVE  ProcessStep
    <2>1. /\ requests' \in [Requests -> RequestStates]
          /\ UNCHANGED <<service, main, stage, tries, ctxDone, listening, late, faults>>
          /\ ~Drained
      BY <1>3 DEF Borrow, GiveBack, Answered, ProcessTypeOK, RequestStates, Pools, Drained,
         Quiet
    <2> QED  BY <2>1, SameKeeps DEF ProcessTypeOK
  <1>4. ASSUME UNCHANGED processVars, faults' \in 0 .. FaultLimit  PROVE ProcessStep
    BY <1>4, SameKeeps DEF processVars, ProcessTypeOK, Drained
  <1>5. ASSUME NEW p \in Procs, Peer(p) \/ PeerFails(p)  PROVE ProcessStep
    BY <1>4, <1>5, FaultType DEF Peer, PeerFails, ProcessTypeOK, processVars
  <1>6. ASSUME Database  PROVE ProcessStep
    BY <1>4, <1>6 DEF Database, ProcessTypeOK, processVars
  <1> QED  BY <1>1, <1>2, <1>3, <1>5, <1>6, BootKeeps, WayOutKeeps DEF ServiceNext, ServiceMain

\* The process context is cancelled for good, until the process ends.
LEMMA ContextStep ==
    ASSUME MainOK, ServiceNext
    PROVE  \/ ctxDone' = ctxDone
           \/ ctxDone' = TRUE /\ main' \notin Ended
           \/ ctxDone' = FALSE /\ main' \in Ended
  <1>1. ASSUME NEW end \in Ended, EndProcess(end)  PROVE ctxDone' = FALSE /\ main' \in Ended
    BY <1>1 DEF EndProcess
  <1>2. ASSUME Boot  PROVE ctxDone' = ctxDone \/ (ctxDone' = FALSE /\ main' \in Ended)
    <2>1. ASSUME NEW call, BootCall(call)
          PROVE  ctxDone' = ctxDone \/ (ctxDone' = FALSE /\ main' \in Ended)
      BY <1>1, <2>1 DEF BootCall, Advance, Die, Ended
    <2>2. ASSUME ApplySchema
          PROVE  ctxDone' = ctxDone \/ (ctxDone' = FALSE /\ main' \in Ended)
      BY <1>1, <2>2 DEF ApplySchema, Advance, Die, Ended, processVars
    <2> QED  BY <1>2, <2>1, <2>2 DEF Boot
  <1>3. ASSUME Close \/ Crash  PROVE ctxDone' = ctxDone \/ (ctxDone' = FALSE /\ main' \in Ended)
    BY <1>1, <1>3 DEF Close, Crash, Die, Ended
  <1>4. ASSUME Wake \/ ShutdownReturns \/ StartAgain  PROVE ctxDone' = ctxDone
    BY <1>4 DEF Wake, ShutdownReturns, AfterShutdown, StartAgain
  <1>5. ASSUME Signal \/ ServerFails  PROVE ctxDone' = TRUE /\ main' \notin Ended
    BY <1>5 DEF Signal, ServerFails, Cancel, MainOK, Ended
  <1>6. ASSUME NEW c \in Requests, Arrive(c) \/ Borrow(c) \/ GiveBack(c) \/ Answered(c)
        PROVE  ctxDone' = ctxDone
    BY <1>6 DEF Arrive, Borrow, GiveBack, Answered
  <1>7. ASSUME NEW p \in Procs, Peer(p) \/ PeerFails(p)  PROVE ctxDone' = ctxDone
    BY <1>7 DEF Peer, PeerFails, processVars
  <1>8. ASSUME Database  PROVE ctxDone' = ctxDone
    BY <1>8 DEF Database, processVars
  <1> QED
    BY <1>2, <1>3, <1>4, <1>5, <1>6, <1>7, <1>8 DEF ServiceNext, ServiceMain

--------------------------------------------------------------------------------
(* The pool.                                                               *)

PoolTypeOK ==
    /\ pool \in {"off", "creating", "waiting", "joining", "returned"}
    /\ made \in 0 .. WorkerCount
    /\ attempts \in 0 .. MaxTries - 1
    /\ consumer \in [Slots -> ConsumerStates]
    /\ errCh \in 0 .. WorkerCount
    /\ verdict \in {"none", "nil", "error"}
    /\ ready \in BOOLEAN

\* The pool before the server runs.
LEMMA OffType ==
    ASSUME ServiceAssumption, PoolAssumption
    PROVE  /\ 0 \in 0 .. WorkerCount /\ 0 \in 0 .. MaxTries - 1
           /\ NoConsumer \in [Slots -> ConsumerStates]
           /\ \A i \in Slots : i \in Nat /\ i < WorkerCount /\ ~(i < 0)
           /\ 0 # WorkerCount
  <1>1. WorkerCount \in Nat \ {0} /\ MaxTries \in Nat \ {0}
    BY DEF ServiceAssumption, PoolAssumption
  <1>2. \A i \in Slots : i \in Nat /\ i < WorkerCount /\ ~(i < 0)  BY <1>1 DEF Slots
  <1> QED  BY <1>1, <1>2 DEF NoConsumer, ConsumerStates

LEMMA PoolInitially ==
    ASSUME SchemaAssumption, ServiceAssumption, PoolAssumption, Init
    PROVE  IInv
  <1> USE DEF Init, ServiceInit
  <1>1. SchemaInv  BY SchemaInitially
  <1>2. Len(Stages[service]) \in Nat /\ (service # Absent => Len(Stages[service]) > 0)
    BY StagesLen
  <1>3. ProcessTypeOK
    <2>1. requests \in [Requests -> RequestStates]  BY DEF Quiet, RequestStates
    <2>2. tries \in 0 .. MaxTries - 1 /\ faults \in 0 .. FaultLimit
      BY DEF ServiceAssumption, FaultLimit
    <2>3. stage \in 0 .. Len(Stages[service]) /\ main \in Mains
      BY <1>2 DEF Mains, Ended
    <2> QED  BY <1>1, <2>1, <2>2, <2>3 DEF ProcessTypeOK, SchemaInv
  <1>4. PoolTypeOK  BY OffType DEF PoolTypeOK
  <1>5. MainOK  BY <1>2 DEF MainOK, Ended
  <1>6. PoolOK /\ FailureIsReported
    BY OffType DEF PoolOK, FailureIsReported, AllMade, NoConsumer
  <1> QED  BY <1>1, <1>3, <1>4, <1>5, <1>6 DEF IInv, TypeOK, PoolTypeOK

\* A step of the process: the pool starts, dies or goes on.
LEMMA WithPoolKeeps ==
    ASSUME ServiceAssumption, PoolAssumption, PoolTypeOK, MainOK, PoolOK, FailureIsReported,
           ProcessStep, WithPool(ServiceNext)
    PROVE  PoolTypeOK' /\ PoolOK' /\ FailureIsReported'
  <1>1. CASE StartPool /\ main' = "serving" /\ main = "booting"
    <2>1. pool = "off" /\ verdict = "none" /\ made = 0 /\ errCh = 0 /\ ~ready
          /\ pool' = "creating"
          /\ UNCHANGED <<made, attempts, consumer, errCh, verdict, ready>>
      BY <1>1 DEF StartPool, PoolOK, PoolTypeOK
    <2>2. \A i \in Slots : consumer'[i] = "none"
      BY <2>1, OffType DEF PoolOK
    <2>3. PoolOK'
      BY <1>1, <2>1, <2>2 DEF PoolOK, PoolTypeOK, AllMade, Over, Ended
    <2> QED  BY <2>1, <2>3 DEF PoolTypeOK, FailureIsReported
  <1>2. CASE ResetPool /\ main' \in Ended
    <2>1. pool' = "off" /\ made' = 0 /\ attempts' = 0 /\ consumer' = NoConsumer
          /\ errCh' = 0 /\ verdict' = "none" /\ ready' = FALSE
      BY <1>2 DEF ResetPool
    <2>2. PoolTypeOK'  BY <2>1, OffType DEF PoolTypeOK
    <2>3. PoolOK'
      BY <1>2, <2>1, OffType DEF PoolOK, NoConsumer, AllMade, Ended
    <2> QED  BY <2>1, <2>2, <2>3 DEF FailureIsReported
  <1>3. CASE UNCHANGED poolVars /\ main' \notin Ended
    <2>1. UNCHANGED <<pool, made, attempts, consumer, errCh, verdict, ready>>
      BY <1>3 DEF poolVars
    <2>2. main' = "booting" => pool = "off"  BY DEF ProcessStep, PoolOK
    <2>3. main' = "closing" /\ service' = "worker" => verdict # "none"
      BY DEF ProcessStep, PoolOK
    <2>4. ctxDone => ctxDone'
      BY <1>3, ContextStep DEF WithPool
    <2>5. PoolOK'
      BY <1>3, <2>1, <2>2, <2>3, <2>4 DEF PoolOK, AllMade, Over
    <2> QED  BY <2>1, <2>5 DEF PoolTypeOK, FailureIsReported, AllMade
  <1> QED  BY <1>1, <1>2, <1>3 DEF WithPool

LEMMA CreateKeeps ==
    ASSUME ServiceAssumption, PoolAssumption, PoolTypeOK, PoolOK, FailureIsReported,
           CreateConsumer
    PROVE  PoolTypeOK' /\ PoolOK' /\ FailureIsReported'
  <1>1. UNCHANGED <<main, service, ctxDone, errCh, ready>> /\ pool = "creating"
        /\ verdict = "none"
        /\ made < WorkerCount /\ ~ready
        /\ main \notin {"booting"} \union Ended
        /\ ~(main = "closing" /\ service = "worker")
    <2>1. UNCHANGED <<main, service, ctxDone, errCh, ready>> /\ pool = "creating"
          /\ made < WorkerCount
      BY DEF CreateConsumer, outside, processVars
    <2>2. verdict = "none" /\ main \notin {"booting"} \union Ended  BY <2>1 DEF PoolOK, PoolTypeOK
    <2>3. ~(main = "closing" /\ service = "worker")  BY <2>2 DEF PoolOK
    <2>4. ~ready  BY <2>1 DEF PoolOK, AllMade, PoolTypeOK
    <2> QED  BY <2>1, <2>2, <2>3, <2>4
  <1>2. made \in Slots /\ made \in Nat /\ made + 1 \in 0 .. WorkerCount /\ WorkerCount \in Nat
        /\ 0 \in 0 .. MaxTries - 1
    BY <1>1, OffType DEF PoolTypeOK, PoolAssumption, Slots
  <1>3. CASE /\ Start(made) /\ made' = made + 1 /\ attempts' = 0
             /\ UNCHANGED <<pool, verdict>>
    <2>1. consumer' = [consumer EXCEPT ![made] = "idle"]  BY <1>3 DEF Start
    <2>2. PoolTypeOK'
      BY <1>1, <1>2, <1>3, <2>1 DEF PoolTypeOK, ConsumerStates
    <2>3. \A i \in Slots : consumer'[i] # "none" <=> i < made'
      <3> TAKE i \in Slots
      <3>1. i \in Nat  BY OffType
      <3>2. consumer[i] # "none" <=> i < made  BY DEF PoolOK
      <3>3. CASE i = made  BY <1>2, <1>3, <2>1, <3>3 DEF PoolTypeOK
      <3>4. CASE i # made  BY <1>2, <1>3, <2>1, <3>1, <3>2, <3>4 DEF PoolTypeOK
      <3> QED  BY <3>3, <3>4
    <2>4. (\E i \in Slots : consumer'[i] = "failed") <=> (\E i \in Slots : consumer[i] = "failed")
      <3>1. consumer[made] = "none"  BY <1>2 DEF PoolOK
      <3> QED  BY <2>1, <3>1 DEF PoolTypeOK
    <2>5. \A i \in Slots : consumer'[i] = "returned" => ctxDone'
      BY <1>1, <2>1 DEF PoolOK, PoolTypeOK
    <2>6. PoolOK'
      BY <1>1, <1>3, <2>3, <2>4, <2>5 DEF PoolOK
    <2> QED  BY <1>1, <1>3, <2>2, <2>6 DEF FailureIsReported
  <1>4. CASE /\ attempts' \in 0 .. MaxTries - 1
             /\ \/ UNCHANGED <<pool, verdict>>
                \/ pool' = "returned" /\ verdict' = "error"
             /\ UNCHANGED <<made, consumer>>
    <2>1. ~AllMade /\ ~AllMade'  BY <1>1, <1>2, <1>4 DEF AllMade
    <2>2. PoolTypeOK'  BY <1>1, <1>4 DEF PoolTypeOK
    <2>3. PoolOK'  BY <1>1, <1>4, <2>1 DEF PoolOK
    <2>4. FailureIsReported'  BY <1>1, <1>4, <2>1 DEF FailureIsReported
    <2> QED  BY <2>2, <2>3, <2>4
  <1>5. attempts + 1 < MaxTries => attempts + 1 \in 0 .. MaxTries - 1
    BY DEF PoolTypeOK, ServiceAssumption
  <1> QED  BY <1>2, <1>3, <1>4, <1>5 DEF CreateConsumer

\* The pool is complete, is told to end and waits for its goroutines.
LEMMA JoinKeeps ==
    ASSUME PoolAssumption, PoolTypeOK, PoolOK, FailureIsReported,
           OnReady \/ PoolDone \/ PoolJoin
    PROVE  PoolTypeOK' /\ PoolOK' /\ FailureIsReported'
  <1>1. UNCHANGED <<main, service, ctxDone, made, attempts, consumer>> /\ verdict = "none"
        /\ pool \notin {"off", "returned"}
        /\ main \notin {"booting"} \union Ended
        /\ ~(main = "closing" /\ service = "worker")
    <2>1. UNCHANGED <<main, service, ctxDone, made, attempts, consumer>>
          /\ pool \in {"creating", "waiting", "joining"}
      BY DEF OnReady, PoolDone, PoolJoin, outside, processVars
    <2>2. verdict = "none" /\ main \notin {"booting"} \union Ended
      BY <2>1 DEF PoolOK, PoolTypeOK
    <2> QED  BY <2>1, <2>2 DEF PoolOK
  <1>2. CASE OnReady
    <2>1. PoolTypeOK'  BY <1>1, <1>2 DEF OnReady, PoolTypeOK
    <2>2. PoolOK'  BY <1>1, <1>2 DEF OnReady, PoolOK, AllMade
    <2> QED  BY <1>1, <1>2, <2>1, <2>2 DEF OnReady, FailureIsReported
  <1>3. CASE PoolDone
    <2>1. PoolTypeOK'  BY <1>1, <1>3 DEF PoolDone, PoolTypeOK
    <2>2. PoolOK'  BY <1>1, <1>3 DEF PoolDone, PoolOK, AllMade
    <2> QED  BY <1>1, <1>3, <2>1, <2>2 DEF PoolDone, FailureIsReported
  <1>4. CASE PoolJoin
    <2>1. /\ pool' = "returned" /\ verdict' = FirstError /\ ready' = ready
          /\ Joined /\ AllMade
          /\ errCh > 0 <=> \E i \in Slots : consumer[i] = "failed"
      BY <1>4 DEF PoolJoin, PoolOK
    <2>2. errCh' \in 0 .. WorkerCount
      BY <1>4 DEF PoolJoin, PoolTypeOK, PoolAssumption
    <2>3. verdict' \in {"nil", "error"} /\ (verdict' = "error" <=> errCh > 0)
      BY <2>1 DEF FirstError
    <2>4. PoolTypeOK'  BY <1>1, <2>1, <2>2, <2>3 DEF PoolTypeOK
    <2>5. AllMade' /\ \A i \in Slots : Over(i)'
      BY <1>1, <2>1 DEF AllMade, Joined, Over
    <2>6. PoolOK'  BY <1>1, <2>1, <2>3, <2>5 DEF PoolOK
    <2>7. FailureIsReported'  BY <1>1, <2>1, <2>3, <2>5 DEF FailureIsReported
    <2> QED  BY <2>4, <2>6, <2>7
  <1> QED  BY <1>2, <1>3, <1>4

\* A goroutine moves on, from a state that is neither the first nor a last one.
LEMMA ConsumeKeeps ==
    ASSUME PoolAssumption, PoolTypeOK, PoolOK, FailureIsReported,
           NEW i \in Slots, Consume(i)
    PROVE  PoolTypeOK' /\ PoolOK' /\ FailureIsReported'
  <1>1. PICK from \in {"idle", "busy", "storing", "sending"}, to \in ConsumerStates \ {"none"} :
          /\ Step(i, from, to)
          /\ \/ to # "failed" /\ errCh' = errCh
             \/ to = "failed" /\ errCh' = errCh + 1 /\ Room
          /\ to = "returned" => ctxDone
    BY DEF Consume, Take, Store, Answers, Handled, Send, Leave, ConsumerStates
  <1>2. /\ consumer[i] = from /\ consumer' = [consumer EXCEPT ![i] = to]
        /\ UNCHANGED <<main, service, ctxDone, pool, made, attempts, verdict, ready>>
    BY <1>1 DEF Step, outside, processVars
  <1>3. errCh' \in 0 .. WorkerCount /\ (to = "failed" => errCh' > 0)
    BY <1>1 DEF Room, PoolTypeOK, PoolAssumption
  <1>4. PoolTypeOK'  BY <1>2, <1>3 DEF PoolTypeOK
  <1>5. ~Over(i)  BY <1>2 DEF Over
  <1>6. pool # "off"
    <2>1. i \in Nat /\ ~(i < 0) /\ consumer[i] # "none"
      BY <1>2 DEF Slots, PoolAssumption
    <2> QED  BY <2>1 DEF PoolOK
  <1>7. pool = "returned" => ~AllMade /\ ~AllMade'
    BY <1>2, <1>5 DEF PoolOK, AllMade
  <1>8. (errCh > 0 <=> \E j \in Slots : consumer[j] = "failed") =>
           (errCh' > 0 <=> \E j \in Slots : consumer'[j] = "failed")
    <2>1. CASE to = "failed"
      BY <1>2, <1>3, <2>1 DEF PoolTypeOK
    <2>2. CASE to # "failed"
      <3>1. \A j \in Slots : consumer'[j] = "failed" <=> consumer[j] = "failed"
        BY <1>2, <2>2 DEF PoolTypeOK
      <3> QED  BY <1>1, <2>2, <3>1
    <2> QED  BY <2>1, <2>2
  <1>9. \A j \in Slots : consumer'[j] # "none" <=> consumer[j] # "none"
    BY <1>2 DEF PoolTypeOK
  <1>10. PoolOK'
    <2>1. pool # "returned" => (errCh' > 0 <=> \E j \in Slots : consumer'[j] = "failed")
      BY <1>8 DEF PoolOK
    <2>2. \A j \in Slots : consumer'[j] = "returned" => ctxDone'
      BY <1>1, <1>2 DEF PoolOK, PoolTypeOK
    <2> QED  BY <1>2, <1>6, <1>7, <1>9, <2>1, <2>2 DEF PoolOK, AllMade
  <1>11. FailureIsReported'
    BY <1>2, <1>7 DEF FailureIsReported, PoolOK
  <1> QED  BY <1>4, <1>10, <1>11

LEMMA JoinPoolKeeps ==
    ASSUME ServiceAssumption, ProcessTypeOK, MainOK, PoolTypeOK, PoolOK, FailureIsReported,
           JoinPool
    PROVE  ProcessTypeOK' /\ MainOK' /\ PoolTypeOK' /\ PoolOK' /\ FailureIsReported'
  <1>1. /\ main = "joining" /\ main' = "closing" /\ verdict # "none"
        /\ UNCHANGED <<schemaVars, service, stage, tries, ctxDone, listening, requests, late,
                       faults>>
        /\ UNCHANGED <<pool, made, attempts, consumer, errCh, verdict, ready>>
    BY DEF JoinPool, poolVars
  <1>2. ProcessTypeOK'
    BY <1>1 DEF ProcessTypeOK, schemaVars, SchemaTypeOK, FaultLimit, Mains
  <1>3. MainOK'  BY <1>1 DEF MainOK, Drained, Ended
  <1>4. PoolTypeOK' /\ FailureIsReported'
    BY <1>1 DEF PoolTypeOK, FailureIsReported, AllMade
  <1>5. PoolOK'  BY <1>1 DEF PoolOK, AllMade, Over, Ended
  <1> QED  BY <1>2, <1>3, <1>4, <1>5

LEMMA NextKeeps ==
    ASSUME SchemaAssumption, ServiceAssumption, PoolAssumption, IInv, [Next]_vars
    PROVE  IInv'
  <1>1. SchemaInv /\ ProcessTypeOK /\ PoolTypeOK /\ MainOK /\ PoolOK /\ FailureIsReported
    BY DEF IInv, TypeOK, PoolTypeOK
  <1>2. SchemaInv'
    <2>1. [SchemaNext]_schemaVars  BY NextImplements
    <2> QED  BY <1>1, <2>1, BeginKeeps, SucceedKeeps, AbandonKeeps, OrphanEndsKeeps,
                RestartKeeps, OthersKeep, SchemaStutter DEF SchemaNext, Apply
  <1>3. SchemaTypeOK'  BY <1>2 DEF SchemaInv
  <1>4. CASE WithPool(ServiceNext)
    <2>1. ProcessStep  BY <1>1, <1>4, ServiceKeeps DEF WithPool
    <2>2. ProcessTypeOK' /\ MainOK'
      BY <1>1, <1>3, <2>1 DEF ProcessStep, ProcessTypeOK, FaultLimit
    <2>3. PoolTypeOK' /\ PoolOK' /\ FailureIsReported'
      BY <1>1, <1>4, <2>1, WithPoolKeeps
    <2> QED  BY <1>2, <2>2, <2>3 DEF IInv, TypeOK, PoolTypeOK
  <1>5. CASE JoinPool
    BY <1>1, <1>2, <1>5, JoinPoolKeeps DEF IInv, TypeOK, PoolTypeOK
  <1>6. CASE Pool \/ \E i \in Slots : Consume(i)
    <2>1. UNCHANGED outside  BY <1>6, PoolApart
    <2>2. faults' \in 0 .. FaultLimit
      BY <1>1, <1>6, FaultType DEF Pool, CreateConsumer, OnReady, PoolDone, PoolJoin, Consume,
         Take, Store, Answers, Handled, Send, Leave, ProcessTypeOK
    <2>3. ProcessTypeOK' /\ MainOK'
      BY <1>1, <1>3, <2>1, <2>2 DEF outside, processVars, ProcessTypeOK, FaultLimit, MainOK,
         Drained
    <2>4. PoolTypeOK' /\ PoolOK' /\ FailureIsReported'
      BY <1>1, <1>6, CreateKeeps, JoinKeeps, ConsumeKeeps DEF Pool
    <2> QED  BY <1>2, <2>3, <2>4 DEF IInv, TypeOK, PoolTypeOK
  <1>7. CASE UNCHANGED vars
    <2>1. ProcessTypeOK' /\ MainOK'
      BY <1>1, <1>3, <1>7 DEF vars, processVars, ProcessTypeOK, FaultLimit, MainOK, Drained
    <2>2. PoolTypeOK' /\ PoolOK' /\ FailureIsReported'
      BY <1>1, <1>7 DEF vars, processVars, poolVars, PoolTypeOK, PoolOK, FailureIsReported,
         AllMade, Over
    <2> QED  BY <1>2, <2>1, <2>2 DEF IInv, TypeOK, PoolTypeOK
  <1> QED  BY <1>4, <1>5, <1>6, <1>7 DEF Next

\* The inductive invariant of the process and its pool.
THEOREM PoolInvariant == Spec => []IInv
  <1>1. Init => IInv
    BY PoolInitially, SchemaAssumption, ServiceAssumption, PoolAssumption
  <1>2. IInv /\ [Next]_vars => IInv'
    BY NextKeeps, SchemaAssumption, ServiceAssumption, PoolAssumption
  <1> QED  BY <1>1, <1>2, PTL DEF Spec

\* The variables of the process, its pool and the schema keep their types.
THEOREM TypeCorrect == Spec => []TypeOK
  <1>1. IInv => TypeOK  BY DEF IInv
  <1> QED  BY <1>1, PoolInvariant, PTL

\* No client is closed under a goroutine of a complete pool, nor under a request
\* that Shutdown has not given up.
THEOREM ClosedWhenDrained == Spec => []DrainBeforeClose
  <1>1. IInv => DrainBeforeClose
    <2> SUFFICES ASSUME IInv, main = "closing"
                 PROVE  /\ service = "worker" /\ AllMade => \A i \in Slots : Over(i)
                        /\ late \/ Drained
      BY DEF DrainBeforeClose
    <2>1. late \/ Drained  BY DEF IInv, MainOK
    <2>2. service = "worker" /\ AllMade => \A i \in Slots : Over(i)
      BY DEF IInv, PoolOK
    <2> QED  BY <2>1, <2>2
  <1> QED  BY <1>1, PoolInvariant, PTL

\* There are as many slots as consumers, and no more failures than slots.
LEMMA SlotsFinite ==
    ASSUME PoolAssumption
    PROVE  /\ IsFiniteSet(Slots) /\ Cardinality(Slots) = WorkerCount
           /\ \A S \in SUBSET Slots : /\ IsFiniteSet(S) /\ Cardinality(S) \in Nat
                                      /\ Cardinality(S) <= WorkerCount
  <1>1. 0 \in Int /\ WorkerCount \in Int /\ WorkerCount - 1 \in Int /\ WorkerCount >= 1
    BY DEF PoolAssumption
  <1>2. IsFiniteSet(Slots) /\ Cardinality(Slots) = WorkerCount
    BY <1>1, FS_Interval DEF Slots
  <1>3. ASSUME NEW S \in SUBSET Slots
        PROVE  IsFiniteSet(S) /\ Cardinality(S) \in Nat /\ Cardinality(S) <= WorkerCount
    BY <1>2, FS_Subset, FS_CardinalityType
  <1> QED  BY <1>2, <1>3

\* Failures are only ever added.
LEMMA FaultsGrow ==
    ASSUME ProcessTypeOK, ServiceNext
    PROVE  faults' \in Nat /\ faults <= faults'
  <1>1. faults \in Nat  BY DEF ProcessTypeOK
  <1>2. ASSUME Fault \/ UNCHANGED faults  PROVE faults' \in Nat /\ faults <= faults'
    BY <1>1, <1>2 DEF Fault
  <1>3. ASSUME Boot  PROVE Fault \/ UNCHANGED faults
    <2>1. ASSUME NEW call, BootCall(call)  PROVE Fault \/ UNCHANGED faults
      BY <2>1 DEF BootCall, Failing
    <2>2. ASSUME ApplySchema  PROVE Fault \/ UNCHANGED faults
      BY <2>2 DEF ApplySchema, Failing
    <2> QED  BY <1>3, <2>1, <2>2 DEF Boot
  <1>4. ASSUME Wake \/ ShutdownReturns \/ Close \/ StartAgain \/ Signal \/ ServerFails \/ Crash
               \/ Database
        PROVE  Fault \/ UNCHANGED faults
    BY <1>4 DEF Wake, ShutdownReturns, AfterShutdown, Close, StartAgain, Signal, ServerFails,
       Crash, Database
  <1>5. ASSUME NEW c \in Requests, Arrive(c) \/ Borrow(c) \/ GiveBack(c) \/ Answered(c)
        PROVE  UNCHANGED faults
    BY <1>5 DEF Arrive, Borrow, GiveBack, Answered
  <1>6. ASSUME NEW p \in Procs, Peer(p) \/ PeerFails(p)  PROVE Fault \/ UNCHANGED faults
    BY <1>6 DEF Peer, PeerFails
  <1> QED  BY <1>2, <1>3, <1>4, <1>5, <1>6 DEF ServiceNext, ServiceMain

\* A consumer is lost by a failure of its own, which LossesOK counts.
LEMMA LossesKept ==
    ASSUME PoolAssumption, IInv, LossesOK, [Next]_vars
    PROVE  LossesOK'
  <1>1. /\ IsFiniteSet(Lost) /\ Cardinality(Lost) \in Nat
        /\ faults \in Nat /\ Cardinality(Lost) <= faults
    BY SlotsFinite DEF Lost, IInv, TypeOK, ProcessTypeOK, LossesOK
  <1>2. ASSUME Lost' = Lost, faults' \in Nat, faults <= faults'  PROVE LossesOK'
    BY <1>1, <1>2 DEF LossesOK
  <1>3. CASE WithPool(ServiceNext)
    <2>1. faults' \in Nat /\ faults <= faults'
      BY <1>3, FaultsGrow DEF WithPool, IInv, TypeOK
    <2>2. CASE ResetPool
      <3>1. Lost' = {}  BY <2>2 DEF ResetPool, NoConsumer, Lost
      <3>2. Cardinality(Lost') = 0  BY <3>1, FS_EmptySet
      <3> QED  BY <2>1, <3>2 DEF LossesOK
    <2>3. CASE consumer' = consumer
      BY <1>2, <2>1, <2>3 DEF Lost
    <2> QED  BY <1>3, <2>2, <2>3 DEF WithPool, StartPool, poolVars
  <1>4. CASE JoinPool \/ OnReady \/ PoolDone \/ PoolJoin \/ UNCHANGED vars
    <2>1. UNCHANGED <<consumer, faults>>
      BY <1>4 DEF JoinPool, OnReady, PoolDone, PoolJoin, poolVars, vars
    <2> QED  BY <1>1, <1>2, <2>1 DEF Lost
  <1>5. CASE CreateConsumer
    <2>1. faults' \in Nat /\ faults <= faults'  BY <1>1, <1>5 DEF CreateConsumer, Fault
    <2>2. Lost' = Lost
      <3>1. CASE Start(made)
        <4>1. made \in Nat /\ WorkerCount \in Nat /\ made < WorkerCount
          BY <1>5 DEF CreateConsumer, IInv, TypeOK, PoolAssumption
        <4>2. made \in Slots /\ ~(made < made)  BY <4>1 DEF Slots
        <4>3. consumer[made] = "none"  BY <4>2 DEF IInv, PoolOK
        <4> QED  BY <3>1, <4>3 DEF Start, Lost, IInv, TypeOK
      <3>2. CASE consumer' = consumer  BY <3>2 DEF Lost
      <3> QED  BY <1>5, <3>1, <3>2 DEF CreateConsumer
    <2> QED  BY <1>2, <2>1, <2>2
  <1>6. ASSUME NEW i \in Slots, Consume(i)  PROVE LossesOK'
    <2>1. PICK from, to : /\ consumer[i] = from /\ consumer' = [consumer EXCEPT ![i] = to]
                          /\ \/ /\ from \in {"sending", "failed"} <=> to \in {"sending", "failed"}
                                /\ UNCHANGED faults
                             \/ from = "busy" /\ to = "sending" /\ faults' = faults + 1
      BY <1>6 DEF Consume, Take, Store, Answers, Handled, Send, Leave, Step, Fault
    <2>2. CASE UNCHANGED faults /\ (from \in {"sending", "failed"} <=> to \in {"sending", "failed"})
      <3>1. Lost' = Lost  BY <2>1, <2>2 DEF Lost, IInv, TypeOK
      <3> QED  BY <1>1, <1>2, <2>2, <3>1
    <2>3. CASE from = "busy" /\ to = "sending" /\ faults' = faults + 1
      <3>1. i \notin Lost /\ Lost' = Lost \union {i}
        BY <2>1, <2>3 DEF Lost, IInv, TypeOK
      <3>2. Cardinality(Lost \union {i}) = Cardinality(Lost) + 1
        BY <1>1, <3>1, FS_AddElement
      <3>3. Cardinality(Lost') <= faults'  BY <1>1, <2>3, <3>1, <3>2
      <3> QED  BY <3>3 DEF LossesOK
    <2> QED  BY <2>1, <2>2, <2>3
  <1> QED  BY <1>3, <1>4, <1>5, <1>6 DEF Next, Pool

\* At all times, each consumer that failed is owed to a failure of its own.
THEOREM LossesInvariant == Spec => []LossesOK
  <1>1. Init => LossesOK
    <2> SUFFICES ASSUME Init  PROVE LossesOK
      OBVIOUS
    <2>1. Lost = {} /\ faults = 0  BY DEF Init, ServiceInit, NoConsumer, Lost
    <2>2. Cardinality(Lost) = 0  BY <2>1, FS_EmptySet
    <2> QED  BY <2>1, <2>2 DEF LossesOK
  <1>2. IInv /\ LossesOK /\ [Next]_vars => LossesOK'
    BY LossesKept, PoolAssumption
  <1> QED  BY <1>1, <1>2, PoolInvariant, PTL DEF Spec

\* A consumer of a ready Worker that nobody has told to end reads, or is lost.
LEMMA ReadsOrLost ==
    ASSUME PoolAssumption, IInv, ready, ~ctxDone, NEW i \in Slots, ~Reading(i)
    PROVE  i \in Lost
  <1>1. i \in Nat /\ i < WorkerCount  BY DEF Slots, PoolAssumption
  <1>2. made = WorkerCount  BY DEF IInv, PoolOK, AllMade
  <1>3. consumer[i] \notin {"none", "returned"}  BY <1>1, <1>2 DEF IInv, PoolOK
  <1> QED  BY <1>3 DEF IInv, TypeOK, ConsumerStates, Reading, Lost

\* A ready Worker that is not told to end has not lost more consumers than there were
\* failures: all the others read, and one of them reads each queue which was dealt
\* more consumers than that.  A pool that gave up halfway is never ready.
THEOREM ReadyMeansServing == Spec => []ReadyServesQueues
  <1>1. IInv /\ LossesOK => ReadyServesQueues
    <2> SUFFICES ASSUME IInv, LossesOK  PROVE ReadyServesQueues
      OBVIOUS
    <2>1. /\ IsFiniteSet(Lost) /\ Cardinality(Lost) \in Nat
          /\ faults \in Nat /\ Cardinality(Lost) <= faults
      BY SlotsFinite, PoolAssumption DEF Lost, IInv, TypeOK, ProcessTypeOK, LossesOK
    <2>2. ASSUME NEW S \in SUBSET Lost
          PROVE  Cardinality(S) \in Nat /\ Cardinality(S) <= faults
      <3>1. Cardinality(S) \in Nat /\ Cardinality(S) <= Cardinality(Lost)
        BY <2>1, FS_Subset, FS_CardinalityType
      <3> QED  BY <2>1, <3>1
    <2>3. ASSUME ready, ~ctxDone
          PROVE  Cardinality({i \in Slots : ~Reading(i)}) <= faults
      <3>1. {i \in Slots : ~Reading(i)} \in SUBSET Lost
        BY <2>3, ReadsOrLost, PoolAssumption
      <3> QED  BY <2>2, <3>1
    <2>4. ASSUME ready, ~ctxDone, NEW q, Cardinality(DealtTo(q)) > faults
          PROVE  \E i \in DealtTo(q) : Reading(i)
      <3> SUFFICES ASSUME \A i \in DealtTo(q) : ~Reading(i)  PROVE FALSE
        OBVIOUS
      <3>1. DealtTo(q) \in SUBSET Lost
        BY <2>4, ReadsOrLost, PoolAssumption DEF DealtTo
      <3>2. Cardinality(DealtTo(q)) \in Nat /\ Cardinality(DealtTo(q)) <= faults
        BY <2>2, <3>1
      <3> QED  BY <2>1, <2>4, <3>2
    <2>5. verdict # "none" /\ ~AllMade => ~ready  BY DEF IInv, PoolOK
    <2> QED  BY <2>3, <2>4, <2>5 DEF ReadyServesQueues
  <1> QED  BY <1>1, PoolInvariant, LossesInvariant, PTL

\* The pool's answer is an error exactly when a consumer failed.
THEOREM ErrorsAreReported == Spec => []FailureIsReported
  <1>1. IInv => FailureIsReported  BY DEF IInv
  <1> QED  BY <1>1, PoolInvariant, PTL

\* What SchemaSpec promises holds of the processes.
THEOREM ProcessesCarryStatuses == Spec => [](StatusesAreCarriedOver /\ CopiedOnce)
  BY PoolImplementsSchema, StatusesCarried, CopiesAreSingle, PTL

--------------------------------------------------------------------------------
(* Each goroutine of the pool behaves as the Consume loop.                 *)

\* A step of the process or the pool is one of the loop, or not seen by it.
LEMMA GoroutineStep ==
    ASSUME PoolAssumption, IInv, NEW i \in Slots, [Next]_vars
    PROVE  [Goroutine(i)!LoopNext]_(Goroutine(i)!loopVars)
  <1>1. CASE UNCHANGED <<consumer, ctxDone>>
    BY <1>1 DEF Goroutine!loopVars, Loop
  <1>2. CASE WithPool(ServiceNext)
    <2>1. CASE main' \in Ended
      <3>1. Loop(i)' = "idle"
        BY <1>2, <2>1 DEF WithPool, ResetPool, Loop, NoConsumer, Ended
      <3>2. ctxDone' = FALSE \/ UNCHANGED ctxDone
        BY <1>2, <2>1, ContextStep DEF WithPool, IInv
      <3> QED  BY <3>1, <3>2 DEF Goroutine!LoopNext, Goroutine!Restart
    <2>2. CASE main' \notin Ended
      <3>1. consumer' = consumer
        BY <1>2, <2>2 DEF WithPool, StartPool, poolVars
      <3>2. ctxDone' = TRUE \/ UNCHANGED ctxDone
        BY <1>2, <2>2, ContextStep DEF WithPool, IInv
      <3>3. Loop(i)' = Loop(i)  BY <3>1 DEF Loop
      <3> QED
        BY <3>2, <3>3 DEF Goroutine!LoopNext, Goroutine!Cancel, Goroutine!loopVars
    <2> QED  BY <2>1, <2>2
  <1>3. CASE JoinPool \/ OnReady \/ PoolDone \/ PoolJoin \/ UNCHANGED vars
    BY <1>1, <1>3 DEF JoinPool, OnReady, PoolDone, PoolJoin, poolVars, outside, processVars, vars
  <1>4. CASE CreateConsumer
    <2>1. UNCHANGED ctxDone  BY <1>4 DEF CreateConsumer, outside, processVars
    <2>2. Loop(i)' = Loop(i)
      <3>1. CASE consumer' = [consumer EXCEPT ![made] = "idle"]
        <4>1. consumer \in [Slots -> ConsumerStates]
              /\ made \in Nat
          BY DEF IInv, TypeOK, PoolAssumption
        <4>2. i = made => consumer[i] = "none"
          <5>1. i = made => ~(i < made)  BY <4>1
          <5> QED  BY <5>1 DEF IInv, PoolOK
        <4>3. consumer'[i] = IF i = made THEN "idle" ELSE consumer[i]  BY <3>1, <4>1
        <4> QED  BY <4>2, <4>3 DEF Loop
      <3>2. CASE consumer' = consumer  BY <3>2 DEF Loop
      <3> QED  BY <1>4, <3>1, <3>2 DEF CreateConsumer, Start
    <2> QED  BY <2>1, <2>2 DEF Goroutine!loopVars
  <1>5. ASSUME NEW j \in Slots, Consume(j)
        PROVE  [Goroutine(i)!LoopNext]_(Goroutine(i)!loopVars)
    <2>1. PICK from, to : /\ Step(j, from, to)
                          /\ \/ from = "idle" /\ to = "busy"
                             \/ from = "busy" /\ to \in {"idle", "storing", "sending"}
                             \/ from = "storing" /\ to = "busy"
                             \/ from = "sending" /\ to = "failed"
                             \/ from = "idle" /\ to = "returned" /\ ctxDone
      BY <1>5 DEF Consume, Take, Store, Answers, Handled, Send, Leave
    <2>2. /\ consumer[j] = from /\ consumer' = [consumer EXCEPT ![j] = to]
          /\ UNCHANGED ctxDone
      BY <2>1 DEF Step, outside, processVars
    <2>3. consumer'[i] = IF i = j THEN to ELSE consumer[i]
      BY <2>2 DEF IInv, TypeOK
    <2>4. CASE i # j
      <3>1. Loop(i)' = Loop(i)  BY <2>3, <2>4 DEF Loop
      <3> QED  BY <2>2, <3>1 DEF Goroutine!loopVars
    <2>5. CASE i = j
      <3>1. consumer[i] = from /\ consumer'[i] = to  BY <2>2, <2>3, <2>5
      <3>2. \/ Loop(i) = "idle" /\ Loop(i)' = "busy"
            \/ Loop(i) = "busy" /\ Loop(i)' \in {"idle", "busy", "failed"}
            \/ Loop(i) = "failed" /\ Loop(i)' = "failed"
            \/ Loop(i) = "idle" /\ Loop(i)' = "returned" /\ ctxDone
        BY <2>1, <3>1 DEF Loop
      <3> QED
        BY <2>2, <3>2
        DEF Goroutine!LoopNext, Goroutine!Take, Goroutine!Done, Goroutine!Fail, Goroutine!Leave,
            Goroutine!Become, Goroutine!loopVars
    <2> QED  BY <2>4, <2>5
  <1> QED  BY <1>2, <1>3, <1>4, <1>5 DEF Next, Pool

\* Each consumer of the pool is to its process what a Consume goroutine is, through
\* signals, crashes, restarts and a pool that gives up halfway: it takes one delivery
\* at a time, ends only when cancelled or by an error, and begins again only with
\* another process.
THEOREM PoolKeepsContract == Spec => ConsumersKeepContract
  <1>1. ASSUME NEW i \in Slots  PROVE Spec => Goroutine(i)!LoopSpec
    <2>1. Init => Goroutine(i)!LoopInit
      BY <1>1 DEF Init, ServiceInit, NoConsumer, Loop, Goroutine!LoopInit
    <2>2. IInv /\ [Next]_vars => [Goroutine(i)!LoopNext]_(Goroutine(i)!loopVars)
      BY <1>1, GoroutineStep, PoolAssumption
    <2> QED  BY <2>1, <2>2, PoolInvariant, PTL DEF Spec, Goroutine!LoopSpec
  <1> QED  BY <1>1 DEF ConsumersKeepContract

--------------------------------------------------------------------------------
(* Nobody in the chain of waits is stuck.                                  *)

FailedSlots == {i \in Slots : consumer[i] = "failed"}

\* Where main can go, and what it takes with it.
LEMMA MainMoves ==
    ASSUME MainOK, ServiceNext
    PROVE  /\ service' = service
           /\ \/ main' = main
              \/ main' \in Ended
              \/ main = "booting" /\ main' = "serving"
              \/ main \in Ended /\ main' = "booting"
              \/ main = "serving" /\ main' = "draining" /\ ctxDone
              \/ main = "draining" /\ main' = IF service = "worker" THEN "joining" ELSE "closing"
  <1>1. ASSUME NEW end \in Ended, EndProcess(end)  PROVE service' = service /\ main' \in Ended
    BY <1>1 DEF EndProcess
  <1>2. ASSUME Boot
        PROVE  /\ service' = service
               /\ \/ main' = main \/ main' \in Ended
                  \/ main = "booting" /\ main' = "serving"
    <2>1. ASSUME NEW call, BootCall(call)
          PROVE  /\ service' = service
                 /\ \/ main' = main \/ main' \in Ended
                    \/ main = "booting" /\ main' = "serving"
      BY <1>1, <2>1 DEF BootCall, Booting, Advance, Die, Ended
    <2>2. ASSUME ApplySchema
          PROVE  /\ service' = service
                 /\ \/ main' = main \/ main' \in Ended
                    \/ main = "booting" /\ main' = "serving"
      BY <1>1, <2>2 DEF ApplySchema, Booting, Advance, Die, Ended, processVars
    <2> QED  BY <1>2, <2>1, <2>2 DEF Boot
  <1>3. ASSUME Close \/ Crash  PROVE service' = service /\ (main' = main \/ main' \in Ended)
    BY <1>1, <1>3 DEF Close, Crash, Die, Ended
  <1>4. ASSUME Signal \/ ServerFails \/ Database  PROVE service' = service /\ main' = main
    BY <1>4 DEF Signal, ServerFails, Cancel, Database, processVars
  <1>5. ASSUME NEW c \in Requests, Arrive(c) \/ Borrow(c) \/ GiveBack(c) \/ Answered(c)
        PROVE  service' = service /\ main' = main
    BY <1>5 DEF Arrive, Borrow, GiveBack, Answered
  <1>6. ASSUME NEW p \in Procs, Peer(p) \/ PeerFails(p)
        PROVE  service' = service /\ main' = main
    BY <1>6 DEF Peer, PeerFails, processVars
  <1>7. CASE Wake \/ ShutdownReturns \/ StartAgain
    BY <1>7 DEF Wake, ShutdownReturns, AfterShutdown, StartAgain
  <1> QED
    BY <1>2, <1>3, <1>4, <1>5, <1>6, <1>7 DEF ServiceNext, ServiceMain

\* The pool dies with the process only.
LEMMA ProcessWaits ==
    ASSUME PoolAssumption, IInv, WaitOK, WithPool(ServiceNext)
    PROVE  WaitOK'
  <1>0. /\ MainOK /\ PoolOK /\ errCh \in Nat
        /\ \A S \in SUBSET Slots : Cardinality(S) \in Nat
    BY SlotsFinite DEF IInv, TypeOK
  <1>1. /\ service' = service
        /\ \/ main' = main
           \/ main' \in Ended
           \/ main = "booting" /\ main' = "serving"
           \/ main \in Ended /\ main' = "booting"
           \/ main = "serving" /\ main' = "draining" /\ ctxDone
           \/ main = "draining" /\ main' = IF service = "worker" THEN "joining" ELSE "closing"
    BY <1>0, MainMoves DEF WithPool
  <1>2. \/ ctxDone' = ctxDone
        \/ ctxDone' = TRUE /\ main' \notin Ended
        \/ ctxDone' = FALSE /\ main' \in Ended
    BY <1>0, ContextStep DEF WithPool
  <1>3. CASE ResetPool /\ main' \in Ended
    <2>1. errCh' = 0 /\ pool' = "off"  BY <1>3 DEF ResetPool
    <2>2. Cardinality(FailedSlots') \in Nat  BY <1>0 DEF FailedSlots
    <2>3. errCh' <= Cardinality(FailedSlots')  BY <2>1, <2>2
    <2> QED  BY <1>3, <2>1, <2>3 DEF WaitOK, FailedSlots, Ended
  <1>4. CASE ~(main' \in Ended) /\ UNCHANGED <<consumer, errCh>>
             /\ (pool' = pool \/ pool' = "creating")
             /\ (main' = "serving" /\ main = "booting" /\ service = "worker" => pool' = "creating")
    <2>1. errCh' <= Cardinality(FailedSlots')  BY <1>4 DEF WaitOK, FailedSlots
    <2>2. main' \in {"serving", "draining", "joining", "closing"} /\ service' = "worker"
             => pool' # "off"
      BY <1>1, <1>4 DEF WaitOK, Ended
    <2>3. main' = "joining" => service' = "worker"
      BY <1>1 DEF WaitOK, Ended
    <2>4. pool' = "joining" \/ main' \in {"draining", "joining", "closing"} => ctxDone'
      BY <1>1, <1>2, <1>4 DEF WaitOK, Ended
    <2> QED  BY <2>1, <2>2, <2>3, <2>4 DEF WaitOK, FailedSlots
  <1> QED  BY <1>3, <1>4 DEF WithPool, StartPool, poolVars, Ended

\* A goroutine hands over one error, when it ends.
LEMMA GoroutineWaits ==
    ASSUME PoolAssumption, IInv, WaitOK, NEW i \in Slots, Consume(i)
    PROVE  WaitOK'
  <1>1. PICK from \in {"idle", "busy", "storing", "sending"}, to \in ConsumerStates \ {"none"} :
          /\ Step(i, from, to)
          /\ \/ to # "failed" /\ errCh' = errCh
             \/ to = "failed" /\ errCh' = errCh + 1
    BY DEF Consume, Take, Store, Answers, Handled, Send, Leave, ConsumerStates
  <1>2. /\ consumer[i] = from /\ consumer' = [consumer EXCEPT ![i] = to]
        /\ UNCHANGED <<main, service, ctxDone, pool>>
    BY <1>1 DEF Step, outside, processVars
  <1>3. errCh \in Nat /\ IsFiniteSet(FailedSlots) /\ Cardinality(FailedSlots) \in Nat
        /\ i \notin FailedSlots /\ errCh <= Cardinality(FailedSlots)
    BY <1>2, SlotsFinite DEF IInv, TypeOK, FailedSlots, WaitOK
  <1>4. errCh' <= Cardinality(FailedSlots')
    <2>1. CASE to # "failed"
      <3>1. FailedSlots' = FailedSlots
        BY <1>2, <2>1 DEF FailedSlots, IInv, TypeOK
      <3> QED  BY <1>1, <1>3, <2>1, <3>1
    <2>2. CASE to = "failed"
      <3>1. FailedSlots' = FailedSlots \union {i}
        BY <1>2, <2>2 DEF FailedSlots, IInv, TypeOK
      <3>2. Cardinality(FailedSlots \union {i}) = Cardinality(FailedSlots) + 1
        BY <1>3, FS_AddElement
      <3> QED  BY <1>1, <1>3, <2>2, <3>1, <3>2
    <2> QED  BY <2>1, <2>2
  <1> QED  BY <1>2, <1>4 DEF WaitOK, FailedSlots

\* startConsumers.
LEMMA PoolWaits ==
    ASSUME PoolAssumption, IInv, WaitOK, Pool
    PROVE  WaitOK'
  <1>0. /\ errCh \in Nat /\ Cardinality(FailedSlots) \in Nat
        /\ errCh <= Cardinality(FailedSlots)
    BY SlotsFinite DEF IInv, TypeOK, FailedSlots, WaitOK
  <1>1. UNCHANGED <<main, service, ctxDone>> /\ pool' # "off"
        /\ (pool' = "joining" => pool = "joining" \/ ctxDone)
    BY DEF Pool, CreateConsumer, OnReady, PoolDone, PoolJoin, outside, processVars
  <1>2. FailedSlots' = FailedSlots
    <2>1. CASE consumer' = consumer  BY <2>1 DEF FailedSlots
    <2>2. CASE CreateConsumer /\ Start(made)
      <3>1. made \in Nat /\ WorkerCount \in Nat /\ made < WorkerCount
        BY <2>2 DEF CreateConsumer, IInv, TypeOK, PoolAssumption
      <3>2. made \in Slots /\ ~(made < made)  BY <3>1 DEF Slots
      <3>3. consumer[made] = "none"  BY <3>2 DEF IInv, PoolOK
      <3> QED  BY <2>2, <3>3 DEF Start, FailedSlots, IInv, TypeOK
    <2> QED  BY <2>1, <2>2 DEF Pool, CreateConsumer, OnReady, PoolDone, PoolJoin
  <1>3. errCh' \in Nat /\ errCh' <= errCh
    BY <1>0 DEF Pool, CreateConsumer, OnReady, PoolDone, PoolJoin
  <1>4. errCh' <= Cardinality(FailedSlots')  BY <1>0, <1>2, <1>3
  <1> QED  BY <1>1, <1>4 DEF WaitOK, FailedSlots

\* With a goroutine that is still to hand over its error, errCh is not full.
LEMMA RoomForAll ==
    ASSUME PoolAssumption, IInv, WaitOK, NEW i \in Slots, consumer[i] = "sending"
    PROVE  Room
  <1>1. /\ IsFiniteSet(FailedSlots) /\ Cardinality(FailedSlots) \in Nat /\ i \notin FailedSlots
        /\ errCh <= Cardinality(FailedSlots) /\ errCh \in Nat /\ WorkerCount \in Nat
    BY SlotsFinite DEF FailedSlots, WaitOK, IInv, TypeOK, PoolAssumption
  <1>2. FailedSlots \union {i} \in SUBSET Slots  BY DEF FailedSlots
  <1>3. Cardinality(FailedSlots \union {i}) <= WorkerCount  BY <1>2, SlotsFinite
  <1>4. Cardinality(FailedSlots \union {i}) = Cardinality(FailedSlots) + 1
    BY <1>1, FS_AddElement
  <1>5. errCh < WorkerCount  BY <1>1, <1>3, <1>4
  <1> QED  BY <1>5 DEF Room

\* For every number of consumers and of failures among them: main waits only for a
\* pool that can still answer, and the pool only for goroutines that can end.
THEOREM NoDeadlock == Spec => []NobodyIsStuck
  <1>1. Init => WaitOK
    <2> SUFFICES ASSUME Init  PROVE WaitOK
      OBVIOUS
    <2>1. Cardinality(FailedSlots) \in Nat /\ errCh = 0
      BY SlotsFinite, PoolAssumption DEF Init, FailedSlots
    <2>2. errCh <= Cardinality(FailedSlots)  BY <2>1
    <2> QED  BY <2>2 DEF Init, ServiceInit, WaitOK, FailedSlots
  <1>2. IInv /\ WaitOK /\ [Next]_vars => WaitOK'
    <2> SUFFICES ASSUME IInv, WaitOK, [Next]_vars  PROVE WaitOK'
      OBVIOUS
    <2>1. CASE JoinPool
      BY <2>1 DEF JoinPool, WaitOK, poolVars
    <2>2. CASE UNCHANGED vars
      BY <2>2 DEF vars, poolVars, processVars, WaitOK
    <2> QED
      BY <2>1, <2>2, ProcessWaits, PoolWaits, GoroutineWaits, PoolAssumption DEF Next
  <1>3. IInv /\ WaitOK => NobodyIsStuck
    <2> SUFFICES ASSUME IInv, WaitOK  PROVE NobodyIsStuck
      OBVIOUS
    <2>1. \A i \in Slots : consumer[i] = "sending" => Room  BY RoomForAll, PoolAssumption
    <2>2. main = "joining" /\ verdict = "none" =>
             pool = "creating" \/ (pool \in {"waiting", "joining"} /\ ctxDone)
      BY DEF IInv, TypeOK, PoolOK, WaitOK
    <2>3. ASSUME pool = "joining", NEW i \in Slots  PROVE Over(i) \/ CanGo(i)
      <3>1. ctxDone  BY <2>3 DEF WaitOK
      <3>2. consumer[i] # "none"
        <4>1. i \in Nat /\ i < WorkerCount  BY PoolAssumption DEF Slots, PoolAssumption
        <4>2. made = WorkerCount  BY <2>3 DEF IInv, PoolOK, AllMade
        <4> QED  BY <4>1, <4>2 DEF IInv, PoolOK
      <3>3. consumer[i] \in ConsumerStates \ {"none"}
        BY <3>2 DEF IInv, TypeOK
      <3> QED  BY <2>1, <3>1, <3>3 DEF Over, CanGo, ConsumerStates
    <2> QED  BY <2>1, <2>2, <2>3 DEF NobodyIsStuck
  <1> QED  BY <1>1, <1>2, <1>3, PoolInvariant, PTL DEF Spec
================================================================================
