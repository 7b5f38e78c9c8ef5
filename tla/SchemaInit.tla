------------------------------ MODULE SchemaInit ------------------------------
(***************************************************************************)
(* InitSchema: every API and Worker process applies the same statements to *)
(* the same database whenever it starts, each in a transaction of its own. *)
(* The third copies the statuses an older version kept in load_events to   *)
(* scenario_events, while processes of that version, and workloads, may    *)
(* still be writing to load_events.                                        *)
(*                                                                         *)
(* Postgres runs READ COMMITTED: a statement acts on what it sees when it  *)
(* begins.  A table created meanwhile makes CREATE TABLE IF NOT EXISTS     *)
(* fail on the catalog's unique index; rows inserted meanwhile do not make *)
(* the copy fail.  A process whose statement failed exits and is started   *)
(* again; the statement of a process that died may still take effect.      *)
(***************************************************************************)
EXTENDS Integers, Sequences, FiniteSets

CONSTANTS
    Procs,          \* processes that apply the schema
    StatusRows,     \* rows of load_events with a status, of the older version
    LoadRows        \* rows a db_write workload inserts

ASSUME SchemaAssumption == StatusRows \intersect LoadRows = {}

Tables == {"load_events", "scenario_events", "chaos_events", "metrics_snapshots"}

\* splitSQLStatements(schema/postgres.sql).
Statements == <<"load_events", "scenario_events", "backfill", "chaos_events",
                "metrics_snapshots">>

Copying == 3        \* the place of the backfill
Applied == 6        \* InitSchema has returned nil
Down    == 0        \* the process has exited

Rows == StatusRows \union LoadRows

VARIABLES
    tables,     \* the tables that exist
    load,       \* rows of load_events
    copies,     \* how many times scenario_events holds each row
    old,        \* a process of the older version still runs
    at,         \* the statement each process is at
    busy,       \* it has sent that statement and waits
    plan,       \* what its statement is going to add
    orphan,     \* its previous incarnation left this statement under way: 0 if none
    bequest,    \* what that one is going to add
    known,      \* statuses that were in load_events when its copy began
    overlap     \* two copies were under way at once

schemaVars == <<tables, load, copies, old, at, busy, plan, orphan, bequest, known,
                overlap>>
database == <<tables, load, copies, old>>

SchemaTypeOK ==
    /\ tables \subseteq Tables
    /\ load \subseteq Rows
    /\ copies \in [Rows -> Nat]
    /\ old \in BOOLEAN
    /\ at \in [Procs -> 0 .. Applied]
    /\ busy \in [Procs -> BOOLEAN]
    /\ plan \in [Procs -> SUBSET (Tables \union Rows)]
    /\ orphan \in [Procs -> 0 .. Applied - 1]
    /\ bequest \in [Procs -> SUBSET (Tables \union Rows)]
    /\ known \in [Procs -> SUBSET StatusRows]
    /\ overlap \in BOOLEAN

\* A new installation, or an upgrade of one that has load_events; any of the
\* processes has been started.
SchemaInit ==
    /\ old \in BOOLEAN
    /\ tables = IF old THEN {"load_events"} ELSE {}
    /\ load = {}
    /\ copies = [r \in Rows |-> 0]
    /\ at \in [Procs -> {Down, 1}]
    /\ busy = [p \in Procs |-> FALSE]
    /\ plan = [p \in Procs |-> {}]
    /\ orphan = [p \in Procs |-> 0]
    /\ bequest = [p \in Procs |-> {}]
    /\ known = [p \in Procs |-> {}]
    /\ overlap = FALSE

--------------------------------------------------------------------------------
(* The statements.                                                         *)

\* A bug: everything in load_events is copied.
AnyMissing == {r \in load : copies[r] = 0}

\* A bug: what has been copied is copied again.
AnyStatus == {r \in load : r \in StatusRows}

\* WHERE payload ? 'status' AND NOT EXISTS (the same row in scenario_events).
Missing == {r \in load : r \in StatusRows /\ copies[r] = 0}

\* A bug: CREATE TABLE without IF NOT EXISTS.
AddsAgain(n) == IF n = Copying THEN Missing ELSE {Statements[n]}

\* What the statement at place n, begun now, is going to add.
Adds(n) == IF n = Copying THEN Missing ELSE {Statements[n]} \ tables

CopyUnderWay(p) == (busy[p] /\ at[p] = Copying) \/ orphan[p] = Copying

\* The process sends its next statement, which sees the database as it is.
Begin(p) ==
    /\ at[p] \in 1 .. Applied - 1
    /\ ~busy[p]
    /\ busy' = [busy EXCEPT ![p] = TRUE]
    /\ plan' = [plan EXCEPT ![p] = Adds(at[p])]
    /\ IF at[p] = Copying
       THEN /\ known' = [known EXCEPT ![p] = load \intersect StatusRows]
            /\ overlap' = (overlap \/ \E q \in Procs : CopyUnderWay(q))
       ELSE UNCHANGED <<known, overlap>>
    /\ UNCHANGED <<database, at, orphan, bequest>>

\* The table has been created since the statement began.
Collides(n, adds) == n # Copying /\ adds \intersect tables # {}

Commits(n, adds) ==
    IF n = Copying
    THEN /\ copies' = [r \in Rows |-> IF r \in adds THEN copies[r] + 1 ELSE copies[r]]
         /\ UNCHANGED tables
    ELSE /\ tables' = tables \union adds
         /\ UNCHANGED copies

\* The statement succeeds and InitSchema goes on to the next one.
Succeed(p) ==
    /\ busy[p]
    /\ ~Collides(at[p], plan[p])
    /\ Commits(at[p], plan[p])
    /\ at' = [at EXCEPT ![p] = @ + 1]
    /\ busy' = [busy EXCEPT ![p] = FALSE]
    /\ plan' = [plan EXCEPT ![p] = {}]
    /\ UNCHANGED <<load, old, orphan, bequest, known, overlap>>

--------------------------------------------------------------------------------
(* A process that exits, and its next incarnation.                         *)

GoDown(p) ==
    /\ at' = [at EXCEPT ![p] = Down]
    /\ busy' = [busy EXCEPT ![p] = FALSE]
    /\ plan' = [plan EXCEPT ![p] = {}]

\* InitSchema returns the error of the statement and main exits.
Collide(p) ==
    /\ busy[p]
    /\ Collides(at[p], plan[p])
    /\ GoDown(p)
    /\ UNCHANGED <<database, orphan, bequest, known, overlap>>

\* The process loses its database or its life.  A statement it has sent goes on.
Abandon(p) ==
    /\ at[p] # Down
    /\ busy[p] => orphan[p] = 0
    /\ GoDown(p)
    /\ IF busy[p] THEN /\ orphan' = [orphan EXCEPT ![p] = at[p]]
                       /\ bequest' = [bequest EXCEPT ![p] = plan[p]]
                  ELSE UNCHANGED <<orphan, bequest>>
    /\ UNCHANGED <<database, known, overlap>>

\* The statement nobody waits for any more takes effect or is rolled back.
OrphanEnds(p) ==
    /\ orphan[p] # 0
    /\ \/ ~Collides(orphan[p], bequest[p]) /\ Commits(orphan[p], bequest[p])
       \/ UNCHANGED <<tables, copies>>
    /\ orphan' = [orphan EXCEPT ![p] = 0]
    /\ bequest' = [bequest EXCEPT ![p] = {}]
    /\ UNCHANGED <<load, old, at, busy, plan, known, overlap>>

\* Kubernetes starts the container again.
Restart(p) ==
    /\ at[p] = Down
    /\ at' = [at EXCEPT ![p] = 1]
    /\ UNCHANGED <<database, busy, plan, orphan, bequest, known, overlap>>

--------------------------------------------------------------------------------
(* The others who write to load_events.                                    *)

LoadEvent(r) ==
    /\ "load_events" \in tables
    /\ load' = load \union {r}
    /\ UNCHANGED <<tables, copies, old, at, busy, plan, orphan, bequest, known, overlap>>

\* The older version records a status, as long as one of its processes runs.
OldStatus(r) == old /\ r \in StatusRows /\ LoadEvent(r)

\* A db_write workload inserts a row.
Workload(r) == r \in LoadRows /\ LoadEvent(r)

OldLeaves ==
    /\ old
    /\ old' = FALSE
    /\ UNCHANGED <<tables, load, copies, at, busy, plan, orphan, bequest, known, overlap>>

--------------------------------------------------------------------------------
Others == OldLeaves \/ \E r \in Rows : OldStatus(r) \/ Workload(r)

Apply(p) == Begin(p) \/ Succeed(p) \/ Collide(p)

SchemaNext ==
    \/ \E p \in Procs :
          Apply(p) \/ Abandon(p) \/ OrphanEnds(p) \/ Restart(p)
    \/ Others

SchemaSpec == SchemaInit /\ [][SchemaNext]_schemaVars

--------------------------------------------------------------------------------
(* Properties.                                                             *)

\* Every status the older version had recorded when a process that now serves
\* began its copy is in scenario_events, whichever process copied it and whoever
\* failed meanwhile; and no workload row is, which would be read as a scenario
\* without a status (CHANGELOG.md:84).
StatusesAreCarriedOver ==
    /\ \A p \in Procs : at[p] = Applied => \A r \in known[p] : copies[r] > 0
    /\ \A r \in LoadRows : copies[r] = 0

\* A status is copied once, however often processes start, as long as no two
\* copies are under way at the same time: only then does NOT EXISTS miss the
\* other's row, and the history shows a status twice.
CopiedOnce == ~overlap => \A r \in Rows : copies[r] <= 1
--------------------------------------------------------------------------------
(* The inductive invariant behind them.                                    *)

\* A statement under way adds what it can add: the copy statuses, the others
\* their table.
PlansOK ==
    \A p \in Procs :
        /\ busy[p] => /\ at[p] \in 1 .. Applied - 1
                      /\ plan[p] \subseteq IF at[p] = Copying THEN StatusRows ELSE Tables
        /\ orphan[p] # 0 =>
              bequest[p] \subseteq IF orphan[p] = Copying THEN StatusRows ELSE Tables

\* What a process knew is copied once its copy is behind it, and until then the
\* copy it has sent is about to add what was missing.
CarriedOK ==
    /\ \A r \in LoadRows : copies[r] = 0
    /\ \A p \in Procs : \A r \in known[p] :
          /\ at[p] > Copying => copies[r] > 0
          /\ busy[p] /\ at[p] = Copying => r \in plan[p] \/ copies[r] > 0

\* Without an overlap one copy at most is under way, and all it adds is missing.
OneCopy ==
    ~overlap =>
        /\ \A p, q \in Procs : CopyUnderWay(p) /\ CopyUnderWay(q) => p = q
        /\ \A p \in Procs :
              /\ busy[p] /\ at[p] = Copying =>
                    orphan[p] # Copying /\ \A r \in plan[p] : copies[r] = 0
              /\ orphan[p] = Copying => \A r \in bequest[p] : copies[r] = 0
        /\ \A r \in Rows : copies[r] <= 1

SchemaInv == SchemaTypeOK /\ PlansOK /\ CarriedOK /\ OneCopy
================================================================================
