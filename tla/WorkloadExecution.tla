--------------------------- MODULE WorkloadExecution ---------------------------
(***************************************************************************)
(* gen.Execute: what one scenario does between its running row and its     *)
(* outcome.  A generator loops until its deadline, looks at its context    *)
(* once a pass, and returns what it has counted; a mixed scenario runs     *)
(* three of them in turn, as MixedWorkload divides its duration.           *)
(*                                                                         *)
(* The deadline, the cancellation of the context (a stop seen by the       *)
(* watcher, or the end of the process) and the answers of Postgres come    *)
(* between any two steps.  A pass of the CPU loop, a thousand additions,   *)
(* is one operation.                                                       *)
(***************************************************************************)
EXTENDS MixedWorkload

CONSTANTS
    Types,          \* the workload types scenarios have
    Batch,          \* the inserts of one pass of db_write: BatchSize, or ten
    MaxPasses       \* bound: passes of one generator's loop, but for one that
                    \* finds the context done

ASSUME ExecutionAssumption ==
    /\ Types \subseteq {"cpu_burn", "mem_alloc", "db_write", "db_read", "mixed"}
    /\ Batch \in Nat \ {0}
    /\ MaxPasses \in Nat

VARIABLES
    type,       \* the workload type of the scenario
    single,     \* where Execute of a generator that runs alone stands
    gen,        \* the generator that runs, or "none"
    pc,         \* where it stands
    left,       \* the inserts left of its batch
    passes,     \* the passes it has begun
    ops,        \* its own ops
    reported,   \* the Ops of the Result that Execute returns
    expired,    \* its deadline has passed
    cancelled,  \* the context is done
    did,        \* history: operations that took effect
    after       \* history: those of them after the cancellation

execVars == <<type, single, gen, pc, left, passes, ops, reported, expired, cancelled, did, after>>
allVars == <<vars, execVars>>

Loops == {"cpu", "db_write", "db_read"}

\* buildGenerators: what runs for a type, and for each phase of a mixed one.
Only(t) ==
    CASE t = "cpu_burn"  -> "cpu"
      [] t = "mem_alloc" -> "memory"
      [] t = "db_write"  -> "db_write"
      [] t = "db_read"   -> "db_read"

Part(p) == CASE p = 1 -> "cpu" [] p = 2 -> "db_write" [] p = 3 -> "db_read"

\* Where the execution stands, whichever generator the type is for.
Stands == IF type = "mixed" THEN at ELSE single

Over == Stands \in {"done", "failed", "refused"}

ExecTypeOK ==
    /\ type \in Types
    /\ single \in {"validate", "run", "done", "failed", "refused"}
    /\ gen \in Loops \union {"memory", "none"}
    /\ pc \in {"idle", "clock", "poll", "pass", "insert", "inserting", "query",
               "querying", "pause", "hold"}
    /\ left \in 0 .. Batch
    /\ passes \in 0 .. (MaxPasses + 1)
    /\ ops \in Nat /\ reported \in Nat /\ did \in Nat /\ after \in Nat
    /\ expired \in BOOLEAN /\ cancelled \in BOOLEAN

\* A Worker sets no MixedProfile; the other profiles are those of the tests.
ExecInit ==
    /\ Init
    /\ type \in Types
    /\ type # "mixed" => percent = [p \in Phases |-> 0]
    /\ single = "validate"
    /\ gen = "none" /\ pc = "idle"
    /\ left = 0 /\ passes = 0 /\ ops = 0 /\ reported = 0
    /\ expired = FALSE /\ cancelled = FALSE
    /\ did = 0 /\ after = 0

--------------------------------------------------------------------------------
(* One generator.                                                          *)

\* n more operations have taken effect.
TakesEffect(n) ==
    /\ did' = did + n
    /\ after' = IF cancelled THEN after + n ELSE after

\* The memory is allocated and touched before anything is waited for.
Begin(g) ==
    /\ gen' = g
    /\ pc' = IF g = "memory" THEN "hold" ELSE "clock"
    /\ ops' = IF g = "memory" THEN 1 ELSE 0
    /\ TakesEffect(ops')
    /\ passes' = 0
    /\ expired' = FALSE
    /\ UNCHANGED <<type, left, reported, cancelled>>

\* A bug: a mixed workload adds what a phase has done after looking at its error.
ReportIfGood(n, good) == reported' = IF type # "mixed" \/ good THEN reported + n ELSE reported

Report(n, good) == reported' = reported + n

\* The generator returns n operations, and an error unless good; a mixed
\* workload goes on to its next phase or returns that error.
End(n, good) ==
    /\ gen' = "none" /\ pc' = "idle"
    /\ ops' = 0 /\ left' = 0 /\ passes' = 0 /\ expired' = FALSE
    /\ Report(n, good)
    /\ IF type = "mixed"
       THEN /\ IF good THEN next' = next + 1 /\ UNCHANGED at
                       ELSE at' = "failed" /\ UNCHANGED next
            /\ UNCHANGED single
       ELSE /\ single' = IF good THEN "done" ELSE "failed"
            /\ UNCHANGED <<at, next>>
    /\ UNCHANGED <<total, percent, ms, type, cancelled>>

Goto(label) ==
    /\ pc' = label
    /\ UNCHANGED <<vars, type, single, gen, reported, expired, cancelled>>

\* for time.Now().Before(deadline).  A CPU loop without a pass is an error.
Clock ==
    /\ pc = "clock"
    /\ \/ /\ ~expired
          /\ passes < (IF cancelled THEN MaxPasses + 1 ELSE MaxPasses)
          /\ passes' = passes + 1
          /\ Goto("poll")
          /\ UNCHANGED <<left, ops, did, after>>
       \/ /\ expired
          /\ End(ops, gen = "cpu" => ops > 0)
          /\ UNCHANGED <<did, after>>

\* A bug: the loop does not look at its context.
Blind == FALSE

Cancelled == cancelled

\* select on ctx.Done() with a default.
Poll ==
    /\ pc = "poll"
    /\ IF Cancelled
       THEN End(ops, FALSE)
       ELSE /\ Goto(CASE gen = "cpu" -> "pass" [] gen = "db_write" -> "insert"
                      [] gen = "db_read" -> "query")
            /\ left' = IF gen = "db_write" THEN Batch ELSE 0
            /\ UNCHANGED <<passes, ops>>
    /\ UNCHANGED <<did, after>>

CpuPass ==
    /\ pc = "pass"
    /\ ops' = ops + 1
    /\ TakesEffect(1)
    /\ Goto("clock")
    /\ UNCHANGED <<left, passes>>

\* A bug: the inserts are given a context that is never cancelled.
AlwaysAccepted == TRUE

\* pgx does not send a statement whose context is done.
Accepted == ~cancelled

\* A statement is sent, and answered in a later step.
Call ==
    /\ pc \in {"insert", "query"}
    /\ IF Accepted
       THEN /\ Goto(IF pc = "insert" THEN "inserting" ELSE "querying")
            /\ UNCHANGED <<left, passes, ops>>
       ELSE End(ops, FALSE)
    /\ UNCHANGED <<did, after>>

\* The insert succeeds, fails, or takes effect although its answer is an error.
Inserted ==
    /\ pc = "inserting"
    /\ \/ /\ ops' = ops + 1
          /\ left' = left - 1
          /\ TakesEffect(1)
          /\ Goto(IF left > 1 THEN "insert" ELSE "clock")
          /\ UNCHANGED passes
       \/ \E n \in {0, 1} : TakesEffect(n) /\ End(ops, FALSE)

\* The query finds a row, none, or fails; so may the random look-back before it.
Queried ==
    /\ pc = "querying"
    /\ \/ /\ ops' = ops + 1
          /\ TakesEffect(1)
          /\ Goto("clock")
          /\ UNCHANGED <<left, passes>>
       \/ /\ Goto("pause")
          /\ UNCHANGED <<left, passes, ops, did, after>>
       \/ End(ops, FALSE) /\ UNCHANGED <<did, after>>

\* Ten milliseconds without a row, or the context.
Pause ==
    /\ pc = "pause"
    /\ \/ Goto("clock") /\ UNCHANGED <<left, passes, ops>>
       \/ cancelled /\ End(ops, FALSE)
    /\ UNCHANGED <<did, after>>

\* The memory is held until the deadline or the context; ctx.Err() decides.
Hold ==
    /\ pc = "hold"
    /\ expired \/ cancelled
    /\ End(ops, ~cancelled)
    /\ UNCHANGED <<did, after>>

--------------------------------------------------------------------------------
(* Execute.                                                                *)

Split ==
    /\ type = "mixed"
    /\ Validate \/ Remainder \/ Reduce \/ SplitDone
    /\ UNCHANGED execVars

ExecuteOne ==
    /\ type # "mixed"
    /\ single = "validate"
    /\ IF total > 0
       THEN single' = "run" /\ Begin(Only(type))
       ELSE /\ single' = "refused"
            /\ UNCHANGED <<type, gen, pc, left, passes, ops, reported, expired,
                           cancelled, did, after>>
    /\ UNCHANGED vars

BeginPhase ==
    /\ type = "mixed" /\ at = "run" /\ gen = "none"
    /\ next \in Phases /\ ms[next] > 0
    /\ Begin(Part(next))
    /\ UNCHANGED <<vars, single>>

SkipPhase ==
    /\ type = "mixed" /\ at = "run"
    /\ next \in Phases /\ ms[next] = 0
    /\ next' = next + 1
    /\ UNCHANGED <<total, percent, ms, at, execVars>>

ExecuteReturns == Return /\ UNCHANGED execVars

\* The deadline of the running generator passes.
Expire ==
    /\ gen # "none" /\ ~expired
    /\ expired' = TRUE
    /\ UNCHANGED <<vars, type, single, gen, pc, left, passes, ops, reported, cancelled, did, after>>

\* The watcher has seen a stop, or the process is told to end.
Cancel ==
    /\ ~Over /\ ~cancelled
    /\ cancelled' = TRUE
    /\ UNCHANGED <<vars, type, single, gen, pc, left, passes, ops, reported, expired, did, after>>

Generate ==
    \/ Clock \/ Poll \/ CpuPass \/ Call \/ Inserted \/ Queried \/ Pause \/ Hold

Execute == Split \/ ExecuteOne \/ BeginPhase \/ SkipPhase \/ Generate \/ ExecuteReturns

ExecNext == Execute \/ Expire \/ Cancel

ExecSpec == ExecInit /\ [][ExecNext]_allVars

\* The goroutine runs and every statement is answered.  Nothing is said of the
\* clock: deadlines may be as far away as they like.
FairExecSpec == ExecSpec /\ WF_allVars(Execute)

--------------------------------------------------------------------------------
(* Properties.                                                             *)

\* Whatever ends an execution, and in whichever phase, its Result counts what
\* has taken effect; only an insert whose answer was lost may be missing, and
\* never from a success.
WorkIsReported ==
    /\ Over => reported \in {did, did - 1}
    /\ Stands = "done" => reported = did

\* Once the context is done one more operation takes effect at most, the one that
\* was under way: not the rest of a batch and nothing of a later phase.
OneAfterCancel == after <= 1

\* Where the execution and its generator stand.
ControlOK ==
    /\ gen = "none" <=> pc = "idle"
    /\ gen = "memory" <=> pc = "hold"
    /\ gen # "none" => Stands = "run"
    /\ gen # "none" /\ type = "mixed" => next \in Phases /\ ms[next] > 0
    /\ pc \in {"insert", "inserting"} => left > 0

\* What has been counted and what has been done go together at every step.
CountOK ==
    /\ ~Over => did = reported + ops
    /\ Over => reported \in {did, did - 1}
    /\ Stands = "done" => reported = did
    /\ gen = "none" => ops = 0

\* What may still be done once the context is done.
AfterOK ==
    /\ Stands = "validate" => after = 0
    /\ ~cancelled => after = 0
    /\ after <= (IF pc \in {"pass", "inserting", "querying"} THEN 0 ELSE 1)

\* An execution of one generator splits nothing.
SingleOK == type # "mixed" => at = "validate"

\* The inductive invariant of an execution: its own and the split's.
ExecInv == IInv /\ ExecTypeOK /\ ControlOK /\ CountOK /\ AfterOK

\* The steps a generator still makes once its context is done: it looks at it, or
\* sends something with it, before it begins anything else.
Leaving ==
    CASE pc = "idle"                                  -> 0
      [] pc \in {"poll", "insert", "query", "hold"}   -> 1
      [] pc = "clock"                                 -> 2
      [] pc \in {"pass", "pause", "inserting"}        -> 3
      [] pc = "querying"                              -> 4

\* Those it makes after its deadline: it finishes its pass, or its batch.
Overrun ==
    CASE pc = "idle"               -> 0
      [] pc \in {"clock", "hold"}  -> 1
      [] pc \in {"pass", "pause"}  -> 2
      [] pc = "querying"           -> 3
      [] pc = "query"              -> 4
      [] pc = "inserting"          -> 2 * left
      [] pc = "insert"             -> 2 * left + 1
      [] pc = "poll"               -> 2 * Batch + 3

\* The steps to the end of a cancelled execution: those of the split, three at
\* most for each phase and one to go on to the next, and the return.
Countdown ==
    IF type = "mixed"
    THEN CASE at = "validate"  -> 17
           [] at = "remainder" -> 16
           [] at = "reduce"    -> 14 + (Sum(ms) - total)
           [] at = "run"       -> 4 * (4 - next) + 1 + (IF gen = "none" THEN 0 ELSE Leaving - 4)
           [] OTHER            -> 0
    ELSE CASE single = "validate" -> 3
           [] single = "run"      -> Leaving
           [] OTHER               -> 0

\* Whatever statement, pass or phase a cancellation finds it in, and however the
\* calls under way are answered, an execution returns within seventeen steps of
\* its own: each of them brings the end nearer.
CancelCountsDown == [][cancelled /\ Execute => Countdown' < Countdown]_allVars

CountdownIsShort == Countdown \in 0 .. 17

\* A generator whose deadline has passed finishes the batch it is in and begins
\* nothing else, as long as every statement is answered.
DeadlineCountsDown == [][expired /\ Generate => Overrun' < Overrun]_allVars

OverrunIsShort == Overrun \in 0 .. (2 * Batch + 3)

\* A cancellation ends an execution that has however much time left, also in a
\* loop that finds no rows.
CancelEnds == cancelled ~> Over

\* The deadlines end it as well, and the passes of the split before them.
DeadlineEnds == WF_allVars(Expire) => <>Over
================================================================================
