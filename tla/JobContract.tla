------------------------------ MODULE JobContract ------------------------------
(***************************************************************************)
(* What the platform promises for a job handed to it, without saying how:  *)
(* a job is recorded before it is owed, each result is that of a start of  *)
(* its own, and a job is settled only once its fate is known.  Starting    *)
(* and concluding may repeat: execution is at least once, and a straggler  *)
(* may still conclude after the job is settled.                            *)
(***************************************************************************)
EXTENDS Integers

CONSTANTS
    Jobs,
    Garbage,    \* jobs nobody recorded and no handler understands
    Results,    \* how an execution may end
    Stop        \* the fact that somebody stopped the job

VARIABLES
    phase,      \* [Jobs -> Phases]
    facts,      \* what the record of the job says happened to it
    open        \* how many of its starts have no result yet

jobVars == <<phase, facts, open>>

Phases == {"new", "recorded", "owed", "settled", "lost", "discarded"}

Fates == Results \union {Stop}

JobInit ==
    /\ phase = [j \in Jobs |-> "new"]
    /\ facts = [j \in Jobs |-> {}]
    /\ open = [j \in Jobs |-> 0]

Move(j, from, to) ==
    /\ phase[j] = from
    /\ phase' = [phase EXCEPT ![j] = to]
    /\ UNCHANGED <<facts, open>>

\* n more of its starts have no result.
Learn(j, f, n) ==
    /\ facts' = [facts EXCEPT ![j] = @ \union {f}]
    /\ open' = [open EXCEPT ![j] = @ + n]
    /\ UNCHANGED phase

Record(j)  == j \notin Garbage /\ Move(j, "new", "recorded")
Owe(j)     == Move(j, "recorded", "owed")
Lose(j)    == Move(j, "recorded", "lost")
Inject(j)  == j \in Garbage /\ Move(j, "new", "owed")
Discard(j) == j \in Garbage /\ Move(j, "owed", "discarded")
Settle(j)  == facts[j] \intersect Fates # {} /\ Move(j, "owed", "settled")

Start(j)       == j \notin Garbage /\ phase[j] \in {"owed", "settled"} /\ Learn(j, "running", 1)
Conclude(j, r) == open[j] > 0 /\ r \in Results /\ Learn(j, r, -1)
StopJob(j)     == phase[j] # "new" /\ Learn(j, Stop, 0)

JobNext ==
    \E j \in Jobs :
        \/ Record(j) \/ Owe(j) \/ Lose(j) \/ Inject(j) \/ Discard(j) \/ Settle(j)
        \/ Start(j) \/ StopJob(j)
        \/ \E r \in Results : Conclude(j, r)

JobSpec == JobInit /\ [][JobNext]_jobVars
================================================================================
