------------------------ MODULE WorkloadExecutionProofs ------------------------
(***************************************************************************)
(* An execution reports what it has done and does at most one operation    *)
(* once it is cancelled, for every type, duration, profile, batch and      *)
(* number of passes; and its phases are those of MixedWorkload, so that    *)
(* what is proved of the split holds of the execution too.                 *)
(***************************************************************************)
EXTENDS WorkloadExecution, MixedWorkloadProofs

Own == ExecTypeOK /\ ControlOK /\ CountOK /\ AfterOK

\* Stated apart, for the steps whose context is not arithmetic.
LEMMA SumIsNatural == \A m, n \in Nat : m + n \in Nat
OBVIOUS

\* The phases of a mixed workload are loops.
LEMMA PartIsALoop == \A p \in Phases : Part(p) \in Loops
BY DEF Phases, Part, Loops

\* A single generator is a loop or the memory generator.
LEMMA OnlyIsAGenerator ==
    ASSUME NEW t \in Types, t # "mixed"
    PROVE  Only(t) \in Loops \union {"memory"}
BY ExecutionAssumption DEF Only, Loops

\* Nothing has been done before the execution begins.
LEMMA InitOwn == ExecInit => Own
<1> SUFFICES ASSUME ExecInit PROVE Own
  OBVIOUS
<1>1. ExecTypeOK
  <2>1. type \in Types /\ single = "validate" /\ gen = "none" /\ pc = "idle"
    BY DEF ExecInit
  <2>2. left \in 0 .. Batch /\ passes \in 0 .. (MaxPasses + 1)
    BY ExecutionAssumption DEF ExecInit
  <2>3. ops \in Nat /\ reported \in Nat /\ did \in Nat /\ after \in Nat
    BY DEF ExecInit
  <2>4. expired \in BOOLEAN /\ cancelled \in BOOLEAN
    BY DEF ExecInit
  <2> QED
    BY <2>1, <2>2, <2>3, <2>4 DEF ExecTypeOK
<1>2. Stands = "validate"
  BY DEF ExecInit, Init, Stands
<1>3. ~Over
  BY <1>2 DEF Over
<1>4. ControlOK
  BY DEF ExecInit, ControlOK
<1>5. CountOK
  BY <1>2, <1>3 DEF ExecInit, CountOK
<1>6. AfterOK
  BY DEF ExecInit, AfterOK
<1> QED
  BY <1>1, <1>4, <1>5, <1>6 DEF Own

\* Beginning a generator, for a phase or alone.
LEMMA BeginOwn ==
    ASSUME Own, gen = "none", NEW g \in Loops \union {"memory"}, Begin(g), Stands' = "run",
           UNCHANGED vars, single' \in {"validate", "run", "done", "failed", "refused"},
           ~Over, g = "memory" => after = 0,
           type = "mixed" => next \in Phases /\ ms[next] > 0
    PROVE  Own'
<1>1. /\ type' = type /\ left' = left /\ reported' = reported /\ cancelled' = cancelled
      /\ gen' = g /\ passes' = 0 /\ expired' = FALSE
  BY DEF Begin
<1>2. ops' \in {0, 1} /\ did' = did + ops'
  BY DEF Begin, TakesEffect
<1>3. did \in Nat /\ after \in Nat /\ ops = 0 /\ did = reported
  BY DEF Own, ExecTypeOK, CountOK
<1>4. g = "memory" => pc' = "hold" /\ ops' = 1 /\ after' <= 1 /\ after' \in Nat
  BY <1>3 DEF Begin, TakesEffect
<1>5. g # "memory" => pc' = "clock" /\ ops' = 0 /\ after' = after
  BY <1>3 DEF Begin, TakesEffect
<1>6. ~cancelled => after' = after
  BY DEF Begin, TakesEffect
<1>7. ExecTypeOK'
  <2>1. expired' \in BOOLEAN /\ cancelled' \in BOOLEAN
    BY <1>1 DEF Own, ExecTypeOK
  <2>2. ops' \in Nat /\ reported' \in Nat
    BY <1>1, <1>2, <1>3
  <2>5. did' \in Nat
    BY <1>2, <1>3, <2>2, SumIsNatural
  <2>6. after' \in Nat
    BY <1>3, <1>4, <1>5
  <2>3. passes' \in 0 .. (MaxPasses + 1)
    BY <1>1, ExecutionAssumption
  <2>4. pc' \in {"clock", "hold"}
    BY <1>4, <1>5
  <2> QED
    BY <1>1, <2>1, <2>2, <2>3, <2>4, <2>5, <2>6 DEF Own, ExecTypeOK
<1>8. ~Over' /\ Stands' # "done" /\ Stands' # "validate"
  BY DEF Over
<1>9. type' = "mixed" => next' \in Phases /\ ms'[next'] > 0
  BY <1>1 DEF vars
<1>10. ControlOK'
  <2>1. CASE g = "memory"
    BY <1>1, <1>4, <1>9, <2>1 DEF ControlOK
  <2>2. CASE g \in Loops
    BY <1>1, <1>5, <1>9, <2>2 DEF ControlOK, Loops
  <2> QED
    BY <2>1, <2>2
<1>11. CountOK'
  BY <1>1, <1>2, <1>3, <1>8 DEF CountOK, Loops
<1>12. AfterOK'
  BY <1>1, <1>3, <1>4, <1>5, <1>6, <1>8 DEF Own, AfterOK
<1> QED
  BY <1>7, <1>10, <1>11, <1>12 DEF Own

\* Ending one, well or with an error; what its last insert did may be unknown.
LEMMA EndOwn ==
    ASSUME Own, gen # "none", NEW good \in BOOLEAN, End(ops, good),
           did' \in {did, did + 1}, good => did' = did,
           after' \in Nat, ~cancelled => after' = 0, after' <= 1
    PROVE  Own'
<1>1. /\ gen' = "none" /\ pc' = "idle" /\ ops' = 0 /\ left' = 0 /\ passes' = 0
      /\ expired' = FALSE /\ reported' = reported + ops
      /\ type' = type /\ cancelled' = cancelled /\ ms' = ms
  BY DEF End, Report
<1>2. /\ type \in Types /\ did \in Nat /\ ops \in Nat /\ reported \in Nat
      /\ cancelled \in BOOLEAN
      /\ Stands = "run" /\ did = reported + ops
  BY DEF Own, ExecTypeOK, ControlOK, CountOK, Over
<1>3. type = "mixed" => /\ single' = single
                        /\ at' = IF good THEN at ELSE "failed"
  BY DEF End
<1>4. type # "mixed" => single' = IF good THEN "done" ELSE "failed"
  BY DEF End
<1>5. Stands' \in {"run", "failed", "done"} /\ (~good => Stands' = "failed")
  BY <1>1, <1>2, <1>3, <1>4 DEF Stands
<1>6. good => did' = reported'
  BY <1>1, <1>2
<1>7. reported' \in {did', did' - 1}
  <2>1. reported' = did
    BY <1>1, <1>2
  <2>2. CASE did' = did
    BY <2>1, <2>2
  <2>3. CASE did' = did + 1
    <3>1. did = did' - 1
      BY <1>2, <2>3
    <3> QED
      BY <2>1, <3>1
  <2> QED
    BY <2>2, <2>3
<1>8. ExecTypeOK'
  <2>1. expired' \in BOOLEAN /\ cancelled' \in BOOLEAN
    BY <1>1, <1>2
  <2>2. ops' \in Nat /\ reported' \in Nat /\ did' \in Nat /\ after' \in Nat
    BY <1>1, <1>2
  <2>3. left' \in 0 .. Batch /\ passes' \in 0 .. (MaxPasses + 1)
    BY <1>1, ExecutionAssumption
  <2>4. single' \in {"validate", "run", "done", "failed", "refused"}
    BY <1>3, <1>4 DEF Own, ExecTypeOK
  <2> QED
    BY <1>1, <1>2, <2>1, <2>2, <2>3, <2>4 DEF ExecTypeOK
<1>9. Over' \/ Stands' = "run"
  BY <1>5 DEF Over
<1>10. Stands' = "run" \/ Stands' = "done" => did' = reported'
  BY <1>5, <1>6
<1>11. ~Over' => did' = reported' + ops'
  BY <1>1, <1>2, <1>9, <1>10
<1>12. ControlOK'
  BY <1>1 DEF ControlOK
<1>13. CountOK'
  BY <1>1, <1>7, <1>10, <1>11 DEF CountOK
<1>14. AfterOK'
  BY <1>1, <1>5 DEF AfterOK
<1> QED
  BY <1>8, <1>12, <1>13, <1>14 DEF Own

\* A step inside a generator: to a label of the same one.
LEMMA GotoOwn ==
    ASSUME Own, gen # "none", NEW label, Goto(label),
           label \in {"clock", "poll", "pass", "insert", "inserting", "query", "querying", "pause"},
           gen # "memory",
           left' \in 0 .. Batch, passes' \in 0 .. (MaxPasses + 1),
           label \in {"insert", "inserting"} => left' > 0,
           ops' \in Nat, did' \in Nat, did' = did + (ops' - ops),
           after' \in Nat, ~cancelled => after' = 0,
           after' <= (IF label \in {"pass", "inserting", "querying"} THEN 0 ELSE 1)
    PROVE  Own'
<1>1. /\ pc' = label /\ type' = type /\ single' = single /\ gen' = gen
      /\ reported' = reported /\ expired' = expired /\ cancelled' = cancelled
      /\ UNCHANGED vars
  BY DEF Goto
<1>2. /\ Stands = "run" /\ did = reported + ops
      /\ ops \in Nat /\ did \in Nat /\ reported \in Nat
  BY DEF Own, ExecTypeOK, ControlOK, CountOK, Over
<1>3. Stands' = "run" /\ ~Over'
  BY <1>1, <1>2 DEF Stands, Over, vars
<1>4. ExecTypeOK'
  BY <1>1 DEF Own, ExecTypeOK
<1>5. did' = reported' + ops'
  <2>1. reported' = reported
    BY <1>1
  <2> QED
    BY <1>2, <2>1
<1>6. type' = "mixed" => next' \in Phases /\ ms'[next'] > 0
  BY <1>1 DEF Own, ControlOK, vars
<1>7. ControlOK'
  BY <1>1, <1>3, <1>6 DEF Own, ControlOK
<1>8. CountOK'
  BY <1>1, <1>3, <1>5 DEF CountOK
<1>9. AfterOK'
  BY <1>1, <1>3 DEF AfterOK
<1> QED
  BY <1>4, <1>7, <1>8, <1>9 DEF Own
\* Every step of an execution keeps it.
LEMMA StepOwn == Own /\ [ExecNext]_allVars => Own'
<1> SUFFICES ASSUME Own, [ExecNext]_allVars PROVE Own'
  OBVIOUS
<1> USE ExecutionAssumption
<1>1. /\ ops \in Nat /\ did \in Nat /\ after \in Nat /\ passes \in 0 .. (MaxPasses + 1)
      /\ left \in 0 .. Batch
  BY DEF Own, ExecTypeOK
<1>2. /\ ~cancelled => after = 0
      /\ after <= 1
      /\ pc \in {"pass", "inserting", "querying"} => after = 0
  BY <1>1 DEF Own, AfterOK
<1>3. pc # "idle" => gen # "none"
  BY DEF Own, ControlOK
<1>4. pc # "idle" /\ pc # "hold" => gen \in Loops
  BY DEF Own, ControlOK, ExecTypeOK
<1>5. "memory" \notin Loops /\ "none" \notin Loops
  BY DEF Loops
<1>6. CASE Split
  <2>1. UNCHANGED execVars /\ type = "mixed" /\ Stands = at
    BY <1>6 DEF Split, Stands
  <2>2. /\ at \in {"validate", "remainder", "reduce"}
        /\ at' \in {"refused", "remainder", "reduce", "run"}
    BY <1>6 DEF Split, Validate, Remainder, Reduce, SplitDone
  <2>3. Stands' = at' /\ ~Over /\ gen = "none" /\ pc = "idle"
    BY <2>1, <2>2 DEF Stands, Over, execVars, Own, ControlOK
  <2>4. ops = 0 /\ did = reported
    BY <1>1, <2>3 DEF Own, CountOK, ExecTypeOK
  <2>5. ExecTypeOK'
    BY <2>1 DEF Own, ExecTypeOK, execVars
  <2>6. ControlOK'
    BY <2>1, <2>3 DEF ControlOK, execVars
  <2>7. CountOK'
    BY <1>1, <2>1, <2>4 DEF CountOK, execVars
  <2>8. AfterOK'
    BY <2>1, <2>2, <2>3 DEF Own, AfterOK, execVars
  <2> QED
    BY <2>5, <2>6, <2>7, <2>8 DEF Own
<1>7. CASE ExecuteOne
  <2>1. /\ type # "mixed" /\ single = "validate" /\ Stands = "validate" /\ UNCHANGED vars
        /\ ~Over /\ gen = "none" /\ pc = "idle" /\ after = 0
    BY <1>7 DEF ExecuteOne, Stands, Over, Own, ControlOK, AfterOK
  <2>2. CASE total > 0
    <3>1. single' = "run" /\ Begin(Only(type))
      BY <1>7, <2>2 DEF ExecuteOne
    <3>2. Only(type) \in Loops \union {"memory"}
      BY OnlyIsAGenerator, <2>1 DEF Own, ExecTypeOK
    <3>3. Stands' = "run"
      BY <2>1, <3>1 DEF Stands, Begin
    <3> QED
      BY <2>1, <3>1, <3>2, <3>3, BeginOwn
  <2>3. CASE ~(total > 0)
    <3>1. /\ single' = "refused"
          /\ UNCHANGED <<type, gen, pc, left, passes, ops, reported, expired,
                         cancelled, did, after>>
      BY <1>7, <2>3 DEF ExecuteOne
    <3>2. Stands' = "refused" /\ Over'
      BY <2>1, <3>1 DEF Stands, Over
    <3>3. ops = 0 /\ did = reported
      BY <1>1, <2>1 DEF Own, CountOK, ExecTypeOK
    <3>4. ExecTypeOK'
      BY <3>1 DEF Own, ExecTypeOK
    <3>5. ControlOK'
      BY <2>1, <3>1 DEF ControlOK
    <3>6. CountOK'
      BY <1>1, <3>1, <3>2, <3>3 DEF CountOK
    <3>7. AfterOK'
      BY <2>1, <3>1 DEF AfterOK
    <3> QED
      BY <3>4, <3>5, <3>6, <3>7 DEF Own
  <2> QED
    BY <2>2, <2>3
<1>8. CASE BeginPhase
  <2>1. /\ type = "mixed" /\ at = "run" /\ gen = "none" /\ next \in Phases /\ ms[next] > 0
        /\ Begin(Part(next)) /\ UNCHANGED <<vars, single>>
    BY <1>8 DEF BeginPhase
  <2>2. Stands = "run" /\ Stands' = "run" /\ ~Over
    BY <2>1 DEF Stands, Over, vars, Begin
  <2>3. Part(next) \in Loops
    BY <2>1, PartIsALoop
  <2>4. single' \in {"validate", "run", "done", "failed", "refused"}
    BY <2>1 DEF Own, ExecTypeOK
  <2> QED
    BY <1>5, <2>1, <2>2, <2>3, <2>4, BeginOwn
<1>9. CASE SkipPhase
  <2>1. /\ type = "mixed" /\ at = "run" /\ UNCHANGED <<at, execVars>> /\ next' = next + 1
        /\ ms[next] = 0 /\ Stands = "run"
    BY <1>9 DEF SkipPhase, Stands
  <2>2. gen = "none"
    BY <2>1 DEF Own, ControlOK
  <2>3. Stands' = "run" /\ ~Over /\ ~Over'
    BY <2>1 DEF Stands, Over, execVars
  <2>4. ExecTypeOK'
    BY <2>1 DEF Own, ExecTypeOK, execVars
  <2>5. ControlOK'
    BY <2>1, <2>2 DEF Own, ControlOK, execVars
  <2>6. CountOK'
    BY <2>1, <2>3 DEF Own, CountOK, execVars
  <2>7. AfterOK'
    BY <2>1, <2>3 DEF Own, AfterOK, execVars
  <2> QED
    BY <2>4, <2>5, <2>6, <2>7 DEF Own
<1>10. CASE Clock
  <2>1. pc = "clock" /\ UNCHANGED <<did, after>> /\ gen \in Loops /\ gen # "none"
    BY <1>3, <1>4, <1>10 DEF Clock
  <2>2. CASE Goto("poll") /\ passes' = passes + 1 /\ UNCHANGED <<left, ops>>
             /\ passes < (IF cancelled THEN MaxPasses + 1 ELSE MaxPasses)
    <3>1. passes' \in 0 .. (MaxPasses + 1)
      BY <1>1, <2>2
    <3> QED
      BY <1>1, <1>2, <1>5, <2>1, <2>2, <3>1, GotoOwn
  <2>3. CASE End(ops, gen = "cpu" => ops > 0)
    BY <1>1, <1>2, <2>1, <2>3, EndOwn
  <2> QED
    BY <1>10, <2>2, <2>3 DEF Clock
<1>11. CASE Poll
  <2>1. pc = "poll" /\ UNCHANGED <<did, after>> /\ gen \in Loops /\ gen # "none"
    BY <1>3, <1>4, <1>11 DEF Poll
  <2>2. CASE cancelled
    <3>1. End(ops, FALSE)
      BY <1>11, <2>2 DEF Poll, Cancelled
    <3> QED
      BY <1>1, <1>2, <2>1, <3>1, EndOwn
  <2>3. CASE ~cancelled
    <3> DEFINE label == CASE gen = "cpu" -> "pass" [] gen = "db_write" -> "insert"
                          [] gen = "db_read" -> "query"
    <3>1. Goto(label) /\ left' = (IF gen = "db_write" THEN Batch ELSE 0)
          /\ UNCHANGED <<passes, ops>>
      BY <1>11, <2>3 DEF Poll, Cancelled
    <3>2. label \in {"pass", "insert", "query"} /\ (label = "insert" => gen = "db_write")
      BY <2>1 DEF Loops
    <3> HIDE DEF label
    <3>3. left' \in 0 .. Batch /\ (label = "insert" => left' > 0)
      BY <3>1, <3>2
    <3> QED
      BY <1>1, <1>2, <1>5, <2>1, <2>3, <3>1, <3>2, <3>3, GotoOwn
  <2> QED
    BY <2>2, <2>3
<1>12. CASE CpuPass
  <2>1. /\ pc = "pass" /\ ops' = ops + 1 /\ TakesEffect(1) /\ Goto("clock")
        /\ UNCHANGED <<left, passes>> /\ gen \in Loops /\ gen # "none"
    BY <1>3, <1>4, <1>12 DEF CpuPass
  <2>2. did' = did + 1 /\ after' \in Nat /\ after' <= 1 /\ (~cancelled => after' = 0)
    BY <1>1, <1>2, <2>1 DEF TakesEffect
  <2> QED
    BY <1>1, <1>5, <2>1, <2>2, GotoOwn
<1>13. CASE Call
  <2>1. /\ pc \in {"insert", "query"} /\ UNCHANGED <<did, after>> /\ gen \in Loops
        /\ gen # "none"
    BY <1>3, <1>4, <1>13 DEF Call
  <2>2. CASE cancelled
    <3>1. End(ops, FALSE)
      BY <1>13, <2>2 DEF Call, Accepted
    <3> QED
      BY <1>1, <1>2, <2>1, <3>1, EndOwn
  <2>3. CASE ~cancelled
    <3>1. UNCHANGED <<left, passes, ops>>
      BY <1>13, <2>3 DEF Call, Accepted
    <3>2. CASE pc = "insert"
      <4>1. Goto("inserting") /\ left' > 0
        BY <1>13, <2>3, <3>1, <3>2 DEF Call, Accepted, Own, ControlOK
      <4> QED
        BY <1>1, <1>2, <1>5, <2>1, <2>3, <3>1, <4>1, GotoOwn
    <3>3. CASE pc = "query"
      <4>1. Goto("querying")
        BY <1>13, <2>3, <3>3 DEF Call, Accepted
      <4> QED
        BY <1>1, <1>2, <1>5, <2>1, <2>3, <3>1, <4>1, GotoOwn
    <3> QED
      BY <2>1, <3>2, <3>3
  <2> QED
    BY <2>2, <2>3
<1>14. CASE Inserted
  <2>1. pc = "inserting" /\ gen \in Loops /\ gen # "none" /\ left > 0
    BY <1>3, <1>4, <1>14 DEF Inserted, Own, ControlOK
  <2>2. CASE /\ ops' = ops + 1 /\ left' = left - 1 /\ TakesEffect(1)
             /\ Goto(IF left > 1 THEN "insert" ELSE "clock") /\ UNCHANGED passes
    <3>1. did' = did + 1 /\ after' \in Nat /\ after' <= 1 /\ (~cancelled => after' = 0)
      BY <1>1, <1>2, <2>1, <2>2 DEF TakesEffect
    <3>2. left' \in 0 .. Batch
      BY <1>1, <2>1, <2>2
    <3>3. CASE left > 1
      BY <1>1, <1>5, <2>1, <2>2, <3>1, <3>2, <3>3, GotoOwn
    <3>4. CASE ~(left > 1)
      BY <1>1, <1>5, <2>1, <2>2, <3>1, <3>2, <3>4, GotoOwn
    <3> QED
      BY <3>3, <3>4
  <2>3. CASE \E n \in {0, 1} : TakesEffect(n) /\ End(ops, FALSE)
    <3>1. PICK n \in {0, 1} : TakesEffect(n) /\ End(ops, FALSE)
      BY <2>3
    <3>2. did' \in {did, did + 1} /\ after' \in Nat /\ after' <= 1 /\ (~cancelled => after' = 0)
      BY <1>1, <1>2, <2>1, <3>1 DEF TakesEffect
    <3> QED
      BY <2>1, <3>1, <3>2, EndOwn
  <2> QED
    BY <1>14, <2>2, <2>3 DEF Inserted
<1>15. CASE Queried
  <2>1. pc = "querying" /\ gen \in Loops /\ gen # "none"
    BY <1>3, <1>4, <1>15 DEF Queried
  <2>2. CASE ops' = ops + 1 /\ TakesEffect(1) /\ Goto("clock") /\ UNCHANGED <<left, passes>>
    <3>1. did' = did + 1 /\ after' \in Nat /\ after' <= 1 /\ (~cancelled => after' = 0)
      BY <1>1, <1>2, <2>1, <2>2 DEF TakesEffect
    <3> QED
      BY <1>1, <1>5, <2>1, <2>2, <3>1, GotoOwn
  <2>3. CASE Goto("pause") /\ UNCHANGED <<left, passes, ops, did, after>>
    BY <1>1, <1>2, <1>5, <2>1, <2>3, GotoOwn
  <2>4. CASE End(ops, FALSE) /\ UNCHANGED <<did, after>>
    BY <1>1, <1>2, <2>1, <2>4, EndOwn
  <2> QED
    BY <1>15, <2>2, <2>3, <2>4 DEF Queried
<1>16. CASE Pause
  <2>1. pc = "pause" /\ gen \in Loops /\ gen # "none" /\ UNCHANGED <<did, after>>
    BY <1>3, <1>4, <1>16 DEF Pause
  <2>2. CASE Goto("clock") /\ UNCHANGED <<left, passes, ops>>
    BY <1>1, <1>2, <1>5, <2>1, <2>2, GotoOwn
  <2>3. CASE End(ops, FALSE)
    BY <1>1, <1>2, <2>1, <2>3, EndOwn
  <2> QED
    BY <1>16, <2>2, <2>3 DEF Pause
<1>17. CASE Hold
  <2>1. pc = "hold" /\ gen # "none" /\ UNCHANGED <<did, after>> /\ End(ops, ~cancelled)
    BY <1>3, <1>17 DEF Hold
  <2> QED
    BY <1>1, <1>2, <2>1, EndOwn
<1>18. CASE ExecuteReturns
  <2>1. at = "run" /\ next = 4 /\ at' = "done" /\ UNCHANGED execVars
    BY <1>18 DEF ExecuteReturns, Return
  <2>2. 4 \notin Phases
    BY DEF Phases
  <2>3. ExecTypeOK'
    BY <2>1 DEF Own, ExecTypeOK, execVars
  <2>4. CASE type = "mixed"
    <3>1. gen = "none" /\ pc = "idle" /\ Stands = "run" /\ Stands' = "done" /\ Over' /\ ~Over
      BY <2>1, <2>2, <2>4 DEF Own, ControlOK, Stands, Over, execVars
    <3>2. did = reported /\ ops = 0
      BY <1>1, <3>1 DEF Own, CountOK, ExecTypeOK
    <3>3. ControlOK'
      BY <2>1, <3>1 DEF ControlOK, execVars
    <3>4. CountOK'
      BY <1>1, <2>1, <3>1, <3>2 DEF CountOK, execVars
    <3>5. AfterOK'
      BY <2>1, <3>1 DEF Own, AfterOK, execVars
    <3> QED
      BY <2>3, <3>3, <3>4, <3>5 DEF Own
  <2>5. CASE type # "mixed"
    <3>1. Stands' = Stands /\ Over' = Over
      BY <2>1, <2>5 DEF Stands, Over, execVars
    <3>2. ControlOK' /\ CountOK' /\ AfterOK'
      BY <2>1, <2>5, <3>1 DEF Own, ControlOK, CountOK, AfterOK, execVars
    <3> QED
      BY <2>3, <3>2 DEF Own
  <2> QED
    BY <2>4, <2>5
<1>19. CASE Expire
  <2>1. /\ expired' = TRUE
        /\ UNCHANGED <<vars, type, single, gen, pc, left, passes, ops, reported,
                       cancelled, did, after>>
    BY <1>19 DEF Expire
  <2>2. Stands' = Stands /\ Over' = Over
    BY <2>1 DEF Stands, Over, vars
  <2>3. ExecTypeOK'
    BY <2>1 DEF Own, ExecTypeOK
  <2>4. ControlOK' /\ CountOK' /\ AfterOK'
    BY <2>1, <2>2 DEF Own, ControlOK, CountOK, AfterOK, vars
  <2> QED
    BY <2>3, <2>4 DEF Own
<1>20. CASE Cancel
  <2>1. /\ cancelled' = TRUE
        /\ UNCHANGED <<vars, type, single, gen, pc, left, passes, ops, reported,
                       expired, did, after>>
    BY <1>20 DEF Cancel
  <2>2. Stands' = Stands /\ Over' = Over
    BY <2>1 DEF Stands, Over, vars
  <2>3. ExecTypeOK'
    BY <2>1 DEF Own, ExecTypeOK
  <2>4. ControlOK' /\ CountOK' /\ AfterOK'
    BY <2>1, <2>2 DEF Own, ControlOK, CountOK, AfterOK, vars
  <2> QED
    BY <2>3, <2>4 DEF Own
<1>21. CASE UNCHANGED allVars
  <2>1. UNCHANGED vars /\ UNCHANGED execVars
    BY <1>21 DEF allVars
  <2>2. Stands' = Stands /\ Over' = Over
    BY <2>1 DEF Stands, Over, vars, execVars
  <2>3. ExecTypeOK'
    BY <2>1 DEF Own, ExecTypeOK, execVars
  <2>4. ControlOK' /\ CountOK' /\ AfterOK'
    BY <2>1, <2>2 DEF Own, ControlOK, CountOK, AfterOK, vars, execVars
  <2> QED
    BY <2>3, <2>4 DEF Own
<1> QED
  BY <1>6, <1>7, <1>8, <1>9, <1>10, <1>11, <1>12, <1>13, <1>14, <1>15, <1>16, <1>17,
     <1>18, <1>19, <1>20, <1>21 DEF ExecNext, Execute, Generate

\* The steps of an execution are those of MixedWorkload, or leave it alone.
LEMMA StepsAreMixed == Own /\ [ExecNext]_allVars => [Next]_vars
<1> SUFFICES ASSUME Own, [ExecNext]_allVars PROVE [Next]_vars
  OBVIOUS
<1>1. ASSUME NEW good \in BOOLEAN, gen # "none", End(ops, good)
      PROVE  [Next]_vars
  <2>1. CASE type = "mixed"
    <3>1. at = "run" /\ next \in Phases /\ ms[next] > 0 /\ UNCHANGED <<total, percent, ms>>
      BY <1>1, <2>1 DEF Own, ControlOK, Stands, End
    <3>2. IF good THEN next' = next + 1 /\ UNCHANGED at
                  ELSE at' = "failed" /\ UNCHANGED next
      BY <1>1, <2>1 DEF End
    <3>3. RunPhase
      BY <3>1, <3>2 DEF RunPhase
    <3> QED
      BY <3>3 DEF Next
  <2>2. CASE type # "mixed"
    BY <1>1, <2>2 DEF End, vars
  <2> QED
    BY <2>1, <2>2
<1>2. ASSUME NEW label, Goto(label)
      PROVE  UNCHANGED vars
  BY <1>2 DEF Goto
<1>3. pc # "idle" => gen # "none"
  BY DEF Own, ControlOK
<1>4. CASE Split
  BY <1>4 DEF Split, Next
<1>5. CASE ExecuteOne
  BY <1>5 DEF ExecuteOne
<1>6. CASE BeginPhase
  BY <1>6 DEF BeginPhase, vars
<1>7. CASE SkipPhase
  <2>1. RunPhase
    BY <1>7 DEF SkipPhase, RunPhase
  <2> QED
    BY <2>1 DEF Next
<1>8. CASE Clock
  <2>1. Goto("poll") \/ End(ops, gen = "cpu" => ops > 0)
    BY <1>8 DEF Clock
  <2> QED
    BY <1>1, <1>2, <1>3, <1>8, <2>1 DEF Clock
<1>9. CASE Poll
  <2>1. CASE cancelled
    BY <1>1, <1>3, <1>9, <2>1 DEF Poll, Cancelled
  <2>2. CASE ~cancelled
    BY <1>2, <1>9, <2>2 DEF Poll, Cancelled
  <2> QED
    BY <2>1, <2>2
<1>10. CASE CpuPass
  BY <1>2, <1>10 DEF CpuPass
<1>11. CASE Call
  <2>1. CASE cancelled
    BY <1>1, <1>3, <1>11, <2>1 DEF Call, Accepted
  <2>2. CASE ~cancelled
    BY <1>2, <1>11, <2>2 DEF Call, Accepted
  <2> QED
    BY <2>1, <2>2
<1>12. CASE Inserted
  BY <1>1, <1>2, <1>3, <1>12 DEF Inserted
<1>13. CASE Queried
  BY <1>1, <1>2, <1>3, <1>13 DEF Queried
<1>14. CASE Pause
  BY <1>1, <1>2, <1>3, <1>14 DEF Pause
<1>15. CASE Hold
  BY <1>1, <1>3, <1>15 DEF Hold
<1>16. CASE ExecuteReturns
  BY <1>16 DEF ExecuteReturns, Next
<1>17. CASE Expire
  BY <1>17 DEF Expire
<1>18. CASE Cancel
  BY <1>18 DEF Cancel
<1>19. CASE UNCHANGED allVars
  BY <1>19 DEF allVars
<1> QED
  BY <1>4, <1>5, <1>6, <1>7, <1>8, <1>9, <1>10, <1>11, <1>12, <1>13, <1>14, <1>15,
     <1>16, <1>17, <1>18, <1>19 DEF ExecNext, Execute, Generate

\* Where the generators stand and what they have counted, in every reachable state.
LEMMA OwnInvariant == ExecSpec => []Own
BY InitOwn, StepOwn, PTL DEF ExecSpec

\* An execution implements MixedWorkload: the phase that one step of it runs, or
\* fails, is here a generator of many steps.
THEOREM ExecutionIsMixed == ExecSpec => Spec
<1>1. ExecInit => Init
  BY DEF ExecInit
<1> QED
  BY <1>1, StepsAreMixed, OwnInvariant, PTL DEF ExecSpec, Spec

\* Every reachable state satisfies the inductive invariant.
THEOREM ExecutionInvariant == ExecSpec => []ExecInv
<1>1. Own /\ IInv => ExecInv
  BY DEF Own, ExecInv
<1> QED
  BY <1>1, OwnInvariant, ExecutionIsMixed, InductiveInvariant, PTL

\* The Result of an execution counts what it has done, also when a phase of a
\* mixed workload fails; a lost answer to its last insert is the only exception.
THEOREM ReportsItsWork == ExecSpec => []WorkIsReported
<1>1. ExecInv => WorkIsReported
  BY DEF ExecInv, CountOK, WorkIsReported
<1> QED
  BY <1>1, ExecutionInvariant, PTL

\* At most one operation takes effect after the cancellation, for every size of
\* the batch.
THEOREM StopsAtOnce == ExecSpec => []OneAfterCancel
<1>1. ExecInv => OneAfterCancel
  BY DEF ExecInv, ExecTypeOK, AfterOK, OneAfterCancel
<1> QED
  BY <1>1, ExecutionInvariant, PTL

\* A mixed workload that runs takes exactly its duration.
THEOREM ExecutionSplitsExactly == ExecSpec => []SplitIsExact
BY ExecutionIsMixed, ExactSplit, PTL

\* A mixed workload that runs gives each phase its share of a complete profile.
THEOREM ExecutionSplitsFairly == ExecSpec => []SharesAreFair
BY ExecutionIsMixed, FairShares, PTL

--------------------------------------------------------------------------------
(* How an execution ends.                                                  *)

\* A generator that runs has a step to make, at most four once it is cancelled.
LEMMA LeavingRange ==
    ASSUME ExecTypeOK
    PROVE  /\ Leaving \in 0 .. 4
           /\ pc = "idle" => Leaving = 0
           /\ pc # "idle" => Leaving > 0
BY DEF ExecTypeOK, Leaving

\* After its deadline it has those of a batch.
LEMMA OverrunRange ==
    ASSUME ExecTypeOK, ControlOK
    PROVE  /\ OverrunIsShort
           /\ pc = "idle" => Overrun = 0
           /\ pc # "idle" => Overrun > 0
<1>1. left \in Nat /\ left <= Batch /\ Batch \in Nat /\ Batch > 0
  BY ExecutionAssumption DEF ExecTypeOK
<1>2. pc \in {"insert", "inserting"} => left > 0
  BY DEF ControlOK
<1> QED
  BY <1>1, <1>2 DEF ExecTypeOK, Overrun, OverrunIsShort

\* A step of a generator returns or goes from one label to another.
Moves(labels) == pc' \in labels /\ UNCHANGED <<vars, type, single, gen>>

Returns == \E n \in Nat, good \in BOOLEAN : End(n, good)

LEMMA GenerateMoves ==
    ASSUME Own, Generate
    PROVE  /\ pc # "idle"
           /\ \/ Returns
              \/ pc = "clock" /\ ~expired /\ Moves({"poll"})
              \/ pc = "poll" /\ ~cancelled /\ Moves({"pass", "query"})
              \/ pc = "poll" /\ ~cancelled /\ Moves({"insert"}) /\ left' = Batch
              \/ pc = "pass" /\ Moves({"clock"})
              \/ pc = "insert" /\ ~cancelled /\ Moves({"inserting"}) /\ UNCHANGED left
              \/ pc = "query" /\ ~cancelled /\ Moves({"querying"})
              \/ pc = "inserting" /\ Moves({"insert"}) /\ left' = left - 1
              \/ pc = "inserting" /\ Moves({"clock"})
              \/ pc = "querying" /\ Moves({"clock", "pause"})
              \/ pc = "pause" /\ Moves({"clock"})
<1> USE DEF Moves, Goto
<1>0. ops \in Nat /\ cancelled \in BOOLEAN /\ expired \in BOOLEAN
  BY DEF Own, ExecTypeOK
<1>1. CASE Clock
  <2>1. CASE End(ops, gen = "cpu" => ops > 0)
    BY <1>0, <1>1, <2>1 DEF Clock, Returns
  <2> QED
    BY <1>1, <2>1 DEF Clock
<1>2. CASE Poll
  <2>1. CASE cancelled
    <3>1. End(ops, FALSE)
      BY <1>2, <2>1 DEF Poll, Cancelled
    <3> QED
      BY <1>0, <1>2, <3>1 DEF Poll, Returns
  <2>2. CASE ~cancelled
    <3>1. gen \in Loops
      BY <1>2 DEF Poll, Own, ControlOK, ExecTypeOK
    <3>2. gen = "db_write" => left' = Batch
      BY <1>2, <2>2 DEF Poll, Cancelled
    <3>3. gen = "cpu" \/ gen = "db_read" \/ gen = "db_write"
      BY <3>1 DEF Loops
    <3> QED
      BY <1>2, <2>2, <3>2, <3>3 DEF Poll, Cancelled
  <2> QED
    BY <1>0, <2>1, <2>2
<1>3. CASE CpuPass
  BY <1>3 DEF CpuPass
<1>4. CASE Call
  <2>1. CASE cancelled
    <3>1. End(ops, FALSE) /\ pc \in {"insert", "query"}
      BY <1>4, <2>1 DEF Call, Accepted
    <3> QED
      BY <1>0, <3>1 DEF Returns
  <2>2. CASE ~cancelled
    BY <1>4, <2>2 DEF Call, Accepted
  <2> QED
    BY <1>0, <2>1, <2>2
<1>5. CASE Inserted
  <2>1. CASE End(ops, FALSE)
    BY <1>0, <1>5, <2>1 DEF Inserted, Returns
  <2>2. CASE ~End(ops, FALSE)
    BY <1>5, <2>2 DEF Inserted
  <2> QED
    BY <2>1, <2>2
<1>6. CASE Queried
  <2>1. CASE End(ops, FALSE)
    BY <1>0, <1>6, <2>1 DEF Queried, Returns
  <2>2. CASE ~End(ops, FALSE)
    BY <1>6, <2>2 DEF Queried
  <2> QED
    BY <2>1, <2>2
<1>7. CASE Pause
  <2>1. CASE End(ops, FALSE)
    BY <1>0, <1>7, <2>1 DEF Pause, Returns
  <2>2. CASE ~End(ops, FALSE)
    BY <1>7, <2>2 DEF Pause
  <2> QED
    BY <2>1, <2>2
<1>8. CASE Hold
  <2>1. End(ops, ~cancelled) /\ pc = "hold" /\ (~cancelled) \in BOOLEAN
    BY <1>0, <1>8 DEF Hold
  <2> QED
    BY <1>0, <2>1 DEF Returns
<1> QED
  BY <1>1, <1>2, <1>3, <1>4, <1>5, <1>6, <1>7, <1>8 DEF Generate

\* Cancelled, every step of a generator leads towards its return.
LEMMA LeavingFalls ==
    ASSUME Own, cancelled, Generate
    PROVE  Leaving' < Leaving
<1>1. pc # "idle" /\ ExecTypeOK
  BY GenerateMoves DEF Own
<1>2. CASE Returns
  <2>1. Leaving' = 0
    BY <1>2 DEF Returns, End, Leaving
  <2> QED
    BY <1>1, <2>1, LeavingRange
<1>3. CASE ~Returns
  BY <1>3, GenerateMoves DEF Moves, Leaving
<1> QED
  BY <1>2, <1>3

\* So does every step after its deadline.
LEMMA OverrunFalls ==
    ASSUME Own, expired, Generate
    PROVE  Overrun' < Overrun
<1>1. pc # "idle" /\ ExecTypeOK /\ ControlOK
  BY GenerateMoves DEF Own
<1>2. CASE Returns
  <2>1. Overrun' = 0
    BY <1>2 DEF Returns, End, Overrun
  <2> QED
    BY <1>1, <2>1, OverrunRange
<1>3. CASE ~Returns
  <2>1. left \in Nat /\ Batch \in Nat /\ Batch > 0
    BY <1>1, ExecutionAssumption DEF ExecTypeOK
  <2>2. pc \in {"insert", "inserting"} => left > 0
    BY <1>1 DEF ControlOK
  <2> QED
    BY <1>3, <2>1, <2>2, GenerateMoves DEF Moves, Overrun
<1> QED
  BY <1>2, <1>3

\* Nothing is left to do before the first step or after the last, and never more
\* than seventeen steps.
LEMMA CountdownRange ==
    ASSUME Own, FairInv
    PROVE  /\ CountdownIsShort
           /\ type = "mixed" /\ at = "run" => Countdown >= 1
<1>1. Leaving \in 0 .. 4
  BY LeavingRange DEF Own
<1>2. CASE type = "mixed"
  <2>1. at \in {"validate", "remainder", "reduce", "run", "done", "failed", "refused"}
    BY DEF FairInv, IInv, TypeOK
  <2>2. CASE at = "reduce"
    <3>1. total \in Int /\ Sum(ms) \in Nat
      BY DEF FairInv, IInv, TypeOK, Sum, Phases
    <3>2. Sum(ms) - total \in 0 .. 1
      BY <2>2, <3>1 DEF FairInv, CorrectsOnce, IInv, SplitOK
    <3> QED
      BY <1>2, <2>2, <3>2 DEF Countdown, CountdownIsShort
  <2>3. CASE at = "run"
    <3>1. next \in 1 .. 4
      BY DEF FairInv, IInv, TypeOK
    <3>2. gen # "none" => next \in 1 .. 3
      BY <1>2 DEF Own, ControlOK, Phases
    <3> QED
      BY <1>1, <1>2, <2>3, <3>1, <3>2 DEF Countdown, CountdownIsShort
  <2>4. CASE at \notin {"reduce", "run"}
    BY <1>2, <2>1, <2>4 DEF Countdown, CountdownIsShort
  <2> QED
    BY <2>2, <2>3, <2>4
<1>3. CASE type # "mixed"
  BY <1>1, <1>3 DEF Countdown, CountdownIsShort
<1> QED
  BY <1>2, <1>3

\* A step of a generator brings the end of a cancelled execution nearer.
LEMMA GeneratorCountsDown ==
    ASSUME Own, FairInv, cancelled, Generate
    PROVE  Countdown' < Countdown
<1>1. pc # "idle" /\ gen # "none" /\ Stands = "run"
  BY GenerateMoves DEF Own, ControlOK
<1>2. Leaving \in 1 .. 4 /\ Leaving' < Leaving
  BY <1>1, LeavingRange, LeavingFalls DEF Own
<1>3. CASE Returns
  <2>1. PICK n \in Nat, good \in BOOLEAN : End(n, good)
    BY <1>3 DEF Returns
  <2>2. CASE type = "mixed"
    <3>1. at = "run" /\ next \in 1 .. 3 /\ type' = "mixed" /\ gen' = "none"
      BY <1>1, <2>1, <2>2 DEF Stands, End, Own, ControlOK, Phases
    <3>2. Countdown = 4 * (4 - next) + 1 + (Leaving - 4)
      BY <1>1, <2>2, <3>1 DEF Countdown
    <3>3. CASE good
      <4>1. at' = "run" /\ next' = next + 1
        BY <2>1, <2>2, <3>1, <3>3 DEF End
      <4>2. Countdown' = 4 * (4 - (next + 1)) + 1
        BY <3>1, <4>1 DEF Countdown
      <4> QED
        BY <1>2, <3>1, <3>2, <4>2
    <3>4. CASE ~good
      <4>1. at' = "failed"
        BY <2>1, <2>2, <3>4 DEF End
      <4>2. Countdown' = 0
        BY <3>1, <4>1 DEF Countdown
      <4> QED
        BY <1>2, <3>1, <3>2, <4>2
    <3> QED
      BY <3>3, <3>4
  <2>3. CASE type # "mixed"
    <3>1. single = "run" /\ type' # "mixed" /\ single' \in {"done", "failed"}
      BY <1>1, <2>1, <2>3 DEF Stands, End
    <3> QED
      BY <1>2, <2>3, <3>1 DEF Countdown
  <2> QED
    BY <2>2, <2>3
<1>4. CASE ~Returns
  <2>1. UNCHANGED <<vars, type, single, gen>>
    BY <1>4, GenerateMoves DEF Moves
  <2>2. CASE type = "mixed"
    <3>1. at = "run" /\ next \in 1 .. 3
      BY <1>1, <2>2 DEF Stands, Own, ControlOK, Phases
    <3>2. Countdown = 4 * (4 - next) + 1 + (Leaving - 4)
      BY <1>1, <2>2, <3>1 DEF Countdown
    <3>3. Countdown' = 4 * (4 - next) + 1 + (Leaving' - 4)
      BY <1>1, <2>1, <2>2, <3>1 DEF Countdown, vars
    <3>4. Leaving' \in Int
      BY <1>4, GenerateMoves DEF Moves, Leaving
    <3>5. \A a, b, n \in Int : b < a => 4 * (4 - n) + 1 + (b - 4) < 4 * (4 - n) + 1 + (a - 4)
      OBVIOUS
    <3>6. Leaving \in Int /\ next \in Int
      BY <1>2, <3>1
    <3> QED
      BY <1>2, <3>2, <3>3, <3>4, <3>5, <3>6
  <2>3. CASE type # "mixed"
    BY <1>1, <1>2, <2>1, <2>3 DEF Countdown, Stands
  <2> QED
    BY <2>2, <2>3
<1> QED
  BY <1>3, <1>4

\* So does a pass of the split: the loop that corrects it has one excess to take
\* back at most.
LEMMA SplitCountsDown ==
    ASSUME Own, FairInv, FairInv', Split
    PROVE  Countdown' < Countdown
<1>1. type = "mixed" /\ type' = "mixed" /\ gen = "none" /\ gen' = "none"
  <2>1. type = "mixed" /\ UNCHANGED <<type, gen>>
    BY DEF Split, execVars
  <2>2. gen = "none"
    BY <2>1 DEF Split, Validate, Remainder, Reduce, SplitDone, Own, ControlOK, Stands
  <2> QED
    BY <2>1, <2>2
<1>2. total \in Int /\ Sum(ms) \in Nat /\ Sum(ms)' \in Nat /\ next \in 1 .. 4
  BY DEF FairInv, IInv, TypeOK, Sum, Phases
<1>3. at' = "reduce" => Sum(ms)' - total' \in 0 .. 1
  <2>1. total' \in Int
    BY DEF FairInv, IInv, TypeOK
  <2> QED
    BY <1>2, <2>1 DEF FairInv, CorrectsOnce, IInv, SplitOK
<1>4. CASE Validate
  BY <1>1, <1>4 DEF Validate, Countdown
<1>5. CASE Remainder
  BY <1>1, <1>3, <1>5 DEF Remainder, Countdown
<1>6. CASE Reduce
  <2>1. total' = total /\ at = "reduce" /\ Sum(ms) > total
    BY <1>6 DEF Reduce, Exceeds
  <2>2. CASE at' = "refused"
    BY <1>1, <1>2, <2>1, <2>2 DEF Countdown
  <2>3. CASE at' # "refused"
    <3>1. PICK p \in Phases : Lower(p)
      BY <1>6, <2>3 DEF Reduce
    <3>2. at' = "reduce"
      BY <1>6, <2>1, <2>3 DEF Reduce
    <3>3. Sum(ms)' = Sum(ms) - 1
      <4>1. ms \in [Phases -> Nat]
        BY DEF FairInv, IInv, TypeOK
      <4> QED
        BY <3>1, <4>1 DEF Lower, Sum, Phases
    <3> QED
      BY <1>1, <1>2, <2>1, <3>2, <3>3 DEF Countdown
  <2> QED
    BY <2>2, <2>3
<1>7. CASE SplitDone
  <2>1. at = "reduce" /\ at' = "run" /\ next' = next
    BY <1>7 DEF SplitDone
  <2>2. Sum(ms) >= total
    BY <2>1 DEF FairInv, IInv, SplitOK
  <2> QED
    BY <1>1, <1>2, <2>1, <2>2 DEF Countdown
<1> QED
  BY <1>4, <1>5, <1>6, <1>7 DEF Split

\* Every step of Execute brings the end of a cancelled execution nearer.
LEMMA ExecuteCountsDown ==
    ASSUME Own, SingleOK, FairInv, FairInv', cancelled, Execute
    PROVE  Countdown' < Countdown
<1>1. next \in 1 .. 4
  BY DEF FairInv, IInv, TypeOK
<1>2. CASE Split
  BY <1>2, SplitCountsDown
<1>3. CASE ExecuteOne
  <2>1. type # "mixed" /\ single = "validate" /\ type' = type
    BY <1>3 DEF ExecuteOne, Begin
  <2>2. CASE single' = "refused"
    BY <2>1, <2>2 DEF Countdown
  <2>3. CASE single' # "refused"
    <3>1. single' = "run" /\ pc' \in {"hold", "clock"}
      BY <1>3, <2>3 DEF ExecuteOne, Begin
    <3> QED
      BY <2>1, <3>1 DEF Countdown, Leaving
  <2> QED
    BY <2>2, <2>3
<1>4. CASE BeginPhase
  <2>1. /\ type = "mixed" /\ at = "run" /\ gen = "none" /\ next \in Phases
        /\ Begin(Part(next)) /\ UNCHANGED vars
    BY <1>4 DEF BeginPhase
  <2>2. type' = "mixed" /\ gen' # "none" /\ pc' \in {"hold", "clock"}
    BY <2>1, PartIsALoop DEF Begin, Loops
  <2>3. Leaving' \in {1, 2}
    BY <2>2 DEF Leaving
  <2> QED
    BY <1>1, <2>1, <2>2, <2>3 DEF Countdown, vars
<1>5. CASE SkipPhase
  <2>1. /\ type = "mixed" /\ at = "run" /\ next' = next + 1
        /\ UNCHANGED <<at, type, gen>>
    BY <1>5 DEF SkipPhase, execVars
  <2>2. gen = "none"
    BY <1>5 DEF SkipPhase, Own, ControlOK
  <2> QED
    BY <1>1, <2>1, <2>2 DEF Countdown
<1>6. CASE Generate
  BY <1>6, GeneratorCountsDown
<1>7. CASE ExecuteReturns
  <2>1. at = "run" /\ at' = "done" /\ next = 4 /\ UNCHANGED <<type, single, gen, pc>>
    BY <1>7 DEF ExecuteReturns, Return, execVars
  <2>2. CASE type = "mixed"
    <3>1. gen = "none"
      BY <2>1, <2>2 DEF Own, ControlOK, Phases
    <3> QED
      BY <2>1, <2>2, <3>1 DEF Countdown
  <2>3. CASE type # "mixed"
    BY <2>1, <2>3 DEF SingleOK
  <2> QED
    BY <2>2, <2>3
<1> QED
  BY <1>2, <1>3, <1>4, <1>5, <1>6, <1>7 DEF Execute

\* The split is left alone unless the type is mixed.
LEMMA SingleStep == Own /\ SingleOK /\ [ExecNext]_allVars => SingleOK'
<1> SUFFICES ASSUME Own, SingleOK, [ExecNext]_allVars, type' # "mixed" PROVE at' = "validate"
  BY DEF SingleOK
<1>1. CASE Split
  BY <1>1 DEF Split, execVars
<1>2. CASE ExecuteOne
  BY <1>2 DEF ExecuteOne, Begin, vars, SingleOK
<1>3. CASE BeginPhase \/ SkipPhase
  BY <1>3 DEF BeginPhase, Begin, SkipPhase, execVars
<1>4. CASE Generate
  <2>1. CASE Returns
    BY <1>4, <2>1 DEF Returns, End, SingleOK
  <2>2. CASE ~Returns
    BY <1>4, <2>2, GenerateMoves DEF Moves, vars, SingleOK
  <2> QED
    BY <2>1, <2>2
<1>5. CASE ExecuteReturns
  BY <1>5 DEF ExecuteReturns, Return, execVars, SingleOK
<1>6. CASE Expire \/ Cancel \/ UNCHANGED allVars
  BY <1>6 DEF Expire, Cancel, allVars, execVars, vars, SingleOK
<1> QED
  BY <1>1, <1>2, <1>3, <1>4, <1>5, <1>6 DEF ExecNext, Execute

\* What the two countdowns rest on, in every reachable state.
LEMMA CountdownInvariant == ExecSpec => [](Own /\ SingleOK /\ FairInv)
<1>1. ExecInit => SingleOK
  BY DEF ExecInit, Init, SingleOK
<1>2. ExecSpec => []SingleOK
  BY <1>1, SingleStep, OwnInvariant, PTL DEF ExecSpec
<1> QED
  BY <1>2, OwnInvariant, ExecutionIsMixed, FairInvariant, PTL

\* A cancelled execution is over after at most seventeen steps of its own, for
\* every type, duration, profile and batch, wherever the cancellation finds it and
\* whatever the calls under way answer.
THEOREM CancelledIsNearlyOver == ExecSpec => []CountdownIsShort /\ CancelCountsDown
<1>1. Own /\ SingleOK /\ FairInv => CountdownIsShort
  BY CountdownRange
<1>2. Own /\ SingleOK /\ FairInv /\ (Own /\ SingleOK /\ FairInv)' /\ [ExecNext]_allVars
          => [cancelled /\ Execute => Countdown' < Countdown]_allVars
  BY ExecuteCountsDown
<1> QED
  BY <1>1, <1>2, CountdownInvariant, PTL DEF ExecSpec, CancelCountsDown

\* A generator overruns its deadline by the batch it is in, and by a statement
\* with its answer for each insert of it.
THEOREM OverrunIsABatch == ExecSpec => []OverrunIsShort /\ DeadlineCountsDown
<1>1. Own => OverrunIsShort
  BY OverrunRange DEF Own
<1>2. Own /\ [ExecNext]_allVars => [expired /\ Generate => Overrun' < Overrun]_allVars
  BY OverrunFalls
<1> QED
  BY <1>1, <1>2, OwnInvariant, PTL DEF ExecSpec, DeadlineCountsDown
================================================================================
