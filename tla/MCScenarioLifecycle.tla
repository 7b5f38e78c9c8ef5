-------------------------- MODULE MCScenarioLifecycle --------------------------
(* Small instances of ScenarioLifecycle.                                    *)
EXTENDS ScenarioLifecycle, TLC

CONSTANTS s1, s2, bad, w1, w2

OneScenario  == {s1}
TwoScenarios == {s1, s2}
WithForeign  == {s1, bad}
Foreign      == {bad}
NoForeign    == {}

OneWorker  == {w1}
TwoWorkers == {w1, w2}
BoundQueues == {"workload.high", "workload.low"}

AllHigh == [s \in Scenarios |-> "workload.high"]
\* The second scenario names a queue nobody declared.
OneUnroutable == [s \in Scenarios |-> IF s = s2 THEN "workload.mid" ELSE "workload.high"]
\* Both consumers read the same queue, as in a Worker deployment of two replicas.
AllOnHigh == [w \in Workers |-> "workload.high"]

Interchangeable == Permutations(Workers)
================================================================================
