---------------------------- MODULE MCScenarioPages ----------------------------
(* A small instance of ScenarioPages. *)
EXTENDS ScenarioPages

CONSTANTS s1, w1

OneScenario == {s1}
NoForeign   == {}
OneWorker   == {w1}
BoundQueues == {"workload.high", "workload.low"}

AllHigh   == [s \in Scenarios |-> "workload.high"]
AllOnHigh == [w \in Workers |-> "workload.high"]
================================================================================
