--------------------------- MODULE MCRabbitProducer ---------------------------
(* A small instance of RabbitProducer: a scenario and a stop event, one queue. *)
EXTENDS RabbitProducer

CONSTANTS scenario, stop

BothMessages == {scenario, stop}
BothKeys     == [m \in BothMessages |-> IF m = scenario THEN "high" ELSE None]
OneMessage   == {scenario}
OneKey       == [m \in OneMessage |-> "high"]
OneQueue     == <<"high">>
SevenConns   == 1 .. 7
================================================================================
