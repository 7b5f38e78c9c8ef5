-------------------------- MODULE MCWorkloadExecution --------------------------
(* A small instance of WorkloadExecution.                                   *)
EXTENDS WorkloadExecution

\* From an invalid duration over those at which rounding matters.
SomeTotals == {-1, 0} \union (1 .. 7) \union {100, 101}

\* Around zero, the default profile and one hundred.
SomePercentages == {-1, 0, 1, 33, 34, 49, 50, 66, 98, 99, 100, 101}

AllTypes == {"cpu_burn", "mem_alloc", "db_write", "db_read", "mixed"}
================================================================================
