-------------------------- MODULE MCChaosExperiments --------------------------
(* Small instances of ChaosExperiments.                                     *)
EXTENDS ChaosExperiments

CONSTANTS x, pod, stress, r1, r2

OneName     == {x}
TwoKinds    == {pod, stress}
TwoRequests == {r1, r2}
================================================================================
