------------------------------ MODULE ConsumerLoop ------------------------------
(***************************************************************************)
(* What a Consume goroutine shows to the process it runs in, without its   *)
(* connections and its messages: it takes one delivery at a time, a        *)
(* delivery it has taken is worked off whatever the context says, it       *)
(* returns nil only on a cancelled context and an error only out of a      *)
(* delivery, and once it has returned it stays so until the process ends.  *)
(***************************************************************************)
VARIABLES
    loop,       \* "idle", "busy" with a delivery, "returned" nil, "failed"
    cancel      \* its context is cancelled

loopVars == <<loop, cancel>>

LoopInit == loop = "idle" /\ cancel = FALSE

Become(from, to) == loop = from /\ loop' = to /\ UNCHANGED cancel

Take  == Become("idle", "busy")
Done  == Become("busy", "idle")
Fail  == Become("busy", "failed")
Leave == cancel /\ Become("idle", "returned")

Cancel == cancel' = TRUE /\ UNCHANGED loop

\* The process ends; another one has another context.
Restart == loop' = "idle" /\ (cancel' = FALSE \/ UNCHANGED cancel)

LoopNext == Take \/ Done \/ Fail \/ Leave \/ Cancel \/ Restart

LoopSpec == LoopInit /\ [][LoopNext]_loopVars
================================================================================
