----------------------------- MODULE MixedWorkload -----------------------------
(***************************************************************************)
(* MixedGenerator: how splitMixedDurations divides the duration of a mixed *)
(* scenario among its three workloads, and how Execute runs them in turn.  *)
(*                                                                         *)
(* The passes of the split are steps.  The arithmetic is exact: a duration *)
(* of at most 2^63 ns is below 10^13 ms, far from an int64 overflow even   *)
(* when multiplied by a percentage.                                        *)
(***************************************************************************)
EXTENDS Integers

CONSTANTS
    Totals,         \* params.DurationMs, any integers
    Percentages     \* the percentages of a profile, any integers

ASSUME MixedAssumption ==
    /\ Totals \subseteq Int
    /\ Percentages \subseteq Int

VARIABLES
    total,      \* the duration of the whole, in ms
    percent,    \* [Phases -> percentage]: the profile
    ms,         \* [Phases -> the duration the split gives it]
    at,         \* where Execute stands
    next        \* the phase it runs next

vars == <<total, percent, ms, at, next>>

Phases == 1 .. 3    \* cpu, db_write, db_read

DefaultProfile == [p \in Phases |-> IF p = 1 THEN 34 ELSE 33]

TypeOK ==
    /\ total \in Int
    /\ percent \in [Phases -> Int]
    /\ ms \in [Phases -> Nat]
    /\ at \in {"validate", "remainder", "reduce", "run", "done", "failed", "refused"}
    /\ next \in 1 .. 4

Init ==
    /\ total \in Totals
    /\ percent \in [Phases -> Percentages]
    /\ ms = [p \in Phases |-> 0]
    /\ at = "validate"
    /\ next = 1

Sum(f) == f[1] + f[2] + f[3]

\* The number of phases a profile gives something to.
ActiveCount(profile) == Sum([p \in Phases |-> IF profile[p] > 0 THEN 1 ELSE 0])

Acceptable(t, profile) ==
    /\ t > 0
    /\ \A p \in Phases : profile[p] >= 0
    /\ Sum(profile) <= 100

Effective(profile) == IF Sum(profile) = 0 THEN DefaultProfile ELSE profile

\* A bug: the division comes before the multiplication.
CoarseShare(t, percentage) ==
    LET share == (t \div 100) * percentage
    IN  IF percentage = 0 THEN 0 ELSE IF share = 0 THEN 1 ELSE share

\* What a percentage of t milliseconds comes to, at least one.
Share(t, percentage) ==
    LET share == (t * percentage) \div 100
    IN  IF percentage = 0 THEN 0 ELSE IF share = 0 THEN 1 ELSE share

\* A bug: every profile needs three milliseconds.
TooShortForAll(t, profile) == t < 3

TooShort(t, profile) == t < ActiveCount(profile)

Validate ==
    LET profile == Effective(percent) IN
    /\ at = "validate"
    /\ IF Acceptable(total, percent)
       THEN /\ percent' = profile
            /\ ms' = [p \in Phases |-> Share(total, profile[p])]
            /\ at' = IF TooShort(total, profile) THEN "refused" ELSE "remainder"
       ELSE at' = "refused" /\ UNCHANGED <<percent, ms>>
    /\ UNCHANGED <<total, next>>

\* The first of the phases with the largest percentage.
Target ==
    CHOOSE p \in Phases :
        /\ \A q \in Phases : percent[q] <= percent[p]
        /\ \A q \in Phases : q < p => percent[q] < percent[p]

Remainder ==
    /\ at = "remainder"
    /\ ms' = IF Sum(ms) < total THEN [ms EXCEPT ![Target] = @ + (total - Sum(ms))]
                                ELSE ms
    /\ at' = "reduce"
    /\ UNCHANGED <<total, percent, next>>

Reducible(p) == ms[p] > 1

\* A bug: the loop stops one pass too early.
ExceedsByTwo == Sum(ms) > total + 1

Exceeds == Sum(ms) > total

\* A bug: the loop lowers a copy of the phase.
LowerCopy(p) == UNCHANGED ms

Lower(p) == ms' = [ms EXCEPT ![p] = @ - 1]

\* One pass of the loop that takes back what rounding up has added.
Reduce ==
    /\ at = "reduce"
    /\ Exceeds
    /\ \/ \E p \in Phases :
             /\ Reducible(p)
             /\ \A q \in Phases : q < p => ~Reducible(q)
             /\ Lower(p)
             /\ UNCHANGED at
       \/ /\ \A p \in Phases : ~Reducible(p)
          /\ at' = "refused"
          /\ UNCHANGED ms
    /\ UNCHANGED <<total, percent, next>>

SplitDone ==
    /\ at = "reduce"
    /\ ~Exceeds
    /\ at' = "run"
    /\ UNCHANGED <<total, percent, ms, next>>

\* A phase without time is passed over; the first error ends the execution.
\* WorkloadExecution has the steps of a phase.
RunPhase ==
    /\ at = "run" /\ next \in Phases
    /\ \/ next' = next + 1 /\ UNCHANGED at
       \/ ms[next] > 0 /\ at' = "failed" /\ UNCHANGED next
    /\ UNCHANGED <<total, percent, ms>>

Return ==
    /\ at = "run" /\ next = 4
    /\ at' = "done"
    /\ UNCHANGED <<total, percent, ms, next>>

Next == Validate \/ Remainder \/ Reduce \/ SplitDone \/ RunPhase \/ Return

Spec == Init /\ [][Next]_vars

--------------------------------------------------------------------------------
(* Properties.                                                             *)

\* The workloads together take exactly the duration of the scenario, one with a
\* percentage gets at least a millisecond and one without gets none, whatever
\* rounding has done before.
SplitIsExact ==
    at \in {"run", "done", "failed"} =>
        /\ Sum(ms) = total
        /\ \A p \in Phases : ms[p] >= 1 <=> percent[p] > 0

\* Only what the code documents is refused: a duration of zero or less, a
\* percentage below zero, more than 100 in all, or fewer milliseconds than
\* phases.  The refusal after the reducing loop cannot happen.
RefusalIsJustified ==
    at = "refused" => ~Acceptable(total, percent) \/ total < ActiveCount(percent)

\* A profile that adds up to 100 is honoured to within two milliseconds a phase.
SharesAreFair ==
    at \in {"run", "done", "failed"} /\ Sum(percent) = 100 =>
        \A p \in Phases :
            /\ 100 * ms[p] - total * percent[p] <= 200
            /\ total * percent[p] - 100 * ms[p] <= 200

\* The loop that takes back what rounding up has added makes one pass at most.
CorrectsOnce == at = "reduce" => Sum(ms) <= total + 1

\* What the passes of the split keep.
SplitOK ==
    /\ at \in {"remainder", "reduce"} =>
          /\ Acceptable(total, percent)
          /\ ActiveCount(percent) \in 1 .. total
          /\ \A p \in Phases : ms[p] >= 1 <=> percent[p] > 0
    /\ at = "reduce" => Sum(ms) >= total

\* The inductive invariant behind SplitIsExact and RefusalIsJustified.
IInv == TypeOK /\ SplitOK /\ SplitIsExact /\ RefusalIsJustified

\* A hundred times what phase p has more than its exact share.
Distance(p) == 100 * ms[p] - total * percent[p]

\* A share is off by less than a millisecond, and the largest one only downwards
\* if the profile is complete: at most two milliseconds are missing, which the
\* largest phase gets, and at most one is too much, which the loop takes back.
NearOK ==
    /\ at = "remainder" => Sum(ms) <= total + 1
    /\ Sum(percent) = 100 =>
          /\ at = "remainder" => /\ \A p \in Phases : Distance(p) \in -99 .. 99
                                 /\ Distance(Target) <= 0
          /\ at = "reduce" => \/ Sum(ms) = total /\ \A p \in Phases : Distance(p) \in -200 .. 200
                              \/ Sum(ms) = total + 1 /\ \A p \in Phases : Distance(p) \in -99 .. 99

\* The inductive invariant behind SharesAreFair and CorrectsOnce.
FairInv == IInv /\ NearOK /\ CorrectsOnce /\ SharesAreFair
================================================================================
