-------------------------- MODULE MixedWorkloadProofs --------------------------
(***************************************************************************)
(* The split of a mixed workload is exact, refuses nothing else than what  *)
(* it says and is fair, for every duration and every profile.              *)
(***************************************************************************)
EXTENDS MixedWorkload, TLAPS

\* The profile used when none is given is acceptable and complete.
LEMMA DefaultIsAcceptable ==
    /\ DefaultProfile \in [Phases -> Int]
    /\ \A p \in Phases : DefaultProfile[p] > 0
    /\ Sum(DefaultProfile) = 100
BY DEF DefaultProfile, Phases, Sum

\* A share is a natural number, zero exactly for an inactive phase.
LEMMA ShareIsPositive ==
    ASSUME NEW t \in Int, t > 0, NEW q \in Int, q >= 0
    PROVE  /\ Share(t, q) \in Nat
           /\ Share(t, q) >= 1 <=> q > 0
<1> DEFINE product == t * q
<1>1. product \in Nat
  OBVIOUS
<1> HIDE DEF product
<1>2. product \div 100 \in Nat
  BY <1>1
<1>3. Share(t, q) = IF q = 0 THEN 0 ELSE IF product \div 100 = 0 THEN 1 ELSE product \div 100
  BY DEF Share, product
<1> QED
  BY <1>2, <1>3

\* The number of active phases of a profile.
LEMMA ActiveCountIsSmall ==
    ASSUME NEW f \in [Phases -> Int]
    PROVE  /\ ActiveCount(f) \in 0 .. 3
           /\ (\E p \in Phases : f[p] > 0) => ActiveCount(f) >= 1
           /\ ActiveCount(f) = (IF f[1] > 0 THEN 1 ELSE 0) + (IF f[2] > 0 THEN 1 ELSE 0)
                               + (IF f[3] > 0 THEN 1 ELSE 0)
BY DEF ActiveCount, Sum, Phases

\* The profile Validate goes on with is acceptable if the one given is, and has
\* an active phase.
LEMMA EffectiveIsAcceptable ==
    ASSUME NEW f \in [Phases -> Int], NEW t \in Int, Acceptable(t, f)
    PROVE  /\ Effective(f) \in [Phases -> Int]
           /\ Acceptable(t, Effective(f))
           /\ \E p \in Phases : Effective(f)[p] > 0
<1>1. CASE Sum(f) = 0
  <2>1. Effective(f) = DefaultProfile
    BY <1>1 DEF Effective
  <2> QED
    BY <2>1, DefaultIsAcceptable DEF Acceptable, Phases
<1>2. CASE Sum(f) # 0
  <2>1. Effective(f) = f
    BY <1>2 DEF Effective
  <2>2. \E p \in Phases : f[p] > 0
    BY <1>2 DEF Acceptable, Phases, Sum
  <2> QED
    BY <2>1, <2>2
<1> QED
  BY <1>1, <1>2

\* The first phase with the largest percentage of a profile.
FirstLargest(f) ==
    CHOOSE p \in Phases :
        /\ \A q \in Phases : f[q] <= f[p]
        /\ \A q \in Phases : q < p => f[q] < f[p]

\* Every profile has one.
LEMMA LargestExists ==
    ASSUME NEW f \in [Phases -> Int]
    PROVE  /\ FirstLargest(f) \in Phases
           /\ \A q \in Phases : f[q] <= f[FirstLargest(f)]
<1> DEFINE First(p) == /\ \A q \in Phases : f[q] <= f[p]
                       /\ \A q \in Phases : q < p => f[q] < f[p]
<1>1. \E p \in Phases : First(p)
  <2>1. f[1] \in Int /\ f[2] \in Int /\ f[3] \in Int
    BY DEF Phases
  <2>2. CASE f[2] <= f[1] /\ f[3] <= f[1]
    <3>1. First(1)
      BY <2>1, <2>2 DEF Phases
    <3> QED
      BY <3>1 DEF Phases
  <2>3. CASE f[1] < f[2] /\ f[3] <= f[2]
    <3>1. First(2)
      BY <2>1, <2>3 DEF Phases
    <3> QED
      BY <3>1 DEF Phases
  <2>4. CASE f[1] < f[3] /\ f[2] < f[3]
    <3>1. First(3)
      BY <2>1, <2>4 DEF Phases
    <3> QED
      BY <3>1 DEF Phases
  <2> QED
    BY <2>1, <2>2, <2>3, <2>4
<1>2. FirstLargest(f) = CHOOSE p \in Phases : First(p)
  BY DEF FirstLargest
<1> HIDE DEF First
<1>3. FirstLargest(f) \in Phases /\ First(FirstLargest(f))
  BY <1>1, <1>2
<1> USE DEF First
<1> QED
  BY <1>3

\* There is a phase for what rounding down has left over.
LEMMA TargetIsActive ==
    ASSUME percent \in [Phases -> Int],
           \E p \in Phases : percent[p] > 0
    PROVE  Target \in Phases /\ percent[Target] > 0
<1>1. Target = FirstLargest(percent)
  BY DEF Target, FirstLargest
<1>2. Target \in Phases /\ \A q \in Phases : percent[q] <= percent[Target]
  BY <1>1, LargestExists
<1> QED
  BY <1>2

\* A share is less than a millisecond off, and too long only if it stands for
\* less than one.
LEMMA ShareIsNear ==
    ASSUME NEW t \in Int, t > 0, NEW q \in Int, q >= 0
    PROVE  /\ Share(t, q) \in Nat
           /\ 100 * Share(t, q) - t * q \in -99 .. 99
           /\ t * q >= 100 => 100 * Share(t, q) - t * q <= 0
           /\ t * q < 100 => Share(t, q) = IF q > 0 THEN 1 ELSE 0
<1>1. PICK product \in Nat : product = t * q
  OBVIOUS
<1>2. Share(t, q) = IF q = 0 THEN 0 ELSE IF product \div 100 = 0 THEN 1 ELSE product \div 100
  BY <1>1 DEF Share
<1>3. PICK whole \in Nat : whole = product \div 100 /\ 100 * whole <= product /\ product < 100 * whole + 100
  BY <1>1
<1>4. CASE q = 0
  <2>1. product = 0 /\ Share(t, q) = 0
    BY <1>1, <1>2, <1>4
  <2> QED
    BY <2>1, <1>1, <1>4
<1>5. CASE q > 0
  <2>1. product > 0
    BY <1>1, <1>5
  <2>2. Share(t, q) = IF whole = 0 THEN 1 ELSE whole
    BY <1>2, <1>3, <1>5
  <2>3. /\ Share(t, q) \in Nat
        /\ 100 * Share(t, q) - product \in -99 .. 99
        /\ product >= 100 => 100 * Share(t, q) - product <= 0
        /\ product < 100 => Share(t, q) = 1
    BY <2>1, <2>2, <1>3
  <2> QED
    BY <2>3, <1>1, <1>5
<1> QED
  BY <1>4, <1>5

\* A larger percentage of the same duration is more.
LEMMA ProductIsMonotone ==
    ASSUME NEW t \in Nat, NEW q \in Nat, NEW r \in Nat, q <= r
    PROVE  t * q <= t * r
<1>1. PICK d \in Nat : r = q + d
  BY r - q \in Nat
<1>2. t * r = t * q + t * d
  BY <1>1
<1>3. t * d \in Nat
  OBVIOUS
<1> QED
  BY <1>2, <1>3

\* Rounding makes the shares at most a millisecond too long in all; those of a
\* complete profile are each less than a millisecond off, and the largest is not
\* too long.
LEMMA SharesAreNear ==
    ASSUME NEW t \in Int, NEW f \in [Phases -> Int], Acceptable(t, f),
           ActiveCount(f) \in 1 .. t,
           NEW x \in Phases, \A q \in Phases : f[q] <= f[x],
           NEW s, s = [p \in Phases |-> Share(t, f[p])]
    PROVE  /\ Sum(s) <= t + 1
           /\ \A p \in Phases : 100 * s[p] - t * f[p] \in -99 .. 99
           /\ Sum(f) = 100 => 100 * s[x] - t * f[x] <= 0
<1>1. PICK u \in Nat, v \in Nat, w \in Nat : f[1] = u /\ f[2] = v /\ f[3] = w
  BY DEF Acceptable, Phases
<1>2. t \in Nat /\ t > 0 /\ u + v + w <= 100
  BY <1>1 DEF Acceptable, Sum
<1>3. PICK a \in Nat, b \in Nat, c \in Nat : a = t * u /\ b = t * v /\ c = t * w
  BY <1>2
<1>4. a + b + c = t * (u + v + w)
  BY <1>1, <1>2, <1>3
<1>5. a + b + c <= 100 * t
  <2>1. t * (u + v + w) <= t * 100
    BY <1>1, <1>2, ProductIsMonotone
  <2> QED
    BY <2>1, <1>2, <1>3, <1>4
<1>6. PICK k \in Nat, l \in Nat, m \in Nat : s[1] = k /\ s[2] = l /\ s[3] = m
  <2>1. ASSUME NEW q \in Nat
        PROVE  Share(t, q) \in Nat
    <3>1. t \in Int /\ q \in Int /\ t > 0 /\ q >= 0
      BY <1>2
    <3> QED
      BY <3>1, ShareIsPositive
  <2> QED
    BY <2>1, <1>1 DEF Phases
<1>7. k = Share(t, u) /\ l = Share(t, v) /\ m = Share(t, w)
  BY <1>1, <1>6 DEF Phases
<1>8. /\ 100 * k - a \in -99 .. 99 /\ 100 * l - b \in -99 .. 99 /\ 100 * m - c \in -99 .. 99
      /\ a >= 100 => 100 * k - a <= 0
      /\ b >= 100 => 100 * l - b <= 0
      /\ c >= 100 => 100 * m - c <= 0
      /\ a < 100 => k = IF u > 0 THEN 1 ELSE 0
      /\ b < 100 => l = IF v > 0 THEN 1 ELSE 0
      /\ c < 100 => m = IF w > 0 THEN 1 ELSE 0
  <2>1. ASSUME NEW q \in Nat
        PROVE  /\ 100 * Share(t, q) - t * q \in -99 .. 99
               /\ t * q >= 100 => 100 * Share(t, q) - t * q <= 0
               /\ t * q < 100 => Share(t, q) = IF q > 0 THEN 1 ELSE 0
    <3>1. t \in Int /\ q \in Int /\ t > 0 /\ q >= 0
      BY <1>2
    <3> QED
      BY <3>1, ShareIsNear, ZenonT(40)
  <2>2. /\ 100 * k - a \in -99 .. 99
        /\ a >= 100 => 100 * k - a <= 0
        /\ a < 100 => k = IF u > 0 THEN 1 ELSE 0
    <3>1. /\ 100 * Share(t, u) - t * u \in -99 .. 99
          /\ t * u >= 100 => 100 * Share(t, u) - t * u <= 0
          /\ t * u < 100 => Share(t, u) = IF u > 0 THEN 1 ELSE 0
      BY <2>1, ZenonT(40)
    <3>2. k = Share(t, u) /\ a = t * u
      BY <1>3, <1>7
    <3> QED
      BY <3>1, <3>2, ZenonT(40)
  <2>3. /\ 100 * l - b \in -99 .. 99
        /\ b >= 100 => 100 * l - b <= 0
        /\ b < 100 => l = IF v > 0 THEN 1 ELSE 0
    <3>1. /\ 100 * Share(t, v) - t * v \in -99 .. 99
          /\ t * v >= 100 => 100 * Share(t, v) - t * v <= 0
          /\ t * v < 100 => Share(t, v) = IF v > 0 THEN 1 ELSE 0
      BY <2>1, ZenonT(40)
    <3>2. l = Share(t, v) /\ b = t * v
      BY <1>3, <1>7
    <3> QED
      BY <3>1, <3>2, ZenonT(40)
  <2>4. /\ 100 * m - c \in -99 .. 99
        /\ c >= 100 => 100 * m - c <= 0
        /\ c < 100 => m = IF w > 0 THEN 1 ELSE 0
    <3>1. /\ 100 * Share(t, w) - t * w \in -99 .. 99
          /\ t * w >= 100 => 100 * Share(t, w) - t * w <= 0
          /\ t * w < 100 => Share(t, w) = IF w > 0 THEN 1 ELSE 0
      BY <2>1, ZenonT(40)
    <3>2. m = Share(t, w) /\ c = t * w
      BY <1>3, <1>7
    <3> QED
      BY <3>1, <3>2, ZenonT(40)
  <2> QED
    BY <2>2, <2>3, <2>4
<1>9. \A p \in Phases : 100 * s[p] - t * f[p] \in -99 .. 99
  BY <1>1, <1>3, <1>6, <1>8 DEF Phases
<1>10. PICK n \in 1 .. 3 : /\ n = ActiveCount(f) /\ n <= t
                           /\ n = (IF u > 0 THEN 1 ELSE 0) + (IF v > 0 THEN 1 ELSE 0)
                                  + (IF w > 0 THEN 1 ELSE 0)
  BY <1>1, ActiveCountIsSmall
<1>11. Sum(s) <= t + 1
  <2>1. CASE a < 100 /\ b < 100 /\ c < 100
    <3>1. k + l + m = n
      BY <2>1, <1>8, <1>10
    <3> QED
      BY <3>1, <1>10, <1>6 DEF Sum
  <2>2. CASE a >= 100 \/ b >= 100 \/ c >= 100
    <3>1. 100 * (k + l + m) <= a + b + c + 198
      BY <2>2, <1>8, <1>3, <1>6
    <3>2. k + l + m <= t + 1
      BY <3>1, <1>5, <1>2, <1>3, <1>6
    <3> QED
      BY <3>2, <1>6 DEF Sum
  <2> QED
    BY <2>1, <2>2, <1>3
<1>12. ASSUME Sum(f) = 100
       PROVE  100 * s[x] - t * f[x] <= 0
  <2>1. u + v + w = 100
    BY <1>1, <1>12 DEF Sum
  <2>2. PICK y \in Nat : y = f[x] /\ u <= y /\ v <= y /\ w <= y
    BY <1>1 DEF Phases
  <2>3. n * y >= 100
    <3>1. CASE n = 1
      BY <3>1, <2>1, <2>2, <1>10
    <3>2. CASE n = 2
      BY <3>2, <2>1, <2>2, <1>10
    <3>3. CASE n = 3
      BY <3>3, <2>1, <2>2, <1>10
    <3> QED
      BY <3>1, <3>2, <3>3
  <2>4. t * y >= n * y
    <3>1. y * n <= y * t
      BY <1>2, <1>10, <2>2, ProductIsMonotone
    <3> QED
      BY <3>1, <1>2, <1>10, <2>2
  <2>5. t * y >= 100
    BY <2>3, <2>4, <1>2, <1>10, <2>2
  <2>6. s[x] = Share(t, y)
    BY <2>2
  <2>7. 100 * Share(t, y) - t * y <= 0
    BY <2>5, <2>2, <1>2, ShareIsNear
  <2> QED
    BY <2>6, <2>7, <2>2
<1> QED
  BY <1>9, <1>11, <1>12

\* The distances of a complete profile add up to what the whole is off.
LEMMA DistancesAddUp ==
    ASSUME NEW t \in Int, NEW f \in [Phases -> Int], NEW s \in [Phases -> Int], Sum(f) = 100
    PROVE  (100 * s[1] - t * f[1]) + (100 * s[2] - t * f[2]) + (100 * s[3] - t * f[3])
               = 100 * (Sum(s) - t)
<1>1. PICK u \in Int, v \in Int, w \in Int : u = f[1] /\ v = f[2] /\ w = f[3]
  BY DEF Phases
<1>2. PICK k \in Int, l \in Int, m \in Int : k = s[1] /\ l = s[2] /\ m = s[3]
  BY DEF Phases
<1>3. u + v + w = 100
  BY <1>1 DEF Sum
<1>4. t * u + t * v + t * w = t * (u + v + w)
  OBVIOUS
<1>5. t * u + t * v + t * w = 100 * t
  BY <1>3, <1>4
<1>6. Sum(s) = k + l + m
  BY <1>2 DEF Sum
<1>7. PICK a \in Int, b \in Int, c \in Int : a = t * u /\ b = t * v /\ c = t * w
  OBVIOUS
<1>8. (100 * k - a) + (100 * l - b) + (100 * m - c) = 100 * (k + l + m - t)
  BY <1>5, <1>7
<1> QED
  BY <1>1, <1>2, <1>6, <1>7, <1>8

--------------------------------------------------------------------------------

\* The initial states satisfy the invariant.
LEMMA InitIInv == Init => IInv
<1> SUFFICES ASSUME Init
             PROVE  IInv
  OBVIOUS
<1>1. TypeOK
  <2>1. total \in Int /\ percent \in [Phases -> Int]
    BY MixedAssumption DEF Init
  <2>2. ms \in [Phases -> Nat] /\ at = "validate" /\ next = 1
    BY DEF Init
  <2> QED
    BY <2>1, <2>2 DEF TypeOK
<1>2. SplitOK /\ SplitIsExact /\ RefusalIsJustified
  BY DEF Init, SplitOK, SplitIsExact, RefusalIsJustified
<1> QED
  BY <1>1, <1>2 DEF IInv

\* Every step keeps the invariant.
LEMMA StepIInv == IInv /\ [Next]_vars => IInv'
<1> SUFFICES ASSUME IInv, [Next]_vars
             PROVE  IInv'
  OBVIOUS
<1> USE DEF IInv
<1>1. CASE Validate
  <2> DEFINE profile == Effective(percent)
  <2>1. CASE ~Acceptable(total, percent)
    <3>1. /\ at' = "refused"
          /\ UNCHANGED <<total, percent, ms, next>>
      BY <1>1, <2>1 DEF Validate
    <3> QED
      BY <3>1, <2>1 DEF TypeOK, SplitOK, SplitIsExact, RefusalIsJustified, Acceptable
  <2>2. CASE Acceptable(total, percent)
    <3>1. /\ percent' = profile
          /\ ms' = [p \in Phases |-> Share(total, profile[p])]
          /\ at' = IF total < ActiveCount(profile) THEN "refused" ELSE "remainder"
          /\ total' = total /\ next' = next
      BY <1>1, <2>2 DEF Validate, TooShort
    <3>2. /\ profile \in [Phases -> Int]
          /\ Acceptable(total, profile)
          /\ \E p \in Phases : profile[p] > 0
      BY <2>2, EffectiveIsAcceptable DEF TypeOK
    <3>3. /\ ActiveCount(profile) \in Int
          /\ ActiveCount(profile) >= 1
      BY <3>2, ActiveCountIsSmall
    <3> HIDE DEF profile
    <3>4. \A p \in Phases : /\ Share(total, profile[p]) \in Nat
                            /\ Share(total, profile[p]) >= 1 <=> profile[p] > 0
      BY <3>2, ShareIsPositive DEF Acceptable, TypeOK
    <3>5. TypeOK'
      BY <3>1, <3>2, <3>4 DEF TypeOK
    <3>6. Acceptable(total, percent)'
      BY <3>1, <3>2 DEF Acceptable, Sum
    <3>7. SplitOK'
      <4>1. \A p \in Phases : ms'[p] >= 1 <=> percent'[p] > 0
        BY <3>1, <3>4
      <4>2. at' = "remainder" => ActiveCount(profile) \in 1 .. total
        BY <3>1, <3>3 DEF TypeOK
      <4>3. ActiveCount(percent)' = ActiveCount(profile)
        BY <3>1 DEF ActiveCount, Sum
      <4> QED
        BY <4>1, <4>2, <4>3, <3>6, <3>1 DEF SplitOK
    <3>8. SplitIsExact'
      BY <3>1 DEF SplitIsExact
    <3>9. RefusalIsJustified'
      <4>1. ActiveCount(percent)' = ActiveCount(profile)
        BY <3>1 DEF ActiveCount, Sum
      <4> QED
        BY <4>1, <3>1 DEF RefusalIsJustified
    <3> QED
      BY <3>5, <3>7, <3>8, <3>9
  <2> QED
    BY <2>1, <2>2
<1>2. CASE Remainder
  <2>1. /\ at = "remainder" /\ at' = "reduce"
        /\ total' = total /\ percent' = percent /\ next' = next
        /\ ms' = IF Sum(ms) < total THEN [ms EXCEPT ![Target] = @ + (total - Sum(ms))]
                                    ELSE ms
    BY <1>2 DEF Remainder
  <2>2. Sum(ms) \in Nat /\ total \in Int
    BY DEF TypeOK, Sum, Phases
  <2>3. Target \in Phases /\ percent[Target] > 0
    <3>1. \E p \in Phases : percent[p] > 0
      BY <2>1, ActiveCountIsSmall DEF SplitOK, TypeOK, Phases
    <3> QED
      BY <3>1, TargetIsActive DEF TypeOK
  <2>4. /\ ms' \in [Phases -> Nat]
        /\ \A p \in Phases : ms'[p] >= 1 <=> percent[p] > 0
        /\ Sum(ms') >= total
    <3>1. CASE Sum(ms) < total
      <4>1. ms' = [ms EXCEPT ![Target] = @ + (total - Sum(ms))]
        BY <2>1, <3>1
      <4>2. PICK d \in Nat : d = total - Sum(ms) /\ d > 0
        BY <2>2, <3>1
      <4>3. ms' = [ms EXCEPT ![Target] = ms[Target] + d]
        BY <4>1, <4>2
      <4>4. ms \in [Phases -> Nat] /\ Target \in {1, 2, 3} /\ Phases = {1, 2, 3}
        BY <2>3 DEF TypeOK, Phases
      <4>5. Sum(ms') = Sum(ms) + d
        BY <4>2, <4>3, <4>4 DEF Sum
      <4>6. \A p \in Phases : ms'[p] = IF p = Target THEN ms[p] + d ELSE ms[p]
        BY <4>3, <4>4
      <4>7. \A p \in Phases : ms[p] >= 1 <=> percent[p] > 0
        BY <2>1 DEF SplitOK
      <4>8. ms' \in [Phases -> Nat]
        BY <4>2, <4>3, <4>4
      <4>9. Sum(ms') >= total
        BY <4>5, <4>2, <2>2
      <4>10. \A p \in Phases : ms'[p] >= 1 <=> percent[p] > 0
        BY <4>6, <4>7, <4>2, <4>4, <2>3
      <4> QED
        BY <4>8, <4>9, <4>10
    <3>2. CASE ~(Sum(ms) < total)
      BY <2>1, <2>2, <3>2 DEF SplitOK, TypeOK
    <3> QED
      BY <3>1, <3>2
  <2>5. Acceptable(total, percent)' /\ (ActiveCount(percent) \in 1 .. total)'
    BY <2>1 DEF SplitOK
  <2>6. Sum(ms)' = Sum(ms')
    BY DEF Sum
  <2> QED
    BY <2>1, <2>4, <2>5, <2>6 DEF TypeOK, SplitOK, SplitIsExact, RefusalIsJustified
<1>3. CASE Reduce
  <2>1. /\ at = "reduce" /\ Sum(ms) > total
        /\ total' = total /\ percent' = percent /\ next' = next
    BY <1>3 DEF Reduce, Exceeds
  <2>2. /\ ms \in [Phases -> Nat] /\ Phases = {1, 2, 3} /\ total \in Int
        /\ \A p \in Phases : ms[p] >= 1 <=> percent[p] > 0
    BY <2>1 DEF TypeOK, SplitOK, Phases
  <2>3. Acceptable(total, percent)' /\ (ActiveCount(percent) \in 1 .. total)'
    BY <2>1 DEF SplitOK
  <2>4. CASE \E p \in Phases : ms[p] > 1 /\ ms' = [ms EXCEPT ![p] = @ - 1] /\ UNCHANGED at
    <3>1. PICK p \in Phases : ms[p] > 1 /\ ms' = [ms EXCEPT ![p] = @ - 1] /\ UNCHANGED at
      BY <2>4
    <3>2. ms' \in [Phases -> Nat]
      BY <2>2, <3>1
    <3>3. \A q \in Phases : ms'[q] >= 1 <=> percent[q] > 0
      BY <2>2, <3>1
    <3>4. Sum(ms') = Sum(ms) - 1
      BY <2>2, <3>1 DEF Sum
    <3>5. Sum(ms') >= total
      BY <3>4, <2>1, <2>2 DEF Sum
    <3>6. Sum(ms)' = Sum(ms')
      BY DEF Sum
    <3> QED
      BY <2>1, <2>3, <3>1, <3>2, <3>3, <3>5, <3>6
      DEF TypeOK, SplitOK, SplitIsExact, RefusalIsJustified
  <2>5. CASE \A p \in Phases : ~(ms[p] > 1)
    <3>1. \A p \in Phases : ms[p] = IF percent[p] > 0 THEN 1 ELSE 0
      BY <2>2, <2>5 DEF TypeOK
    <3>2. Sum(ms) = ActiveCount(percent)
      BY <3>1, <2>2, ActiveCountIsSmall DEF Sum, TypeOK
    <3>3. ActiveCount(percent) \in 1 .. total
      BY <2>1 DEF SplitOK
    <3> QED
      BY <2>1, <2>2, <3>2, <3>3
  <2> QED
    BY <1>3, <2>4, <2>5 DEF Reduce, Reducible, Lower
<1>4. CASE SplitDone
  <2>1. /\ at = "reduce" /\ at' = "run" /\ ~(Sum(ms) > total)
        /\ UNCHANGED <<total, percent, ms, next>>
    BY <1>4 DEF SplitDone, Exceeds
  <2>2. Sum(ms) \in Int /\ total \in Int
    BY DEF TypeOK, Sum, Phases
  <2>3. Sum(ms) = total
    BY <2>1, <2>2 DEF SplitOK
  <2>4. Sum(ms)' = Sum(ms)
    BY <2>1 DEF Sum
  <2> QED
    BY <2>1, <2>3, <2>4 DEF TypeOK, SplitOK, SplitIsExact, RefusalIsJustified
<1>5. CASE RunPhase
  <2>1. /\ at = "run" /\ at' \in {"run", "failed"} /\ next' \in 1 .. 4
        /\ UNCHANGED <<total, percent, ms>>
    BY <1>5 DEF RunPhase, TypeOK, Phases
  <2>2. Sum(ms)' = Sum(ms)
    BY <2>1 DEF Sum
  <2> QED
    BY <2>1, <2>2 DEF TypeOK, SplitOK, SplitIsExact, RefusalIsJustified
<1>6. CASE Return
  <2>1. /\ at = "run" /\ at' = "done"
        /\ UNCHANGED <<total, percent, ms, next>>
    BY <1>6 DEF Return
  <2>2. Sum(ms)' = Sum(ms)
    BY <2>1 DEF Sum
  <2> QED
    BY <2>1, <2>2 DEF TypeOK, SplitOK, SplitIsExact, RefusalIsJustified
<1>7. CASE UNCHANGED vars
  BY <1>7 DEF vars, TypeOK, SplitOK, SplitIsExact, RefusalIsJustified, Acceptable,
              ActiveCount, Sum
<1> QED
  BY <1>1, <1>2, <1>3, <1>4, <1>5, <1>6, <1>7 DEF Next

\* Every reachable state satisfies the inductive invariant.
THEOREM InductiveInvariant == Spec => []IInv
BY InitIInv, StepIInv, PTL DEF Spec

\* The workloads of a mixed scenario add up to its duration, whatever duration
\* and profile splitMixedDurations is called with.
THEOREM ExactSplit == Spec => []SplitIsExact
<1>1. IInv => SplitIsExact
  BY DEF IInv
<1> QED
  BY <1>1, InductiveInvariant, PTL

\* It refuses only invalid profiles and durations that are too short: the error
\* after its reducing loop is unreachable.
THEOREM JustifiedRefusal == Spec => []RefusalIsJustified
<1>1. IInv => RefusalIsJustified
  BY DEF IInv
<1> QED
  BY <1>1, InductiveInvariant, PTL

--------------------------------------------------------------------------------
(* The split is fair.                                                      *)

\* What is missing goes to the largest phase, which stays within two
\* milliseconds of its exact share; what is too much is one millisecond.
LEMMA RemainderStaysNear ==
    ASSUME IInv, NearOK, Remainder
    PROVE  NearOK' /\ CorrectsOnce'
<1>1. /\ at = "remainder" /\ at' = "reduce"
      /\ total' = total /\ percent' = percent
      /\ ms' = IF Sum(ms) < total THEN [ms EXCEPT ![Target] = @ + (total - Sum(ms))]
                                  ELSE ms
  BY DEF Remainder
<1>2. PICK t \in Int, f \in [Phases -> Int], s \in [Phases -> Nat], x \in Phases :
          t = total /\ f = percent /\ s = ms /\ x = Target
  <2>1. \E p \in Phases : percent[p] > 0
    BY <1>1, ActiveCountIsSmall DEF IInv, SplitOK, TypeOK, Phases
  <2>2. Target \in Phases
    BY <2>1, TargetIsActive DEF IInv, TypeOK
  <2> QED
    BY <2>2 DEF IInv, TypeOK
<1>3. PICK excess \in Int : excess = Sum(s) - t
  BY <1>2 DEF Sum, Phases
<1>4. excess <= 1
  BY <1>1, <1>2, <1>3 DEF NearOK, Sum, Phases
<1>5. PICK r \in [Phases -> Nat] :
          /\ r = ms'
          /\ r = IF excess < 0 THEN [s EXCEPT ![x] = s[x] - excess] ELSE s
  <2>1. PICK lack \in Int : lack = total - Sum(ms) /\ lack = -excess
    BY <1>2, <1>3 DEF Sum, Phases
  <2>2. Sum(ms) < total <=> excess < 0
    BY <2>1, <1>2, <1>3 DEF Sum, Phases
  <2>3. ms' = IF excess < 0 THEN [s EXCEPT ![x] = s[x] + lack] ELSE s
    BY <2>1, <2>2, <1>1, <1>2
  <2>4. s[x] + lack = s[x] - excess /\ (excess < 0 => s[x] - excess \in Nat)
    BY <2>1, <1>2, <1>3
  <2> QED
    BY <2>3, <2>4, <1>2, <1>3
<1>6. Sum(r) = IF excess < 0 THEN t ELSE Sum(s)
  BY <1>2, <1>3, <1>5 DEF Sum, Phases
<1>7. CorrectsOnce'
  <2>1. Sum(r) <= t + 1
    BY <1>2, <1>3, <1>4, <1>6 DEF Sum, Phases
  <2> QED
    BY <2>1, <1>1, <1>2, <1>5 DEF CorrectsOnce, Sum
<1>8. ASSUME Sum(f) = 100
      PROVE  \/ Sum(r) = t /\ \A p \in Phases : 100 * r[p] - t * f[p] \in -200 .. 200
             \/ Sum(r) = t + 1 /\ \A p \in Phases : 100 * r[p] - t * f[p] \in -99 .. 99
  <2>1. PICK d \in [Phases -> Int] : \A p \in Phases : d[p] = 100 * s[p] - t * f[p]
    <3>1. [p \in Phases |-> 100 * s[p] - t * f[p]] \in [Phases -> Int]
      BY <1>2
    <3> QED
      BY <3>1
  <2>2. d[1] + d[2] + d[3] = 100 * excess
    BY <2>1, <1>2, <1>3, <1>8, DistancesAddUp DEF Phases
  <2>3. (\A p \in Phases : d[p] \in -99 .. 99) /\ d[x] <= 0
    BY <2>1, <1>1, <1>2, <1>8 DEF NearOK, Distance, Sum
  <2>4. x \in {1, 2, 3} /\ Phases = {1, 2, 3}
    BY <1>2 DEF Phases
  <2>5. excess >= -2 /\ excess <= 1
    BY <2>2, <2>3, <2>4, <1>4
  <2>6. CASE excess < 0
    <3>1. \A p \in Phases : 100 * r[p] - t * f[p] = IF p = x THEN d[p] - 100 * excess ELSE d[p]
      <4>1. TAKE p \in Phases
      <4>2. PICK product \in Int : product = t * f[p]
        BY <1>2
      <4>3. r[p] = IF p = x THEN s[p] - excess ELSE s[p]
        BY <1>2, <1>5, <2>6
      <4>4. d[p] = 100 * s[p] - product /\ s[p] \in Int
        BY <4>2, <2>1, <1>2
      <4> QED
        BY <4>2, <4>3, <4>4
    <3>2. \A p \in Phases : 100 * r[p] - t * f[p] \in -200 .. 200
      <4>1. TAKE p \in Phases
      <4>2. PICK e \in Int : e = d[p] /\ e \in -99 .. 99 /\ (p = x => e <= 0)
        BY <2>3
      <4>3. 100 * r[p] - t * f[p] = IF p = x THEN e - 100 * excess ELSE e
        BY <3>1, <4>2
      <4>4. excess = -1 \/ excess = -2
        BY <2>5, <2>6
      <4> QED
        BY <4>2, <4>3, <4>4
    <3> QED
      BY <3>2, <1>6, <2>6
  <2>7. CASE excess >= 0
    <3>1. r = s /\ Sum(r) = t + excess
      BY <1>2, <1>3, <1>5, <2>7 DEF Sum, Phases
    <3>2. \A p \in Phases : 100 * r[p] - t * f[p] \in -99 .. 99
      BY <3>1, <2>1, <2>3
    <3>3. \A p \in Phases : 100 * r[p] - t * f[p] \in -200 .. 200
      BY <3>2
    <3>4. Sum(r) = t \/ Sum(r) = t + 1
      <4>1. excess = 0 \/ excess = 1
        BY <2>5, <2>7
      <4> QED
        BY <3>1, <4>1
    <3> QED
      BY <3>2, <3>3, <3>4, Zenon
  <2> QED
    BY <2>6, <2>7
<1>9. NearOK'
  <2> DEFINE d(p) == 100 * r[p] - t * f[p]
  <2>1. at' = "reduce" /\ total' = t /\ percent' = f /\ ms' = r
    BY <1>1, <1>2, <1>5
  <2>2. \A p \in Phases : Distance(p)' = d(p)
    BY <2>1, Zenon DEF Distance
  <2>3. Sum(f) = 100 => \/ Sum(r) = t /\ \A p \in Phases : d(p) \in -200 .. 200
                        \/ Sum(r) = t + 1 /\ \A p \in Phases : d(p) \in -99 .. 99
    BY <1>8, Zenon
  <2> HIDE DEF d
  <2>4. Sum(f) = 100 =>
            \/ Sum(r) = t /\ \A p \in Phases : Distance(p)' \in -200 .. 200
            \/ Sum(r) = t + 1 /\ \A p \in Phases : Distance(p)' \in -99 .. 99
    BY <2>2, <2>3
  <2> QED
    BY <2>1, <2>4 DEF NearOK
<1> QED
  BY <1>7, <1>9

\* One pass takes a millisecond back from a phase that is less than one off.
LEMMA ReduceStaysNear ==
    ASSUME IInv, NearOK, CorrectsOnce, Reduce
    PROVE  NearOK' /\ CorrectsOnce'
<1>1. /\ at = "reduce" /\ Sum(ms) > total
      /\ total' = total /\ percent' = percent
  BY DEF Reduce, Exceeds
<1>2. PICK t \in Int, f \in [Phases -> Int], s \in [Phases -> Nat] :
          t = total /\ f = percent /\ s = ms
  BY DEF IInv, TypeOK
<1>3. Sum(s) = t + 1
  BY <1>1, <1>2 DEF CorrectsOnce, Sum, Phases
<1>4. CASE at' = "refused"
  BY <1>4 DEF NearOK, CorrectsOnce
<1>5. CASE \E p \in Phases : ms[p] > 1 /\ ms' = [ms EXCEPT ![p] = @ - 1] /\ at' = at
  <2>1. PICK x \in Phases : s[x] > 1 /\ ms' = [s EXCEPT ![x] = s[x] - 1] /\ at' = at
    BY <1>2, <1>5
  <2>2. PICK r \in [Phases -> Nat] : r = ms' /\ r = [s EXCEPT ![x] = s[x] - 1]
    <3>1. s[x] - 1 \in Nat
      BY <2>1, <1>2
    <3> QED
      BY <2>1, <3>1, <1>2
  <2>3. Sum(r) = t
    BY <2>1, <2>2, <1>2, <1>3 DEF Sum, Phases
  <2>4. ASSUME Sum(f) = 100, NEW p \in Phases
        PROVE  100 * r[p] - t * f[p] \in -200 .. 200
    <3>1. 100 * s[p] - t * f[p] \in -99 .. 99
      <4>1. Sum(ms) # total
        BY <1>2, <1>3
      <4>2. Distance(p) \in -99 .. 99
        BY <1>1, <1>2, <2>4, <4>1 DEF NearOK
      <4> QED
        BY <1>2, <4>2, Zenon DEF Distance
    <3>2. PICK product \in Int : product = t * f[p]
      BY <1>2
    <3>3. r[p] = IF p = x THEN s[p] - 1 ELSE s[p]
      BY <1>2, <2>2
    <3>4. s[p] \in Int
      BY <1>2
    <3>5. 100 * s[p] - product \in -99 .. 99
      BY <3>1, <3>2, ZenonT(40)
    <3>6. 100 * r[p] - product \in -200 .. 200
      BY <3>2, <3>3, <3>4, <3>5
    <3> QED
      BY <3>2, <3>6, Zenon
  <2>5. NearOK'
    <3> DEFINE d(p) == 100 * r[p] - t * f[p]
    <3>1. at' = "reduce" /\ total' = t /\ percent' = f /\ ms' = r
      BY <1>1, <1>2, <2>1, <2>2
    <3>2. \A p \in Phases : Distance(p)' = d(p)
      BY <3>1, Zenon DEF Distance
    <3>3. Sum(f) = 100 => \A p \in Phases : d(p) \in -200 .. 200
      BY <2>4
    <3> HIDE DEF d
    <3>4. Sum(f) = 100 => \A p \in Phases : Distance(p)' \in -200 .. 200
      BY <3>2, <3>3
    <3> QED
      BY <2>3, <3>1, <3>4 DEF NearOK
  <2>6. CorrectsOnce'
    BY <1>1, <1>2, <2>1, <2>2, <2>3 DEF CorrectsOnce, Sum
  <2> QED
    BY <2>5, <2>6
<1> QED
  BY <1>4, <1>5 DEF Reduce, Reducible, Lower

\* The initial states satisfy the invariant.
LEMMA InitFairInv == Init => FairInv
<1> SUFFICES ASSUME Init
             PROVE  FairInv
  OBVIOUS
<1>1. IInv
  BY InitIInv
<1>2. at = "validate"
  BY DEF Init
<1> QED
  BY <1>1, <1>2 DEF FairInv, NearOK, CorrectsOnce, SharesAreFair

\* Every step keeps it.
LEMMA StepFairInv == FairInv /\ [Next]_vars => FairInv'
<1> SUFFICES ASSUME FairInv, [Next]_vars
             PROVE  FairInv'
  OBVIOUS
<1> USE DEF FairInv
<1>1. IInv'
  BY StepIInv
<1>2. CASE Validate
  <2> DEFINE profile == Effective(percent)
  <2>1. at' \in {"refused", "remainder"}
    BY <1>2 DEF Validate
  <2>2. CASE at' = "refused"
    BY <2>2, <1>1 DEF NearOK, CorrectsOnce, SharesAreFair
  <2>3. CASE at' = "remainder"
    <3>1. /\ Acceptable(total, percent)
          /\ percent' = profile /\ total' = total
          /\ ms' = [p \in Phases |-> Share(total, profile[p])]
      BY <1>2, <2>3 DEF Validate
    <3>2. PICK t \in Int, f \in [Phases -> Int], x \in Phases :
              /\ t = total' /\ f = percent' /\ x = Target'
              /\ \A q \in Phases : f[q] <= f[x]
      <4>1. total' \in Int /\ percent' \in [Phases -> Int]
        BY <1>1 DEF IInv, TypeOK
      <4>2. Target' = FirstLargest(percent')
        BY DEF Target, FirstLargest
      <4> QED
        BY <4>1, <4>2, LargestExists
    <3>3. Acceptable(t, f) /\ ActiveCount(f) \in 1 .. t
      <4>1. (Acceptable(total, percent) /\ ActiveCount(percent) \in 1 .. total)'
        BY <1>1, <2>3 DEF IInv, SplitOK
      <4> QED
        BY <4>1, <3>2 DEF Acceptable, ActiveCount, Sum
    <3> DEFINE s == [p \in Phases |-> Share(t, f[p])]
    <3>4. ms' = s
      BY <3>1, <3>2
    <3>5. /\ Sum(s) <= t + 1
          /\ \A p \in Phases : 100 * s[p] - t * f[p] \in -99 .. 99
          /\ Sum(f) = 100 => 100 * s[x] - t * f[x] <= 0
      <4> HIDE DEF profile
      <4> QED
        BY <3>2, <3>3, SharesAreNear
    <3> HIDE DEF s
    <3>6. NearOK'
      <4> DEFINE d(p) == 100 * s[p] - t * f[p]
      <4>1. at' = "remainder" /\ total' = t /\ percent' = f /\ ms' = s
        BY <2>3, <3>2, <3>4
      <4>2. \A p \in Phases : Distance(p)' = d(p)
        BY <4>1, Zenon DEF Distance
      <4>3. Target' = x /\ x \in Phases
        BY <3>2
      <4>4. Distance(Target)' = d(x)
        BY <4>1, <4>3, Zenon DEF Distance
      <4>5. /\ Sum(s) <= t + 1
            /\ \A p \in Phases : d(p) \in -99 .. 99
            /\ Sum(f) = 100 => d(x) <= 0
        BY <3>5
      <4> HIDE DEF d
      <4>6. /\ \A p \in Phases : Distance(p)' \in -99 .. 99
            /\ Sum(f) = 100 => Distance(Target)' <= 0
        BY <4>2, <4>4, <4>5
      <4> QED
        BY <4>1, <4>5, <4>6 DEF NearOK
    <3> QED
      BY <2>3, <3>6, <1>1 DEF CorrectsOnce, SharesAreFair
  <2> QED
    BY <2>1, <2>2, <2>3
<1>3. CASE Remainder
  <2>1. at' = "reduce"
    BY <1>3 DEF Remainder
  <2> QED
    BY <1>1, <1>3, <2>1, RemainderStaysNear DEF SharesAreFair
<1>4. CASE Reduce
  <2>1. at' \in {"reduce", "refused"}
    BY <1>4 DEF Reduce
  <2> QED
    BY <1>1, <1>4, <2>1, ReduceStaysNear DEF SharesAreFair
<1>5. CASE SplitDone
  <2>1. /\ at = "reduce" /\ at' = "run" /\ Sum(ms) = total
        /\ total' = total /\ percent' = percent /\ ms' = ms
    <3>1. Sum(ms) >= total /\ ~(Sum(ms) > total) /\ Sum(ms) \in Int /\ total \in Int
      BY <1>5 DEF SplitDone, Exceeds, IInv, SplitOK, TypeOK, Sum, Phases
    <3> QED
      BY <3>1, <1>5 DEF SplitDone
  <2>2. PICK t \in Int : t = total
    BY DEF IInv, TypeOK
  <2>3. ASSUME Sum(percent) = 100, NEW p \in Phases
        PROVE  /\ 100 * ms[p] - total * percent[p] <= 200
               /\ total * percent[p] - 100 * ms[p] <= 200
    <3>1. Sum(ms) # total + 1
      BY <2>1, <2>2
    <3>2. Distance(p) \in -200 .. 200
      BY <3>1, <2>1, <2>3 DEF NearOK
    <3>3. PICK k \in Int, product \in Int : k = 100 * ms[p] /\ product = total * percent[p]
      BY DEF IInv, TypeOK
    <3>4. k - product \in -200 .. 200
      BY <3>2, <3>3, Zenon DEF Distance
    <3>5. k - product <= 200 /\ product - k <= 200
      BY <3>4
    <3> QED
      BY <3>3, <3>5, Zenon
  <2>4. SharesAreFair'
    BY <2>1, <2>3 DEF SharesAreFair, Sum
  <2> QED
    BY <1>1, <2>1, <2>4 DEF NearOK, CorrectsOnce
<1>6. CASE RunPhase \/ Return
  <2>1. /\ at = "run" /\ at' \in {"run", "failed", "done"}
        /\ total' = total /\ percent' = percent /\ ms' = ms
    BY <1>6 DEF RunPhase, Return
  <2> QED
    BY <1>1, <2>1 DEF NearOK, CorrectsOnce, SharesAreFair, Sum
<1>7. CASE UNCHANGED vars
  BY <1>1, <1>7 DEF vars, NearOK, CorrectsOnce, SharesAreFair, Distance, Target, Sum
<1> QED
  BY <1>2, <1>3, <1>4, <1>5, <1>6, <1>7 DEF Next

\* Every reachable state satisfies the invariant of the fair split.
LEMMA FairInvariant == Spec => []FairInv
BY InitFairInv, StepFairInv, PTL DEF Spec

\* A complete profile is honoured to within two milliseconds a phase, whatever
\* the duration.
THEOREM FairShares == Spec => []SharesAreFair
<1>1. FairInv => SharesAreFair
  BY DEF FairInv
<1> QED
  BY <1>1, FairInvariant, PTL

\* The loop of splitMixedDurations that takes back what rounding has added makes
\* one pass at most, for every profile.
THEOREM OneCorrection == Spec => []CorrectsOnce
<1>1. FairInv => CorrectsOnce
  BY DEF FairInv
<1> QED
  BY <1>1, FairInvariant, PTL
================================================================================
