--------------------------- MODULE BackoffProofs ---------------------------
(***************************************************************************)
(* Theorems about Backoff, for integers of any width, any configuration    *)
(* and any header.                                                         *)
(***************************************************************************)
EXTENDS Backoff, Recursion

LEMMA Clock == /\ MaxInt \in Nat /\ MaxInt > 2
              /\ MinDelay \in Nat /\ 0 < MinDelay /\ MinDelay < MaxInt
              /\ Second \in Nat
BY ClockAssumption

\* An int64 operation always yields an int64.
LEMMA WrapType == ASSUME NEW n \in Int PROVE Wrap(n) \in Int64
<1> DEFINE m == 2 * (MaxInt + 1)
<1>1. m \in Nat \ {0}
  BY ClockAssumption
<1>2. (n + MaxInt + 1) % m \in 0 .. m - 1
  BY <1>1, ClockAssumption
<1> QED BY <1>2, ClockAssumption DEF Wrap, Int64

\* A result that fits is not changed.
LEMMA WrapExact == ASSUME NEW n \in Int64 PROVE Wrap(n) = n
<1> DEFINE m == 2 * (MaxInt + 1)
           k == n + MaxInt + 1
<1>1. m \in Nat \ {0} /\ k \in 0 .. m - 1
  BY ClockAssumption DEF Int64
<1>2. k % m = k
  BY <1>1
<1> QED BY <1>2, ClockAssumption DEF Wrap, Int64

-----------------------------------------------------------------------------
(* Every variable stays in its range: what the header asks for, multiplied    *)
(* and clamped, is an int64 again.                                            *)

LEMMA HeardType == ASSUME BackoffTypeOK PROVE Heard(header) \subseteq Int64
<1>1. cap \in Int64 /\ header.n \in Int64
  BY InputAssumption DEF BackoffTypeOK
<1>2. \A d \in Int64 : ClampWindow(d) \in Int64
  BY <1>1, Clock DEF ClampWindow, Larger, Int64
<1>3. Wrap(header.n * Second) \in Int64
  BY <1>1, WrapType, Clock DEF Int64
<1> QED BY <1>1, <1>2, <1>3 DEF Heard

\* Every variable keeps its type: no duration leaves the range of an int64, whatever
\* the header says (backoff.go: retryAfter, Next).
THEOREM TypeCorrect == Spec => []BackoffTypeOK
<1>1. Init => BackoffTypeOK
  BY Clock, InputAssumption DEF Init, BackoffTypeOK, Int64
<1>2. BackoffTypeOK /\ [Next]_vars => BackoffTypeOK'
  <2> SUFFICES ASSUME BackoffTypeOK, [Next]_vars PROVE BackoffTypeOK'
    OBVIOUS
  <2> USE DEF BackoffTypeOK
  <2>0. base \in Int64 /\ cap \in Int64 /\ attempt \in Nat /\ window \in Int64 /\ i \in Nat
    BY InputAssumption
  <2>1. CASE Double
    <3>1. Wrap(2 * window) \in Int64
      BY <2>0, WrapType DEF Int64
    <3> QED BY <2>0, <2>1, <3>1 DEF Double, KeepsDoubling, inputs
  <2>2. CASE Draw
    <3>1. Bound \in Int64
      BY <2>0, WrapType, Clock DEF Bound, Smaller, Int64
    <3>2. PICK d \in 0 .. Bound - 1 : delay' = Larger(d, MinDelay)
      BY <2>2 DEF Draw
    <3>3. delay' \in Int64
      BY <3>1, <3>2, Clock DEF Larger, Int64
    <3> QED BY <2>2, <3>3 DEF Draw, inputs
  <2>3. CASE DrawPanics
    BY <2>3 DEF DrawPanics, inputs
  <2>4. CASE Schedule
    <3>1. delay' \in Int64
      BY <2>4, HeardType DEF Schedule
    <3>2. phase' \in {"retry", "dead"}
      BY <2>4 DEF Schedule
    <3> QED BY <2>4, <3>1, <3>2 DEF Schedule, inputs
  <2>5. CASE UNCHANGED vars
    BY <2>5 DEF vars, inputs
  <2> QED BY <2>1, <2>2, <2>3, <2>4, <2>5 DEF Next
<1> QED BY <1>1, <1>2, PTL DEF Spec

-----------------------------------------------------------------------------
(* In a sane configuration no doubling leaves int64, so the window stays      *)
(* non-negative; this carries the absence of a panic and the delay's range.   *)

InRange(d) == Smaller(cap, MinDelay) <= d /\ d <= Larger(cap, MinDelay)

RangeInv == SaneConfig => /\ window >= 0
                          /\ phase # "panic"
                          /\ phase # "window" => InRange(delay)

\* Whatever a Retry-After says, its clamped value is in range; overflow in the
\* multiplication included.
LEMMA HeardInRange ==
  ASSUME BackoffTypeOK, NEW d \in Heard(header)
  PROVE InRange(d)
<1>1. cap \in Int64 /\ header.n \in Int64
  BY InputAssumption DEF BackoffTypeOK
<1>2. \A e \in Int64 : InRange(ClampWindow(e))
  BY <1>1, Clock DEF ClampWindow, InRange, Larger, Smaller, Int64
<1>3. Wrap(header.n * Second) \in Int64
  BY <1>1, WrapType, Clock DEF Int64
<1> QED BY <1>1, <1>2, <1>3 DEF Heard

LEMMA RangeStep == BackoffTypeOK /\ RangeInv /\ [Next]_vars => RangeInv'
<1> SUFFICES ASSUME BackoffTypeOK, RangeInv, [Next]_vars, SaneConfig'
             PROVE (window >= 0 /\ phase # "panic" /\ (phase # "window" => InRange(delay)))'
  BY DEF RangeInv
<1>0. base \in Int64 /\ cap \in Int64 /\ window \in Int64 /\ delay \in Int64
  BY InputAssumption DEF BackoffTypeOK
<1>1. UNCHANGED inputs /\ SaneConfig
  BY DEF Next, Double, Draw, DrawPanics, Schedule, vars, inputs, SaneConfig
<1>2. window >= 0 /\ phase # "panic" /\ (phase # "window" => InRange(delay))
  BY <1>1 DEF RangeInv
<1>3. cap >= 0 /\ 2 * (cap - 1) <= MaxInt /\ cap < MaxInt
  BY <1>0, <1>1, Clock DEF SaneConfig, Int64
<1>4. CASE Double
  <2>1. 2 * window \in Int64
    BY <1>0, <1>2, <1>3, <1>4, Clock DEF Double, KeepsDoubling, Int64
  <2>2. window' = 2 * window
    BY <1>4, <2>1, WrapExact DEF Double
  <2> QED BY <1>0, <1>2, <1>4, <2>2 DEF Double, Int64
<1>5. Bound = Smaller(window, cap) + 1 /\ Bound > 0
  <2>1. Smaller(window, cap) + 1 \in Int64 /\ Smaller(window, cap) + 1 > 0
    BY <1>0, <1>2, <1>3, Clock DEF Smaller, Int64
  <2> QED BY <2>1, WrapExact DEF Bound
<1>6. CASE Draw
  <2>1. PICK d \in 0 .. Bound - 1 : delay' = Larger(d, MinDelay)
    BY <1>6 DEF Draw
  <2>2. d \in Int /\ 0 <= d /\ d <= cap
    BY <1>0, <1>5, <2>1 DEF Smaller, Int64
  <2>3. InRange(delay')
    BY <1>0, <2>1, <2>2, Clock DEF InRange, Smaller, Larger, Int64
  <2> QED BY <1>1, <1>2, <1>6, <2>3 DEF Draw, InRange, inputs
<1>7. CASE DrawPanics
  <2>1. Bound \in Int
    BY <1>0, <1>5, Clock DEF Smaller, Int64
  <2>2. Bound <= 0
    BY <1>7 DEF DrawPanics
  <2> QED BY <1>5, <2>1, <2>2
<1>8. CASE Schedule
  <2>1. InRange(delay')
    BY <1>2, <1>8, HeardInRange DEF Schedule
  <2> QED BY <1>1, <1>2, <1>8, <2>1 DEF Schedule, InRange, inputs
<1>9. CASE UNCHANGED vars
  BY <1>2, <1>9 DEF vars, inputs, InRange
<1> QED BY <1>4, <1>6, <1>7, <1>8, <1>9 DEF Next

\* Under a sane configuration no window is negative, nothing panics, and what is
\* decided stays between the two bounds.
THEOREM RangeCorrect == Spec => []RangeInv
<1>1. Init => RangeInv
  BY DEF Init, RangeInv, SaneConfig
<1> QED BY <1>1, RangeStep, TypeCorrect, PTL DEF Spec

\* For every base that is not negative and every cap from 0 to half of int64, no
\* attempt number and no draw make rand.Int64N panic (backoff.go:94-98).
THEOREM NeverPanics == Spec => []NoPanic
<1>1. RangeInv => NoPanic
  BY DEF RangeInv, NoPanic
<1> QED BY <1>1, RangeCorrect, PTL

\* Backoff and Retry-After keep the delay between minDelay and the cap.
THEOREM DelayBounded == Spec => []DelayInRange
<1>1. RangeInv => DelayInRange
  BY DEF RangeInv, DelayInRange, InRange, Smaller, Larger
<1> QED BY <1>1, RangeCorrect, PTL

-----------------------------------------------------------------------------
(* The caller's deadline survives its conversion to nanoseconds and back.     *)

LEMMA MilliRoundTrip ==
  ASSUME NEW d \in Nat, d > 0, d <= MaxInt \div Milli
  PROVE Milliseconds(Wrap(d * Milli)) = d
<1>1. MaxInt \in Nat /\ Milli \in Nat \ {0}
  BY ClockAssumption
<1>2. Milli * (MaxInt \div Milli) <= MaxInt
  BY <1>1
<1>3. d * Milli <= Milli * (MaxInt \div Milli)
  <2> DEFINE q == MaxInt \div Milli
  <2>1. q \in Nat
    BY <1>1
  <2>2. \A a, b, c \in Nat : a <= b => a * c <= c * b
    OBVIOUS
  <2> QED BY <1>1, <2>1, <2>2
<1>4. d * Milli \in Nat
  BY <1>1
<1>5. Wrap(d * Milli) = d * Milli
  BY <1>1, <1>2, <1>3, <1>4, WrapExact DEF Int64
<1>6. (d * Milli) \div Milli = d
  BY <1>1, <1>4
<1> QED BY <1>4, <1>5, <1>6 DEF Milliseconds

\* For every deadline a Duration can hold, the task is given up exactly when
\* its next attempt would not come before that many milliseconds.
THEOREM DeadlinePrecise == Spec => []DeadlineKept
<1>1. Init => DeadlineKept
  BY DEF Init, DeadlineKept
<1>2. BackoffTypeOK /\ DeadlineKept /\ [Next]_vars => DeadlineKept'
  <2> SUFFICES ASSUME BackoffTypeOK, DeadlineKept, [Next]_vars PROVE DeadlineKept'
    OBVIOUS
  <2>1. CASE Schedule
    <3> SUFFICES ASSUME deadline > 0, deadline <= MaxInt \div Milli
                 PROVE phase' = "dead" <=> age + Milliseconds(delay') >= deadline
      BY <2>1 DEF Schedule, DeadlineKept, inputs, Milliseconds
    <3>1. deadline \in Int
      BY InputAssumption DEF BackoffTypeOK, Int64
    <3>2. Milliseconds(DeadlineInForce) = deadline
      BY <3>1, MilliRoundTrip DEF DeadlineInForce
    <3> QED BY <2>1, <3>2 DEF Schedule
  <2>2. CASE Double \/ Draw \/ DrawPanics
    BY <2>2 DEF Double, Draw, DrawPanics, DeadlineKept
  <2>3. CASE UNCHANGED vars
    BY <2>3 DEF vars, inputs, DeadlineKept, Milliseconds
  <2> QED BY <2>1, <2>2, <2>3 DEF Next
<1> QED BY <1>1, <1>2, TypeCorrect, PTL DEF Spec

-----------------------------------------------------------------------------
(* The window: doubled one step at a time, against a power of two.            *)

\* The recursion that defines the powers of two has a solution.
LEMMA Pow2Equation ==
  /\ Pow2[0] = 1
  /\ \A n \in Nat : Pow2[n + 1] = 2 * Pow2[n]
  /\ \A n \in Nat : Pow2[n] \in Nat /\ Pow2[n] >= 1
<1> DEFINE p == [n \in Nat |-> n - 1]
           g == [n \in Nat |-> [v \in Nat |-> 2 * v]]
           m == [n \in Nat |-> n]
           E(f) == [n \in Nat |-> IF n = 0 THEN 1 ELSE 2 * f[n - 1]]
<1>1. Descends(Nat, {0}, p, m)
  BY DEF Descends
<1>2. \A n \in Nat \ {0} : \A v \in Nat : g[n][v] = 2 * v /\ g[n][v] \in Nat
  OBVIOUS
<1>3. \A n \in Nat \ {0} : p[n] = n - 1 /\ n - 1 \in Nat
  OBVIOUS
<1>4. 1 \in Nat
  OBVIOUS
<1> HIDE DEF p, g, m
<1>5. PICK f \in [Nat -> Nat] : Solution(Nat, f, {0}, 1, p, g)
  BY <1>1, <1>2, <1>4, RecursionExists
<1>6. \A n \in Nat : f[n] = IF n = 0 THEN 1 ELSE 2 * f[n - 1]
  <2> SUFFICES ASSUME NEW n \in Nat PROVE f[n] = IF n = 0 THEN 1 ELSE 2 * f[n - 1]
    OBVIOUS
  <2>1. f[n] = IF n \in {0} THEN 1 ELSE g[n][f[p[n]]]
    BY <1>5 DEF Solution, Solves
  <2>2. CASE n = 0
    BY <2>1, <2>2
  <2>3. CASE n # 0
    <3>1. n \in Nat \ {0} /\ p[n] = n - 1 /\ f[n - 1] \in Nat
      BY <1>3, <1>5, <2>3
    <3>2. g[n][f[n - 1]] = 2 * f[n - 1]
      BY <1>2, <3>1
    <3>3. QED
      BY <2>1, <2>3, <3>1, <3>2
  <2>4. QED
    BY <2>2, <2>3
<1>7. f = E(f)
  BY <1>6
<1>8. Pow2 = E(Pow2)
  BY <1>7 DEF Pow2
<1> DEFINE q == Pow2
<1> HIDE DEF q
<1>9. \A n \in Nat : q[n] = IF n = 0 THEN 1 ELSE 2 * q[n - 1]
  BY <1>8 DEF q
<1>10. q[0] = 1 /\ \A n \in Nat : q[n + 1] = 2 * q[n]
  BY <1>9
<1> DEFINE T == {n \in Nat : q[n] \in Nat /\ q[n] >= 1}
<1>11. 0 \in T /\ \A n \in T : n + 1 \in T
  BY <1>10
<1>12. T \in SUBSET Nat
  OBVIOUS
<1> HIDE DEF T
<1>13. T = Nat
  BY <1>11, <1>12, AllNaturals
<1>14. QED
  BY <1>10, <1>13 DEF T, q

LEMMA Pow2Grows ==
  ASSUME NEW k \in Nat, NEW n \in Nat, k <= n
  PROVE  Pow2[k] <= Pow2[n]
<1> DEFINE q == Pow2
           T == {j \in Nat : q[k] <= q[k + j]}
<1>1. \A j \in Nat : q[j + 1] = 2 * q[j] /\ q[j] \in Nat
  BY Pow2Equation
<1> HIDE DEF q
<1>2. 0 \in T
  BY <1>1
<1>3. \A j \in T : j + 1 \in T
  <2> SUFFICES ASSUME NEW j \in T PROVE j + 1 \in T
    OBVIOUS
  <2>1. k + j \in Nat /\ (k + j) + 1 = k + (j + 1) /\ j + 1 \in Nat
    OBVIOUS
  <2>2. q[k + (j + 1)] = 2 * q[k + j] /\ q[k + j] \in Nat /\ q[k] \in Nat /\ q[k] <= q[k + j]
    BY <1>1, <2>1
  <2>3. QED
    BY <2>1, <2>2
<1>4. T \in SUBSET Nat
  OBVIOUS
<1> HIDE DEF T
<1>5. T = Nat
  BY <1>2, <1>3, <1>4, AllNaturals
<1>6. n - k \in T /\ k + (n - k) = n
  BY <1>5
<1>7. QED
  BY <1>6 DEF T, q

\* In a sane configuration the loop has doubled the base i - 1 times, and it ends
\* only after attempt - 1 times or at the cap.
WindowInv ==
  SaneConfig => /\ window = base * Pow2[i - 1]
                /\ phase # "window" => ~KeepsDoubling

LEMMA WindowStep == BackoffTypeOK /\ RangeInv /\ WindowInv /\ [Next]_vars => WindowInv'
<1> SUFFICES ASSUME BackoffTypeOK, RangeInv, WindowInv, [Next]_vars, SaneConfig'
             PROVE (window = base * Pow2[i - 1] /\ (phase # "window" => ~KeepsDoubling))'
  BY DEF WindowInv
<1>0. /\ base \in Int64 /\ cap \in Int64 /\ window \in Int64 /\ i \in Nat /\ i >= 1
      /\ attempt \in Nat
  BY InputAssumption DEF BackoffTypeOK
<1>1. UNCHANGED inputs /\ SaneConfig
  BY DEF Next, Double, Draw, DrawPanics, Schedule, vars, inputs, SaneConfig
<1>2. window >= 0 /\ window = base * Pow2[i - 1] /\ (phase # "window" => ~KeepsDoubling)
  BY <1>1 DEF RangeInv, WindowInv
<1>3. CASE Double
  <2>1. 2 * window \in Int64
    BY <1>0, <1>1, <1>2, <1>3, Clock DEF Double, KeepsDoubling, SaneConfig, Int64
  <2>2. window' = 2 * window /\ i' = i + 1 /\ base' = base /\ phase' = "window"
    BY <1>3, <2>1, WrapExact DEF Double, inputs
  <2>3. Pow2[(i - 1) + 1] = 2 * Pow2[i - 1] /\ Pow2[i - 1] \in Nat
    BY <1>0, Pow2Equation
  <2>4. base \in Int /\ (i - 1) + 1 = i' - 1
    BY <1>0, <2>2, Clock DEF Int64
  <2>5. \A b, c \in Int : 2 * (b * c) = b * (2 * c)
    OBVIOUS
  <2>6. window' = base' * Pow2[i' - 1]
    BY <1>2, <2>2, <2>3, <2>4, <2>5
  <2>7. QED
    BY <2>2, <2>6
<1>4. CASE Draw \/ DrawPanics \/ Schedule \/ UNCHANGED vars
  BY <1>2, <1>4 DEF Draw, DrawPanics, Schedule, vars, inputs, KeepsDoubling
<1>5. QED
  BY <1>3, <1>4 DEF Next

\* For any number of attempts, and integers of any width, the loop that stops early
\* and may not overflow computes min(cap, base * 2^(attempt-1)) (backoff.go:77-96).
THEOREM WindowCorrect == Spec => []WindowIsExponential
<1>1. Init /\ BackoffTypeOK => WindowInv
  <2> SUFFICES ASSUME Init, BackoffTypeOK PROVE base = base * Pow2[0]
    BY DEF Init, WindowInv
  <2>1. Pow2[0] = 1 /\ base \in Int
    BY Pow2Equation, InputAssumption, Clock DEF BackoffTypeOK, Int64
  <2>2. QED
    BY <2>1
<1>2. BackoffTypeOK /\ WindowInv => WindowIsExponential
  <2> SUFFICES ASSUME BackoffTypeOK, WindowInv, phase # "window", SaneConfig
               PROVE  Smaller(window, cap) = Smaller(cap, base * Pow2[attempt - 1])
    BY DEF WindowIsExponential
  <2>1. window = base * Pow2[i - 1] /\ ~KeepsDoubling
    BY DEF WindowInv
  <2>2. /\ base \in Nat /\ cap \in Nat /\ window \in Int /\ i \in Nat /\ i >= 1 /\ i <= attempt
        /\ attempt \in Nat /\ i - 1 \in Nat /\ attempt - 1 \in Nat /\ i - 1 <= attempt - 1
    BY InputAssumption, Clock DEF BackoffTypeOK, SaneConfig, Int64
  <2>3. CASE i = attempt
    BY <2>1, <2>2, <2>3, Pow2Equation DEF Smaller
  <2>4. CASE window >= cap
    <3>1. Pow2[i - 1] \in Nat /\ Pow2[attempt - 1] \in Nat /\ Pow2[i - 1] <= Pow2[attempt - 1]
      BY <2>2, Pow2Equation, Pow2Grows
    <3>2. \A a, b, c \in Nat : b <= c => a * b <= a * c
      OBVIOUS
    <3>3. base * Pow2[attempt - 1] \in Int /\ window <= base * Pow2[attempt - 1]
      BY <2>1, <2>2, <3>1, <3>2
    <3>4. QED
      BY <2>2, <2>4, <3>3 DEF Smaller
  <2>5. QED
    BY <2>1, <2>2, <2>3, <2>4 DEF KeepsDoubling
<1>3. QED
  BY <1>1, <1>2, WindowStep, RangeCorrect, TypeCorrect, PTL DEF Spec
=============================================================================
