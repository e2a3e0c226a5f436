------------------------------ MODULE Backoff ------------------------------
(***************************************************************************)
(* How deliver decides on the next attempt after a retryable failure       *)
(* (internal/dispatch/backoff.go, dispatch.go:244-264): the exponential    *)
(* window and the draw from it, the Retry-After header that overrides the  *)
(* draw, and the absolute deadline.                                        *)
(*                                                                         *)
(* Durations are int64 counts of time.Nanosecond; every sum and product    *)
(* wraps around as Go's does.  The width is a parameter: an integer is in  *)
(* -MaxInt-1 .. MaxInt.  config.Load checks neither the base nor the cap,  *)
(* and a caller may send any deadline_ms, so all values occur.             *)
(***************************************************************************)
EXTENDS Integers

CONSTANTS MaxInt,    \* math.MaxInt64
          Milli,     \* time.Millisecond
          Second,    \* time.Second
          MinDelay   \* minDelay

\* What the decision is given.
CONSTANTS Bases,     \* Config.BaseBackoff
          Caps,      \* Config.MaxBackoff
          Attempts,  \* the number of the attempt that has failed
          Headers,   \* the Retry-After header: [form, n], see Heard
          Deadlines, \* Policy.DeadlineMS, in milliseconds; a value <= 0 is no override
          DefaultDeadline,  \* Config.DefaultDeadline
          Ages       \* milliseconds since the task was created

Int64 == -MaxInt - 1 .. MaxInt

ASSUME ClockAssumption ==
  /\ MaxInt \in Nat /\ MaxInt > 2 /\ {Milli, Second, MinDelay} \subseteq Nat \ {0}
  /\ Milli <= Second /\ MinDelay < MaxInt
ASSUME InputAssumption ==
  /\ Bases \cup Caps \cup Deadlines \cup {DefaultDeadline} \subseteq Int64
  /\ Attempts \subseteq Nat \ {0} /\ Ages \subseteq Nat
  /\ \A h \in Headers : h.form \in {"none", "seconds", "date"} /\ h.n \in Int64

VARIABLES base, cap, attempt, header, deadline, age,   \* the inputs
          i, window,   \* the loop of Backoff
          delay,
          phase        \* "window", "drawn", then "retry", "dead" or "panic"

inputs == <<base, cap, attempt, header, deadline, age>>
vars   == <<inputs, i, window, delay, phase>>

\* The int64 an exact result wraps around to.
Wrap(n) == ((n + MaxInt + 1) % (2 * (MaxInt + 1))) - MaxInt - 1

Smaller(a, b) == IF a < b THEN a ELSE b
Larger(a, b)  == IF a > b THEN a ELSE b

\* Duration.Milliseconds, which truncates towards zero.
Milliseconds(d) == IF d >= 0 THEN d \div Milli ELSE -((-d) \div Milli)

-----------------------------------------------------------------------------
Init == /\ base \in Bases /\ cap \in Caps /\ attempt \in Attempts
        /\ header \in Headers /\ deadline \in Deadlines /\ age \in Ages
        /\ i = 1 /\ window = base /\ delay = 0 /\ phase = "window"

KeepsDoublingUncapped == i < attempt
KeepsDoublingOnceMore == i <= attempt /\ window < cap
KeepsDoubling == i < attempt /\ window < cap

Double == /\ phase = "window" /\ KeepsDoubling
          /\ window' = Wrap(2 * window)
          /\ i' = i + 1
          /\ UNCHANGED <<inputs, delay, phase>>

UncappedBound == Wrap(window + 1)
\* The argument of rand.Int64N, which panics unless it is positive.
Bound == Wrap(Smaller(window, cap) + 1)

Draw == /\ phase = "window" /\ ~KeepsDoubling
        /\ Bound > 0
        /\ \E d \in 0 .. Bound - 1 : delay' = Larger(d, MinDelay)
        /\ phase' = "drawn"
        /\ UNCHANGED <<inputs, i, window>>

\* The panic is in a goroutine of its own: it ends the process.
DrawPanics == /\ phase = "window" /\ ~KeepsDoubling
              /\ Bound <= 0
              /\ phase' = "panic"
              /\ UNCHANGED <<inputs, i, window, delay>>

-----------------------------------------------------------------------------
ClampFromBelow(d) == Larger(d, MinDelay)
ClampWindow(d) == IF d > cap THEN cap ELSE Larger(d, MinDelay)

\* ParseRetryAfter: the durations it returns, none if there is nothing to heed.
\* The header is absent or unreadable, a number of seconds, or a date, given
\* here by its distance from the start of the attempt.
Heard(h) ==
  CASE h.form = "seconds" /\ h.n >= 0 -> {ClampWindow(Wrap(h.n * Second))}
    [] h.form = "date" /\ h.n > 0     -> {ClampWindow(h.n)}
    [] OTHER -> {}

DeadlineInSeconds == IF deadline > 0 THEN Wrap(deadline * Second) ELSE DefaultDeadline
\* The caller's deadline, if there is one, else the default; a Duration.
DeadlineInForce == IF deadline > 0 THEN Wrap(deadline * Milli) ELSE DefaultDeadline

Schedule ==
  /\ phase = "drawn"
  /\ \E d \in IF Heard(header) = {} THEN {delay} ELSE Heard(header) :
       /\ delay' = d
       /\ phase' = IF age + Milliseconds(d) >= Milliseconds(DeadlineInForce)
                   THEN "dead" ELSE "retry"
  /\ UNCHANGED <<inputs, i, window>>

Next == Double \/ Draw \/ DrawPanics \/ Schedule

Spec == Init /\ [][Next]_vars

-----------------------------------------------------------------------------
\* The configurations in which the window cannot run out of int64: the
\* doubling may go up to twice the cap.
SaneConfig == base >= 0 /\ 0 <= cap /\ cap <= MaxInt \div 2 + 1

BackoffTypeOK ==
  /\ base \in Bases /\ cap \in Caps /\ attempt \in Attempts
  /\ header \in Headers /\ deadline \in Deadlines /\ age \in Ages
  /\ i \in 1..attempt /\ window \in Int64 /\ delay \in Int64
  /\ phase \in {"window", "drawn", "retry", "dead", "panic"}

\* Powers of two, for the statement of the next property.
Pow2[n \in Nat] == IF n = 0 THEN 1 ELSE 2 * Pow2[n - 1]

\* The window the delay is drawn from is min(cap, base * 2^(attempt-1)), as if
\* the integers had no end (backoff.go:77-81), although the loop stops doubling
\* as soon as it has reached the cap.  That it stops there, and that the cap is
\* at most half of int64, is also why no doubling wraps around.
WindowIsExponential ==
  phase # "window" /\ SaneConfig =>
    Smaller(window, cap) = Smaller(cap, base * Pow2[attempt - 1])

\* No configuration but a negative or an enormous one makes rand.Int64N panic
\* and take the process with it (backoff.go:98).
NoPanic == SaneConfig => phase # "panic"

\* Neither the doubling nor a Retry-After, however large, small or overflown,
\* brings a delay outside its range: the cap bounds it from above, and from
\* below minDelay does, or the cap if that is smaller still.
DelayInRange ==
  phase \in {"drawn", "retry", "dead"} /\ SaneConfig =>
    /\ delay <= Larger(cap, MinDelay)
    /\ delay >= Smaller(cap, MinDelay)

\* A deadline the caller gives in milliseconds is kept to the millisecond
\* through its conversion to a Duration and back, as long as a Duration can hold
\* it (dispatch.go:253-258).  A larger one wraps around to any other.
DeadlineKept ==
  phase \in {"retry", "dead"} /\ deadline > 0 /\ deadline <= MaxInt \div Milli =>
    (phase = "dead" <=> age + Milliseconds(delay) >= deadline)
=============================================================================
