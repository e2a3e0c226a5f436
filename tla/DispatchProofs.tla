--------------------------- MODULE DispatchProofs ---------------------------
(***************************************************************************)
(* What holds of the dispatcher for any tasks, hosts, limits and delays:   *)
(* no task is lost or handed out twice, the loop never sleeps through one, *)
(* and both semaphores count exactly the deliveries under way, so that an  *)
(* exit that waits for all of them leaves none behind.                     *)
(***************************************************************************)
EXTENDS Dispatch, Recursion

-----------------------------------------------------------------------------
(* How often a task occurs in a sequence. *)

At(l, t) == {i \in 1..Len(l) : l[i] = t}

LEMMA AtFinite ==
  ASSUME NEW l \in Seq(TaskId), NEW t
  PROVE  IsFiniteSet(At(l, t)) /\ Cardinality(At(l, t)) \in Nat
<1>1. IsFiniteSet(1..Len(l))
  BY FS_Interval
<1>2. At(l, t) \in SUBSET (1..Len(l))
  BY DEF At
<1>3. IsFiniteSet(At(l, t))
  BY <1>1, <1>2, FS_Subset
<1>4. QED
  BY <1>3, FS_CardinalityType

\* Positions moved one by one onto others keep their number.
LEMMA SameCount ==
  ASSUME NEW S, NEW T, IsFiniteSet(S), NEW f \in [S -> T],
         \A x, y \in S : f[x] = f[y] => x = y,
         \A z \in T : \E x \in S : f[x] = z
  PROVE  Cardinality(T) = Cardinality(S)
<1>1. f \in Bijection(S, T)
  BY DEF Bijection, Injection, Surjection, IsInjective
<1>2. QED
  BY <1>1, FS_Bijection DEF ExistsBijection

LEMMA InAt ==
  ASSUME NEW l \in Seq(TaskId), NEW u
  PROVE  \A i : i \in At(l, u) <=> i \in Nat /\ 1 <= i /\ i <= Len(l) /\ l[i] = u
BY DEF At

\* m is l, of length k, with t put in behind the first n.
Longer(l, m, k, n, t) ==
  /\ Len(l) = k /\ Len(m) = k + 1 /\ n <= k /\ m[n + 1] = t
  /\ \A i \in Nat : 1 <= i /\ i <= n => m[i] = l[i]
  /\ \A i \in Nat : n < i /\ i <= k => m[i + 1] = l[i]

\* That task occurs once more, and no other does.
LEMMA OneMore ==
  ASSUME NEW l \in Seq(TaskId), NEW m \in Seq(TaskId), NEW k \in Nat, NEW n \in Nat,
         NEW t \in TaskId, Longer(l, m, k, n, t), NEW u \in TaskId
  PROVE  Cardinality(At(m, u)) = Cardinality(At(l, u)) + (IF u = t THEN 1 ELSE 0)
<1> USE DEF Longer
<1> DEFINE S == At(l, u)
           T == At(m, u) \ {n + 1}
           f == [i \in S |-> IF i <= n THEN i ELSE i + 1]
<1>1. \A i : i \in S <=> i \in Nat /\ 1 <= i /\ i <= k /\ l[i] = u
  BY InAt
<1>2. \A i : i \in At(m, u) <=> i \in Nat /\ 1 <= i /\ i <= k + 1 /\ m[i] = u
  BY InAt
<1>3. \A i : i \in T <=> i \in Nat /\ 1 <= i /\ i <= k + 1 /\ m[i] = u /\ i # n + 1
  BY <1>2
<1>4. \A i \in S : f[i] = IF i <= n THEN i ELSE i + 1
  OBVIOUS
<1>5. IsFiniteSet(S) /\ IsFiniteSet(At(m, u)) /\ Cardinality(S) \in Nat
      /\ Cardinality(At(m, u)) \in Nat
  BY AtFinite
<1>6. Cardinality(T) = IF n + 1 \in At(m, u) THEN Cardinality(At(m, u)) - 1
                       ELSE Cardinality(At(m, u))
  BY <1>5, FS_RemoveElement
<1>7. DOMAIN f = S /\ f = [i \in S |-> f[i]]
  OBVIOUS
<1> HIDE DEF S, T, f
<1>8. \A i \in S : f[i] \in T
  <2> SUFFICES ASSUME NEW i \in S PROVE f[i] \in T
    OBVIOUS
  <2>1. i \in Nat /\ 1 <= i /\ i <= k /\ l[i] = u
    BY <1>1
  <2>2. CASE i <= n
    BY <1>3, <1>4, <2>1, <2>2
  <2>3. CASE ~(i <= n)
    <3>1. f[i] = i + 1 /\ m[i + 1] = u
      BY <1>4, <2>1, <2>3
    <3>2. QED
      BY <1>3, <2>1, <2>3, <3>1
  <2>4. QED
    BY <2>2, <2>3
<1>9. f \in [S -> T]
  BY <1>7, <1>8
<1>10. \A x, y \in S : f[x] = f[y] => x = y
  BY <1>1, <1>4
<1>11. \A z \in T : \E x \in S : f[x] = z
  <2> SUFFICES ASSUME NEW z \in T PROVE \E x \in S : f[x] = z
    OBVIOUS
  <2>1. z \in Nat /\ 1 <= z /\ z <= k + 1 /\ m[z] = u /\ z # n + 1
    BY <1>3
  <2>2. CASE z <= n
    <3>1. z \in S
      BY <1>1, <2>1, <2>2
    <3>2. QED
      BY <1>4, <2>2, <3>1
  <2>3. CASE ~(z <= n)
    <3> DEFINE x == z - 1
    <3>1. x \in Nat /\ n < x /\ x <= k /\ 1 <= x /\ x + 1 = z
      BY <2>1, <2>3
    <3> HIDE DEF x
    <3>2. x \in S
      BY <1>1, <2>1, <3>1
    <3>3. f[x] = z
      BY <1>4, <3>1, <3>2
    <3>4. QED
      BY <3>2, <3>3
  <2>4. QED
    BY <2>2, <2>3
<1>12. Cardinality(T) = Cardinality(S)
  BY <1>5, <1>9, <1>10, <1>11, SameCount
<1>13. n + 1 \in At(m, u) <=> u = t
  BY <1>2
<1>14. QED
  BY <1>5, <1>6, <1>12, <1>13 DEF S

LEMMA Concatenation ==
  ASSUME NEW a \in Seq(TaskId), NEW b \in Seq(TaskId)
  PROVE  /\ a \o b \in Seq(TaskId) /\ Len(a \o b) = Len(a) + Len(b)
         /\ \A i \in Nat : 1 <= i /\ i <= Len(a) => (a \o b)[i] = a[i]
         /\ \A i \in Nat : Len(a) < i /\ i <= Len(a) + Len(b) => (a \o b)[i] = b[i - Len(a)]
OBVIOUS

LEMMA Parts ==
  ASSUME NEW l \in Seq(TaskId), NEW k \in Nat, Len(l) = k, NEW n \in Nat, n <= k
  PROVE  /\ SubSeq(l, 1, n) \in Seq(TaskId) /\ Len(SubSeq(l, 1, n)) = n
         /\ \A i \in Nat : 1 <= i /\ i <= n => SubSeq(l, 1, n)[i] = l[i]
         /\ SubSeq(l, n + 1, k) \in Seq(TaskId) /\ Len(SubSeq(l, n + 1, k)) = k - n
         /\ \A i \in Nat : 1 <= i /\ i <= k - n => SubSeq(l, n + 1, k)[i] = l[n + i]
OBVIOUS

Inserted(l, n, t) == SubSeq(l, 1, n) \o <<t>> \o SubSeq(l, n + 1, Len(l))

\* heap.Push, wherever it puts the task.
LEMMA InsertCounts ==
  ASSUME NEW l \in Seq(TaskId), NEW t \in TaskId, NEW n \in 0..Len(l)
  PROVE  /\ Inserted(l, n, t) \in Seq(TaskId)
         /\ \A u \in TaskId : Cardinality(At(Inserted(l, n, t), u))
                              = Cardinality(At(l, u)) + (IF u = t THEN 1 ELSE 0)
<1> DEFINE m == Inserted(l, n, t)
<1> DEFINE k == Len(l)
           a == SubSeq(l, 1, n)
           b == SubSeq(l, n + 1, k)
           c == a \o <<t>>
<1>1. k \in Nat /\ n \in Nat /\ n <= k
  OBVIOUS
<1>2. /\ a \in Seq(TaskId) /\ Len(a) = n
      /\ \A i \in Nat : 1 <= i /\ i <= n => a[i] = l[i]
      /\ b \in Seq(TaskId) /\ Len(b) = k - n
      /\ \A i \in Nat : 1 <= i /\ i <= k - n => b[i] = l[n + i]
  BY <1>1, Parts
<1>3. Len(l) = k /\ m = (a \o <<t>>) \o b
  BY DEF Inserted
<1> HIDE DEF k, a, b, m
<1>4. <<t>> \in Seq(TaskId) /\ Len(<<t>>) = 1 /\ <<t>>[1] = t
  OBVIOUS
<1>5. /\ c \in Seq(TaskId) /\ Len(c) = n + 1
      /\ \A i \in Nat : 1 <= i /\ i <= n => c[i] = a[i]
      /\ \A i \in Nat : n < i /\ i <= n + 1 => c[i] = <<t>>[i - n]
  BY <1>2, <1>4, Concatenation
<1>6. c[n + 1] = t
  BY <1>1, <1>4, <1>5
<1>7. m = c \o b
  BY <1>3
<1> HIDE DEF c
<1>8. /\ m \in Seq(TaskId) /\ Len(m) = k + 1
      /\ \A i \in Nat : 1 <= i /\ i <= n + 1 => m[i] = c[i]
      /\ \A i \in Nat : n + 1 < i /\ i <= k + 1 => m[i] = b[i - (n + 1)]
  <2> DEFINE p == Len(c)
             q == Len(b)
  <2>1. /\ c \o b \in Seq(TaskId) /\ Len(c \o b) = p + q
        /\ \A i \in Nat : 1 <= i /\ i <= p => (c \o b)[i] = c[i]
        /\ \A i \in Nat : p < i /\ i <= p + q => (c \o b)[i] = b[i - p]
    BY <1>2, <1>5, Concatenation
  <2>2. p = n + 1 /\ p + q = k + 1
    BY <1>1, <1>2, <1>5
  <2> HIDE DEF p, q
  <2>3. QED
    BY <1>7, <2>1, <2>2
<1>9. m[n + 1] = t
  <2>1. n + 1 \in Nat /\ 1 <= n + 1 /\ n + 1 <= n + 1
    BY <1>1
  <2>2. QED
    BY <1>6, <1>8, <2>1
<1>10. \A i \in Nat : 1 <= i /\ i <= n => m[i] = l[i]
  BY <1>1, <1>2, <1>5, <1>8
<1>11. \A i \in Nat : n < i /\ i <= k => m[i + 1] = l[i]
  <2> SUFFICES ASSUME NEW i \in Nat, n < i, i <= k PROVE m[i + 1] = l[i]
    OBVIOUS
  <2>1. /\ i + 1 \in Nat /\ n + 1 < i + 1 /\ i + 1 <= k + 1
        /\ (i + 1) - (n + 1) = i - n /\ i - n \in Nat /\ 1 <= i - n /\ i - n <= k - n
        /\ n + (i - n) = i
    BY <1>1
  <2>2. m[i + 1] = b[i - n]
    BY <1>8, <2>1
  <2>3. QED
    BY <1>2, <2>1, <2>2
<1>12. Longer(l, m, k, n, t)
  BY <1>1, <1>3, <1>8, <1>9, <1>10, <1>11 DEF Longer
<1>13. \A u \in TaskId :
         Cardinality(At(m, u)) = Cardinality(At(l, u)) + (IF u = t THEN 1 ELSE 0)
  <2> SUFFICES ASSUME NEW u \in TaskId
               PROVE  Cardinality(At(m, u)) = Cardinality(At(l, u)) + (IF u = t THEN 1 ELSE 0)
    OBVIOUS
  <2>1. m \in Seq(TaskId) /\ k \in Nat /\ n \in Nat
    BY <1>1, <1>8
  <2>2. QED
    BY <1>12, <2>1, OneMore
<1>14. QED
  BY <1>8, <1>13 DEF m

\* heap.Pop.
LEMMA TailCounts ==
  ASSUME NEW l \in Seq(TaskId), l # <<>>
  PROVE  /\ Tail(l) \in Seq(TaskId) /\ Head(l) \in TaskId
         /\ \A u \in TaskId : Cardinality(At(l, u))
                              = Cardinality(At(Tail(l), u)) + (IF u = Head(l) THEN 1 ELSE 0)
<1> DEFINE r == Tail(l)
           k == Len(l) - 1
<1>1. /\ r \in Seq(TaskId) /\ Head(l) \in TaskId /\ k \in Nat /\ Len(r) = k
      /\ Len(l) = k + 1 /\ l[1] = Head(l) /\ \A i \in Nat : 1 <= i /\ i <= k => l[i + 1] = r[i]
  OBVIOUS
<1> HIDE DEF r, k
<1>2. \A u \in TaskId : Cardinality(At(l, u))
                        = Cardinality(At(r, u)) + (IF u = Head(l) THEN 1 ELSE 0)
  <2>1. Longer(r, l, k, 0, Head(l))
    BY <1>1 DEF Longer
  <2>2. 0 \in Nat
    OBVIOUS
  <2>3. QED
    BY <1>1, <2>1, <2>2, OneMore
<1>3. QED
  BY <1>1, <1>2 DEF r

-----------------------------------------------------------------------------
(* The invariant. *)

Types ==
  /\ heap \in Seq(TaskId) /\ wait \in [TaskId -> Nat]
  /\ submitted \subseteq TaskId /\ settled \subseteq TaskId
  /\ token \in BOOLEAN
  /\ leased \in TaskId \cup {None} /\ (leased # None) = (loop \in {"host", "slot"})
  /\ timer \in {None} \cup Nat
  /\ delivering \in [TaskId -> Nat]

Inv == Types /\ InOnePlace /\ NoLostWakeup

\* How often a task is in the heap, in the hands of Run, and over.
InHeap(t)  == Cardinality(At(heap, t))
InHand(t)  == IF leased = t THEN 1 ELSE 0
Over(t)    == IF t \in settled THEN 1 ELSE 0
Sent(t)    == IF t \in submitted THEN 1 ELSE 0
Balanced(t) == InHeap(t) + InHand(t) + delivering[t] + Over(t) = Sent(t)

LEMMA OnePlaceIsBalanced == InOnePlace <=> \A t \in TaskId : Balanced(t)
BY DEF InOnePlace, Balanced, InHeap, InHand, Over, Sent, At

LEMMA Counts ==
  ASSUME Types, NEW t \in TaskId
  PROVE  /\ InHeap(t) \in Nat /\ InHand(t) \in {0, 1} /\ Over(t) \in {0, 1}
         /\ Sent(t) \in {0, 1} /\ delivering[t] \in Nat
BY AtFinite DEF Types, InHeap, InHand, Over, Sent

LEMMA PushStep ==
  ASSUME Types, NEW t \in TaskId, NEW d \in Nat, Push(t, d)
  PROVE  /\ heap' \in Seq(TaskId) /\ wait' \in [TaskId -> Nat]
         /\ \A u \in TaskId : InHeap(u)' = InHeap(u) + (IF u = t THEN 1 ELSE 0)
<1>1. PICK n \in 0..Len(heap) : heap' = Inserted(heap, n, t)
  BY DEF Push, Inserted
<1>2. heap \in Seq(TaskId)
  BY DEF Types
<1>3. /\ heap' \in Seq(TaskId)
      /\ \A u \in TaskId :
           Cardinality(At(heap', u)) = Cardinality(At(heap, u)) + (IF u = t THEN 1 ELSE 0)
  BY <1>1, <1>2, InsertCounts
<1>4. wait' \in [TaskId -> Nat]
  BY DEF Push, Types
<1>5. QED
  BY <1>3, <1>4 DEF InHeap

LEMMA InitInv == Init => Inv
<1> SUFFICES ASSUME Init PROVE Inv
  OBVIOUS
<1>1. Types
  <2>1. heap \in Seq(TaskId) /\ leased = None /\ timer = None
    BY DEF Init
  <2>2. wait \in [TaskId -> Nat] /\ delivering \in [TaskId -> Nat]
    BY DEF Init
  <2>3. submitted \subseteq TaskId /\ settled \subseteq TaskId /\ token \in BOOLEAN
    BY DEF Init
  <2>4. loop \notin {"host", "slot"}
    BY DEF Init
  <2>5. QED
    BY <2>1, <2>2, <2>3, <2>4 DEF Types
<1>2. NoLostWakeup
  BY DEF Init, NoLostWakeup
<1>3. \A t \in TaskId : Balanced(t)
  <2> SUFFICES ASSUME NEW t \in TaskId PROVE Balanced(t)
    OBVIOUS
  <2>1. At(heap, t) = {}
    BY DEF Init, At
  <2>2. InHeap(t) = 0
    BY <2>1, FS_EmptySet DEF InHeap
  <2>3. InHand(t) = 0 /\ delivering[t] = 0 /\ Over(t) = 0 /\ Sent(t) = 0
    BY DispatchAssumption DEF Init, InHand, Over, Sent, DispatchAssumption
  <2>4. QED
    BY <2>2, <2>3 DEF Balanced
<1>4. QED
  BY <1>1, <1>2, <1>3, OnePlaceIsBalanced DEF Inv

-----------------------------------------------------------------------------
(* Every step keeps it: what an action does to the places of each task. *)

LEMMA TypesKept == Inv /\ [Next]_vars => Types'
<1> SUFFICES ASSUME Inv, [Next]_vars PROVE Types'
  OBVIOUS
<1> USE DEF Inv
<1>0. /\ MaxDelay \in Nat /\ BusyDelay \in Nat /\ None \notin TaskId
      /\ \A d \in 1..MaxDelay : d \in Nat
  BY DispatchAssumption DEF DispatchAssumption
<1>1. ASSUME NEW t \in TaskId, Submit(t) PROVE Types'
  BY <1>1, PushStep DEF Submit, Signal, Types, loopVars, goVars
<1>2. ASSUME NEW t \in TaskId, Settle(t) PROVE Types'
  BY <1>2 DEF Settle, Leave, Types, loopVars
<1>3. ASSUME NEW t \in TaskId, Retry(t) PROVE Types'
  <2>1. PICK d \in 1..MaxDelay : Push(t, d)
    BY <1>3 DEF Retry
  <2>2. heap' \in Seq(TaskId) /\ wait' \in [TaskId -> Nat]
    BY <1>0, <2>1, PushStep
  <2>3. delivering' \in [TaskId -> Nat]
    BY <1>3 DEF Retry, Leave, Types
  <2>4. /\ submitted' = submitted /\ settled' = settled /\ token' = TRUE
        /\ leased' = leased /\ loop' = loop /\ timer' = timer
    BY <1>3 DEF Retry, Signal, loopVars
  <2>5. QED
    BY <2>2, <2>3, <2>4 DEF Types
<1>4. CASE Tick
  <2>1. \A d \in Nat : Later(d) \in Nat
    BY DEF Later
  <2>2. wait' \in [TaskId -> Nat]
    BY <1>4, <2>1 DEF Tick, Types
  <2>3. timer' \in {None} \cup Nat
    BY <1>4, <2>1, DispatchAssumption DEF Tick, Types, Later, DispatchAssumption
  <2>4. QED
    BY <1>4, <2>2, <2>3 DEF Tick, Types, goVars
<1>5. CASE Lease
  <2>1. Tail(heap) \in Seq(TaskId) /\ Head(heap) \in TaskId
    BY <1>5, TailCounts DEF Lease, Due, Types
  <2>2. QED
    BY <1>0, <1>5, <2>1 DEF Lease, Types, goVars
<1>6. CASE NothingDue
  BY <1>6 DEF NothingDue, Types, taskVars, goVars
<1>7. CASE EnterIdle \/ StopAtTop
  BY <1>7 DEF EnterIdle, StopAtTop, Types, taskVars, goVars
<1>8. CASE WakeUp
  <2>1. token' \in BOOLEAN
    BY <1>8 DEF WakeUp, IdleStop, IdleWake, IdleTimer, Types
  <2>2. loop \notin {"host", "slot"} /\ loop' \notin {"host", "slot"}
    BY <1>8 DEF WakeUp, IdleStop, IdleWake, IdleTimer
  <2>3. /\ heap' = heap /\ wait' = wait /\ submitted' = submitted /\ settled' = settled
        /\ leased' = leased /\ timer' = None /\ delivering' = delivering
    BY <1>8 DEF WakeUp, taskVars, goVars
  <2>4. QED
    BY <2>1, <2>2, <2>3 DEF Types
<1>9. CASE TakeHost
  BY <1>9 DEF TakeHost, Types, taskVars, goVars
<1>10. CASE HostBusy
  <2>1. leased \in TaskId
    BY <1>10 DEF HostBusy, Types
  <2>2. QED
    BY <1>0, <1>10, <2>1, PushStep DEF HostBusy, Signal, Types, goVars
<1>11. CASE TakeSlot
  BY <1>11 DEF TakeSlot, Types, taskVars
<1>12. CASE StopAtSlot
  <2>1. leased \in TaskId
    BY <1>12 DEF StopAtSlot, Types
  <2>2. 0 \in Nat
    OBVIOUS
  <2>3. QED
    BY <1>12, <2>1, <2>2, PushStep DEF StopAtSlot, Signal, Types, goVars
<1>13. CASE ReleaseSlot \/ Cancel \/ ExitDrained \/ ExitTimeout \/ \E h \in Host : ReleaseHost(h)
  BY <1>13 DEF ReleaseHost, ReleaseSlot, Cancel, ExitDrained, ExitTimeout, Types, taskVars,
               loopVars, goVars
<1>14. CASE UNCHANGED vars
  BY <1>14 DEF vars, Types, taskVars, loopVars, goVars
<1>15. QED
  BY <1>1, <1>2, <1>3, <1>4, <1>5, <1>6, <1>7, <1>8, <1>9, <1>10, <1>11, <1>12, <1>13, <1>14
     DEF Next

\* Whoever puts a task into the heap signals; the timer runs with the waits.
LEMMA NoLostWakeupKept == Inv /\ [Next]_vars => NoLostWakeup'
<1> SUFFICES ASSUME Inv, [Next]_vars PROVE NoLostWakeup'
  OBVIOUS
<1>0. Types /\ NoLostWakeup
  BY DEF Inv
<1>1. ASSUME token' = TRUE PROVE NoLostWakeup'
  BY <1>1 DEF NoLostWakeup
<1>2. ASSUME loop' \notin {"arming", "idle"} PROVE NoLostWakeup'
  BY <1>2 DEF NoLostWakeup
<1>3. CASE Tick
  <2> SUFFICES ASSUME loop \in {"arming", "idle"}, heap # <<>>, ~token
               PROVE  timer' # None /\ timer' <= wait'[Head(heap)]
    BY <1>3 DEF Tick, NoLostWakeup
  <2>1. Head(heap) \in TaskId
    BY <1>0 DEF Types
  <2>2. timer # None /\ timer \in Nat /\ wait[Head(heap)] \in Nat /\ timer <= wait[Head(heap)]
    BY <1>0, <2>1 DEF Types, NoLostWakeup
  <2>3. timer' = Later(timer) /\ wait'[Head(heap)] = Later(wait[Head(heap)])
    BY <1>3, <2>1 DEF Tick
  <2>4. Later(timer) \in Nat /\ Later(timer) <= Later(wait[Head(heap)])
    BY <2>2 DEF Later
  <2>5. None \notin Nat
    BY DispatchAssumption DEF DispatchAssumption
  <2>6. QED
    BY <2>3, <2>4, <2>5
<1>4. CASE NothingDue
  <2> SUFFICES ASSUME heap # <<>> PROVE timer' # None /\ timer' <= wait[Head(heap)]
    BY <1>4 DEF NothingDue, taskVars, NoLostWakeup
  <2>1. wait[Head(heap)] \in Nat /\ timer' = wait[Head(heap)]
    BY <1>0, <1>4 DEF NothingDue, Types
  <2>2. QED
    BY <2>1, DispatchAssumption DEF DispatchAssumption
<1>5. ASSUME heap' = heap, wait' = wait, token' = token, timer' = timer,
             loop' = loop \/ loop = "arming"
      PROVE  NoLostWakeup'
  BY <1>0, <1>5 DEF NoLostWakeup
<1>6. ASSUME NEW t \in TaskId, Submit(t) \/ Retry(t) PROVE NoLostWakeup'
  BY <1>1, <1>6 DEF Submit, Retry, Signal
<1>7. ASSUME NEW t \in TaskId, Settle(t) PROVE NoLostWakeup'
  BY <1>5, <1>7 DEF Settle, loopVars
<1>8. CASE StopAtTop \/ Lease \/ WakeUp \/ TakeHost \/ HostBusy \/ TakeSlot \/ StopAtSlot
  BY <1>2, <1>8 DEF StopAtTop, Lease, WakeUp, IdleStop, IdleWake, IdleTimer, TakeHost,
                    HostBusy, TakeSlot, StopAtSlot
<1>9. CASE EnterIdle
  BY <1>5, <1>9 DEF EnterIdle, taskVars
<1>10. CASE ReleaseSlot \/ Cancel \/ ExitDrained \/ ExitTimeout \/ \E h \in Host : ReleaseHost(h)
  BY <1>5, <1>10 DEF ReleaseHost, ReleaseSlot, Cancel, ExitDrained, ExitTimeout, taskVars,
                     loopVars
<1>11. CASE UNCHANGED vars
  BY <1>5, <1>11 DEF vars, taskVars, loopVars
<1>12. QED
  BY <1>3, <1>4, <1>6, <1>7, <1>8, <1>9, <1>10, <1>11 DEF Next

LEMMA BalanceKept ==
  ASSUME Inv, [Next]_vars, NEW u \in TaskId
  PROVE  Balanced(u)'
<1>0. Types /\ Types' /\ Balanced(u) /\ \A t \in TaskId : Balanced(t)
  BY TypesKept, OnePlaceIsBalanced DEF Inv
<1>a. /\ InHeap(u) \in Nat /\ InHand(u) \in {0, 1} /\ Over(u) \in {0, 1}
      /\ Sent(u) \in {0, 1} /\ delivering[u] \in Nat
  BY <1>0, Counts
<1>b. InHeap(u) + InHand(u) + delivering[u] + Over(u) = Sent(u)
  BY <1>0 DEF Balanced
<1>c. /\ MaxDelay \in Nat /\ BusyDelay \in Nat /\ None \notin TaskId
      /\ \A d \in 1..MaxDelay : d \in Nat
  BY DispatchAssumption DEF DispatchAssumption
<1>d. ASSUME InHeap(u)' = InHeap(u), InHand(u)' = InHand(u), delivering'[u] = delivering[u],
             Over(u)' = Over(u), Sent(u)' = Sent(u)
      PROVE  Balanced(u)'
  BY <1>0, <1>d DEF Balanced
<1>1. ASSUME NEW t \in TaskId, Submit(t) PROVE Balanced(u)'
  <2>1. InHeap(u)' = InHeap(u) + (IF u = t THEN 1 ELSE 0)
    BY <1>0, <1>1, PushStep DEF Submit
  <2>2. InHand(u)' = InHand(u) /\ delivering'[u] = delivering[u] /\ Over(u)' = Over(u)
    BY <1>1 DEF Submit, loopVars, goVars, InHand, Over
  <2>3. Sent(u)' = Sent(u) + (IF u = t THEN 1 ELSE 0)
    BY <1>1 DEF Submit, Sent
  <2>4. QED
    BY <1>a, <1>b, <2>1, <2>2, <2>3 DEF Balanced
<1>2. ASSUME NEW t \in TaskId, Settle(t) PROVE Balanced(u)'
  <2>1. InHeap(u)' = InHeap(u) /\ InHand(u)' = InHand(u) /\ Sent(u)' = Sent(u)
    BY <1>2 DEF Settle, loopVars, InHeap, InHand, Sent
  <2>2. delivering'[u] = delivering[u] - (IF u = t THEN 1 ELSE 0)
    BY <1>0, <1>2 DEF Settle, Leave, Types
  <2>3. Over(u)' = IF u = t THEN 1 ELSE Over(u)
    BY <1>2 DEF Settle, Over
  <2>4. u = t => delivering[u] > 0
    BY <1>2 DEF Settle
  <2>5. QED
    BY <1>a, <1>b, <2>1, <2>2, <2>3, <2>4 DEF Balanced
<1>3. ASSUME NEW t \in TaskId, Retry(t) PROVE Balanced(u)'
  <2>1. PICK d \in 1..MaxDelay : Push(t, d)
    BY <1>3 DEF Retry
  <2>2. InHeap(u)' = InHeap(u) + (IF u = t THEN 1 ELSE 0)
    BY <1>0, <1>c, <2>1, PushStep
  <2>3. InHand(u)' = InHand(u) /\ Sent(u)' = Sent(u) /\ Over(u)' = Over(u)
    BY <1>3 DEF Retry, loopVars, InHand, Sent, Over
  <2>4. delivering'[u] = delivering[u] - (IF u = t THEN 1 ELSE 0)
    BY <1>0, <1>3 DEF Retry, Leave, Types
  <2>5. QED
    BY <1>a, <1>b, <2>2, <2>3, <2>4 DEF Balanced
<1>4. CASE Lease
  <2>1. heap # <<>> /\ heap' = Tail(heap) /\ leased' = Head(heap) /\ leased = None
    BY <1>0, <1>4 DEF Lease, Due, Types
  <2>2. InHeap(u) = InHeap(u)' + (IF u = Head(heap) THEN 1 ELSE 0)
    BY <1>0, <2>1, TailCounts DEF InHeap, Types
  <2>3. InHand(u) = 0 /\ InHand(u)' = IF u = Head(heap) THEN 1 ELSE 0
    BY <1>c, <2>1 DEF InHand
  <2>4. delivering'[u] = delivering[u] /\ Over(u)' = Over(u) /\ Sent(u)' = Sent(u)
    BY <1>4 DEF Lease, goVars, Over, Sent
  <2>5. InHeap(u)' \in Nat
    BY <1>0, AtFinite DEF InHeap, Types
  <2>6. QED
    BY <1>a, <1>b, <2>2, <2>3, <2>4, <2>5 DEF Balanced
<1>5. ASSUME leased \in TaskId, \E d \in Nat : Push(leased, d), leased' = None,
             delivering' = delivering, settled' = settled, submitted' = submitted
      PROVE  Balanced(u)'
  <2>1. InHeap(u)' = InHeap(u) + (IF u = leased THEN 1 ELSE 0)
    BY <1>0, <1>5, PushStep
  <2>2. InHand(u) = (IF u = leased THEN 1 ELSE 0) /\ InHand(u)' = 0
    BY <1>5, <1>c DEF InHand
  <2>3. delivering'[u] = delivering[u] /\ Over(u)' = Over(u) /\ Sent(u)' = Sent(u)
    BY <1>5 DEF Over, Sent
  <2>4. QED
    BY <1>a, <1>b, <2>1, <2>2, <2>3 DEF Balanced
<1>6. CASE HostBusy
  <2>1. leased \in TaskId
    BY <1>0, <1>6 DEF HostBusy, Types
  <2>2. QED
    BY <1>5, <1>6, <1>c, <2>1 DEF HostBusy, goVars
<1>7. CASE StopAtSlot
  <2>1. leased \in TaskId /\ 0 \in Nat
    BY <1>0, <1>7 DEF StopAtSlot, Types
  <2>2. QED
    BY <1>5, <1>7, <2>1 DEF StopAtSlot, goVars
<1>8. CASE TakeSlot
  <2>1. leased \in TaskId
    BY <1>0, <1>8 DEF TakeSlot, Types
  <2>2. InHand(u) = (IF u = leased THEN 1 ELSE 0) /\ InHand(u)' = 0
    BY <1>8, <1>c DEF TakeSlot, InHand
  <2>3. delivering'[u] = delivering[u] + (IF u = leased THEN 1 ELSE 0)
    BY <1>0, <1>8, <2>1 DEF TakeSlot, Types
  <2>4. InHeap(u)' = InHeap(u) /\ Over(u)' = Over(u) /\ Sent(u)' = Sent(u)
    BY <1>8 DEF TakeSlot, taskVars, InHeap, Over, Sent
  <2>5. QED
    BY <1>a, <1>b, <2>2, <2>3, <2>4 DEF Balanced
<1>9. ASSUME heap' = heap, leased' = leased, delivering' = delivering, settled' = settled,
             submitted' = submitted
      PROVE  Balanced(u)'
  BY <1>9, <1>d DEF InHeap, InHand, Over, Sent
<1>10. CASE StopAtTop \/ NothingDue \/ EnterIdle \/ WakeUp \/ TakeHost \/ Tick
  BY <1>9, <1>10 DEF StopAtTop, NothingDue, EnterIdle, WakeUp, TakeHost, Tick, taskVars, goVars
<1>11. CASE ReleaseSlot \/ Cancel \/ ExitDrained \/ ExitTimeout \/ \E h \in Host : ReleaseHost(h)
  BY <1>9, <1>11 DEF ReleaseHost, ReleaseSlot, Cancel, ExitDrained, ExitTimeout, taskVars,
                     loopVars, goVars
<1>12. CASE UNCHANGED vars
  BY <1>9, <1>12 DEF vars, taskVars, loopVars, goVars
<1>13. QED
  BY <1>1, <1>2, <1>3, <1>4, <1>6, <1>7, <1>8, <1>10, <1>11, <1>12 DEF Next

-----------------------------------------------------------------------------
LEMMA Invariance == Spec => []Inv
<1>1. Init => Inv
  BY InitInv
<1>2. Inv /\ [Next]_vars => Inv'
  <2> SUFFICES ASSUME Inv, [Next]_vars PROVE Inv'
    OBVIOUS
  <2>1. (\A t \in TaskId : Balanced(t))'
    BY BalanceKept
  <2>2. InOnePlace' <=> (\A t \in TaskId : Balanced(t))'
    BY OnePlaceIsBalanced DEF InOnePlace, Balanced, InHeap, InHand, Over, Sent, At
  <2>3. QED
    BY <2>1, <2>2, TypesKept, NoLostWakeupKept DEF Inv
<1>3. QED
  BY <1>1, <1>2, PTL DEF Spec

\* A task the queue has accepted is in the heap, in the hands of Run, with one
\* goroutine, or settled: Lease, hostBusy, the exit of Run, OnRetry and the
\* settling callbacks neither lose it nor give it to two goroutines.
THEOREM OnePlace == Spec => []InOnePlace
<1>1. Inv => InOnePlace
  BY DEF Inv
<1>2. QED
  BY <1>1, Invariance, PTL

\* Run never goes to sleep over a task: between the unlock of Lease and the
\* select of idle, every Push leaves a signal that select will find.
THEOREM NeverSleepsOver == Spec => []NoLostWakeup
<1>1. Inv => NoLostWakeup
  BY DEF Inv
<1>2. QED
  BY <1>1, Invariance, PTL

-----------------------------------------------------------------------------
(* Sums over a finite set. *)

Pick(T) == CHOOSE x \in T : TRUE
Sum(g, S) == MapThenSumSet(LAMBDA x : g[x], S)
\* The function MapThenSumSet takes its result from.
Sums(g, S) == CHOOSE f : f = [T \in SUBSET S |->
                                IF T = {} THEN 0 ELSE g[Pick(T)] + f[T \ {Pick(T)}]]

LEMMA SumIsLast == \A g, S : Sum(g, S) = Sums(g, S)[S]
BY DEF Sum, Sums, Pick, MapThenSumSet, MapThenFoldSet

LEMMA Picked == ASSUME NEW T, T # {} PROVE Pick(T) \in T
BY DEF Pick

\* A property of the empty set that T has if T without its pick has it.
LEMMA PickInduction ==
  ASSUME NEW S, IsFiniteSet(S), NEW F, {} \in F,
         \A T \in SUBSET S : T # {} /\ T \ {Pick(T)} \in F => T \in F
  PROVE  S \in F
<1> DEFINE Bad == {T \in SUBSET S : T \notin F}
           C == {Cardinality(T) : T \in Bad}
<1> SUFFICES ASSUME S \notin F PROVE FALSE
  OBVIOUS
<1>1. \A T \in SUBSET S : IsFiniteSet(T) /\ Cardinality(T) \in Nat
  BY FS_Subset, FS_CardinalityType
<1>2. C \in SUBSET Nat /\ C # {}
  BY <1>1
<1>3. PICK n \in C : \A k \in C : n <= k
  <2> HIDE DEF C
  <2>1. QED
    BY <1>2, LeastNatural
<1>4. PICK T \in Bad : n = Cardinality(T)
  OBVIOUS
<1>5. T \in SUBSET S /\ T \notin F /\ T # {}
  OBVIOUS
<1> DEFINE x == Pick(T)
<1>6. x \in T
  BY <1>5, Picked
<1> HIDE DEF x
<1>7. T \ {x} \in SUBSET S /\ Cardinality(T \ {x}) = Cardinality(T) - 1
  BY <1>1, <1>5, <1>6, FS_RemoveElement
<1>8. T \ {x} \in F
  <2> SUFFICES ASSUME T \ {x} \notin F PROVE FALSE
    OBVIOUS
  <2>1. Cardinality(T \ {x}) \in C
    BY <1>7
  <2>2. Cardinality(T) \in Nat /\ Cardinality(T) <= Cardinality(T) - 1
    BY <1>1, <1>3, <1>4, <1>5, <1>7, <2>1
  <2>3. QED
    BY <2>2
<1>9. QED
  BY <1>5, <1>8 DEF x

SumPred(S) == [T \in SUBSET S |-> T \ {Pick(T)}]
SumStep(g, S) == [T \in SUBSET S |-> [v \in Nat |-> g[Pick(T)] + v]]

LEMMA SumDescends ==
  ASSUME NEW S, IsFiniteSet(S)
  PROVE  Descends(SUBSET S, {{}}, SumPred(S), [T \in SUBSET S |-> Cardinality(T)])
<1> DEFINE m == [T \in SUBSET S |-> Cardinality(T)]
<1>1. \A T \in SUBSET S : IsFiniteSet(T) /\ Cardinality(T) \in Nat
  BY FS_Subset, FS_CardinalityType
<1>2. m \in [SUBSET S -> Nat]
  BY <1>1
<1>3. ASSUME NEW T \in (SUBSET S) \ {{}}
      PROVE  SumPred(S)[T] \in SUBSET S /\ m[SumPred(S)[T]] < m[T]
  <2>1. Pick(T) \in T
    BY Picked
  <2>2. SumPred(S)[T] = T \ {Pick(T)} /\ T \ {Pick(T)} \in SUBSET S
    BY DEF SumPred
  <2>3. Cardinality(T \ {Pick(T)}) = Cardinality(T) - 1
    BY <1>1, <2>1, FS_RemoveElement
  <2>4. Cardinality(T) \in Nat
    BY <1>1
  <2>5. QED
    BY <2>2, <2>3, <2>4
<1>4. QED
  BY <1>2, <1>3 DEF Descends

SumsTo(g, s, S) ==
  \A T \in SUBSET S : s[T] = IF T = {} THEN 0 ELSE g[Pick(T)] + s[T \ {Pick(T)}]

LEMMA SumsSolve ==
  ASSUME NEW D, NEW g \in [D -> Nat], NEW S \in SUBSET D, IsFiniteSet(S)
  PROVE  /\ Sums(g, S) \in [SUBSET S -> Nat]
         /\ Solution(SUBSET S, Sums(g, S), {{}}, 0, SumPred(S), SumStep(g, S))
         /\ SumsTo(g, Sums(g, S), S)
<1> DEFINE X == SUBSET S
           p == SumPred(S)
           q == SumStep(g, S)
           m == [T \in X |-> Cardinality(T)]
           E(f) == [T \in X |-> IF T = {} THEN 0 ELSE g[Pick(T)] + f[T \ {Pick(T)}]]
<1>1. Descends(X, {{}}, p, m)
  BY SumDescends
<1>2. \A T \in X \ {{}} : Pick(T) \in T /\ g[Pick(T)] \in Nat
  BY Picked
<1>3. \A T \in X \ {{}} : \A v \in Nat : q[T][v] = g[Pick(T)] + v /\ q[T][v] \in Nat
  BY <1>2 DEF SumStep
<1>4. \A T \in X : p[T] = T \ {Pick(T)} /\ p[T] \in X
  BY DEF SumPred
<1>5. 0 \in Nat
  OBVIOUS
<1> HIDE DEF X, p, q, m
<1>6. PICK f \in [X -> Nat] : Solution(X, f, {{}}, 0, p, q)
  BY <1>1, <1>3, <1>5, RecursionExists
<1>7. ASSUME NEW h \in [X -> Nat], NEW T \in X
      PROVE  Solves(h, T, {{}}, 0, p, q) <=> h[T] = IF T = {} THEN 0 ELSE g[Pick(T)] + h[T \ {Pick(T)}]
  <2>1. CASE T = {}
    BY <2>1 DEF Solves
  <2>2. CASE T # {}
    <3>1. T \ {Pick(T)} \in X /\ h[T \ {Pick(T)}] \in Nat
      BY <1>4
    <3>2. q[T][h[p[T]]] = g[Pick(T)] + h[T \ {Pick(T)}]
      BY <1>3, <1>4, <2>2, <3>1
    <3>3. QED
      BY <2>2, <3>2 DEF Solves
  <2>3. QED
    BY <2>1, <2>2
<1>8. f = E(f)
  <2>1. \A T \in X : f[T] = E(f)[T]
    BY <1>6, <1>7 DEF Solution
  <2>2. QED
    BY <2>1
<1>9. Sums(g, S) = E(Sums(g, S))
  BY <1>8 DEF Sums, X
<1> DEFINE s == Sums(g, S)
<1> HIDE DEF s
<1>10. \A T \in X : s[T] = IF T = {} THEN 0 ELSE g[Pick(T)] + s[T \ {Pick(T)}]
  BY <1>9 DEF s
<1>11. \A T \in X : s[T] \in Nat
  <2> SUFFICES ASSUME NEW T \in X PROVE s[T] \in Nat
    OBVIOUS
  <2> DEFINE F == {U \in X : s[U] \in Nat}
  <2>1. {} \in F
    BY <1>10 DEF X
  <2>2. \A U \in SUBSET T : U # {} /\ U \ {Pick(U)} \in F => U \in F
    <3> SUFFICES ASSUME NEW U \in SUBSET T, U # {}, U \ {Pick(U)} \in F PROVE U \in F
      OBVIOUS
    <3>1. U \in X
      BY DEF X
    <3>2. s[U] = g[Pick(U)] + s[U \ {Pick(U)}] /\ g[Pick(U)] \in Nat /\ s[U \ {Pick(U)}] \in Nat
      BY <1>2, <1>10, <3>1
    <3>3. QED
      BY <3>1, <3>2
  <2>3. IsFiniteSet(T)
    BY FS_Subset DEF X
  <2> HIDE DEF F
  <2>4. T \in F
    BY <2>1, <2>2, <2>3, PickInduction
  <2>5. QED
    BY <2>4 DEF F
<1>12. s = E(s)
  BY <1>9 DEF s
<1>13. s \in [X -> Nat]
  BY <1>11, <1>12
<1>14. Solution(X, s, {{}}, 0, p, q)
  BY <1>7, <1>10, <1>13 DEF Solution
<1>15. QED
  BY <1>10, <1>13, <1>14 DEF s, X, p, q, SumsTo

LEMMA SumEquation ==
  ASSUME NEW D, NEW g \in [D -> Nat], NEW S \in SUBSET D, IsFiniteSet(S)
  PROVE  /\ Sum(g, S) \in Nat
         /\ S = {} => Sum(g, S) = 0
         /\ S # {} => Sum(g, S) = g[Pick(S)] + Sum(g, S \ {Pick(S)})
<1>1. Sum(g, S) = Sums(g, S)[S] /\ S \in SUBSET S
  BY SumIsLast
<1>2. /\ Sums(g, S) \in [SUBSET S -> Nat]
      /\ Solution(SUBSET S, Sums(g, S), {{}}, 0, SumPred(S), SumStep(g, S))
      /\ Sums(g, S)[S] = IF S = {} THEN 0 ELSE g[Pick(S)] + Sums(g, S)[S \ {Pick(S)}]
  <2>1. SumsTo(g, Sums(g, S), S)
    BY SumsSolve
  <2>2. QED
    BY <1>1, <2>1, SumsSolve DEF SumsTo
<1>3. Sum(g, S) \in Nat /\ (S = {} => Sum(g, S) = 0)
  BY <1>1, <1>2
<1>4. ASSUME S # {} PROVE Sum(g, S) = g[Pick(S)] + Sum(g, S \ {Pick(S)})
  <2> DEFINE R == S \ {Pick(S)}
             a == Sums(g, S)
             c == Sums(g, R)
  <2>1. R \in SUBSET D /\ R \in SUBSET S /\ R \in SUBSET R /\ IsFiniteSet(R)
    BY FS_Subset
  <2>2. Solution(SUBSET R, c, {{}}, 0, SumPred(R), SumStep(g, R)) /\ Sum(g, R) = c[R]
    BY <2>1, SumsSolve, SumIsLast
  <2>3. Solution(SUBSET R, c, {{}}, 0, SumPred(S), SumStep(g, S))
    <3>1. ASSUME NEW T \in SUBSET R PROVE SumPred(R)[T] = SumPred(S)[T] /\ SumStep(g, R)[T] = SumStep(g, S)[T]
      BY <2>1 DEF SumPred, SumStep
    <3> HIDE DEF R, c
    <3>2. QED
      BY <2>2, <3>1 DEF Solution, Solves
  <2>4. Solution(SUBSET R, a, {{}}, 0, SumPred(S), SumStep(g, S))
    BY <1>2, <2>1 DEF Solution
  <2>5. ClosedIn(SUBSET S, SUBSET R, {{}}, SumPred(S))
    BY <2>1 DEF ClosedIn, SumPred
  <2>6. Descends(SUBSET S, {{}}, SumPred(S), [T \in SUBSET S |-> Cardinality(T)])
    BY SumDescends
  <2> HIDE DEF R, a, c
  <2>7. \A T \in SUBSET R : a[T] = c[T]
    BY <2>3, <2>4, <2>5, <2>6, SolutionsAgree
  <2>8. a[R] = c[R]
    BY <2>1, <2>7
  <2>9. QED
    BY <1>1, <1>2, <1>4, <2>2, <2>8 DEF R, a
<1>5. QED
  BY <1>3, <1>4

\* Functions that differ in one place have sums that differ as much.
LEMMA SumUpdate ==
  ASSUME NEW D, NEW g \in [D -> Nat], NEW h \in [D -> Nat], NEW t \in D,
         \A x \in D : x # t => h[x] = g[x], NEW S \in SUBSET D, IsFiniteSet(S)
  PROVE  IF t \in S THEN Sum(h, S) + g[t] = Sum(g, S) + h[t] ELSE Sum(h, S) = Sum(g, S)
<1> DEFINE Right(T) == IF t \in T THEN Sum(h, T) + g[t] = Sum(g, T) + h[t]
                       ELSE Sum(h, T) = Sum(g, T)
           F == {T \in SUBSET S : Right(T)}
<1>1. {} \in F
  <2>1. {} \in SUBSET D /\ IsFiniteSet({})
    BY FS_EmptySet
  <2>2. Sum(g, {}) = 0 /\ Sum(h, {}) = 0
    BY <2>1, SumEquation
  <2>3. QED
    BY <2>2
<1>2. ASSUME NEW T \in SUBSET S, T # {}, T \ {Pick(T)} \in F PROVE T \in F
  <2> DEFINE x == Pick(T)
             R == T \ {x}
  <2>1. x \in T /\ x \in D
    BY <1>2, Picked
  <2>2. T \in SUBSET D /\ IsFiniteSet(T) /\ R \in SUBSET D /\ IsFiniteSet(R)
    BY FS_Subset
  <2>3. Sum(g, T) = g[x] + Sum(g, R) /\ Sum(h, T) = h[x] + Sum(h, R)
    BY <1>2, <2>2, SumEquation
  <2>4. /\ Sum(g, R) \in Nat /\ Sum(h, R) \in Nat /\ g[x] \in Nat /\ h[x] \in Nat
        /\ g[t] \in Nat /\ h[t] \in Nat
    BY <2>1, <2>2, SumEquation
  <2>5. Right(R)
    BY <1>2
  <2> HIDE DEF x
  <2>6. CASE x = t
    <3>1. t \in T /\ t \notin R
      BY <2>1, <2>6
    <3>2. Sum(h, R) = Sum(g, R)
      BY <2>5, <3>1
    <3> HIDE DEF R
    <3>3. Right(T)
      BY <2>3, <2>4, <2>6, <3>1, <3>2
    <3>4. QED
      BY <3>3
  <2>7. CASE x # t
    <3>1. h[x] = g[x] /\ (t \in T <=> t \in R)
      BY <2>1, <2>7
    <3> HIDE DEF R
    <3>2. Right(T)
      BY <2>3, <2>4, <2>5, <3>1
    <3>3. QED
      BY <3>2
  <2>8. QED
    BY <2>6, <2>7
<1> HIDE DEF F
<1>3. S \in F
  BY <1>1, <1>2, PickInduction
<1>4. QED
  BY <1>3 DEF F

LEMMA SumOfZeros ==
  ASSUME NEW D, NEW g \in [D -> Nat], NEW S \in SUBSET D, IsFiniteSet(S),
         \A x \in S : g[x] = 0
  PROVE  Sum(g, S) = 0
<1> DEFINE F == {T \in SUBSET S : Sum(g, T) = 0}
<1>1. \A T \in SUBSET S : T \in SUBSET D /\ IsFiniteSet(T)
  BY FS_Subset
<1>2. {} \in F
  BY <1>1, SumEquation
<1>3. ASSUME NEW T \in SUBSET S, T # {}, T \ {Pick(T)} \in F PROVE T \in F
  <2>1. Pick(T) \in T
    BY <1>3, Picked
  <2>2. Sum(g, T) = g[Pick(T)] + Sum(g, T \ {Pick(T)})
    BY <1>1, <1>3, SumEquation
  <2>3. QED
    BY <1>3, <2>1, <2>2
<1> HIDE DEF F
<1>4. S \in F
  BY <1>2, <1>3, PickInduction
<1>5. QED
  BY <1>4 DEF F

\* No term is larger than the sum.
LEMMA SumBoundsTerm ==
  ASSUME NEW D, NEW g \in [D -> Nat], NEW S \in SUBSET D, IsFiniteSet(S), NEW x \in S
  PROVE  g[x] <= Sum(g, S)
<1> DEFINE h == [g EXCEPT ![x] = 0]
<1>1. h \in [D -> Nat] /\ x \in D /\ h[x] = 0 /\ \A y \in D : y # x => h[y] = g[y]
  OBVIOUS
<1> HIDE DEF h
<1>2. Sum(h, S) + g[x] = Sum(g, S) + h[x]
  BY <1>1, SumUpdate
<1>3. Sum(h, S) \in Nat /\ Sum(g, S) \in Nat /\ g[x] \in Nat
  BY <1>1, SumEquation
<1>4. QED
  BY <1>1, <1>2, <1>3

-----------------------------------------------------------------------------
(* The two limits. *)

OnHost(h) == {t \in TaskId : HostOf[t] = h}
Claim(h) == IF loop = "slot" /\ HostOf[leased] = h THEN 1 ELSE 0
SlotsBalance == slotsHeld = Sum(delivering, TaskId) + Sum(leaving, Host) + lastHold
HostBalance(h) == hostsHeld[h] = Sum(delivering, OnHost(h)) + leaving[h] + Claim(h)

HostsBalance == \A h \in Host : HostBalance(h)

LEMMA LimitsAreSums == LimitsBalance <=> SlotsBalance /\ HostsBalance
BY DEF LimitsBalance, Goroutines, SlotsBalance, HostsBalance, HostBalance, OnHost, Claim, Sum

LEMMA FiniteParts ==
  /\ TaskId \in SUBSET TaskId /\ IsFiniteSet(TaskId)
  /\ Host \in SUBSET Host /\ IsFiniteSet(Host)
  /\ \A h : OnHost(h) \in SUBSET TaskId /\ IsFiniteSet(OnHost(h))
BY FiniteAssumption, FS_Subset DEF FiniteAssumption, OnHost

Bounds ==
  /\ wait \in [TaskId -> 0..MaxDelay] /\ timer \in {None} \cup 0..MaxDelay
  /\ attempts \in [TaskId -> 0..MaxAttempts]
  /\ \A t \in TaskId \ settled : attempts[t] < MaxAttempts
  /\ leaving \in [Host -> Nat] /\ lastHold \in Nat
  /\ hostsHeld \in [Host -> 0..HostConcurrency] /\ slotsHeld \in 0..Workers
  /\ loop \in {"top", "arming", "idle", "host", "slot", "stopped"}
  /\ main \in {"serving", "draining", "drained", "timeout"}

LimitsInv == Inv /\ Bounds /\ LimitsBalance /\ DrainedMeansQuiet

\* What is under way never exceeds what is held.
LEMMA Shares ==
  ASSUME LimitsInv
  PROVE  /\ \A t \in TaskId : delivering[t] > 0 => hostsHeld[HostOf[t]] > 0 /\ slotsHeld > 0
         /\ \A h \in Host : leaving[h] > 0 => hostsHeld[h] > 0 /\ slotsHeld > 0
         /\ lastHold > 0 => slotsHeld > 0
         /\ loop = "slot" => HostOf[leased] \in Host /\ hostsHeld[HostOf[leased]] > 0
<1>0. /\ delivering \in [TaskId -> Nat] /\ leaving \in [Host -> Nat] /\ lastHold \in Nat
      /\ HostOf \in [TaskId -> Host] /\ hostsHeld \in [Host -> Nat] /\ slotsHeld \in Nat
      /\ (loop = "slot" => leased \in TaskId)
  BY DispatchAssumption DEF LimitsInv, Inv, Types, Bounds, DispatchAssumption
<1>1. SlotsBalance /\ \A h \in Host : HostBalance(h)
  BY LimitsAreSums DEF LimitsInv, HostsBalance
<1>2. /\ Sum(delivering, TaskId) \in Nat /\ Sum(leaving, Host) \in Nat
      /\ \A h \in Host : Sum(delivering, OnHost(h)) \in Nat
  BY <1>0, FiniteParts, SumEquation
<1>3. \A h \in Host : leaving[h] <= Sum(leaving, Host)
  BY <1>0, FiniteParts, SumBoundsTerm
<1>4. \A t \in TaskId : delivering[t] <= Sum(delivering, TaskId)
  BY <1>0, FiniteParts, SumBoundsTerm
<1>5. \A t \in TaskId : delivering[t] <= Sum(delivering, OnHost(HostOf[t]))
  <2> SUFFICES ASSUME NEW t \in TaskId PROVE delivering[t] <= Sum(delivering, OnHost(HostOf[t]))
    OBVIOUS
  <2>1. t \in OnHost(HostOf[t])
    BY DEF OnHost
  <2>2. QED
    BY <1>0, <2>1, FiniteParts, SumBoundsTerm
<1>6. \A h \in Host : Claim(h) \in {0, 1}
  BY DEF Claim
<1>7. \A t \in TaskId : delivering[t] > 0 => hostsHeld[HostOf[t]] > 0 /\ slotsHeld > 0
  <2> SUFFICES ASSUME NEW t \in TaskId, delivering[t] > 0
               PROVE  hostsHeld[HostOf[t]] > 0 /\ slotsHeld > 0
    OBVIOUS
  <2> DEFINE h == HostOf[t]
  <2>1. h \in Host /\ delivering[t] \in Nat /\ delivering[t] <= Sum(delivering, OnHost(h))
    BY <1>0, <1>5
  <2> HIDE DEF h
  <2>2. hostsHeld[h] > 0
    BY <1>0, <1>1, <1>2, <1>6, <2>1 DEF HostBalance
  <2>3. slotsHeld > 0
    BY <1>0, <1>1, <1>2, <1>4, <2>1 DEF SlotsBalance
  <2>4. QED
    BY <2>2, <2>3 DEF h
<1>8. \A h \in Host : leaving[h] > 0 => hostsHeld[h] > 0 /\ slotsHeld > 0
  <2> SUFFICES ASSUME NEW h \in Host, leaving[h] > 0 PROVE hostsHeld[h] > 0 /\ slotsHeld > 0
    OBVIOUS
  <2>1. leaving[h] \in Nat
    BY <1>0
  <2>2. hostsHeld[h] > 0
    BY <1>0, <1>1, <1>2, <1>6, <2>1 DEF HostBalance
  <2>3. slotsHeld > 0
    BY <1>0, <1>1, <1>2, <1>3, <2>1 DEF SlotsBalance
  <2>4. QED
    BY <2>2, <2>3
<1>9. lastHold > 0 => slotsHeld > 0
  BY <1>0, <1>1, <1>2 DEF SlotsBalance
<1>10. loop = "slot" => HostOf[leased] \in Host /\ hostsHeld[HostOf[leased]] > 0
  <2> SUFFICES ASSUME loop = "slot" PROVE HostOf[leased] \in Host /\ hostsHeld[HostOf[leased]] > 0
    OBVIOUS
  <2> DEFINE h == HostOf[leased]
  <2>1. h \in Host /\ Claim(h) = 1
    BY <1>0 DEF Claim
  <2> HIDE DEF h
  <2>2. hostsHeld[h] > 0
    BY <1>0, <1>1, <1>2, <2>1 DEF HostBalance
  <2>3. QED
    BY <2>1, <2>2 DEF h
<1>11. QED
  BY <1>7, <1>8, <1>9, <1>10

LEMMA BoundsInit == Init => Bounds
BY DispatchAssumption DEF Init, Bounds, DispatchAssumption

\* Nothing is under way at the start, and nothing held.
LEMMA LimitsInit == Init => LimitsBalance
<1> SUFFICES ASSUME Init PROVE SlotsBalance /\ \A h \in Host : HostBalance(h)
  BY LimitsAreSums DEF HostsBalance
<1>1. /\ delivering \in [TaskId -> Nat] /\ leaving \in [Host -> Nat]
      /\ \A t \in TaskId : delivering[t] = 0
      /\ \A h \in Host : leaving[h] = 0
  BY DEF Init
<1>2. Sum(delivering, TaskId) = 0
  BY <1>1, FiniteParts, SumOfZeros
<1>3. Sum(leaving, Host) = 0
  BY <1>1, FiniteParts, SumOfZeros
<1>4. \A h \in Host : Sum(delivering, OnHost(h)) = 0
  <2> SUFFICES ASSUME NEW h \in Host PROVE Sum(delivering, OnHost(h)) = 0
    OBVIOUS
  <2>1. OnHost(h) \in SUBSET TaskId /\ IsFiniteSet(OnHost(h)) /\ \A t \in OnHost(h) : delivering[t] = 0
    BY <1>1, FiniteParts
  <2>2. QED
    BY <1>1, <2>1, SumOfZeros
<1>5. SlotsBalance
  BY <1>2, <1>3 DEF SlotsBalance, Init
<1>6. \A h \in Host : HostBalance(h)
  BY <1>1, <1>4 DEF HostBalance, Claim, Init
<1>7. QED
  BY <1>5, <1>6

LEMMA BoundsKept == LimitsInv /\ [Next]_vars => Bounds'
<1> SUFFICES ASSUME LimitsInv, [Next]_vars PROVE Bounds'
  OBVIOUS
<1> USE DEF LimitsInv
<1>0. Bounds /\ Types
  BY DEF Inv
<1>a. /\ MaxDelay \in Nat /\ BusyDelay \in 0..MaxDelay /\ 0 \in 0..MaxDelay
      /\ 1..MaxDelay \subseteq 0..MaxDelay /\ MaxAttempts \in Nat
      /\ HostConcurrency \in Nat /\ Workers \in Nat /\ None \notin Nat
      /\ HostOf \in [TaskId -> Host]
  BY DispatchAssumption DEF DispatchAssumption
<1>b. ASSUME NEW t \in TaskId, NEW d \in 0..MaxDelay, Push(t, d)
      PROVE  wait' \in [TaskId -> 0..MaxDelay]
  BY <1>0, <1>b DEF Push, Bounds
<1>c. \A t \in TaskId : delivering[t] > 0 => t \notin settled
  <2> SUFFICES ASSUME NEW t \in TaskId, delivering[t] > 0, t \in settled PROVE FALSE
    OBVIOUS
  <2>1. Balanced(t)
    BY OnePlaceIsBalanced DEF Inv
  <2>2. QED
    BY <1>0, <2>1, Counts DEF Balanced, Over
<1>1. ASSUME NEW t \in TaskId, Submit(t) PROVE Bounds'
  BY <1>0, <1>a, <1>b, <1>1 DEF Submit, Bounds, loopVars, goVars
<1>2. ASSUME NEW t \in TaskId, Settle(t) PROVE Bounds'
  <2>1. attempts[t] < MaxAttempts /\ attempts[t] \in Nat
    BY <1>0, <1>c, <1>2 DEF Settle, Bounds
  <2>2. /\ attempts' \in [TaskId -> 0..MaxAttempts]
        /\ \A u \in TaskId \ settled' : attempts'[u] < MaxAttempts
    BY <1>0, <1>a, <1>2, <2>1 DEF Settle, Bounds
  <2>3. leaving' \in [Host -> Nat]
    BY <1>0, <1>a, <1>2 DEF Settle, Leave, Bounds
  <2>4. QED
    BY <1>0, <1>2, <2>2, <2>3 DEF Settle, Bounds, loopVars
<1>3. ASSUME NEW t \in TaskId, Retry(t) PROVE Bounds'
  <2>1. PICK d \in 1..MaxDelay : Push(t, d)
    BY <1>3 DEF Retry
  <2>2. wait' \in [TaskId -> 0..MaxDelay]
    BY <1>a, <1>b, <2>1
  <2>3. /\ attempts' \in [TaskId -> 0..MaxAttempts]
        /\ \A u \in TaskId \ settled' : attempts'[u] < MaxAttempts
    BY <1>0, <1>a, <1>3 DEF Retry, Bounds
  <2>4. leaving' \in [Host -> Nat]
    BY <1>0, <1>a, <1>3 DEF Retry, Leave, Bounds
  <2>5. QED
    BY <1>0, <1>3, <2>2, <2>3, <2>4 DEF Retry, Bounds, loopVars
<1>4. CASE Tick
  <2>1. \A d \in 0..MaxDelay : Later(d) \in 0..MaxDelay
    BY <1>a DEF Later
  <2>2. wait' \in [TaskId -> 0..MaxDelay]
    BY <1>0, <1>4, <2>1 DEF Tick, Bounds
  <2>3. timer' \in {None} \cup 0..MaxDelay
    BY <1>0, <1>4, <1>a, <2>1 DEF Tick, Bounds, Later
  <2>4. QED
    BY <1>0, <1>4, <2>2, <2>3 DEF Tick, Bounds, goVars
<1>5. CASE Lease
  BY <1>0, <1>5 DEF Lease, Bounds, goVars
<1>6. CASE NothingDue
  <2>1. timer' \in {None} \cup 0..MaxDelay
    BY <1>0, <1>6 DEF NothingDue, Bounds, Types
  <2>2. QED
    BY <1>0, <1>6, <2>1 DEF NothingDue, Bounds, taskVars, goVars
<1>7. CASE EnterIdle \/ StopAtTop
  BY <1>0, <1>7 DEF EnterIdle, StopAtTop, Bounds, taskVars, goVars
<1>8. CASE WakeUp
  BY <1>0, <1>8 DEF WakeUp, IdleStop, IdleWake, IdleTimer, Bounds, taskVars, goVars
<1>9. CASE TakeHost
  <2>1. leased \in TaskId
    BY <1>0, <1>9 DEF TakeHost, Types
  <2>2. hostsHeld' \in [Host -> 0..HostConcurrency]
    BY <1>0, <1>a, <1>9, <2>1 DEF TakeHost, HostIsFree, Bounds
  <2>3. QED
    BY <1>0, <1>9, <2>2 DEF TakeHost, Bounds, taskVars, goVars
<1>10. CASE HostBusy
  <2>1. leased \in TaskId
    BY <1>0, <1>10 DEF HostBusy, Types
  <2>2. wait' \in [TaskId -> 0..MaxDelay]
    BY <1>a, <1>b, <1>10, <2>1 DEF HostBusy
  <2>3. QED
    BY <1>0, <1>10, <2>2 DEF HostBusy, Bounds, goVars
<1>11. CASE TakeSlot
  <2>1. slotsHeld' \in 0..Workers
    BY <1>0, <1>a, <1>11 DEF TakeSlot, Bounds
  <2>2. QED
    BY <1>0, <1>11, <2>1 DEF TakeSlot, Bounds, taskVars
<1>12. CASE StopAtSlot
  <2>1. leased \in TaskId
    BY <1>0, <1>12 DEF StopAtSlot, Types
  <2>2. wait' \in [TaskId -> 0..MaxDelay]
    BY <1>a, <1>b, <1>12, <2>1 DEF StopAtSlot
  <2>3. hostsHeld' \in [Host -> 0..HostConcurrency]
    BY <1>0, <1>a, <1>12, Shares DEF StopAtSlot, Bounds
  <2>4. QED
    BY <1>0, <1>12, <2>2, <2>3 DEF StopAtSlot, Bounds, goVars
<1>13. ASSUME NEW h \in Host, ReleaseHost(h) PROVE Bounds'
  <2>1. hostsHeld[h] > 0
    BY <1>13, Shares DEF ReleaseHost
  <2>2. /\ hostsHeld' \in [Host -> 0..HostConcurrency] /\ leaving' \in [Host -> Nat]
        /\ lastHold' \in Nat
    BY <1>0, <1>a, <1>13, <2>1 DEF ReleaseHost, Bounds
  <2>3. QED
    BY <1>0, <1>13, <2>2 DEF ReleaseHost, Bounds, taskVars, loopVars
<1>14. CASE ReleaseSlot
  <2>1. slotsHeld > 0
    BY <1>14, Shares DEF ReleaseSlot
  <2>2. QED
    BY <1>0, <1>a, <1>14, <2>1 DEF ReleaseSlot, Bounds, taskVars, loopVars
<1>15. CASE Cancel \/ ExitDrained \/ ExitTimeout
  BY <1>0, <1>15 DEF Cancel, ExitDrained, ExitTimeout, Bounds, taskVars, loopVars, goVars
<1>16. CASE UNCHANGED vars
  BY <1>0, <1>16 DEF vars, Bounds, taskVars, loopVars, goVars
<1>17. QED
  BY <1>1, <1>2, <1>3, <1>4, <1>5, <1>6, <1>7, <1>8, <1>9, <1>10, <1>11, <1>12, <1>13, <1>14,
     <1>15, <1>16 DEF Next

-----------------------------------------------------------------------------
(* Every step keeps the account of the two limits. *)

LEMMA SlotsKept ==
  ASSUME LimitsInv, [Next]_vars, Types', Bounds'
  PROVE  SlotsBalance'
<1>t. Types /\ Bounds
  BY DEF LimitsInv, Inv
<1>0. /\ delivering \in [TaskId -> Nat] /\ leaving \in [Host -> Nat] /\ lastHold \in Nat
      /\ delivering' \in [TaskId -> Nat] /\ leaving' \in [Host -> Nat]
      /\ HostOf \in [TaskId -> Host] /\ slotsHeld \in Nat
  <2>1. delivering \in [TaskId -> Nat] /\ delivering' \in [TaskId -> Nat]
    BY <1>t DEF Types
  <2>2. leaving \in [Host -> Nat] /\ leaving' \in [Host -> Nat] /\ lastHold \in Nat /\ slotsHeld \in Nat
    BY <1>t DEF Bounds
  <2>3. QED
    BY <2>1, <2>2, DispatchAssumption DEF DispatchAssumption
<1>1. /\ Sum(delivering, TaskId) \in Nat /\ Sum(leaving, Host) \in Nat
      /\ Sum(delivering', TaskId) \in Nat /\ Sum(leaving', Host) \in Nat
  BY <1>0, FiniteParts, SumEquation
<1>2. slotsHeld = Sum(delivering, TaskId) + Sum(leaving, Host) + lastHold
  BY LimitsAreSums DEF LimitsInv, SlotsBalance
<1>a. ASSUME NEW t \in TaskId, \A u \in TaskId : u # t => delivering'[u] = delivering[u]
      PROVE  Sum(delivering', TaskId) + delivering[t] = Sum(delivering, TaskId) + delivering'[t]
  BY <1>0, <1>a, FiniteParts, SumUpdate
<1>b. ASSUME NEW h \in Host, \A k \in Host : k # h => leaving'[k] = leaving[k]
      PROVE  Sum(leaving', Host) + leaving[h] = Sum(leaving, Host) + leaving'[h]
  BY <1>0, <1>b, FiniteParts, SumUpdate
<1>3. ASSUME NEW t \in TaskId, delivering[t] > 0, Leave(t), lastHold' = lastHold,
             slotsHeld' = slotsHeld
      PROVE  SlotsBalance'
  <2> DEFINE h == HostOf[t]
  <2>1. /\ delivering'[t] = delivering[t] - 1 /\ h \in Host /\ leaving'[h] = leaving[h] + 1
        /\ delivering[t] \in Nat /\ leaving[h] \in Nat
        /\ \A u \in TaskId : u # t => delivering'[u] = delivering[u]
        /\ \A k \in Host : k # h => leaving'[k] = leaving[k]
    BY <1>0, <1>3 DEF Leave
  <2> HIDE DEF h
  <2>2. Sum(delivering', TaskId) = Sum(delivering, TaskId) - 1
    BY <1>1, <1>a, <2>1
  <2>4. Sum(leaving', Host) = Sum(leaving, Host) + 1
    BY <1>1, <1>b, <2>1
  <2>3. QED
    BY <1>0, <1>1, <1>2, <1>3, <2>2, <2>4 DEF SlotsBalance
<1>4. ASSUME NEW t \in TaskId, Settle(t) \/ Retry(t) PROVE SlotsBalance'
  BY <1>3, <1>4 DEF Settle, Retry
<1>5. CASE TakeSlot
  <2>1. leased \in TaskId
    BY <1>5 DEF TakeSlot, LimitsInv, Inv, Types
  <2>2. /\ delivering'[leased] = delivering[leased] + 1 /\ delivering[leased] \in Nat
        /\ \A u \in TaskId : u # leased => delivering'[u] = delivering[u]
    BY <1>0, <1>5, <2>1 DEF TakeSlot
  <2>3. Sum(delivering', TaskId) = Sum(delivering, TaskId) + 1
    BY <1>1, <1>a, <2>1, <2>2
  <2>4. QED
    BY <1>0, <1>1, <1>2, <1>5, <2>3 DEF TakeSlot, SlotsBalance
<1>6. ASSUME NEW h \in Host, ReleaseHost(h) PROVE SlotsBalance'
  <2>1. /\ leaving'[h] = leaving[h] - 1 /\ leaving[h] \in Nat /\ leaving[h] > 0
        /\ \A k \in Host : k # h => leaving'[k] = leaving[k]
    BY <1>0, <1>6 DEF ReleaseHost
  <2>2. Sum(leaving', Host) = Sum(leaving, Host) - 1
    BY <1>1, <1>b, <2>1
  <2>3. QED
    BY <1>0, <1>1, <1>2, <1>6, <2>2 DEF ReleaseHost, SlotsBalance
<1>7. CASE ReleaseSlot
  BY <1>0, <1>1, <1>2, <1>7 DEF ReleaseSlot, SlotsBalance
<1>8. ASSUME delivering' = delivering, leaving' = leaving, lastHold' = lastHold,
             slotsHeld' = slotsHeld
      PROVE  SlotsBalance'
  BY <1>2, <1>8 DEF SlotsBalance
<1>9. CASE \E t \in TaskId : Submit(t)
  BY <1>8, <1>9 DEF Submit, goVars
<1>10. CASE StopAtTop \/ Lease \/ NothingDue \/ EnterIdle \/ WakeUp \/ TakeHost \/ HostBusy
            \/ StopAtSlot \/ Tick
  BY <1>8, <1>10 DEF StopAtTop, Lease, NothingDue, EnterIdle, WakeUp, TakeHost, HostBusy,
                     StopAtSlot, Tick, goVars
<1>11. CASE Cancel \/ ExitDrained \/ ExitTimeout \/ UNCHANGED vars
  BY <1>8, <1>11 DEF Cancel, ExitDrained, ExitTimeout, vars, goVars
<1>12. QED
  BY <1>4, <1>5, <1>6, <1>7, <1>9, <1>10, <1>11 DEF Next

LEMMA HostsKept ==
  ASSUME LimitsInv, [Next]_vars, Types', Bounds', NEW h \in Host
  PROVE  HostBalance(h)'
<1>t. Types /\ Bounds
  BY DEF LimitsInv, Inv
<1>0. /\ delivering \in [TaskId -> Nat] /\ leaving \in [Host -> Nat] /\ lastHold \in Nat
      /\ delivering' \in [TaskId -> Nat] /\ leaving' \in [Host -> Nat]
      /\ HostOf \in [TaskId -> Host] /\ hostsHeld \in [Host -> Nat]
      /\ leaving[h] \in Nat /\ hostsHeld[h] \in Nat
      /\ (loop \in {"host", "slot"} => leased \in TaskId /\ HostOf[leased] \in Host)
  <2>1. delivering \in [TaskId -> Nat] /\ delivering' \in [TaskId -> Nat]
    BY <1>t DEF Types
  <2>2. /\ leaving \in [Host -> Nat] /\ leaving' \in [Host -> Nat] /\ lastHold \in Nat
        /\ hostsHeld \in [Host -> Nat]
    BY <1>t DEF Bounds
  <2>3. HostOf \in [TaskId -> Host]
    BY DispatchAssumption DEF DispatchAssumption
  <2>4. loop \in {"host", "slot"} => leased \in TaskId
    BY <1>t DEF Types
  <2>5. QED
    BY <2>1, <2>2, <2>3, <2>4
<1>1. Sum(delivering, OnHost(h)) \in Nat /\ Sum(delivering', OnHost(h)) \in Nat
  BY <1>0, FiniteParts, SumEquation
<1>2. hostsHeld[h] = Sum(delivering, OnHost(h)) + leaving[h] + Claim(h)
  BY LimitsAreSums DEF LimitsInv, HostsBalance, HostBalance
<1>c. Claim(h) \in {0, 1}
  BY DEF Claim
<1>a. ASSUME NEW t \in TaskId, \A u \in TaskId : u # t => delivering'[u] = delivering[u]
      PROVE  IF HostOf[t] = h
             THEN Sum(delivering', OnHost(h)) + delivering[t]
                    = Sum(delivering, OnHost(h)) + delivering'[t]
             ELSE Sum(delivering', OnHost(h)) = Sum(delivering, OnHost(h))
  <2>1. t \in OnHost(h) <=> HostOf[t] = h
    BY DEF OnHost
  <2>2. IF t \in OnHost(h)
        THEN Sum(delivering', OnHost(h)) + delivering[t]
               = Sum(delivering, OnHost(h)) + delivering'[t]
        ELSE Sum(delivering', OnHost(h)) = Sum(delivering, OnHost(h))
    BY <1>0, <1>a, FiniteParts, SumUpdate
  <2>3. QED
    BY <2>1, <2>2
<1>3. ASSUME NEW t \in TaskId, delivering[t] > 0, Leave(t), hostsHeld' = hostsHeld,
             loop' = loop, leased' = leased
      PROVE  HostBalance(h)'
  <2>1. /\ delivering'[t] = delivering[t] - 1 /\ delivering[t] \in Nat
        /\ leaving'[h] = leaving[h] + (IF HostOf[t] = h THEN 1 ELSE 0)
        /\ \A u \in TaskId : u # t => delivering'[u] = delivering[u]
    BY <1>0, <1>3 DEF Leave
  <2>2. Sum(delivering', OnHost(h))
          = Sum(delivering, OnHost(h)) - (IF HostOf[t] = h THEN 1 ELSE 0)
    BY <1>1, <1>a, <2>1
  <2>3. Claim(h)' = Claim(h)
    BY <1>3 DEF Claim
  <2>4. QED
    BY <1>0, <1>1, <1>2, <1>3, <1>c, <2>1, <2>2, <2>3 DEF HostBalance
<1>4. ASSUME NEW t \in TaskId, Settle(t) \/ Retry(t) PROVE HostBalance(h)'
  BY <1>3, <1>4 DEF Settle, Retry, loopVars
<1>5. CASE TakeSlot
  <2>1. leased \in TaskId
    BY <1>5 DEF TakeSlot, LimitsInv, Inv, Types
  <2>2. /\ delivering'[leased] = delivering[leased] + 1 /\ delivering[leased] \in Nat
        /\ \A u \in TaskId : u # leased => delivering'[u] = delivering[u]
    BY <1>0, <1>5, <2>1 DEF TakeSlot
  <2>3. Sum(delivering', OnHost(h))
          = Sum(delivering, OnHost(h)) + (IF HostOf[leased] = h THEN 1 ELSE 0)
    BY <1>1, <1>a, <2>1, <2>2
  <2>4. Claim(h) = (IF HostOf[leased] = h THEN 1 ELSE 0) /\ Claim(h)' = 0
    BY <1>5 DEF TakeSlot, Claim
  <2>5. leaving' = leaving /\ hostsHeld' = hostsHeld
    BY <1>5 DEF TakeSlot
  <2>6. QED
    BY <1>0, <1>1, <1>2, <2>3, <2>4, <2>5 DEF HostBalance
<1>6. ASSUME NEW k \in Host, ReleaseHost(k) PROVE HostBalance(h)'
  <2>1. /\ leaving[k] \in Nat /\ leaving[k] > 0 /\ hostsHeld[k] \in Nat
        /\ leaving'[h] = leaving[h] - (IF h = k THEN 1 ELSE 0)
        /\ hostsHeld'[h] = hostsHeld[h] - (IF h = k THEN 1 ELSE 0)
    BY <1>0, <1>6 DEF ReleaseHost
  <2>2. delivering' = delivering /\ Claim(h)' = Claim(h)
    BY <1>6 DEF ReleaseHost, Claim, loopVars
  <2>3. QED
    BY <1>0, <1>1, <1>2, <1>c, <2>1, <2>2 DEF HostBalance
<1>7. CASE TakeHost
  <2>1. Claim(h) = 0 /\ Claim(h)' = IF HostOf[leased] = h THEN 1 ELSE 0
    BY <1>7 DEF TakeHost, Claim
  <2>2. hostsHeld'[h] = hostsHeld[h] + (IF HostOf[leased] = h THEN 1 ELSE 0)
    BY <1>0, <1>7 DEF TakeHost
  <2>3. delivering' = delivering /\ leaving' = leaving
    BY <1>7 DEF TakeHost, goVars
  <2>4. QED
    BY <1>0, <1>1, <1>2, <2>1, <2>2, <2>3 DEF HostBalance
<1>8. CASE StopAtSlot
  <2>1. Claim(h)' = 0 /\ Claim(h) = IF HostOf[leased] = h THEN 1 ELSE 0
    BY <1>8 DEF StopAtSlot, Claim
  <2>2. hostsHeld'[h] = hostsHeld[h] - (IF HostOf[leased] = h THEN 1 ELSE 0)
    BY <1>0, <1>8 DEF StopAtSlot
  <2>3. delivering' = delivering /\ leaving' = leaving
    BY <1>8 DEF StopAtSlot, goVars
  <2>4. QED
    BY <1>0, <1>1, <1>2, <2>1, <2>2, <2>3 DEF HostBalance
<1>9. ASSUME delivering' = delivering, leaving' = leaving, hostsHeld' = hostsHeld,
             Claim(h)' = Claim(h)
      PROVE  HostBalance(h)'
  BY <1>2, <1>9 DEF HostBalance
<1>10. CASE ReleaseSlot \/ Tick \/ \E t \in TaskId : Submit(t)
  BY <1>9, <1>10 DEF Submit, ReleaseSlot, Tick, Claim, goVars, loopVars
<1>11. CASE StopAtTop \/ Lease \/ NothingDue \/ EnterIdle \/ WakeUp \/ HostBusy
  BY <1>9, <1>11 DEF StopAtTop, Lease, NothingDue, EnterIdle, WakeUp, IdleStop, IdleWake,
                     IdleTimer, HostBusy, Claim, goVars
<1>12. CASE Cancel \/ ExitDrained \/ ExitTimeout \/ UNCHANGED vars
  BY <1>9, <1>12 DEF Cancel, ExitDrained, ExitTimeout, vars, Claim, goVars, loopVars
<1>13. QED
  BY <1>4, <1>5, <1>6, <1>7, <1>8, <1>10, <1>11, <1>12 DEF Next

LEMMA LimitsKept == LimitsInv /\ [Next]_vars /\ Types' /\ Bounds' => LimitsBalance'
<1> SUFFICES ASSUME LimitsInv, [Next]_vars, Types', Bounds' PROVE LimitsBalance'
  OBVIOUS
<1>1. SlotsBalance' /\ \A h \in Host : HostBalance(h)'
  BY SlotsKept, HostsKept
<1>2. HostsBalance'
  BY <1>1 DEF HostsBalance
<1>3. QED
  BY <1>1, <1>2, LimitsAreSums, PTL

-----------------------------------------------------------------------------
(* The exit. *)

LEMMA QuietKept == LimitsInv /\ [Next]_vars => DrainedMeansQuiet'
<1> SUFFICES ASSUME LimitsInv, [Next]_vars PROVE DrainedMeansQuiet'
  OBVIOUS
<1>1. CASE ExitDrained
  <2>0. /\ delivering \in [TaskId -> Nat] /\ leaving \in [Host -> Nat] /\ lastHold \in Nat
        /\ Types
    BY DEF LimitsInv, Inv, Types, Bounds
  <2>1. /\ loop' = "stopped" /\ Goroutines = 0 /\ slotsHeld' = slotsHeld /\ leased = None
        /\ heap' = heap /\ submitted' = submitted /\ settled' = settled
    BY <1>1, <2>0 DEF ExitDrained, taskVars, loopVars, Types
  <2>2. slotsHeld = 0
    BY <2>1 DEF LimitsInv, LimitsBalance
  <2>3. Sum(delivering, TaskId) + Sum(leaving, Host) + lastHold = 0
    BY <2>1 DEF Goroutines, Sum
  <2>4. Sum(delivering, TaskId) \in Nat /\ Sum(leaving, Host) \in Nat
    BY <2>0, FiniteParts, SumEquation
  <2>5. \A t \in TaskId : delivering[t] <= Sum(delivering, TaskId)
    BY <2>0, FiniteParts, SumBoundsTerm
  <2>6. \A t \in TaskId : delivering[t] = 0
    <3> DEFINE a == Sum(delivering, TaskId)
               c == Sum(leaving, Host)
    <3>1. a = 0
      <4> HIDE DEF a, c
      <4>1. a + c + lastHold = 0 /\ a \in Nat /\ c \in Nat /\ lastHold \in Nat
        BY <2>0, <2>3, <2>4 DEF a, c
      <4>2. QED
        BY <4>1
    <3>2. QED
      BY <2>0, <2>5, <3>1
  <2>7. ASSUME NEW t \in TaskId
        PROVE  t \in submitted <=> t \in settled \/ \E i \in 1..Len(heap) : heap[i] = t
    <3>1. InHeap(t) + Over(t) = Sent(t) /\ InHeap(t) \in Nat
      <4>1. Balanced(t)
        BY OnePlaceIsBalanced DEF LimitsInv, Inv
      <4>2. InHand(t) = 0 /\ delivering[t] = 0
        BY <2>1, <2>6, DispatchAssumption DEF InHand, DispatchAssumption
      <4>3. QED
        BY <2>0, <4>1, <4>2, Counts DEF Balanced
    <3>2. InHeap(t) = 0 <=> At(heap, t) = {}
      BY <2>0, AtFinite, FS_EmptySet DEF InHeap, Types
    <3>3. At(heap, t) = {} <=> ~ \E i \in 1..Len(heap) : heap[i] = t
      BY DEF At
    <3>4. QED
      BY <3>1, <3>2, <3>3 DEF Over, Sent
  <2>8. submitted = settled \cup {heap[i] : i \in 1..Len(heap)}
    <3>1. submitted \subseteq TaskId /\ settled \subseteq TaskId
          /\ \A i \in 1..Len(heap) : heap[i] \in TaskId
      BY <2>0 DEF Types
    <3>2. QED
      BY <2>7, <3>1
  <2>9. QED
    BY <2>1, <2>2, <2>8 DEF DrainedMeansQuiet
<1>2. CASE UNCHANGED vars
  BY <1>2 DEF vars, taskVars, loopVars, LimitsInv, DrainedMeansQuiet
<1>3. ASSUME main' # "drained" PROVE DrainedMeansQuiet'
  BY <1>3 DEF DrainedMeansQuiet
<1>4. CASE \/ \E t \in TaskId : Submit(t) \/ Settle(t) \/ Retry(t)
           \/ \E h \in Host : ReleaseHost(h)
           \/ ReleaseSlot \/ Tick
  BY <1>3, <1>4 DEF Submit, Settle, Retry, ReleaseHost, ReleaseSlot, Tick, Running
<1>5. CASE StopAtTop \/ Lease \/ NothingDue \/ EnterIdle \/ WakeUp \/ TakeHost
  BY <1>3, <1>5 DEF StopAtTop, Lease, NothingDue, EnterIdle, WakeUp, TakeHost, Running
<1>6. CASE HostBusy \/ TakeSlot \/ StopAtSlot \/ Cancel \/ ExitTimeout
  BY <1>3, <1>6 DEF HostBusy, TakeSlot, StopAtSlot, Cancel, ExitTimeout, Running
<1>7. QED
  BY <1>1, <1>2, <1>4, <1>5, <1>6 DEF Next

LEMMA LimitsInvariance == Spec => []LimitsInv
<1>1. Init => LimitsInv
  BY InitInv, BoundsInit, LimitsInit DEF LimitsInv, DrainedMeansQuiet, Init
<1>2. LimitsInv /\ Inv' /\ [Next]_vars => LimitsInv'
  <2> SUFFICES ASSUME LimitsInv, Inv', [Next]_vars PROVE LimitsInv'
    OBVIOUS
  <2>1. Bounds' /\ Types'
    BY BoundsKept DEF Inv
  <2>2. QED
    BY <2>1, LimitsKept, QuietKept DEF LimitsInv
<1>3. QED
  BY <1>1, <1>2, Invariance, PTL DEF Spec

\* Every variable of the dispatcher keeps its type: no limit is exceeded or given
\* back below zero, and no task makes more than its last attempt.
THEOREM DispatchTypeCorrect == Spec => []DispatchTypeOK
<1>1. LimitsInv => DispatchTypeOK
  <2> SUFFICES ASSUME LimitsInv PROVE DispatchTypeOK
    OBVIOUS
  <2>1. Types /\ Bounds /\ \A t \in TaskId : Balanced(t)
    BY OnePlaceIsBalanced DEF LimitsInv, Inv
  <2>2. settled \subseteq submitted
    <3> SUFFICES ASSUME NEW t \in settled, t \notin submitted PROVE FALSE
      OBVIOUS
    <3>1. t \in TaskId /\ Over(t) = 1 /\ Sent(t) = 0
      BY <2>1 DEF Types, Over, Sent
    <3>2. QED
      BY <2>1, <3>1, Counts DEF Balanced
  <2>3. QED
    BY <2>1, <2>2 DEF Types, Bounds, DispatchTypeOK
<1>2. QED
  BY <1>1, LimitsInvariance, PTL

\* For any number of tasks, hosts and workers, both semaphores count exactly what is
\* under way: a busy host, a delivery that ends and an exit while Run waits for a
\* worker each give back what was taken (dispatch.go:117-163).
THEOREM LimitsNeverLeak == Spec => []LimitsBalance
<1>1. LimitsInv => LimitsBalance
  BY DEF LimitsInv
<1>2. QED
  BY <1>1, LimitsInvariance, PTL

\* When Wait reports the end of all deliveries, every task is settled or back in the
\* heap, whatever was under way when the process was told to stop.
THEOREM DrainedIsQuiet == Spec => []DrainedMeansQuiet
<1>1. LimitsInv => DrainedMeansQuiet
  BY DEF LimitsInv
<1>2. QED
  BY <1>1, LimitsInvariance, PTL
=============================================================================
