--------------------------- MODULE DeliveryProofs ---------------------------
(***************************************************************************)
(* What holds of queue and deliveries together, for any number of tasks,   *)
(* answers, attempts, revivals, maintenance passes and ends of the         *)
(* process: the dispatcher only uses the queue the way its contract        *)
(* allows, a task is out exactly while one delivery has it, nothing is     *)
(* ever taken for delivered without an answer, and what is on record as    *)
(* delivered stays so.                                                     *)
(***************************************************************************)
EXTENDS Delivery, QueueProofs

-----------------------------------------------------------------------------
(* Every step of the composition is a step of the queue, or none.           *)

LEMMA StepIsQueueStep == [DNext]_dvars => [Next]_vars
<1> SUFFICES ASSUME [DNext]_dvars PROVE [Next]_vars
  OBVIOUS
<1>1. CASE UNCHANGED dvars
  BY <1>1 DEF dvars
<1>2. ASSUME NEW t \in TaskId, NEW k \in Key, Accept(t, k) \/ Refuse(t, k)
      PROVE  [Next]_vars
  BY <1>2 DEF Accept, Refuse, Next
<1>3. ASSUME NEW k \in Key, AcceptAgain(k) PROVE [Next]_vars
  BY <1>3 DEF AcceptAgain, Next
<1>4. ASSUME NEW t \in TaskId, Reopen(t) \/ TakeOut(t) \/ HostBusy(t) \/ GiveBack(t)
      PROVE  [Next]_vars
  BY <1>4 DEF Reopen, TakeOut, HostBusy, GiveBack, Next
<1>5. ASSUME NEW t \in TaskId, FailsBeforeSending(t) \/ SendRequest(t) \/ Hear(t)
      PROVE  [Next]_vars
  BY <1>5 DEF FailsBeforeSending, SendRequest, Hear, StillQueue
<1>6. ASSUME NEW t \in TaskId,
             \/ RecordSuccess(t) \/ RecordPermanent(t) \/ RecordExhausted(t)
             \/ RecordTooLate(t) \/ RecordRetry(t)
      PROVE  [Next]_vars
  <2>1. OnSuccess(t) \/ OnDead(t) \/ OnRetry(t)
    BY <1>6 DEF RecordSuccess, RecordPermanent, RecordExhausted, RecordTooLate, RecordRetry
  <2>2. QED
    BY <2>1 DEF Next
<1>7. CASE Maintain \/ SyncLoop \/ Tick
  BY <1>7 DEF Maintain, Next
<1>8. CASE Terminate \/ RunStops
  BY <1>8 DEF Terminate, RunStops
<1>9. CASE ExitDrained \/ ExitTimeout \/ ServeError \/ Kill
  <2>1. Crash
    BY <1>9 DEF ExitDrained, ExitTimeout, ServeError, Kill, Close
  <2>2. QED
    BY <2>1 DEF Next
<1>10. QED
  BY <1>1, <1>2, <1>3, <1>4, <1>5, <1>6, <1>7, <1>8, <1>9 DEF DNext, Step

\* Queue's callers are arbitrary; the dispatcher and main are among them.  All
\* that is proved of the queue therefore holds under them.
THEOREM ImplementsQueue == DSpec => Spec
<1>1. DInit => Init
  BY DEF DInit
<1>2. QED
  BY <1>1, StepIsQueueStep, PTL DEF DSpec, Spec

-----------------------------------------------------------------------------
(* Successes on record: where they may come from. *)

OkIds(l) == {l[i].id : i \in {j \in 1..Len(l) : l[j].T = "ok"}}
Won      == {t \in DOMAIN tasks : tasks[t].st = "succeeded"}

LEMMA OkOfPrefix ==
  ASSUME NEW l \in Seq(Record), NEW n \in 0..Len(l)
  PROVE  OkIds(Prefix(l, n)) \subseteq OkIds(l)
<1>1. Len(Prefix(l, n)) = n /\ \A i \in 1..n : i \in 1..Len(l) /\ Prefix(l, n)[i] = l[i]
  BY PrefixIds
<1>2. QED
  BY <1>1 DEF OkIds

LEMMA OkOfAppend ==
  ASSUME NEW l \in Seq(Record), NEW r \in Record
  PROVE  OkIds(Append(l, r)) \subseteq OkIds(l) \cup {id \in {r.id} : r.T = "ok"}
<1> DEFINE m == Append(l, r)
<1>1. Len(l) \in Nat /\ Len(m) = Len(l) + 1
      /\ \A i \in 1..Len(m) : m[i] = IF i <= Len(l) THEN l[i] ELSE r
  OBVIOUS
<1> HIDE DEF m
<1>2. \A i \in 1..Len(m) : i <= Len(l) => i \in 1..Len(l)
  BY <1>1
<1>3. OkIds(m) \subseteq OkIds(l) \cup {id \in {r.id} : r.T = "ok"}
  BY <1>1, <1>2 DEF OkIds
<1>4. QED
  BY <1>3 DEF m

LEMMA OkOfNothing == OkIds(<<>>) = {}
<1>1. Len(<<>>) = 0 /\ \A i : i \notin 1..0
  OBVIOUS
<1>2. QED
  BY <1>1 DEF OkIds

LEMMA OkOfKept ==
  ASSUME NEW l \in Seq(Record), NEW s \in 0..Len(l),
         \E n \in s..Len(l) : log' = SubSeq(l, 1, n)
  PROVE  OkIds(log') \subseteq OkIds(l)
<1>1. PICK n \in s..Len(l) : log' = SubSeq(l, 1, n)
  OBVIOUS
<1>2. n \in 0..Len(l) /\ log' = Prefix(l, n)
  BY <1>1 DEF Prefix
<1>3. QED
  BY <1>2, OkOfPrefix

LEMMA OkOfAppends ==
  ASSUME Store!JournalTypeOK, NEW r \in Record,
         Store!AppendLazy(r) \/ Store!AppendLazyFails \/ Store!AppendSync(r)
           \/ Store!AppendSyncFails(r)
  PROVE  OkIds(log') \subseteq OkIds(log) \cup {id \in {r.id} : r.T = "ok"}
<1>1. log \in Seq(Record) /\ synced \in 0..Len(log)
  BY DEF Store!JournalTypeOK
<1>2. CASE log' = Append(log, r)
  BY <1>1, <1>2, OkOfAppend
<1>3. CASE log' = log
  BY <1>3
<1>4. CASE Store!KeepPrefix(log)
  BY <1>1, <1>4, OkOfKept DEF Store!KeepPrefix
<1>5. QED
  BY <1>2, <1>3, <1>4 DEF Store!AppendLazy, Store!AppendLazyFails, Store!AppendSync,
     Store!AppendSyncFails, Store!WriteError, Store!SyncError, Store!StillFailed,
     Store!DetachedSync, Store!journalVars

LEMMA OkOfCompaction ==
  ASSUME Store!JournalTypeOK, NEW s \in Seq(Record),
         Store!Compact(s) \/ Store!CompactFails(s)
  PROVE  OkIds(log') \subseteq OkIds(log) \cup OkIds(s)
<1>1. log \in Seq(Record) /\ synced \in 0..Len(log)
  BY DEF Store!JournalTypeOK
<1>2. CASE log' = s \/ log' = log
  BY <1>2
<1>3. CASE Store!KeepPrefix(log)
  BY <1>1, <1>3, OkOfKept DEF Store!KeepPrefix
<1>4. QED
  BY <1>2, <1>3 DEF Store!Compact, Store!CompactFails, Store!journalVars

LEMMA OkOfFlush ==
  ASSUME Store!JournalTypeOK, Store!Flush \/ Store!FlushFails
  PROVE  OkIds(log') \subseteq OkIds(log)
<1>1. log \in Seq(Record) /\ synced \in 0..Len(log)
  BY DEF Store!JournalTypeOK
<1>2. CASE Store!Flush
  BY <1>2 DEF Store!Flush
<1>3. CASE Store!FlushFails
  BY <1>1, <1>3, OkOfKept DEF Store!FlushFails, Store!WriteError, Store!KeepPrefix
<1>4. QED
  BY <1>2, <1>3

LEMMA OkOfCrash ==
  ASSUME IndInv, Crash
  PROVE  OkIds(log') \subseteq OkIds(log)
<1>1. log \in Seq(Record) /\ synced \in 0..Len(log)
  BY DEF IndInv, TypeOK, Store!JournalTypeOK
<1>2. CASE Store!Crash(<<>>)
  <2>1. log \o <<>> = log
    BY <1>1
  <2>2. Store!KeepPrefix(log)
    BY <1>2, <2>1 DEF Store!Crash
  <2>3. QED
    BY <1>1, <2>2, OkOfKept DEF Store!KeepPrefix
<1>3. ASSUME NEW t \in TaskId, NEW k \in Key, Store!Crash(<<Enq(t, now, k, TRUE)>>)
      PROVE  OkIds(log') \subseteq OkIds(log)
  <2> DEFINE r == Enq(t, now, k, TRUE)
  <2>1. r \in Record /\ r.T = "enq"
    BY EnqIsRecord
  <2>2. Store!Crash(<<r>>)
    BY <1>3
  <2> HIDE DEF r
  <2>3. /\ log \o <<r>> = Append(log, r) /\ Append(log, r) \in Seq(Record)
        /\ synced \in 0..Len(Append(log, r))
    BY <1>1, <2>1
  <2>4. Store!KeepPrefix(Append(log, r))
    BY <2>2, <2>3 DEF Store!Crash
  <2>5. OkIds(log') \subseteq OkIds(Append(log, r))
    BY <2>3, <2>4, OkOfKept DEF Store!KeepPrefix
  <2>6. QED
    BY <1>1, <2>1, <2>5, OkOfAppend
<1>4. QED
  BY <1>2, <1>3 DEF Crash

LEMMA Concatenation ==
  ASSUME NEW a \in Seq(Record), NEW b \in Seq(Record)
  PROVE  /\ a \o b \in Seq(Record) /\ Len(a \o b) = Len(a) + Len(b)
         /\ \A i \in 1..Len(a) : (a \o b)[i] = a[i]
         /\ \A i \in 1..Len(a \o b) :
              i > Len(a) => (a \o b)[i] = b[i - Len(a)] /\ i - Len(a) \in 1..Len(b)
OBVIOUS

\* A snapshot calls a task succeeded only if the queue does.
LEMMA OkOfSnapshot ==
  ASSUME IndInv, NEW order \in Orders(DOMAIN tasks),
         NEW S \in SUBSET (DOMAIN tasks), NEW rest \in Orders(S)
  PROVE  OkIds(SnapshotIn(order, rest)) \subseteq Won
<1> DEFINE e(i) == Enq(order[i], tasks[order[i]].createdAt, tasks[order[i]].key,
                       tasks[order[i]].full /\ tasks[order[i]].st # "succeeded")
           a == [i \in 1..Len(order) |-> e(i)]
           b == [i \in 1..Len(rest) |-> StateRecord(rest[i])]
           l == a \o b
<1>1. IsFiniteSet(DOMAIN tasks) /\ IsFiniteSet(S)
  BY FS_Subset DEF IndInv, CountInv
<1>2. order \in Seq(DOMAIN tasks) /\ rest \in Seq(S)
  BY <1>1, OrderType
<1>3. Len(a) = Len(order) /\ a \in Seq(Record) /\ \A i \in 1..Len(a) : a[i].T = "enq"
  <2>1. \A i \in 1..Len(order) : tasks[order[i]] \in Task /\ order[i] \in TaskId
    BY <1>2 DEF IndInv, TypeOK, IsPartialFn
  <2>2. \A i \in 1..Len(order) : e(i) \in Record /\ e(i).T = "enq"
    BY <2>1 DEF Enq, Task, Record, EnqRecord
  <2> HIDE DEF e
  <2>3. QED
    BY <1>2, <2>2
<1>4. b \in Seq(Record) /\ \A i \in 1..Len(b) : b[i].T = "ok" => b[i].id \in Won
  <2>1. \A i \in 1..Len(rest) : rest[i] \in DOMAIN tasks
    BY <1>2
  <2>2. \A t \in DOMAIN tasks :
          /\ StateRecord(t) \in Record
          /\ StateRecord(t).T = "ok" => StateRecord(t).id = t /\ t \in Won
    <3> SUFFICES ASSUME NEW t \in DOMAIN tasks
                 PROVE  /\ StateRecord(t) \in Record
                        /\ StateRecord(t).T = "ok" => StateRecord(t).id = t /\ t \in Won
      OBVIOUS
    <3>1. StateRecord(t) \in Record
      BY StateRecordType
    <3>2. CASE tasks[t].st = "succeeded"
      BY <3>1, <3>2 DEF StateRecord, Ok, Won
    <3>3. CASE tasks[t].st # "succeeded"
      <4>1. StateRecord(t).T # "ok"
        BY <3>3 DEF StateRecord, Dead, Att
      <4>2. QED
        BY <3>1, <4>1
    <3>4. QED
      BY <3>2, <3>3
  <2>3. QED
    BY <1>2, <2>1, <2>2
<1> HIDE DEF a, b
<1>5. /\ l \in Seq(Record) /\ Len(l) = Len(a) + Len(b)
      /\ \A i \in 1..Len(a) : l[i] = a[i]
      /\ \A i \in 1..Len(l) : i > Len(a) => l[i] = b[i - Len(a)] /\ i - Len(a) \in 1..Len(b)
  BY <1>3, <1>4, Concatenation
<1> HIDE DEF l
<1>6. ASSUME NEW i \in 1..Len(l), l[i].T = "ok" PROVE l[i].id \in Won
  <2>1. CASE i > Len(a)
    BY <1>4, <1>5, <1>6, <2>1
  <2>2. CASE ~(i > Len(a))
    <3>1. Len(a) \in Nat /\ i \in 1..Len(a)
      BY <1>3, <2>2
    <3>2. l[i] = a[i] /\ a[i].T = "enq"
      BY <1>3, <1>5, <3>1
    <3>3. QED
      BY <1>6, <3>2
  <2>3. QED
    BY <2>1, <2>2
<1>7. SnapshotIn(order, rest) = l
  BY DEF SnapshotIn, l, a, b
<1>8. QED
  BY <1>6, <1>7 DEF OkIds

\* A restart calls a task succeeded only if the journal does.
LEMMA RestoredWon ==
  ASSUME NEW l \in Seq(Record), NEW t \in EnqIds(l), Restored(l)[t].st = "succeeded"
  PROVE  t \in OkIds(l)
<1> DEFINE A == Positions(l, t, {"enq", "att", "ok", "dead"})
<1>1. A # {} /\ A \subseteq DOMAIN l
  BY DEF EnqIds, Positions
<1>2. Restored(l)[t].st = StateAfter(l[Max(A)].T)
  BY DEF Restored
<1>3. Max(A) \in A /\ Max(A) \in 1..Len(l)
  <2> HIDE DEF A
  <2>1. QED
    BY <1>1, LastPosition
<1>4. l[Max(A)].id = t
  BY <1>3 DEF Positions
<1>5. l[Max(A)].T = "ok"
  BY <1>2 DEF StateAfter
<1> HIDE DEF A
<1>6. QED
  BY <1>3, <1>4, <1>5 DEF OkIds

-----------------------------------------------------------------------------
(* What each operation of the queue does to the tasks that are out, and to   *)
(* those that count as succeeded, in memory or on record.                    *)

\* Only tasks of "new" may begin to count as succeeded.
Gains(new) == /\ OkIds(log') \subseteq OkIds(log) \cup OkIds(snap) \cup new
              /\ OkIds(snap') \subseteq OkIds(snap) \cup Won
              /\ Won' \subseteq Won \cup OkIds(log') \cup new

LEMMA OneMoves ==
  ASSUME TypeOK, NEW t \in DOMAIN tasks, NEW m, tasks' = [tasks EXCEPT ![t] = m]
  PROVE  /\ m.st # "sending" => Sending' = Sending \ {t}
         /\ m.st = "sending" => Sending' = Sending \cup {t}
         /\ m.st # "succeeded" => Won' \subseteq Won
         /\ Won' \subseteq Won \cup {t}
<1>1. /\ tasks \in [DOMAIN tasks -> Task] /\ DOMAIN tasks' = DOMAIN tasks /\ tasks'[t] = m
      /\ \A u \in DOMAIN tasks : u # t => tasks'[u] = tasks[u]
  BY DEF TypeOK, IsPartialFn
<1>2. QED
  BY <1>1 DEF Sending, Won

LEMMA SubmitGains ==
  ASSUME IndInv, NEW t \in TaskId, NEW k \in Key, Submit(t, k)
  PROVE  Gains({}) /\ Sending' = Sending
<1> DEFINE r == Enq(t, now, k, TRUE)
           m == Fresh(r)
<1>1. r \in Record /\ r.T = "enq" /\ m.st = "pending"
  BY EnqIsRecord
<1>2. tasks' = Put(tasks, t, m) /\ Store!AppendSync(r) /\ snap' = snap /\ t \notin DOMAIN tasks
  BY DEF Submit, maintVars, IndInv, IssuedInv
<1> HIDE DEF r, m
<1>3. OkIds(log') \subseteq OkIds(log)
  BY <1>1, <1>2, OkOfAppends DEF IndInv, TypeOK
<1>4. /\ DOMAIN tasks' = DOMAIN tasks \cup {t} /\ tasks'[t] = m
      /\ \A u \in DOMAIN tasks : tasks'[u] = tasks[u]
  BY <1>2 DEF Put
<1>5. QED
  BY <1>1, <1>2, <1>3, <1>4 DEF Gains, Sending, Won

LEMMA SubmitFailsGains ==
  ASSUME IndInv, NEW t \in TaskId, NEW k \in Key, SubmitFails(t, k)
  PROVE  Gains({}) /\ Sending' = Sending
<1> DEFINE r == Enq(t, now, k, TRUE)
<1>1. r \in Record /\ r.T = "enq"
  BY EnqIsRecord
<1>2. Store!AppendSyncFails(r) /\ snap' = snap /\ tasks' = tasks
  BY DEF SubmitFails, maintVars, memVars
<1> HIDE DEF r
<1>3. OkIds(log') \subseteq OkIds(log)
  BY <1>1, <1>2, OkOfAppends DEF IndInv, TypeOK
<1>4. QED
  BY <1>2, <1>3 DEF Gains, Sending, Won

\* An append that is not of a success adds none, whatever comes of it.
LEMMA LazyGains ==
  ASSUME IndInv, NEW r \in Record, Store!AppendLazy(r) \/ Store!AppendLazyFails
  PROVE  OkIds(log') \subseteq OkIds(log) \cup {id \in {r.id} : r.T = "ok"}
BY OkOfAppends DEF IndInv, TypeOK

LEMMA ReviveGains ==
  ASSUME IndInv, NEW t \in TaskId, Revive(t)
  PROVE  Gains({}) /\ Sending' = Sending
<1> DEFINE r == Att(t, now, 0, now)
           m == Revived(tasks[t])
<1>1. t \in DOMAIN tasks /\ tasks[t].st = "dead" /\ tasks[t] \in Task
  BY DEF Revive, IndInv, TypeOK, IsPartialFn
<1>2. m.st = "pending"
  BY <1>1 DEF Revived, Task
<1>3. r \in Record /\ r.T = "att"
  BY DEF Att, Record, AttRecord, IndInv, TypeOK
<1>4. /\ tasks' = [tasks EXCEPT ![t] = m] /\ snap' = snap
      /\ Store!AppendLazy(r) \/ Store!AppendLazyFails
  BY DEF Revive, maintVars
<1> HIDE DEF r, m
<1>5. OkIds(log') \subseteq OkIds(log)
  BY <1>3, <1>4, LazyGains
<1>6. Sending' = Sending \ {t} /\ Won' \subseteq Won /\ t \notin Sending
  BY <1>1, <1>2, <1>4, OneMoves DEF IndInv, Sending
<1>7. QED
  BY <1>4, <1>5, <1>6 DEF Gains

LEMMA LeaseGains ==
  ASSUME IndInv, NEW t \in TaskId, Lease(t)
  PROVE  Gains({}) /\ Sending' = Sending \cup {t}
<1> DEFINE m == [tasks[t] EXCEPT !.st = "sending", !.updatedAt = now]
<1>1. t \in DOMAIN tasks /\ tasks[t] \in Task
  BY DEF Lease, Least, IndInv, HeapMatches, Scheduled, TypeOK, IsPartialFn
<1>2. m.st = "sending" /\ tasks' = [tasks EXCEPT ![t] = m]
  BY <1>1 DEF Lease, Task
<1>3. log' = log /\ snap' = snap
  BY DEF Lease, logVars, maintVars
<1> HIDE DEF m
<1>4. Sending' = Sending \cup {t} /\ Won' \subseteq Won
  BY <1>1, <1>2, OneMoves DEF IndInv
<1>5. QED
  BY <1>3, <1>4 DEF Gains

LEMMA DeferGains ==
  ASSUME IndInv, NEW t \in TaskId, Defer(t)
  PROVE  Gains({}) /\ Sending' = Sending \ {t}
<1>1. PICK at \in {now, now + 1} :
        tasks' = [tasks EXCEPT ![t].st = "pending", ![t].nextAt = at]
  BY DEF Defer
<1> DEFINE m == [tasks[t] EXCEPT !.st = "pending", !.nextAt = at]
<1>2. t \in DOMAIN tasks /\ tasks[t] \in Task
  BY DEF Defer, Sending, IndInv, TypeOK, IsPartialFn
<1>3. m.st = "pending" /\ tasks' = [tasks EXCEPT ![t] = m]
  BY <1>1, <1>2 DEF Task
<1>4. log' = log /\ snap' = snap
  BY DEF Defer, logVars, maintVars
<1> HIDE DEF m
<1>5. Sending' = Sending \ {t} /\ Won' \subseteq Won
  BY <1>2, <1>3, OneMoves DEF IndInv
<1>6. QED
  BY <1>4, <1>5 DEF Gains

LEMMA OnRetryGains ==
  ASSUME IndInv, NEW t \in TaskId, OnRetry(t)
  PROVE  Gains({}) /\ Sending' = Sending \ {t}
<1>1. PICK at \in now .. now + MaxDelay :
        /\ tasks' = [tasks EXCEPT ![t] = Retried(@, at)]
        /\ \/ Store!AppendLazy(Att(t, now, tasks[t].attempts + 1, at))
           \/ Store!AppendLazyFails
  BY DEF OnRetry
<1> DEFINE r == Att(t, now, tasks[t].attempts + 1, at)
           m == Retried(tasks[t], at)
<1>2. t \in DOMAIN tasks /\ tasks[t] \in Task /\ at \in Nat
  BY ConfigAssumption DEF OnRetry, Sending, IndInv, TypeOK, IsPartialFn
<1>3. m.st = "waiting"
  BY <1>2 DEF Retried, Task
<1>4. r \in Record /\ r.T = "att"
  BY <1>2 DEF Task, Att, Record, AttRecord, IndInv, TypeOK
<1>5. /\ tasks' = [tasks EXCEPT ![t] = m] /\ snap' = snap
      /\ Store!AppendLazy(r) \/ Store!AppendLazyFails
  BY <1>1 DEF OnRetry, maintVars
<1> HIDE DEF r, m
<1>6. OkIds(log') \subseteq OkIds(log)
  BY <1>4, <1>5, LazyGains
<1>7. Sending' = Sending \ {t} /\ Won' \subseteq Won
  BY <1>2, <1>3, <1>5, OneMoves DEF IndInv
<1>8. QED
  BY <1>5, <1>6, <1>7 DEF Gains

LEMMA OnDeadGains ==
  ASSUME IndInv, NEW t \in TaskId, OnDead(t)
  PROVE  Gains({}) /\ Sending' = Sending \ {t}
<1>1. PICK why \in Reason :
        /\ tasks' = [tasks EXCEPT ![t] = Died(@, why)]
        /\ \/ Store!AppendLazy(Dead(t, now, tasks[t].attempts + 1, why))
           \/ Store!AppendLazyFails
  BY DEF OnDead
<1> DEFINE r == Dead(t, now, tasks[t].attempts + 1, why)
           m == Died(tasks[t], why)
<1>2. t \in DOMAIN tasks /\ tasks[t] \in Task
  BY DEF OnDead, Sending, IndInv, TypeOK, IsPartialFn
<1>3. m.st = "dead"
  BY <1>2 DEF Died, Task
<1>4. r \in Record /\ r.T = "dead"
  BY <1>2 DEF Task, Dead, Record, DeadRecord, IndInv, TypeOK
<1>5. /\ tasks' = [tasks EXCEPT ![t] = m] /\ snap' = snap
      /\ Store!AppendLazy(r) \/ Store!AppendLazyFails
  BY <1>1 DEF OnDead, maintVars
<1> HIDE DEF r, m
<1>6. OkIds(log') \subseteq OkIds(log)
  BY <1>4, <1>5, LazyGains
<1>7. Sending' = Sending \ {t} /\ Won' \subseteq Won
  BY <1>2, <1>3, <1>5, OneMoves DEF IndInv
<1>8. QED
  BY <1>5, <1>6, <1>7 DEF Gains

LEMMA OnSuccessGains ==
  ASSUME IndInv, NEW t \in TaskId, OnSuccess(t)
  PROVE  Gains({t}) /\ Sending' = Sending \ {t}
<1> DEFINE r == Ok(t, now, tasks[t].attempts + 1)
           m == Succeeded(tasks[t])
<1>1. t \in DOMAIN tasks /\ tasks[t] \in Task
  BY DEF OnSuccess, Sending, IndInv, TypeOK, IsPartialFn
<1>2. m.st = "succeeded"
  BY <1>1 DEF Succeeded, Task
<1>3. r \in Record /\ r.T = "ok" /\ r.id = t
  BY <1>1 DEF Task, Ok, Record, OkRecord, IndInv, TypeOK
<1>4. /\ tasks' = [tasks EXCEPT ![t] = m] /\ snap' = snap
      /\ Store!AppendLazy(r) \/ Store!AppendLazyFails
  BY DEF OnSuccess, maintVars
<1> HIDE DEF r, m
<1>5. OkIds(log') \subseteq OkIds(log) \cup {t}
  BY <1>3, <1>4, LazyGains
<1>6. Sending' = Sending \ {t} /\ Won' \subseteq Won \cup {t}
  BY <1>1, <1>2, <1>4, OneMoves DEF IndInv
<1>7. QED
  BY <1>4, <1>5, <1>6 DEF Gains

LEMMA DropGains ==
  ASSUME IndInv, NEW V \in SUBSET {t \in DOMAIN tasks : tasks[t].st \in Terminal},
         DropAll(V), log' = log, snap' = snap
  PROVE  Gains({}) /\ Sending' = Sending
<1>1. tasks \in [DOMAIN tasks -> Task]
  BY DEF IndInv, TypeOK, IsPartialFn
<1>2. /\ DOMAIN tasks' = DOMAIN tasks \ V
      /\ \A u \in DOMAIN tasks' : tasks'[u] = tasks[u]
  BY <1>1 DEF DropAll, Restrict
<1>3. \A t \in V : tasks[t].st # "sending"
  BY DEF Terminal
<1>4. QED
  BY <1>2, <1>3 DEF Gains, Sending, Won

LEMMA MaintainGains ==
  ASSUME IndInv, Maintain
  PROVE  Gains({}) /\ Sending' = Sending
<1>1. CASE PurgeExpired
  <2>1. Expired \in SUBSET {t \in DOMAIN tasks : tasks[t].st \in Terminal}
    BY DEF Expired, Terminal
  <2> HIDE DEF Expired
  <2>2. QED
    BY <1>1, <2>1, DropGains DEF PurgeExpired, logVars
<1>2. CASE EnforceTaskCap
  <2>1. PICK V \in Victims : DropAll(V)
    BY <1>2 DEF EnforceTaskCap
  <2>2. V \in SUBSET {t \in DOMAIN tasks : tasks[t].st \in Terminal}
    BY <2>1 DEF Victims
  <2>3. QED
    BY <1>2, <2>1, <2>2, DropGains DEF EnforceTaskCap, logVars
<1>3. CASE MaybeCompact
  BY <1>3 DEF MaybeCompact, memVars, logVars, Gains, Sending, Won
<1>4. CASE TakeSnapshot
  <2>1. PICK order \in Orders(DOMAIN tasks),
             rest \in Orders({t \in DOMAIN tasks : HasStateRecord(t)}) :
          snap' = SnapshotIn(order, rest)
    BY <1>4 DEF TakeSnapshot
  <2>2. OkIds(snap') \subseteq Won
    BY <2>1, OkOfSnapshot
  <2>3. QED
    BY <1>4, <2>2 DEF TakeSnapshot, memVars, logVars, Gains, Sending, Won
<1>5. CASE CompactStore
  <2>1. OkIds(log') \subseteq OkIds(log) \cup OkIds(snap)
    BY <1>5, OkOfCompaction DEF CompactStore, IndInv, TypeOK
  <2>2. QED
    BY <1>5, <2>1, OkOfNothing DEF CompactStore, memVars, Gains, Sending, Won
<1>6. CASE ResetUnstripped
  BY <1>6 DEF ResetUnstripped, logVars, Gains, Sending, Won
<1>7. QED
  BY <1>1, <1>2, <1>3, <1>4, <1>5, <1>6 DEF Maintain

LEMMA ClockGains ==
  ASSUME IndInv, SyncLoop \/ Tick
  PROVE  Gains({}) /\ Sending' = Sending
<1>1. CASE SyncLoop
  <2>1. OkIds(log') \subseteq OkIds(log)
    BY <1>1, OkOfFlush DEF SyncLoop, IndInv, TypeOK
  <2>2. QED
    BY <1>1, <2>1 DEF SyncLoop, memVars, maintVars, Gains, Sending, Won
<1>2. CASE Tick
  BY <1>2 DEF Tick, memVars, maintVars, logVars, Gains, Sending, Won
<1>3. QED
  BY <1>1, <1>2

LEMMA CrashGains ==
  ASSUME IndInv, Crash
  PROVE  Gains({}) /\ Sending' = {}
<1>1. OkIds(log') \subseteq OkIds(log)
  BY OkOfCrash
<1>2. tasks' = Restored(log') /\ snap' = <<>>
  BY DEF Crash, Restore
<1>3. log' \in Seq(Record)
  BY CrashPreserves DEF IndInv, TypeOK, Store!JournalTypeOK
<1>4. /\ DOMAIN tasks' = EnqIds(log')
      /\ \A t \in DOMAIN tasks' : tasks'[t].st \in {"pending", "succeeded", "dead"}
  BY <1>2, <1>3, RestoredType
<1>5. Won' \subseteq OkIds(log')
  BY <1>2, <1>3, <1>4, RestoredWon DEF Won
<1>6. Sending' = {}
  BY <1>4 DEF Sending
<1>7. QED
  BY <1>1, <1>2, <1>5, <1>6, OkOfNothing DEF Gains

-----------------------------------------------------------------------------
(* The invariant of the composition. *)

Busy     == {t \in TaskId : stage[t] # "none"}
Answered == {t \in TaskId : wins[t] > 0}

OkInv == /\ \A t \in TaskId : stage[t] = "success" => wins[t] > 0
         /\ Won \subseteq Answered
         /\ OkIds(log) \subseteq Answered
         /\ OkIds(snap) \subseteq Answered

DInv == IndInv /\ DeliveryTypeOK /\ Busy = Sending /\ OkInv

\* What a delivery may end with, and when it is a success.
LEMMA VerdictType ==
  ASSUME NEW r \in Result
  PROVE  /\ Verdict(r) \in Stage /\ Verdict(r) # "none" /\ Verdict(r) # "held"
         /\ Verdict(r) = "success" => r.err = "nil" /\ r.code \in 200..299
<1>1. r.code \in Nat /\ r.err \in {"nil", "blocked", "bad_spec", "network"}
  BY DeliveryAssumption
<1>2. /\ Classify(r) \in {"success", "retryable", "permanent"}
      /\ Classify(r) = "success" => r.err = "nil" /\ r.code \in 200..299
      /\ Classify(r) = "permanent" => r.err # "network"
  <2>1. CASE r.err = "nil"
    BY <1>1, <2>1 DEF Classify
  <2>2. CASE r.err # "nil"
    BY <1>1, <2>2 DEF Classify
  <2>3. QED
    BY <2>1, <2>2
<1>3. r.err # "network" =>
        PermanentReason(r) \in {"permanent_response", "blocked_target", "bad_request_spec"}
  BY <1>1 DEF PermanentReason
<1>4. /\ {"permanent_response", "blocked_target", "bad_request_spec"} \subseteq Reason
      /\ {"none", "held", "success"} \cap Reason = {}
  BY DeliveryAssumption
<1>5. QED
  BY <1>2, <1>3, <1>4 DEF Verdict, Stage

LEMMA DInitEstablishes == DInit => DInv
<1> SUFFICES ASSUME DInit PROVE DInv
  OBVIOUS
<1>1. IndInv
  BY InitEstablishes DEF DInit
<1>2. tasks = <<>> /\ log = <<>> /\ snap = <<>> /\ crashes = 0
  BY DEF DInit, Init, Store!Init
<1>3. DOMAIN tasks = {}
  BY <1>2
<1>4. DeliveryTypeOK
  BY <1>2 DEF DInit, DeliveryTypeOK, Stage
<1>5. Busy = Sending
  BY <1>3 DEF DInit, Busy, Sending
<1>6. OkInv
  BY <1>2, <1>3, OkOfNothing DEF DInit, OkInv, Won
<1>7. QED
  BY <1>1, <1>4, <1>5, <1>6 DEF DInv

\* Answers are never forgotten, so it is enough to watch the new successes.
LEMMA OkInvKept ==
  ASSUME OkInv, NEW new, Gains(new), new \subseteq Answered', Answered \subseteq Answered',
         \A t \in TaskId : stage'[t] = "success" => wins'[t] > 0
  PROVE  OkInv'
BY DEF OkInv, Gains

\* The crashes of the queue only grow in number.
LEMMA CrashesGrow ==
  ASSUME IndInv, [Next]_vars
  PROVE  crashes' \in Nat /\ crashes <= crashes'
<1>1. crashes \in Nat
  BY DEF IndInv, TypeOK
<1>2. crashes' \in {crashes, crashes + 1}
  BY DEF Next, vars, faults, Submit, SubmitFails, SubmitDuplicate, Revive, Lease, Defer, OnRetry,
     OnSuccess, OnDead, PurgeExpired, EnforceTaskCap, MaybeCompact, TakeSnapshot,
     CompactStore, ResetUnstripped, SyncLoop, Tick, Crash
<1>3. QED
  BY <1>1, <1>2

\* A step that leaves the deliveries alone.
LEMMA QuietKeeps ==
  ASSUME DInv, IndInv', [Next]_vars, Observe, Gains({}), Sending' = Sending,
         UNCHANGED <<stage, wins, cuts>>,
         main' \in {"serving", "stopping", "draining"},
         {sent', overdue'} \subseteq [TaskId -> Nat]
  PROVE  DInv'
<1>1. crashes' \in Nat /\ crashes <= crashes' /\ crashes \in Nat
  BY CrashesGrow DEF DInv, IndInv, TypeOK
<1>2. DeliveryTypeOK'
  BY <1>1 DEF DInv, DeliveryTypeOK, Observe, DurablySucceeded
<1>3. OkInv'
  BY OkInvKept DEF DInv, OkInv, Answered
<1>4. QED
  BY <1>2, <1>3 DEF DInv, Busy

\* A task comes into the hands of a delivery, or leaves them.
LEMMA MoveKeeps ==
  ASSUME DInv, IndInv', [Next]_vars, Observe, NEW t \in TaskId, NEW s \in Stage, To(t, s),
         Sending' = IF s = "none" THEN Sending \ {t} ELSE Sending \cup {t},
         NEW new, Gains(new), new \subseteq Answered, s # "success",
         UNCHANGED <<wins, cuts>>,
         main' \in {"serving", "stopping", "draining"},
         {sent', overdue'} \subseteq [TaskId -> Nat]
  PROVE  DInv'
<1>1. crashes' \in Nat /\ crashes <= crashes' /\ crashes \in Nat
  BY CrashesGrow DEF DInv, IndInv, TypeOK
<1>2. /\ stage' \in [TaskId -> Stage] /\ stage'[t] = s
      /\ \A u \in TaskId : u # t => stage'[u] = stage[u]
  BY DEF DInv, DeliveryTypeOK, To
<1>3. DeliveryTypeOK'
  BY <1>1, <1>2 DEF DInv, DeliveryTypeOK, Observe, DurablySucceeded
<1>4. OkInv'
  BY <1>2, OkInvKept DEF DInv, OkInv, Answered
<1>5. Busy' = Sending'
  BY <1>2 DEF DInv, Busy
<1>6. QED
  BY <1>3, <1>4, <1>5 DEF DInv

LEMMA RecordsKeep ==
  ASSUME DInv, IndInv', [Next]_vars, Observe, NEW t \in TaskId,
         \/ RecordSuccess(t) \/ RecordPermanent(t) \/ RecordExhausted(t)
         \/ RecordTooLate(t) \/ RecordRetry(t) \/ HostBusy(t) \/ GiveBack(t)
  PROVE  DInv'
<1>1. "none" \in Stage /\ IndInv
  BY DEF Stage, DInv
<1>2. /\ To(t, "none") /\ UNCHANGED <<main, wins, sent, overdue, cuts>>
  BY DEF RecordSuccess, RecordPermanent, RecordExhausted, RecordTooLate, RecordRetry,
     HostBusy, GiveBack, Over, seen
<1>3. \E new \in SUBSET Answered : Gains(new) /\ Sending' = Sending \ {t}
  <2>1. CASE RecordSuccess(t)
    <3>1. Gains({t}) /\ Sending' = Sending \ {t}
      BY <1>1, <2>1, OnSuccessGains DEF RecordSuccess
    <3>2. t \in Answered
      BY <2>1 DEF RecordSuccess, DInv, OkInv, Answered
    <3>3. QED
      BY <3>1, <3>2
  <2>2. CASE OnDead(t)
    BY <1>1, <2>2, OnDeadGains
  <2>3. CASE OnRetry(t)
    BY <1>1, <2>3, OnRetryGains
  <2>4. CASE Defer(t)
    BY <1>1, <2>4, DeferGains
  <2>5. QED
    BY <2>1, <2>2, <2>3, <2>4 DEF RecordPermanent, RecordExhausted, RecordTooLate,
       RecordRetry, HostBusy, GiveBack
<1>4. PICK new \in SUBSET Answered : Gains(new) /\ Sending' = Sending \ {t}
  BY <1>3
<1>5. main' \in {"serving", "stopping", "draining"} /\ {sent', overdue'} \subseteq [TaskId -> Nat]
  BY <1>2 DEF DInv, DeliveryTypeOK
<1>6. QED
  BY <1>1, <1>2, <1>4, <1>5, MoveKeeps

\* A goroutine goes on with its delivery; the queue does not notice.
LEMMA DeliverKeeps ==
  ASSUME DInv, Observe, NEW t \in TaskId,
         FailsBeforeSending(t) \/ SendRequest(t) \/ Hear(t)
  PROVE  DInv'
<1>1. UNCHANGED vars /\ UNCHANGED <<main, cuts>>
  BY DEF FailsBeforeSending, SendRequest, Hear, StillQueue, seen
<1>2. IndInv'
  BY <1>1, NextPreserves DEF DInv
<1>3. UNCHANGED <<tasks, log, snap, crashes>>
  BY <1>1 DEF vars, memVars, logVars, maintVars, faults
<1>4. \E s \in Stage :
         /\ To(t, s) /\ s # "none"
         /\ s = "success" => wins'[t] > 0
         /\ wins' \in [TaskId -> Nat] /\ Answered \subseteq Answered'
         /\ {sent', overdue'} \subseteq [TaskId -> Nat]
  <2>1. /\ wins \in [TaskId -> Nat] /\ sent \in [TaskId -> Nat]
        /\ overdue \in [TaskId -> Nat]
    BY DEF DInv, DeliveryTypeOK
  <2>2. CASE FailsBeforeSending(t)
    <3>1. PICK r \in Result : r.err # "nil" /\ To(t, Verdict(r))
      BY <2>2 DEF FailsBeforeSending
    <3>2. Verdict(r) \in Stage /\ Verdict(r) # "none" /\ Verdict(r) # "success"
      BY <3>1, VerdictType
    <3>3. UNCHANGED <<wins, sent, overdue>>
      BY <2>2 DEF FailsBeforeSending, seen
    <3>4. QED
      BY <2>1, <3>1, <3>2, <3>3 DEF Answered
  <2>3. CASE SendRequest(t)
    <3>1. To(t, "sent") /\ "sent" \in Stage /\ wins' = wins
      BY <2>3 DEF SendRequest, Stage
    <3>2. sent' \in [TaskId -> Nat] /\ overdue' \in [TaskId -> Nat]
      BY <2>1, <2>3 DEF SendRequest
    <3>3. QED
      BY <2>1, <3>1, <3>2 DEF Answered
  <2>4. CASE Hear(t)
    <3>1. PICK r \in Result :
            /\ To(t, Verdict(r))
            /\ wins' = [wins EXCEPT ![t] = IF r.code \in 200..299 THEN @ + 1 ELSE @]
      BY <2>4 DEF Hear
    <3>2. /\ Verdict(r) \in Stage /\ Verdict(r) # "none"
          /\ Verdict(r) = "success" => r.code \in 200..299
      BY VerdictType
    <3>3. /\ wins' \in [TaskId -> Nat] /\ \A u \in TaskId : wins[u] <= wins'[u]
          /\ r.code \in 200..299 => wins'[t] > 0
      BY <2>1, <3>1
    <3>4. Answered \subseteq Answered'
      BY <2>1, <3>3 DEF Answered
    <3>5. UNCHANGED <<sent, overdue>>
      BY <2>4 DEF Hear
    <3>6. QED
      BY <2>1, <3>1, <3>2, <3>3, <3>4, <3>5
  <2>5. QED
    BY <2>2, <2>3, <2>4
<1>5. PICK s \in Stage :
         /\ To(t, s) /\ s # "none"
         /\ s = "success" => wins'[t] > 0
         /\ wins' \in [TaskId -> Nat] /\ Answered \subseteq Answered'
         /\ {sent', overdue'} \subseteq [TaskId -> Nat]
  BY <1>4
<1>6. /\ stage' \in [TaskId -> Stage] /\ stage'[t] = s
      /\ \A u \in TaskId : u # t => stage'[u] = stage[u]
  BY <1>5 DEF DInv, DeliveryTypeOK, To
<1>7. DeliveryTypeOK'
  BY <1>1, <1>3, <1>5, <1>6 DEF DInv, DeliveryTypeOK, Observe, DurablySucceeded
<1>8. Busy' = Sending'
  <2>1. stage[t] # "none"
    BY DEF FailsBeforeSending, SendRequest, Hear
  <2>2. QED
    BY <1>3, <1>5, <1>6, <2>1 DEF DInv, Busy, Sending
<1>9. OkInv'
  <2>1. Gains({})
    BY <1>3 DEF Gains, Won
  <2>2. \A u \in TaskId : u # t /\ stage[u] = "success" => wins'[u] > 0
    BY <1>5 DEF DInv, OkInv, Answered
  <2>3. QED
    BY <1>5, <1>6, <2>1, <2>2, OkInvKept DEF DInv
<1>10. QED
  BY <1>2, <1>7, <1>8, <1>9 DEF DInv

LEMMA RestartKeeps ==
  ASSUME DInv, IndInv', Observe, ExitDrained \/ ExitTimeout \/ ServeError \/ Kill
  PROVE  DInv'
<1>1. Crash /\ Restarted
  BY DEF ExitDrained, ExitTimeout, ServeError, Kill, Close
<1>2. UNCHANGED <<sent, overdue, cuts>> \/ Cut
  BY DEF ExitDrained, ExitTimeout, ServeError, Kill
<1>3. crashes \in Nat /\ crashes' = crashes + 1
  BY <1>1 DEF Crash, DInv, IndInv, TypeOK
<1>4. /\ stage' = [t \in TaskId |-> "none"] /\ main' = "serving" /\ wins' = wins
      /\ "none" \in Stage
  BY <1>1 DEF Restarted, Stage
<1>5. Gains({}) /\ Sending' = {}
  BY <1>1, CrashGains DEF DInv
<1>6. /\ sent' \in [TaskId -> Nat] /\ overdue' \in [TaskId -> Nat]
      /\ cuts' \in {cuts, cuts + 1}
  BY <1>2 DEF Cut, DInv, DeliveryTypeOK
<1>7. DeliveryTypeOK'
  BY <1>3, <1>4, <1>6 DEF DInv, DeliveryTypeOK, Observe, DurablySucceeded
<1>8. OkInv'
  BY <1>4, <1>5, OkInvKept DEF DInv, OkInv, Answered
<1>9. Busy' = Sending'
  BY <1>4, <1>5 DEF Busy
<1>10. QED
  BY <1>7, <1>8, <1>9 DEF DInv

LEMMA DStepPreserves == DInv /\ [DNext]_dvars => DInv'
<1> SUFFICES ASSUME DInv, [DNext]_dvars PROVE DInv'
  OBVIOUS
<1>0. [Next]_vars /\ IndInv /\ IndInv'
  BY StepIsQueueStep, NextPreserves DEF DInv
<1>a. /\ main \in {"serving", "stopping", "draining"}
      /\ sent \in [TaskId -> Nat] /\ overdue \in [TaskId -> Nat]
  BY DEF DInv, DeliveryTypeOK
<1>1. CASE UNCHANGED dvars
  <2>1. UNCHANGED <<tasks, log, snap, crashes>>
    BY <1>1 DEF dvars, vars, memVars, logVars, maintVars, faults
  <2>2. QED
    BY <1>0, <1>1, <2>1 DEF dvars, DInv, DeliveryTypeOK, Busy, Sending, OkInv, Won, Answered
<1> SUFFICES ASSUME DNext PROVE DInv'
  BY <1>1
<1>b. Observe
  BY DEF DNext
<1>2. ASSUME Gains({}), Sending' = Sending, Quiet PROVE DInv'
  BY <1>0, <1>a, <1>b, <1>2, QuietKeeps DEF Quiet, seen
<1>3. ASSUME NEW t \in TaskId, NEW k \in Key, Accept(t, k) PROVE DInv'
  BY <1>0, <1>2, <1>3, SubmitGains DEF Accept
<1>4. ASSUME NEW t \in TaskId, NEW k \in Key, Refuse(t, k) PROVE DInv'
  BY <1>0, <1>2, <1>4, SubmitFailsGains DEF Refuse
<1>5. ASSUME NEW k \in Key, AcceptAgain(k) PROVE DInv'
  <2>1. Gains({}) /\ Sending' = Sending
    BY <1>5 DEF AcceptAgain, SubmitDuplicate, memVars, logVars, maintVars, Gains, Sending, Won
  <2>2. QED
    BY <1>2, <1>5, <2>1 DEF AcceptAgain
<1>6. ASSUME NEW t \in TaskId, Reopen(t) PROVE DInv'
  <2>1. Gains({}) /\ Sending' = Sending
    BY <1>0, <1>6, ReviveGains DEF Reopen
  <2>2. {sent', overdue'} \subseteq [TaskId -> Nat] /\ UNCHANGED <<stage, main, wins, cuts>>
    BY <1>6, <1>a DEF Reopen
  <2>3. QED
    BY <1>0, <1>a, <1>b, <2>1, <2>2, QuietKeeps
<1>7. ASSUME NEW t \in TaskId, TakeOut(t) PROVE DInv'
  <2>1. /\ Gains({}) /\ Sending' = Sending \cup {t} /\ To(t, "held")
        /\ UNCHANGED <<wins, sent, overdue, cuts>> /\ "held" \in Stage
        /\ main' \in {"serving", "stopping", "draining"}
    BY <1>0, <1>7, <1>a, LeaseGains DEF TakeOut, seen, Stage
  <2>2. {sent', overdue'} \subseteq [TaskId -> Nat]
    BY <1>a, <2>1
  <2>3. QED
    BY <1>0, <1>b, <2>1, <2>2, MoveKeeps
<1>8. ASSUME NEW t \in TaskId,
             \/ RecordSuccess(t) \/ RecordPermanent(t) \/ RecordExhausted(t)
             \/ RecordTooLate(t) \/ RecordRetry(t) \/ HostBusy(t) \/ GiveBack(t)
      PROVE  DInv'
  BY <1>0, <1>8, <1>b, RecordsKeep
<1>9. ASSUME NEW t \in TaskId, FailsBeforeSending(t) \/ SendRequest(t) \/ Hear(t)
      PROVE  DInv'
  BY <1>9, <1>b, DeliverKeeps
<1>10. CASE Maintain /\ Quiet
  BY <1>0, <1>2, <1>10, MaintainGains
<1>11. CASE (SyncLoop \/ Tick) /\ Quiet
  BY <1>0, <1>2, <1>11, ClockGains
<1>12. CASE Terminate \/ RunStops
  <2>1. UNCHANGED vars /\ UNCHANGED <<stage, wins, sent, overdue, cuts>>
        /\ main' \in {"serving", "stopping", "draining"}
    BY <1>12 DEF Terminate, RunStops, seen
  <2>2. Gains({}) /\ Sending' = Sending
    BY <2>1 DEF vars, memVars, logVars, maintVars, Gains, Sending, Won
  <2>3. {sent', overdue'} \subseteq [TaskId -> Nat]
    BY <1>a, <2>1
  <2>4. QED
    BY <1>0, <1>b, <2>1, <2>2, <2>3, QuietKeeps
<1>13. CASE ExitDrained \/ ExitTimeout \/ ServeError \/ Kill
  BY <1>0, <1>13, <1>b, RestartKeeps
<1>14. QED
  BY <1>3, <1>4, <1>5, <1>6, <1>7, <1>8, <1>9, <1>10, <1>11, <1>12, <1>13 DEF DNext, Step

-----------------------------------------------------------------------------
(* The theorems. *)

\* What a delivery believes of its task is what the queue knows of it, over every
\* operation of both and every end of the process (dispatch.go: deliver; main.go: run).
THEOREM DeliveryInvariance == DSpec => []DInv
BY DInitEstablishes, DStepPreserves, PTL DEF DSpec

\* Stages, counters and the state of main keep their range; no end of the
\* process is counted twice.
THEOREM DeliveryTypeCorrect == DSpec => []DeliveryTypeOK
<1>1. DInv => DeliveryTypeOK
  BY DEF DInv
<1>2. QED
  BY DeliveryInvariance, <1>1, PTL

\* A task is "sending" exactly while one delivery has it: none is left behind
\* by a restart, and none is sent by two goroutines (queue.go: Lease, Defer,
\* OnRetry, Restore; dispatch.go: Run, deliver).
THEOREM OneHolder == DSpec => []HeldByOne
<1>1. DInv => HeldByOne
  BY DEF DInv, Busy, Sending, HeldByOne
<1>2. QED
  BY DeliveryInvariance, <1>1, PTL

\* No task counts as delivered, in memory or in the journal any restart may
\* find, unless the vendor has answered 2xx to it (dispatch.go: deliver,
\* Classify; queue.go: OnSuccess, Restore; maintenance.go: snapshotLocked).
THEOREM DeliveredMeansAnswered == DSpec => []SuccessMeansAnswered
<1>1. DInv => SuccessMeansAnswered
  <2> SUFFICES ASSUME DInv, NEW t \in TaskId,
                      \/ t \in DOMAIN tasks /\ tasks[t].st = "succeeded"
                      \/ \E i \in DOMAIN log : log[i].T = "ok" /\ log[i].id = t
               PROVE  wins[t] > 0
    BY DEF SuccessMeansAnswered
  <2>1. DOMAIN log = 1..Len(log)
    BY DEF DInv, IndInv, TypeOK, Store!JournalTypeOK
  <2>2. t \in Won \/ t \in OkIds(log)
    BY <2>1 DEF Won, OkIds
  <2>3. QED
    BY <2>2 DEF DInv, OkInv, Answered
<1>2. QED
  BY DeliveryInvariance, <1>1, PTL

-----------------------------------------------------------------------------
(* A success on record is final.  Whatever is submitted, revived, purged or  *)
(* compacted afterwards, and however often the process ends, a task whose    *)
(* success the journal has held durably is never queued again, unless a      *)
(* compaction has overwritten one of its records.                            *)
(*                                                                           *)
(* The invariant: in the journal nothing follows the success of a task; a    *)
(* success on record is one in memory too, if the task is still there; and a *)
(* snapshot on its way to disk knows every success it will not overwrite.    *)

SnapKnows == phase = "replace" =>
               \A t \in EnqIds(snap) \ touched :
                 t \in DOMAIN tasks /\ (t \in Won => t \in OkIds(snap))

SuccInv ==
  /\ OkLast(log) /\ OkLast(snap)
  /\ OkIds(log) \cup OkIds(snap) \subseteq issued
  /\ (OkIds(log) \cup OkIds(snap)) \cap DOMAIN tasks \subseteq Won
  /\ SnapKnows

\* What is over for t in memory, and what no restart can bring back to life.
DurOk      == OkIds(Prefix(log, synced))
MemDone(t) == t \in DOMAIN tasks => t \in Won
LogDone(t) == t \in EnqIds(log) => t \in DurOk

\* A task of which both hold stays that way; but for the journal only as long
\* as no compaction overwrites a record of it.
StaysDone == \A t \in issued : MemDone(t) /\ LogDone(t)
                               => MemDone(t)' /\ (t \notin raced' => LogDone(t)')

-----------------------------------------------------------------------------
(* What the operations of the journal do to the successes in it.            *)

LEMMA OkByPosition ==
  ASSUME NEW l, NEW t
  PROVE  t \in OkIds(l) <=> \E i \in 1..Len(l) : l[i].T = "ok" /\ l[i].id = t
BY DEF OkIds

LEMMA LastOfPrefix ==
  ASSUME NEW l \in Seq(Record), NEW n \in 0..Len(l), OkLast(l)
  PROVE  OkLast(Prefix(l, n))
<1>1. Len(Prefix(l, n)) = n /\ \A i \in 1..n : i \in 1..Len(l) /\ Prefix(l, n)[i] = l[i]
  BY PrefixIds
<1>2. QED
  BY <1>1 DEF OkLast

LEMMA LastOfAppend ==
  ASSUME NEW l \in Seq(Record), NEW r \in Record, OkLast(l), r.id \notin OkIds(l)
  PROVE  OkLast(Append(l, r))
<1> DEFINE m == Append(l, r)
<1>1. Len(l) \in Nat /\ Len(m) = Len(l) + 1
      /\ \A i \in 1..Len(m) : m[i] = IF i <= Len(l) THEN l[i] ELSE r
  OBVIOUS
<1> HIDE DEF m
<1>2. SUFFICES ASSUME NEW i \in 1..Len(m), NEW j \in 1..Len(m), m[i].T = "ok", i < j
               PROVE  m[j].id # m[i].id
  BY DEF OkLast, m
<1>3. i \in 1..Len(l) /\ m[i] = l[i]
  BY <1>1, <1>2
<1>4. CASE j <= Len(l)
  <2>1. j \in 1..Len(l) /\ m[j] = l[j]
    BY <1>1, <1>4
  <2>2. QED
    BY <1>2, <1>3, <2>1 DEF OkLast
<1>5. CASE ~(j <= Len(l))
  <2>1. m[j] = r
    BY <1>1, <1>5
  <2>2. l[i].id \in OkIds(l)
    BY <1>2, <1>3 DEF OkIds
  <2>3. QED
    BY <1>3, <2>1, <2>2
<1>6. QED
  BY <1>4, <1>5

\* The last record of a task that has a success is the success.
LEMMA RestoredDone ==
  ASSUME NEW l \in Seq(Record), OkLast(l), NEW t \in EnqIds(l), t \in OkIds(l)
  PROVE  Restored(l)[t].st = "succeeded"
<1> DEFINE A == Positions(l, t, {"enq", "att", "ok", "dead"})
<1>1. PICK i \in 1..Len(l) : l[i].T = "ok" /\ l[i].id = t
  BY OkByPosition
<1>2. i \in A /\ A \subseteq DOMAIN l
  BY <1>1 DEF Positions
<1>3. \A j \in A : l[j].id = t
  BY DEF Positions
<1>4. Restored(l)[t].st = StateAfter(l[Max(A)].T)
  BY DEF Restored
<1> HIDE DEF A
<1>5. Max(A) \in A /\ Max(A) \in 1..Len(l) /\ i <= Max(A)
  BY <1>2, LastPosition
<1>6. Max(A) = i
  <2>1. ~(i < Max(A))
    BY <1>1, <1>3, <1>5 DEF OkLast
  <2>2. QED
    BY <1>5, <2>1
<1>7. QED
  BY <1>1, <1>4, <1>6 DEF StateAfter

\* The tasks the journal holds a request of without its credentials.
StripIds(l) == {l[i].id : i \in {j \in 1..Len(l) : l[j].T = "enq" /\ ~l[j].full}}

LEMMA StripOfPrefix ==
  ASSUME NEW l \in Seq(Record), NEW n \in 0..Len(l)
  PROVE  StripIds(Prefix(l, n)) \subseteq StripIds(l)
<1>1. Len(Prefix(l, n)) = n /\ \A i \in 1..n : i \in 1..Len(l) /\ Prefix(l, n)[i] = l[i]
  BY PrefixIds
<1>2. QED
  BY <1>1 DEF StripIds

LEMMA StripOfAppend ==
  ASSUME NEW l \in Seq(Record), NEW r \in Record, r.T = "enq" => r.full
  PROVE  StripIds(Append(l, r)) \subseteq StripIds(l)
<1> DEFINE m == Append(l, r)
<1>1. Len(l) \in Nat /\ Len(m) = Len(l) + 1
      /\ \A i \in 1..Len(m) : m[i] = IF i <= Len(l) THEN l[i] ELSE r
  OBVIOUS
<1> HIDE DEF m
<1>2. \A i \in 1..Len(m) : i <= Len(l) => i \in 1..Len(l)
  BY <1>1
<1>3. StripIds(m) \subseteq StripIds(l)
  BY <1>1, <1>2 DEF StripIds
<1>4. QED
  BY <1>3 DEF m

\* Records are added, or lost from behind those fsync has covered; and no request
\* is written without its credentials.
Recorded(ids, oks) ==
  /\ OkLast(log')
  /\ OkIds(log') \subseteq OkIds(log) \cup oks
  /\ DurOk \subseteq DurOk'
  /\ EnqIds(log') \subseteq EnqIds(log) \cup ids
  /\ StripIds(log') \subseteq StripIds(log)

LEMMA NothingRecorded ==
  ASSUME SuccInv, UNCHANGED <<log, synced>>
  PROVE  Recorded({}, {})
BY DEF SuccInv, Recorded, DurOk

LEMMA DurableKept ==
  ASSUME NEW l \in Seq(Record), NEW n \in 0..Len(l), NEW m \in 0..n
  PROVE  OkIds(Prefix(l, m)) \subseteq OkIds(Prefix(l, n))
<1>1. Prefix(l, n) \in Seq(Record) /\ Len(Prefix(l, n)) = n
  BY PrefixIds
<1>2. Prefix(Prefix(l, n), m) = Prefix(l, m)
  BY PrefixOfPrefix
<1>3. OkIds(Prefix(Prefix(l, n), m)) \subseteq OkIds(Prefix(l, n))
  BY <1>1, OkOfPrefix
<1>4. QED
  BY <1>2, <1>3

LEMMA FlushRecords ==
  ASSUME IndInv, SuccInv, log' = log, synced' = Len(log)
  PROVE  Recorded({}, {})
<1>1. log \in Seq(Record) /\ synced \in 0..Len(log) /\ Len(log) \in 0..Len(log)
  BY DEF IndInv, TypeOK, Store!JournalTypeOK
<1>2. DurOk \subseteq DurOk'
  BY <1>1, DurableKept DEF DurOk
<1>3. QED
  BY <1>2 DEF SuccInv, Recorded

LEMMA GrowRecords ==
  ASSUME IndInv, SuccInv, NEW r \in Record, r.id \notin OkIds(log),
         r.T = "enq" => r.full, log' = Append(log, r), synced' \in {synced, Len(log) + 1}
  PROVE  Recorded({id \in {r.id} : r.T = "enq"}, {id \in {r.id} : r.T = "ok"})
<1>1. log \in Seq(Record) /\ synced \in 0..Len(log)
  BY DEF IndInv, TypeOK, Store!JournalTypeOK
<1> DEFINE l == Append(log, r)
<1>2. /\ l \in Seq(Record) /\ Len(l) = Len(log) + 1
      /\ Prefix(l, synced) = Prefix(log, synced)
  BY <1>1, PrefixOfAppend
<1>3. OkLast(l)
  BY <1>1, LastOfAppend DEF SuccInv
<1>4. OkIds(l) \subseteq OkIds(log) \cup {id \in {r.id} : r.T = "ok"}
  BY <1>1, OkOfAppend
<1>5. EnqIds(l) \subseteq EnqIds(log) \cup {id \in {r.id} : r.T = "enq"}
  <2>1. r.T # "enq" => EnqIds(l) = EnqIds(log)
    BY <1>1, AppendedIds
  <2>2. EnqIds(l) \subseteq EnqIds(log) \cup {r.id}
    BY <1>1, AppendedIds
  <2>3. QED
    BY <2>1, <2>2
<1>a. StripIds(l) \subseteq StripIds(log)
  BY <1>1, StripOfAppend
<1> HIDE DEF l
<1>6. synced' \in 0..Len(l) /\ synced \in 0..synced'
  BY <1>1, <1>2
<1>7. OkIds(Prefix(l, synced)) \subseteq OkIds(Prefix(l, synced'))
  BY <1>2, <1>6, DurableKept
<1>8. log' = l
  BY DEF l
<1>9. QED
  BY <1>2, <1>3, <1>4, <1>5, <1>7, <1>8, <1>a DEF Recorded, DurOk

\* A failing write, or a crash, that has to do with the journal l.
LEMMA CutRecords ==
  ASSUME IndInv, NEW l \in Seq(Record), Len(l) >= Len(log), OkLast(l),
         Prefix(l, synced) = Prefix(log, synced), OkIds(l) \subseteq OkIds(log),
         NEW ids, EnqIds(l) \subseteq EnqIds(log) \cup ids, StripIds(l) \subseteq StripIds(log),
         Store!KeepPrefix(l), synced' \in {synced, Len(log')}
  PROVE  Recorded(ids, {})
<1>1. log \in Seq(Record) /\ synced \in 0..Len(log)
  BY DEF IndInv, TypeOK, Store!JournalTypeOK
<1>2. PICK n \in synced..Len(l) : log' = Prefix(l, n)
  BY DEF Store!KeepPrefix, Prefix
<1>3. n \in 0..Len(l) /\ synced \in 0..n /\ n \in 0..n
  BY <1>1, <1>2
<1>4. /\ log' \in Seq(Record) /\ Len(log') = n /\ EnqIds(log') \subseteq EnqIds(l)
      /\ Prefix(log', synced) = Prefix(l, synced) /\ Prefix(log', n) = log'
  BY <1>2, <1>3, PrefixIds, PrefixOfPrefix
<1>5. OkLast(log') /\ OkIds(log') \subseteq OkIds(l)
  BY <1>2, <1>3, LastOfPrefix, OkOfPrefix
<1>6. OkIds(Prefix(l, synced)) \subseteq OkIds(log')
  BY <1>2, <1>3, DurableKept
<1>7. DurOk \subseteq DurOk'
  BY <1>4, <1>6 DEF DurOk
<1>8. StripIds(log') \subseteq StripIds(l)
  BY <1>2, <1>3, StripOfPrefix
<1>9. QED
  BY <1>4, <1>5, <1>7, <1>8 DEF Recorded

LEMMA WriteErrorRecords ==
  ASSUME IndInv, SuccInv, Store!KeepPrefix(log), synced' = synced
  PROVE  Recorded({}, {})
<1>1. log \in Seq(Record) /\ Len(log) >= Len(log)
  BY DEF IndInv, TypeOK, Store!JournalTypeOK
<1>2. QED
  BY <1>1, CutRecords DEF SuccInv

LEMMA LazyRecords ==
  ASSUME IndInv, SuccInv, NEW r \in Record, r.id \notin OkIds(log), r.T # "enq",
         Store!AppendLazy(r) \/ Store!AppendLazyFails
  PROVE  Recorded({}, {id \in {r.id} : r.T = "ok"})
<1>1. CASE log' = Append(log, r) /\ synced' = synced
  BY <1>1, GrowRecords DEF Recorded
<1>2. CASE log' = log /\ synced' = synced
  BY <1>2, NothingRecorded DEF Recorded
<1>3. CASE Store!WriteError
  BY <1>3, WriteErrorRecords DEF Store!WriteError, Recorded
<1>4. QED
  BY <1>1, <1>2, <1>3 DEF Store!AppendLazy, Store!AppendLazyFails, Store!StillFailed,
     Store!journalVars

LEMMA SyncRecords ==
  ASSUME IndInv, SuccInv, NEW r \in Record, r.id \notin issued, r.T = "enq", r.full,
         Store!AppendSync(r) \/ Store!AppendSyncFails(r)
  PROVE  Recorded({r.id}, {})
<1>0. r.id \notin OkIds(log)
  BY DEF SuccInv
<1>1. CASE log' = Append(log, r) /\ synced' \in {synced, Len(log) + 1}
  BY <1>0, <1>1, GrowRecords DEF Recorded
<1>2. CASE log' = log /\ synced' = synced
  BY <1>2, NothingRecorded DEF Recorded
<1>3. CASE Store!WriteError
  BY <1>3, WriteErrorRecords DEF Store!WriteError, Recorded
<1>4. QED
  BY <1>1, <1>2, <1>3 DEF Store!AppendSync, Store!AppendSyncFails, Store!SyncError,
     Store!StillFailed, Store!DetachedSync, Store!journalVars

-----------------------------------------------------------------------------
(* The operations of the queue. *)

\* What every operation but the two ends of a compaction and a crash grants: a
\* success may be purged, but not undone; and a task the snapshot under way calls
\* unfinished is touched when it succeeds.
Proceeds ==
  /\ snap' = snap /\ issued \subseteq issued'
  /\ (DOMAIN tasks') \cap issued \subseteq DOMAIN tasks
  /\ Won \cap DOMAIN tasks' \subseteq Won'
  /\ phase' = "replace" =>
       /\ phase = "replace" /\ touched \subseteq touched'
       /\ DOMAIN tasks \subseteq DOMAIN tasks' /\ Won' \subseteq Won \cup touched'

\* Nothing is recorded of a task that was not issued before, unless it is a new
\* one, nor a success without one in memory.
Moves == Proceeds /\ \E ids, oks : /\ Recorded(ids, oks) /\ ids \cap issued = {}
                                  /\ oks \subseteq issued \cap Won'

LEMMA MovesKeep ==
  ASSUME SuccInv, Moves
  PROVE  SuccInv' /\ StaysDone
<1> PICK ids, oks : /\ Recorded(ids, oks) /\ ids \cap issued = {}
                    /\ oks \subseteq issued \cap Won'
  BY DEF Moves
<1> Proceeds
  BY DEF Moves
<1>1. OkLast(log') /\ OkLast(snap')
  BY DEF SuccInv, Recorded, Proceeds
<1>2. OkIds(log') \cup OkIds(snap') \subseteq issued'
  BY DEF SuccInv, Recorded, Proceeds
<1>3. (OkIds(log') \cup OkIds(snap')) \cap DOMAIN tasks' \subseteq Won'
  BY DEF SuccInv, Recorded, Proceeds
<1>4. SnapKnows'
  BY DEF SuccInv, SnapKnows, Proceeds
<1>5. StaysDone
  BY DEF StaysDone, MemDone, LogDone, Recorded, Proceeds
<1>6. QED
  BY <1>1, <1>2, <1>3, <1>4, <1>5 DEF SuccInv

\* One task moves on that has not succeeded before.
LEMMA OneProceeds ==
  ASSUME IndInv, NEW t \in DOMAIN tasks, NEW m, tasks' = [tasks EXCEPT ![t] = m],
         tasks[t].st # "succeeded", UNCHANGED <<snap, phase, issued>>,
         touched \subseteq touched',
         m.st = "succeeded" /\ phase = "replace" => t \in touched'
  PROVE  /\ Proceeds /\ t \in issued
         /\ m.st = "succeeded" => t \in Won'
         /\ SuccInv => t \notin OkIds(log)
<1>1. /\ tasks \in [DOMAIN tasks -> Task] /\ DOMAIN tasks' = DOMAIN tasks /\ tasks'[t] = m
      /\ \A u \in DOMAIN tasks : u # t => tasks'[u] = tasks[u]
  BY DEF IndInv, TypeOK, IsPartialFn
<1>2. /\ Won \subseteq Won' /\ t \notin Won
      /\ Won' \subseteq Won \cup {u \in {t} : m.st = "succeeded"}
      /\ m.st = "succeeded" => t \in Won'
  BY <1>1 DEF Won
<1>3. SuccInv => t \notin OkIds(log)
  BY <1>2 DEF SuccInv
<1>4. t \in issued
  BY DEF IndInv, IssuedInv
<1>5. QED
  BY <1>1, <1>2, <1>3, <1>4 DEF Proceeds

LEMMA TouchGrows ==
  ASSUME NEW t, Touch(t)
  PROVE  touched \subseteq touched' /\ (phase = "replace" => t \in touched')
BY DEF Touch

LEMMA SubmitMoves ==
  ASSUME IndInv, SuccInv, NEW t \in TaskId, NEW k \in Key, Submit(t, k) \/ SubmitFails(t, k)
  PROVE  Moves
<1> DEFINE r == Enq(t, now, k, TRUE)
           m == Fresh(r)
<1>1. r \in Record /\ r.T = "enq" /\ r.id = t /\ m.st = "pending" /\ r.full
  BY EnqIsRecord DEF Enq
<1>2. t \notin issued /\ (Store!AppendSync(r) \/ Store!AppendSyncFails(r))
  BY DEF Submit, SubmitFails
<1>3. tasks' = Put(tasks, t, m) \/ tasks' = tasks
  BY DEF Submit, SubmitFails, memVars
<1> HIDE DEF r, m
<1>4. Recorded({t}, {})
  BY <1>1, <1>2, SyncRecords
<1>5. t \notin DOMAIN tasks
  BY <1>2 DEF IndInv, IssuedInv
<1>6. /\ DOMAIN tasks \subseteq DOMAIN tasks' /\ DOMAIN tasks' \subseteq DOMAIN tasks \cup {t}
      /\ Won' = Won
  <2>1. CASE tasks' = Put(tasks, t, m)
    <3>1. /\ DOMAIN tasks' = DOMAIN tasks \cup {t} /\ tasks'[t] = m
          /\ \A u \in DOMAIN tasks : tasks'[u] = tasks[u]
      BY <1>5, <2>1 DEF Put
    <3>2. QED
      BY <1>1, <1>5, <3>1 DEF Won
  <2>2. CASE tasks' = tasks
    BY <2>2 DEF Won
  <2>3. QED
    BY <1>3, <2>1, <2>2
<1>7. UNCHANGED <<snap, phase>> /\ issued' = issued \cup {t} /\ touched \subseteq touched'
  BY TouchGrows DEF Submit, SubmitFails, maintVars
<1>8. Proceeds
  BY <1>2, <1>6, <1>7 DEF Proceeds, Won
<1>9. QED
  BY <1>2, <1>4, <1>8 DEF Moves

LEMMA ReviveMoves ==
  ASSUME IndInv, SuccInv, NEW t \in TaskId, Revive(t)
  PROVE  Moves
<1> DEFINE r == Att(t, now, 0, now)
           m == Revived(tasks[t])
<1>1. t \in DOMAIN tasks /\ tasks[t].st = "dead" /\ tasks[t] \in Task
  BY DEF Revive, IndInv, TypeOK, IsPartialFn
<1>2. m.st = "pending" /\ r \in Record /\ r.T = "att" /\ r.id = t
  BY <1>1 DEF Revived, Task, Att, Record, AttRecord, IndInv, TypeOK
<1>3. /\ tasks' = [tasks EXCEPT ![t] = m] /\ UNCHANGED <<snap, phase, issued>>
      /\ Store!AppendLazy(r) \/ Store!AppendLazyFails
      /\ touched \subseteq touched'
  BY TouchGrows DEF Revive, maintVars
<1> HIDE DEF r, m
<1>4. Proceeds /\ t \notin OkIds(log)
  BY <1>1, <1>2, <1>3, OneProceeds
<1>5. Recorded({}, {})
  BY <1>2, <1>3, <1>4, LazyRecords DEF Recorded
<1>6. QED
  BY <1>4, <1>5 DEF Moves

LEMMA LeaseMoves ==
  ASSUME IndInv, SuccInv, NEW t \in TaskId, Lease(t) \/ Defer(t)
  PROVE  Moves
<1>1. /\ t \in DOMAIN tasks /\ tasks[t] \in Task
      /\ tasks[t].st \in {"pending", "waiting", "sending"}
  BY DEF Lease, Least, Defer, Sending, IndInv, HeapMatches, Scheduled, TypeOK, IsPartialFn
<1>2. \E m : tasks' = [tasks EXCEPT ![t] = m] /\ m.st # "succeeded"
  <2>1. CASE Lease(t)
    <3> DEFINE m == [tasks[t] EXCEPT !.st = "sending", !.updatedAt = now]
    <3>1. m.st = "sending" /\ tasks' = [tasks EXCEPT ![t] = m]
      BY <1>1, <2>1 DEF Lease, Task
    <3>2. QED
      BY <3>1
  <2>2. CASE Defer(t)
    <3>1. PICK at \in {now, now + 1} :
            tasks' = [tasks EXCEPT ![t].st = "pending", ![t].nextAt = at]
      BY <2>2 DEF Defer
    <3> DEFINE m == [tasks[t] EXCEPT !.st = "pending", !.nextAt = at]
    <3>2. m.st = "pending" /\ tasks' = [tasks EXCEPT ![t] = m]
      BY <1>1, <3>1 DEF Task
    <3>3. QED
      BY <3>2
  <2>3. QED
    BY <2>1, <2>2
<1>3. PICK m : tasks' = [tasks EXCEPT ![t] = m] /\ m.st # "succeeded"
  BY <1>2
<1>4. UNCHANGED <<snap, phase, issued, touched, log, synced>>
  BY DEF Lease, Defer, maintVars, history, logVars
<1>5. Proceeds
  BY <1>1, <1>3, <1>4, OneProceeds
<1>6. Recorded({}, {})
  BY <1>4, NothingRecorded
<1>7. QED
  BY <1>5, <1>6 DEF Moves

LEMMA OutcomeMoves ==
  ASSUME IndInv, SuccInv, NEW t \in TaskId, OnRetry(t) \/ OnSuccess(t) \/ OnDead(t)
  PROVE  Moves
<1>1. /\ t \in DOMAIN tasks /\ tasks[t] \in Task /\ tasks[t].st = "sending"
      /\ now \in Nat /\ tasks[t].attempts + 1 \in Nat
  <2>1. t \in DOMAIN tasks /\ tasks[t] \in Task /\ tasks[t].st = "sending" /\ now \in Nat
    BY DEF OnRetry, OnSuccess, OnDead, Sending, IndInv, TypeOK, IsPartialFn
  <2>2. QED
    BY <2>1 DEF Task
<1>2. /\ UNCHANGED <<snap, phase, issued>> /\ touched \subseteq touched'
      /\ phase = "replace" => t \in touched'
  BY TouchGrows DEF OnRetry, OnSuccess, OnDead, maintVars
<1>3. \E m : \E r \in Record :
        /\ tasks' = [tasks EXCEPT ![t] = m]
        /\ Store!AppendLazy(r) \/ Store!AppendLazyFails
        /\ r.id = t /\ r.T # "enq" /\ (r.T = "ok" => m.st = "succeeded")
  <2>1. CASE OnRetry(t)
    <3>1. PICK at \in now .. now + MaxDelay :
            /\ tasks' = [tasks EXCEPT ![t] = Retried(@, at)]
            /\ \/ Store!AppendLazy(Att(t, now, tasks[t].attempts + 1, at))
               \/ Store!AppendLazyFails
      BY <2>1 DEF OnRetry
    <3> DEFINE r == Att(t, now, tasks[t].attempts + 1, at)
               m == Retried(tasks[t], at)
    <3>2. at \in Nat
      BY <1>1, ConfigAssumption
    <3>3. r \in Record /\ r.T = "att" /\ r.id = t
      BY <1>1, <3>2 DEF Att, Record, AttRecord
    <3>4. tasks' = [tasks EXCEPT ![t] = m]
          /\ (Store!AppendLazy(r) \/ Store!AppendLazyFails)
      BY <3>1
    <3> HIDE DEF r, m
    <3>5. QED
      BY <3>3, <3>4
  <2>2. CASE OnSuccess(t)
    <3> DEFINE r == Ok(t, now, tasks[t].attempts + 1)
               m == Succeeded(tasks[t])
    <3>1. m.st = "succeeded" /\ r \in Record /\ r.T = "ok" /\ r.id = t
      BY <1>1 DEF Succeeded, Task, Ok, Record, OkRecord
    <3>2. tasks' = [tasks EXCEPT ![t] = m]
          /\ (Store!AppendLazy(r) \/ Store!AppendLazyFails)
      BY <2>2 DEF OnSuccess
    <3> HIDE DEF r, m
    <3>3. QED
      BY <3>1, <3>2
  <2>3. CASE OnDead(t)
    <3>1. PICK why \in Reason :
            /\ tasks' = [tasks EXCEPT ![t] = Died(@, why)]
            /\ \/ Store!AppendLazy(Dead(t, now, tasks[t].attempts + 1, why))
               \/ Store!AppendLazyFails
      BY <2>3 DEF OnDead
    <3> DEFINE r == Dead(t, now, tasks[t].attempts + 1, why)
               m == Died(tasks[t], why)
    <3>2. r \in Record /\ r.T = "dead" /\ r.id = t
      BY <1>1 DEF Dead, Record, DeadRecord
    <3>3. tasks' = [tasks EXCEPT ![t] = m]
          /\ (Store!AppendLazy(r) \/ Store!AppendLazyFails)
      BY <3>1
    <3> HIDE DEF r, m
    <3>4. QED
      BY <3>2, <3>3
  <2>4. QED
    BY <2>1, <2>2, <2>3
<1>4. PICK m : \E r \in Record :
        /\ tasks' = [tasks EXCEPT ![t] = m]
        /\ Store!AppendLazy(r) \/ Store!AppendLazyFails
        /\ r.id = t /\ r.T # "enq" /\ (r.T = "ok" => m.st = "succeeded")
  BY <1>3
<1>5. PICK r \in Record :
        /\ tasks' = [tasks EXCEPT ![t] = m]
        /\ Store!AppendLazy(r) \/ Store!AppendLazyFails
        /\ r.id = t /\ r.T # "enq" /\ (r.T = "ok" => m.st = "succeeded")
  BY <1>4
<1>6. /\ Proceeds /\ t \in issued /\ t \notin OkIds(log)
      /\ m.st = "succeeded" => t \in Won'
  BY <1>1, <1>2, <1>5, OneProceeds
<1> DEFINE oks == {id \in {r.id} : r.T = "ok"}
<1>7. Recorded({}, oks)
  BY <1>5, <1>6, LazyRecords
<1>8. oks \subseteq issued \cap Won'
  BY <1>5, <1>6
<1> HIDE DEF oks
<1>9. QED
  BY <1>6, <1>7, <1>8 DEF Moves

-----------------------------------------------------------------------------
(* Maintenance and crashes. *)

LEMMA OrderInjective ==
  ASSUME NEW S, IsFiniteSet(S), NEW order \in Orders(S)
  PROVE  \A i, j \in 1..Len(order) : order[i] = order[j] => i = j
<1>1. Cardinality(S) \in Nat
  BY FS_CardinalityType
<1>2. order \in [1..Cardinality(S) -> S]
      /\ \A i, j \in 1..Cardinality(S) : order[i] = order[j] => i = j
  BY DEF Orders, Bijection, Injection, IsInjective
<1>3. QED
  BY <1>1, <1>2

\* The records of a snapshot: each tells a task in memory as it is, and nothing
\* follows the record of its state.
EnqOf(t) == Enq(t, tasks[t].createdAt, tasks[t].key,
                tasks[t].full /\ tasks[t].st # "succeeded")

TellsTasks(l, S) ==
  /\ l \in Seq(Record)
  /\ \A i \in 1..Len(l) :
       IF l[i].T = "enq" THEN l[i].id \in DOMAIN tasks /\ l[i] = EnqOf(l[i].id)
                         ELSE l[i].id \in S /\ l[i] = StateRecord(l[i].id)
  /\ \A t \in S : \E i \in 1..Len(l) : l[i].T # "enq" /\ l[i].id = t
  /\ \A i, j \in 1..Len(l) : l[i].T # "enq" /\ i < j => l[j].id # l[i].id
  /\ \A i, j \in 1..Len(l) : l[i].T = "enq" /\ i < j /\ l[j].T = "enq" => l[j].id # l[i].id

LEMMA SnapshotTells ==
  ASSUME IndInv, NEW order \in Orders(DOMAIN tasks),
         NEW S \in SUBSET (DOMAIN tasks), NEW rest \in Orders(S)
  PROVE  TellsTasks(SnapshotIn(order, rest), S)
<1> DEFINE l == SnapshotIn(order, rest)
<1> DEFINE a == [i \in 1..Len(order) |-> EnqOf(order[i])]
           b == [i \in 1..Len(rest) |-> StateRecord(rest[i])]
<1>1. IsFiniteSet(DOMAIN tasks) /\ IsFiniteSet(S)
  BY FS_Subset DEF IndInv, CountInv
<1>2. /\ order \in Seq(DOMAIN tasks) /\ rest \in Seq(S)
      /\ \A t \in S : \E i \in 1..Len(rest) : rest[i] = t
      /\ \A i, j \in 1..Len(rest) : rest[i] = rest[j] => i = j
  BY <1>1, OrderType, OrderInjective
<1>3. \A t \in DOMAIN tasks : EnqOf(t) \in Record /\ EnqOf(t).T = "enq" /\ EnqOf(t).id = t
  <2>1. \A t \in DOMAIN tasks : tasks[t] \in Task /\ t \in TaskId
    BY DEF IndInv, TypeOK, IsPartialFn
  <2>2. QED
    BY <2>1 DEF EnqOf, Enq, Task, Record, EnqRecord
<1>4. \A t \in DOMAIN tasks : /\ StateRecord(t) \in Record
                              /\ StateRecord(t).T # "enq" /\ StateRecord(t).id = t
  <2>1. \A t : StateRecord(t).id = t
    BY DEF StateRecord, Ok, Dead, Att
  <2>2. QED
    BY <2>1, StateRecordType
<1>5. /\ Len(a) = Len(order) /\ a \in Seq(Record)
      /\ \A i \in 1..Len(a) : order[i] \in DOMAIN tasks /\ a[i] = EnqOf(order[i])
  <2>1. \A i \in 1..Len(order) : order[i] \in DOMAIN tasks
    BY <1>2
  <2>2. QED
    BY <1>2, <1>3, <2>1
<1>6. /\ Len(b) = Len(rest) /\ b \in Seq(Record)
      /\ \A i \in 1..Len(b) : rest[i] \in S /\ b[i] = StateRecord(rest[i])
  <2>1. \A i \in 1..Len(rest) : rest[i] \in S
    BY <1>2
  <2>2. QED
    BY <1>2, <1>4, <2>1
<1>7. l = a \o b
  BY DEF SnapshotIn, EnqOf
<1> HIDE DEF a, b, l
<1>8. /\ l \in Seq(Record) /\ Len(l) = Len(a) + Len(b)
      /\ \A i \in 1..Len(a) : l[i] = a[i]
      /\ \A i \in 1..Len(l) : i > Len(a) => l[i] = b[i - Len(a)] /\ i - Len(a) \in 1..Len(b)
  <2>1. a \in Seq(Record) /\ b \in Seq(Record)
    BY <1>5, <1>6
  <2>2. QED
    BY <1>7, <2>1, Concatenation
<1>9. Len(a) \in Nat /\ Len(b) \in Nat
  BY <1>5, <1>6
<1>10. \A i \in 1..Len(l) : i \in 1..Len(a) \/ i > Len(a)
  BY <1>8, <1>9
<1>11. \A i \in 1..Len(a) : l[i].T = "enq" /\ l[i].id \in DOMAIN tasks /\ l[i] = EnqOf(l[i].id)
  BY <1>3, <1>5, <1>8
<1>12. \A i \in 1..Len(l) : i > Len(a) =>
         /\ l[i].T # "enq" /\ l[i].id \in S /\ l[i] = StateRecord(l[i].id)
         /\ i - Len(a) \in 1..Len(rest) /\ l[i].id = rest[i - Len(a)]
  <2> SUFFICES ASSUME NEW i \in 1..Len(l), i > Len(a), NEW q, q = i - Len(a)
               PROVE  /\ l[i].T # "enq" /\ l[i].id \in S /\ l[i] = StateRecord(l[i].id)
                      /\ q \in 1..Len(rest) /\ l[i].id = rest[q]
    OBVIOUS
  <2>1. q \in 1..Len(b) /\ l[i] = b[q]
    BY <1>8
  <2>2. rest[q] \in S /\ rest[q] \in DOMAIN tasks /\ l[i] = StateRecord(rest[q])
    BY <1>6, <2>1
  <2>3. QED
    BY <1>4, <1>6, <2>1, <2>2
<1>13. \A i \in 1..Len(l) :
         IF l[i].T = "enq" THEN l[i].id \in DOMAIN tasks /\ l[i] = EnqOf(l[i].id)
                           ELSE l[i].id \in S /\ l[i] = StateRecord(l[i].id)
  BY <1>10, <1>11, <1>12
<1>14. ASSUME NEW t \in S PROVE \E i \in 1..Len(l) : l[i].T # "enq" /\ l[i].id = t
  <2>1. PICK p \in 1..Len(rest) : rest[p] = t
    BY <1>2
  <2>2. p + Len(a) \in 1..Len(l) /\ p + Len(a) > Len(a) /\ (p + Len(a)) - Len(a) = p
    BY <1>6, <1>8, <1>9, <2>1
  <2>3. QED
    BY <1>12, <2>1, <2>2
<1>15. ASSUME NEW i \in 1..Len(l), NEW j \in 1..Len(l), l[i].T # "enq", i < j
       PROVE  l[j].id # l[i].id
  <2>1. i > Len(a)
    BY <1>10, <1>11, <1>15
  <2>2. j > Len(a)
    BY <1>8, <1>9, <1>15, <2>1
  <2> DEFINE p == i - Len(a)
             q == j - Len(a)
  <2>3. p \in 1..Len(rest) /\ q \in 1..Len(rest) /\ l[i].id = rest[p] /\ l[j].id = rest[q]
    BY <1>12, <2>1, <2>2
  <2>4. p # q
    BY <1>8, <1>9, <1>15
  <2> HIDE DEF p, q
  <2>5. QED
    BY <1>2, <2>3, <2>4
<1>16. ASSUME NEW i \in 1..Len(l), NEW j \in 1..Len(l), l[i].T = "enq", i < j, l[j].T = "enq"
       PROVE  l[j].id # l[i].id
  <2>1. i \in 1..Len(order) /\ j \in 1..Len(order)
    BY <1>5, <1>10, <1>12, <1>16
  <2>2. l[i].id = order[i] /\ l[j].id = order[j]
    BY <1>3, <1>5, <1>8, <2>1
  <2>3. i # j
    BY <1>16
  <2>4. QED
    BY <1>1, <2>1, <2>2, <2>3, OrderInjective
<1>17. TellsTasks(l, S)
  BY <1>8, <1>13, <1>14, <1>15, <1>16 DEF TellsTasks
<1>18. QED
  BY <1>17 DEF l

\* A snapshot calls every task succeeded that is, and has nothing more to say
\* of it.
LEMMA SnapshotKnows ==
  ASSUME IndInv, NEW order \in Orders(DOMAIN tasks),
         NEW S \in SUBSET (DOMAIN tasks), Won \subseteq S, NEW rest \in Orders(S)
  PROVE  Won \subseteq OkIds(SnapshotIn(order, rest)) /\ OkLast(SnapshotIn(order, rest))
<1> DEFINE l == SnapshotIn(order, rest)
<1>1. TellsTasks(l, S)
  BY SnapshotTells
<1> HIDE DEF l
<1>2. \A t \in Won : StateRecord(t).T = "ok"
  BY DEF StateRecord, Ok, Won
<1>3. \A t \in Won : \E i \in 1..Len(l) : l[i].T = "ok" /\ l[i].id = t
  BY <1>1, <1>2 DEF TellsTasks
<1>4. Won \subseteq OkIds(l)
  BY <1>3, OkByPosition
<1>5. OkLast(l)
  BY <1>1 DEF OkLast, TellsTasks
<1>6. QED
  BY <1>4, <1>5 DEF l

LEMMA DropMoves ==
  ASSUME IndInv, SuccInv, PurgeExpired \/ EnforceTaskCap
  PROVE  Moves
<1>1. PICK V : DropAll(V)
  BY DEF PurgeExpired, EnforceTaskCap
<1>2. /\ DOMAIN tasks' = DOMAIN tasks \ V
      /\ \A t \in DOMAIN tasks' : tasks'[t] = tasks[t]
  BY <1>1 DEF DropAll, Restrict, IndInv, TypeOK, IsPartialFn
<1>3. /\ UNCHANGED <<log, synced, snap, issued>> /\ phase' # "replace"
  BY DEF PurgeExpired, EnforceTaskCap, logVars
<1>4. Proceeds
  BY <1>2, <1>3 DEF Proceeds, Won
<1>5. Recorded({}, {})
  BY <1>3, NothingRecorded
<1>6. QED
  BY <1>4, <1>5 DEF Moves

\* The steps that change neither the tasks nor the snapshot.
LEMMA IdleMoves ==
  ASSUME IndInv, SuccInv,
         \/ \E k \in Key : SubmitDuplicate(k)
         \/ MaybeCompact \/ ResetUnstripped \/ SyncLoop \/ Tick \/ UNCHANGED vars
  PROVE  Moves
<1>1. /\ UNCHANGED <<tasks, snap, issued, touched>>
      /\ phase' = "replace" => phase = "replace"
  BY DEF SubmitDuplicate, MaybeCompact, ResetUnstripped, SyncLoop, Tick, vars, memVars,
     maintVars, history
<1>2. Proceeds
  BY <1>1 DEF Proceeds, Won
<1>3. Recorded({}, {})
  <2>1. CASE Store!Flush
    BY <2>1, FlushRecords DEF Store!Flush
  <2>2. CASE Store!FlushFails
    BY <2>2, WriteErrorRecords DEF Store!FlushFails, Store!WriteError
  <2>3. CASE UNCHANGED <<log, synced>>
    BY <2>3, NothingRecorded
  <2>4. QED
    BY <2>1, <2>2, <2>3 DEF SubmitDuplicate, MaybeCompact, ResetUnstripped, SyncLoop,
       Tick, vars, logVars
<1>4. QED
  BY <1>2, <1>3 DEF Moves

LEMMA TakeSnapshotDone ==
  ASSUME IndInv, SuccInv, TakeSnapshot
  PROVE  SuccInv' /\ StaysDone
<1> DEFINE S == {t \in DOMAIN tasks : HasStateRecord(t)}
<1>1. PICK order \in Orders(DOMAIN tasks), rest \in Orders(S) : snap' = SnapshotIn(order, rest)
  BY DEF TakeSnapshot
<1>2. Won \subseteq S
  BY DEF Won, HasStateRecord, Terminal
<1> HIDE DEF S
<1>3. S \subseteq DOMAIN tasks
  BY DEF S
<1>4. Won \subseteq OkIds(snap') /\ OkLast(snap') /\ OkIds(snap') \subseteq Won
  BY <1>1, <1>2, <1>3, SnapshotKnows, OkOfSnapshot
<1>5. EnqIds(snap') = DOMAIN tasks
  BY <1>1, <1>3, SnapshotIds
<1>6. UNCHANGED <<tasks, log, synced, issued, raced>>
  BY DEF TakeSnapshot, memVars, logVars
<1>7. Won' = Won /\ Won \subseteq issued
  BY <1>6 DEF Won, IndInv, IssuedInv
<1>8. SnapKnows'
  BY <1>4, <1>5, <1>6, <1>7 DEF SnapKnows
<1>9. SuccInv'
  BY <1>4, <1>6, <1>7, <1>8 DEF SuccInv
<1>10. StaysDone
  BY <1>6, <1>7 DEF StaysDone, MemDone, LogDone, DurOk
<1>11. QED
  BY <1>9, <1>10

\* The snapshot takes the place of the journal, or would have.
LEMMA CompactStoreDone ==
  ASSUME IndInv, SuccInv, CompactStore
  PROVE  SuccInv' /\ StaysDone
<1>1. /\ log \in Seq(Record) /\ synced \in 0..Len(log) /\ snap \in Seq(Record)
  BY DEF IndInv, TypeOK, Store!JournalTypeOK
<1>2. /\ phase = "replace" /\ phase' # "replace" /\ snap' = <<>>
      /\ UNCHANGED <<tasks, issued>>
      /\ log' = log \/ touched \subseteq raced'
  BY DEF CompactStore, Overwritten, memVars
<1>3. Won' = Won
  BY <1>2 DEF Won
<1>4. OkLast(<<>>) /\ OkIds(<<>>) = {}
  BY OkOfNothing DEF OkLast
<1>5. \/ log' = snap /\ synced' = Len(snap)
      \/ UNCHANGED <<log, synced>>
      \/ Store!KeepPrefix(log) /\ synced' = synced
  BY DEF CompactStore, Store!Compact, Store!CompactFails, Store!journalVars
<1>6. CASE log' = snap /\ synced' = Len(snap)
  <2>1. DurOk' = OkIds(snap)
    BY <1>1, <1>6, WholePrefix DEF DurOk
  <2>2. SuccInv'
    BY <1>2, <1>3, <1>4, <1>6 DEF SuccInv, SnapKnows
  <2>3. ASSUME NEW t \in issued, MemDone(t), LogDone(t), t \notin raced', t \in EnqIds(snap)
        PROVE  t \in OkIds(snap)
    <3>1. CASE log' = log
      <4>1. t \in DurOk
        BY <1>6, <2>3, <3>1 DEF LogDone
      <4>2. DurOk \subseteq OkIds(log)
        BY <1>1, OkOfPrefix DEF DurOk
      <4>3. QED
        BY <1>6, <3>1, <4>1, <4>2
    <3>2. CASE touched \subseteq raced'
      BY <1>2, <2>3, <3>2 DEF SuccInv, SnapKnows, MemDone
    <3>3. QED
      BY <1>2, <3>1, <3>2
  <2>4. StaysDone
    BY <1>2, <1>3, <1>6, <2>1, <2>3 DEF StaysDone, MemDone, LogDone
  <2>5. QED
    BY <2>2, <2>4
<1>7. CASE UNCHANGED <<log, synced>> \/ (Store!KeepPrefix(log) /\ synced' = synced)
  <2>1. Recorded({}, {})
    BY <1>7, NothingRecorded, WriteErrorRecords
  <2>2. SuccInv'
    BY <1>2, <1>3, <1>4, <2>1 DEF SuccInv, SnapKnows, Recorded
  <2>3. StaysDone
    BY <1>2, <1>3, <2>1 DEF StaysDone, MemDone, LogDone, Recorded
  <2>4. QED
    BY <2>2, <2>3
<1>8. QED
  BY <1>5, <1>6, <1>7

LEMMA CrashRecords ==
  ASSUME IndInv, SuccInv, Crash
  PROVE  \E ids : Recorded(ids, {}) /\ ids \cap issued = {}
<1>1. log \in Seq(Record) /\ synced \in 0..Len(log)
  BY DEF IndInv, TypeOK, Store!JournalTypeOK
<1>2. CASE Store!Crash(<<>>)
  <2>1. log \o <<>> = log /\ Len(log) >= Len(log)
    BY <1>1
  <2>2. Store!KeepPrefix(log) /\ synced' \in {synced, Len(log')}
    BY <1>2, <2>1 DEF Store!Crash
  <2>3. Recorded({}, {})
    BY <1>1, <2>1, <2>2, CutRecords DEF SuccInv
  <2>4. QED
    BY <2>3
<1>3. ASSUME NEW t \in TaskId \ issued, NEW k \in Key, Store!Crash(<<Enq(t, now, k, TRUE)>>)
      PROVE  \E ids : Recorded(ids, {}) /\ ids \cap issued = {}
  <2> DEFINE r == Enq(t, now, k, TRUE)
             l == Append(log, r)
  <2>1. r \in Record /\ r.T = "enq" /\ r.id = t /\ r.full
    BY EnqIsRecord DEF Enq
  <2>2. Store!Crash(<<r>>)
    BY <1>3
  <2> HIDE DEF r
  <2>3. r.id \notin OkIds(log) /\ OkLast(log)
    BY <2>1 DEF SuccInv
  <2>4. /\ l \in Seq(Record) /\ Len(l) >= Len(log) /\ log \o <<r>> = l
        /\ Prefix(l, synced) = Prefix(log, synced)
    BY <1>1, <2>1, PrefixOfAppend
  <2>5. OkLast(l)
    BY <1>1, <2>1, <2>3, LastOfAppend
  <2>6. /\ OkIds(l) \subseteq OkIds(log) /\ EnqIds(l) \subseteq EnqIds(log) \cup {t}
        /\ StripIds(l) \subseteq StripIds(log)
    BY <1>1, <2>1, OkOfAppend, AppendedIds, StripOfAppend
  <2> HIDE DEF l
  <2>7. Store!KeepPrefix(l) /\ synced' \in {synced, Len(log')}
    BY <2>2, <2>4 DEF Store!Crash
  <2>8. Recorded({t}, {})
    BY <2>4, <2>5, <2>6, <2>7, CutRecords
  <2>9. {t} \cap issued = {}
    OBVIOUS
  <2>10. QED
    BY <2>8, <2>9
<1>4. QED
  BY <1>2, <1>3 DEF Crash

\* A restart takes for succeeded what has its success on record.
LEMMA CrashDone ==
  ASSUME IndInv, SuccInv, Crash
  PROVE  SuccInv' /\ StaysDone
<1>1. PICK ids : Recorded(ids, {}) /\ ids \cap issued = {}
  BY CrashRecords
<1>2. /\ tasks' = Restored(log') /\ snap' = <<>> /\ phase' = "idle"
      /\ issued \subseteq issued'
  BY DEF Crash, Restore
<1>3. log' \in Seq(Record) /\ synced' \in 0..Len(log')
  BY CrashPreserves DEF IndInv, TypeOK, Store!JournalTypeOK
<1>4. DOMAIN tasks' = EnqIds(log')
  BY <1>2, <1>3, RestoredType
<1>5. OkIds(log') \cap DOMAIN tasks' \subseteq Won'
  BY <1>1, <1>2, <1>3, <1>4, RestoredDone DEF Recorded, Won
<1>6. OkLast(<<>>) /\ OkIds(<<>>) = {}
  BY OkOfNothing DEF OkLast
<1>7. SuccInv'
  BY <1>1, <1>2, <1>5, <1>6 DEF SuccInv, Recorded, SnapKnows
<1>8. DurOk' \subseteq OkIds(log')
  BY <1>3, OkOfPrefix DEF DurOk
<1>9. StaysDone
  BY <1>1, <1>4, <1>5, <1>8 DEF StaysDone, MemDone, LogDone, Recorded
<1>10. QED
  BY <1>7, <1>9

-----------------------------------------------------------------------------
(* The queue, and what is on top of it. *)

Special == TakeSnapshot \/ CompactStore \/ Crash

LEMMA NextMoves ==
  ASSUME IndInv, SuccInv, [Next]_vars, ~Special
  PROVE  Moves
<1>1. ASSUME NEW t \in TaskId, NEW k \in Key, Submit(t, k) \/ SubmitFails(t, k)
      PROVE  Moves
  BY <1>1, SubmitMoves
<1>2. ASSUME NEW t \in TaskId, \/ Revive(t) \/ Lease(t) \/ Defer(t)
                               \/ OnRetry(t) \/ OnSuccess(t) \/ OnDead(t)
      PROVE  Moves
  BY <1>2, ReviveMoves, LeaseMoves, OutcomeMoves
<1>3. CASE PurgeExpired \/ EnforceTaskCap
  BY <1>3, DropMoves
<1>4. CASE \/ \E k \in Key : SubmitDuplicate(k)
           \/ MaybeCompact \/ ResetUnstripped \/ SyncLoop \/ Tick \/ UNCHANGED vars
  BY <1>4, IdleMoves
<1>5. QED
  BY <1>1, <1>2, <1>3, <1>4 DEF Next, Special

LEMMA NextDone ==
  ASSUME IndInv, SuccInv, [Next]_vars
  PROVE  SuccInv' /\ StaysDone
<1>1. CASE Special
  BY <1>1, TakeSnapshotDone, CompactStoreDone, CrashDone DEF Special
<1>2. CASE ~Special
  BY <1>2, NextMoves, MovesKeep
<1>3. QED
  BY <1>1, <1>2

LEMMA InitDone == Init => SuccInv
<1> SUFFICES ASSUME Init PROVE SuccInv
  OBVIOUS
<1>1. tasks = <<>> /\ log = <<>> /\ snap = <<>> /\ phase = "idle"
  BY DEF Init, Store!Init
<1>2. QED
  BY <1>1, OkOfNothing DEF SuccInv, OkLast, SnapKnows

\* What memory, the journal and a snapshot know of the successes is kept by every
\* operation of the queue, by maintenance and by restarts.
THEOREM SuccessInvariance == Spec => [](IndInv /\ SuccInv)
<1>1. Init => IndInv /\ SuccInv
  BY InitEstablishes, InitDone
<1>2. IndInv /\ SuccInv /\ [Next]_vars => (IndInv /\ SuccInv)'
  BY NextPreserves, NextDone
<1>3. QED
  BY <1>1, <1>2, PTL DEF Spec

\* A success the journal holds durably is final: from then on the task is over in
\* memory and for every restart, through all later calls, purges, compactions and
\* crashes, as long as no compaction overwrites a record of it (queue.go: OnSuccess,
\* Restore; maintain.go: Compact).
THEOREM SuccessFinal == Spec => FlushedSuccessFinal
<1>1. ASSUME IndInv, SuccInv, [Next]_vars, NEW t \in issued \ raced',
             t \in DurablySucceeded \/ DeliveredForGood(t)
      PROVE  DeliveredForGood(t)'
  <2>1. IndInv'
    BY <1>1, NextPreserves
  <2>2. DurOk = DurablySucceeded
    <3>1. log \in Seq(Record) /\ synced \in 0..Len(log)
      BY <1>1 DEF IndInv, TypeOK, Store!JournalTypeOK
    <3> DEFINE p == Prefix(log, synced)
    <3>2. Len(p) = synced /\ p \in Seq(Record) /\ \A i \in 1..synced : p[i] = log[i]
      BY <3>1, PrefixIds
    <3> HIDE DEF p
    <3>3. \A i \in 1..synced : p[i].id \in TaskId
      BY <3>2, RecordFields
    <3>4. OkIds(p) = DurablySucceeded
      BY <3>2, <3>3 DEF OkIds, DurablySucceeded
    <3>5. QED
      BY <3>4 DEF DurOk, p
  <2>3. DurOk' = DurablySucceeded'
    <3>1. log' \in Seq(Record) /\ synced' \in 0..Len(log')
      BY <2>1 DEF IndInv, TypeOK, Store!JournalTypeOK
    <3> DEFINE p == Prefix(log', synced')
    <3>2. Len(p) = synced' /\ p \in Seq(Record) /\ \A i \in 1..synced' : p[i] = log'[i]
      BY <3>1, PrefixIds
    <3> HIDE DEF p
    <3>3. \A i \in 1..synced' : p[i].id \in TaskId
      BY <3>2, RecordFields
    <3>4. OkIds(p) = DurablySucceeded'
      BY <3>2, <3>3 DEF OkIds, DurablySucceeded
    <3>5. QED
      BY <3>4 DEF DurOk, p
  <2>4. DurOk \subseteq OkIds(log)
    BY <1>1, OkOfPrefix DEF IndInv, TypeOK, Store!JournalTypeOK, DurOk
  <2>5. MemDone(t) /\ LogDone(t)
    BY <1>1, <2>2, <2>4 DEF SuccInv, MemDone, LogDone, DeliveredForGood, Won
  <2>6. MemDone(t)' /\ LogDone(t)'
    BY <1>1, <2>5, NextDone DEF StaysDone
  <2>7. QED
    BY <2>3, <2>6 DEF DeliveredForGood, MemDone, LogDone, Won
<1> DEFINE A == \A t \in issued \ raced' : t \in DurablySucceeded \/ DeliveredForGood(t) => DeliveredForGood(t)'
<1>2. IndInv /\ SuccInv /\ [Next]_vars => A
  BY <1>1
<1> HIDE DEF A
<1>3. Spec => [][A]_vars
  BY <1>2, SuccessInvariance, PTL DEF Spec
<1>4. QED
  BY <1>3 DEF FlushedSuccessFinal, A

\* The tasks whose success has been durable are over, in memory and for every
\* restart to come.
FinalInv == final \subseteq issued /\ \A t \in final \ raced : MemDone(t) /\ LogDone(t)

LEMMA FinalKept ==
  ASSUME DInv, SuccInv, FinalInv, [DNext]_dvars
  PROVE  SuccInv' /\ FinalInv'
<1>1. IndInv /\ IndInv' /\ [Next]_vars
  BY StepIsQueueStep, NextPreserves DEF DInv
<1>2. SuccInv' /\ StaysDone
  BY <1>1, NextDone
<1>3. raced \subseteq raced' /\ issued \subseteq issued'
  BY <1>1 DEF Next, vars, history, Submit, SubmitFails, SubmitDuplicate, Revive, Lease, Defer,
     OnRetry, OnSuccess, OnDead, PurgeExpired, EnforceTaskCap, MaybeCompact, TakeSnapshot,
     CompactStore, Overwritten, ResetUnstripped, SyncLoop, Tick, Crash
<1>4. DurOk' = DurablySucceeded'
  <2>1. log' \in Seq(Record) /\ synced' \in 0..Len(log')
    BY <1>1 DEF IndInv, TypeOK, Store!JournalTypeOK
  <2> DEFINE p == Prefix(log', synced')
  <2>2. Len(p) = synced' /\ p \in Seq(Record) /\ \A i \in 1..synced' : p[i] = log'[i]
    BY <2>1, PrefixIds
  <2> HIDE DEF p
  <2>3. \A i \in 1..synced' : p[i].id \in TaskId
    BY <2>2, RecordFields
  <2>4. OkIds(p) = DurablySucceeded'
    BY <2>2, <2>3 DEF OkIds, DurablySucceeded
  <2>5. QED
    BY <2>4 DEF DurOk, p
<1>5. DurOk' \subseteq OkIds(log')
  BY <1>1, OkOfPrefix DEF IndInv, TypeOK, Store!JournalTypeOK, DurOk
<1>6. \A t \in DurOk' : t \in issued' /\ MemDone(t)' /\ LogDone(t)'
  BY <1>2, <1>5 DEF SuccInv, MemDone, LogDone
<1>7. final' = final \/ final' = final \cup DurOk'
  BY <1>4 DEF DNext, Observe, dvars
<1>8. \A t \in final \ raced' : MemDone(t)' /\ LogDone(t)'
  BY <1>2, <1>3 DEF FinalInv, StaysDone
<1>9. QED
  BY <1>2, <1>3, <1>6, <1>7, <1>8 DEF FinalInv

\* The same over the deliveries and every end of the process (dispatch.go, main.go).
THEOREM FinalInvariance == DSpec => [](DInv /\ SuccInv /\ FinalInv)
<1>1. DInit => DInv /\ SuccInv /\ FinalInv
  BY DInitEstablishes, InitDone DEF DInit, FinalInv
<1>2. DInv /\ SuccInv /\ FinalInv /\ [DNext]_dvars => (DInv /\ SuccInv /\ FinalInv)'
  BY DStepPreserves, FinalKept
<1>3. QED
  BY <1>1, <1>2, PTL DEF DSpec

\* Once the success of a task has been durable its vendor is never asked again,
\* over any number of restarts, unless a compaction has overwritten a record of
\* it (dispatch.go: deliver, doRequest; queue.go: Restore; main.go: run).
THEOREM SilenceKept == DSpec => SilentAfterSuccess
<1>1. ASSUME DInv, FinalInv, NEW t \in TaskId, stage[t] = "held"
      PROVE  t \notin final \ raced
  <2>1. t \in DOMAIN tasks /\ tasks[t].st = "sending"
    BY <1>1 DEF DInv, Busy, Sending
  <2>2. QED
    BY <1>1, <2>1 DEF FinalInv, MemDone, Won
<1> DEFINE A == \A t \in TaskId : stage[t] = "held" /\ stage'[t] = "sent"
                                  => t \notin final \ raced
<1>2. DInv /\ SuccInv /\ FinalInv /\ [DNext]_dvars => A
  BY <1>1
<1> HIDE DEF A
<1>3. DSpec => [][A]_dvars
  BY <1>2, FinalInvariance, PTL DEF DSpec
<1>4. QED
  BY <1>3 DEF SilentAfterSuccess, A

-----------------------------------------------------------------------------
(* How often an answer of 2xx may be heard.  While the journal works, every  *)
(* success in memory is in it, unless a compaction has overwritten it, so    *)
(* that only a cut can make a task whose success was heard be sent again.    *)

WonRecorded == ioErrors = 0 => Won \ raced \subseteq OkIds(log)

\* No orderly restart, and nothing else in the queue, sends t (again).
Closed(t) == t \in Won \/ (t \notin DOMAIN tasks /\ (t \in EnqIds(log) => t \in OkIds(log)))

LEMMA OkGrows ==
  ASSUME NEW l \in Seq(Record), NEW r \in Record
  PROVE  /\ OkIds(l) \subseteq OkIds(Append(l, r))
         /\ r.T = "ok" => r.id \in OkIds(Append(l, r))
<1> DEFINE m == Append(l, r)
<1>1. Len(l) \in Nat /\ Len(m) = Len(l) + 1
      /\ \A i \in 1..Len(m) : m[i] = IF i <= Len(l) THEN l[i] ELSE r
  OBVIOUS
<1> HIDE DEF m
<1>2. \A i \in 1..Len(l) : i \in 1..Len(m) /\ m[i] = l[i]
  BY <1>1
<1>3. Len(m) \in 1..Len(m) /\ m[Len(m)] = r
  BY <1>1
<1>4. OkIds(l) \subseteq OkIds(m) /\ (r.T = "ok" => r.id \in OkIds(m))
  BY <1>2, <1>3 DEF OkIds
<1>5. QED
  BY <1>4 DEF m

LEMMA FaultSeen ==
  ASSUME IndInv, Fault
  PROVE  ioErrors' # 0
BY FaultCounted DEF IndInv

\* A lazy append by which the journal has not come to harm.
LEMMA LazyLosesNothing ==
  ASSUME IndInv, NEW r \in Record, ioErrors' = 0,
         \/ Store!AppendLazy(r) /\ UNCHANGED ioErrors
         \/ Store!AppendLazyFails /\ Fault
  PROVE  /\ OkIds(log) \subseteq OkIds(log')
         /\ r.T = "ok" => r.id \in OkIds(log')
<1>1. Store!AppendLazy(r) /\ ioErrors = 0
  BY FaultSeen
<1>2. log' = Append(log, r) /\ log \in Seq(Record)
  BY <1>1 DEF Store!AppendLazy, IndInv, FaultInv, TypeOK, Store!JournalTypeOK
<1>3. QED
  BY <1>2, OkGrows

LEMMA OutcomeLosesNothing ==
  ASSUME IndInv, NEW t \in TaskId, ioErrors' = 0,
         Revive(t) \/ OnRetry(t) \/ OnSuccess(t) \/ OnDead(t)
  PROVE  OkIds(log) \subseteq OkIds(log') /\ Won' \subseteq Won \cup OkIds(log')
<1>1. t \in DOMAIN tasks /\ tasks[t] \in Task /\ now \in Nat
  BY DEF Revive, OnRetry, OnSuccess, OnDead, Sending, IndInv, TypeOK, IsPartialFn
<1>2. tasks[t].attempts + 1 \in Nat
  BY <1>1 DEF Task
<1>3. CASE Revive(t)
  <2> DEFINE r == Att(t, now, 0, now)
  <2>1. r \in Record
    BY <1>1 DEF Att, Record, AttRecord
  <2>2. \/ Store!AppendLazy(r) /\ UNCHANGED ioErrors
        \/ Store!AppendLazyFails /\ Fault
    BY <1>3 DEF Revive
  <2> HIDE DEF r
  <2>3. QED
    BY <1>3, <2>1, <2>2, LazyLosesNothing, ReviveGains DEF Gains
<1>4. CASE OnRetry(t)
  <2>1. PICK at \in now .. now + MaxDelay :
          \/ Store!AppendLazy(Att(t, now, tasks[t].attempts + 1, at)) /\ UNCHANGED ioErrors
          \/ Store!AppendLazyFails /\ Fault
    BY <1>4 DEF OnRetry
  <2> DEFINE r == Att(t, now, tasks[t].attempts + 1, at)
  <2>2. at \in Nat
    BY <1>1, ConfigAssumption
  <2>3. r \in Record
    BY <1>1, <1>2, <2>2 DEF Att, Record, AttRecord
  <2>4. \/ Store!AppendLazy(r) /\ UNCHANGED ioErrors
        \/ Store!AppendLazyFails /\ Fault
    BY <2>1
  <2> HIDE DEF r
  <2>5. QED
    BY <1>4, <2>3, <2>4, LazyLosesNothing, OnRetryGains DEF Gains
<1>5. CASE OnSuccess(t)
  <2> DEFINE r == Ok(t, now, tasks[t].attempts + 1)
  <2>1. r \in Record /\ r.T = "ok" /\ r.id = t
    BY <1>1, <1>2 DEF Ok, Record, OkRecord
  <2>2. \/ Store!AppendLazy(r) /\ UNCHANGED ioErrors
        \/ Store!AppendLazyFails /\ Fault
    BY <1>5 DEF OnSuccess
  <2> HIDE DEF r
  <2>3. OkIds(log) \subseteq OkIds(log') /\ t \in OkIds(log')
    BY <2>1, <2>2, LazyLosesNothing
  <2>4. Won' \subseteq Won \cup OkIds(log') \cup {t}
    BY <1>5, OnSuccessGains DEF Gains
  <2>5. QED
    BY <2>3, <2>4
<1>6. CASE OnDead(t)
  <2>1. PICK why \in Reason :
          \/ Store!AppendLazy(Dead(t, now, tasks[t].attempts + 1, why)) /\ UNCHANGED ioErrors
          \/ Store!AppendLazyFails /\ Fault
    BY <1>6 DEF OnDead
  <2> DEFINE r == Dead(t, now, tasks[t].attempts + 1, why)
  <2>2. r \in Record
    BY <1>1, <1>2 DEF Dead, Record, DeadRecord
  <2>3. \/ Store!AppendLazy(r) /\ UNCHANGED ioErrors
        \/ Store!AppendLazyFails /\ Fault
    BY <2>1
  <2> HIDE DEF r
  <2>4. QED
    BY <1>6, <2>2, <2>3, LazyLosesNothing, OnDeadGains DEF Gains
<1>7. QED
  BY <1>3, <1>4, <1>5, <1>6

LEMMA NothingLost ==
  ASSUME IndInv, [Next]_vars, ~Special, ioErrors' = 0
  PROVE  /\ OkIds(log) \subseteq OkIds(log') /\ Won' \subseteq Won \cup OkIds(log')
         /\ raced' = raced
<1>0. raced' = raced
  BY DEF Next, Special, vars, history, Submit, SubmitFails, SubmitDuplicate, Revive, Lease, Defer,
     OnRetry, OnSuccess, OnDead, PurgeExpired, EnforceTaskCap, MaybeCompact,
     ResetUnstripped, SyncLoop, Tick
<1> DEFINE Goal == OkIds(log) \subseteq OkIds(log') /\ Won' \subseteq Won \cup OkIds(log')
<1> SUFFICES Goal
  BY <1>0
<1>1. ASSUME NEW t \in TaskId, NEW k \in Key, Submit(t, k)
      PROVE  Goal
  <2> DEFINE r == Enq(t, now, k, TRUE)
  <2>1. r \in Record /\ Store!AppendSync(r)
    BY <1>1, EnqIsRecord DEF Submit
  <2> HIDE DEF r
  <2>2. OkIds(log) \subseteq OkIds(log')
    BY <2>1, OkGrows DEF Store!AppendSync, IndInv, TypeOK, Store!JournalTypeOK
  <2>3. QED
    BY <1>1, <2>2, SubmitGains DEF Gains
<1>2. ASSUME NEW t \in TaskId, NEW k \in Key, SubmitFails(t, k)
      PROVE  Goal
  BY <1>2, FaultSeen DEF SubmitFails
<1>3. ASSUME NEW t \in TaskId, Lease(t) \/ Defer(t)
      PROVE  Goal
  <2>1. log' = log
    BY <1>3 DEF Lease, Defer, logVars
  <2>2. QED
    BY <1>3, <2>1, LeaseGains, DeferGains DEF Gains
<1>4. ASSUME NEW t \in TaskId, Revive(t) \/ OnRetry(t) \/ OnSuccess(t) \/ OnDead(t)
      PROVE  Goal
  BY <1>4, OutcomeLosesNothing
<1>5. CASE PurgeExpired \/ EnforceTaskCap \/ MaybeCompact \/ ResetUnstripped
  <2>1. log' = log
    BY <1>5 DEF PurgeExpired, EnforceTaskCap, MaybeCompact, ResetUnstripped, logVars
  <2>2. Maintain
    BY <1>5 DEF Maintain
  <2>3. QED
    BY <2>1, <2>2, MaintainGains DEF Gains
<1>6. CASE SyncLoop \/ Tick
  <2>1. log' = log
    BY <1>6, FaultSeen DEF SyncLoop, Store!Flush, Tick, logVars
  <2>2. QED
    BY <1>6, <2>1, ClockGains DEF Gains
<1>7. CASE (\E k \in Key : SubmitDuplicate(k)) \/ UNCHANGED vars
  BY <1>7 DEF SubmitDuplicate, vars, memVars, logVars, Won
<1>8. QED
  BY <1>1, <1>2, <1>3, <1>4, <1>5, <1>6, <1>7 DEF Next, Special

StaysClosed == \A t \in issued \ raced' : Closed(t) => Closed(t)'

LEMMA ClosedKept ==
  ASSUME IndInv, SuccInv, WonRecorded, [Next]_vars, ~Crash, ioErrors' = 0
  PROVE  WonRecorded' /\ StaysClosed
<1>0. ioErrors = 0
  <2>1. IndInv'
    BY NextPreserves
  <2>2. ioErrors = ioErrors' \/ Fault
    BY DEF Next, vars, faults, Submit, SubmitFails, SubmitDuplicate, Revive, Lease, Defer, OnRetry,
       OnSuccess, OnDead, PurgeExpired, EnforceTaskCap, MaybeCompact, TakeSnapshot,
       CompactStore, ResetUnstripped, SyncLoop, Tick
  <2>3. QED
    BY <2>2, FaultSeen
<1>1. Won \ raced \subseteq OkIds(log)
  BY <1>0 DEF WonRecorded
<1>2. CASE ~Special
  <2>1. /\ OkIds(log) \subseteq OkIds(log') /\ Won' \subseteq Won \cup OkIds(log')
        /\ raced' = raced
    BY <1>2, NothingLost
  <2>2. /\ (DOMAIN tasks') \cap issued \subseteq DOMAIN tasks
        /\ Won \cap DOMAIN tasks' \subseteq Won'
        /\ EnqIds(log') \cap issued \subseteq EnqIds(log)
    BY <1>2, NextMoves DEF Moves, Proceeds, Recorded
  <2>3. QED
    BY <1>1, <2>1, <2>2 DEF WonRecorded, StaysClosed, Closed
<1>3. CASE TakeSnapshot
  <2>1. UNCHANGED <<tasks, log, raced>>
    BY <1>3 DEF TakeSnapshot, memVars, logVars
  <2>2. QED
    BY <1>1, <2>1 DEF WonRecorded, StaysClosed, Closed, Won
<1>4. CASE CompactStore
  <2>1. /\ phase = "replace" /\ UNCHANGED <<tasks, issued>> /\ log' = snap
        /\ raced' = IF log' = log THEN raced ELSE raced \cup touched
    BY <1>0, <1>4, FaultSeen DEF CompactStore, Overwritten, Store!Compact, memVars
  <2>2. Won' = Won
    BY <2>1 DEF Won
  <2>3. CASE log' = log
    BY <1>1, <2>1, <2>2, <2>3 DEF WonRecorded, StaysClosed, Closed
  <2>4. CASE log' # log
    <3>1. raced' = raced \cup touched
      BY <2>1, <2>4
    <3>2. Won \ touched \subseteq OkIds(snap)
      BY <2>1 DEF IndInv, SnapInv, SuccInv, SnapKnows, Won
    <3>3. EnqIds(snap) \ touched \subseteq DOMAIN tasks
      BY <2>1 DEF SuccInv, SnapKnows
    <3>4. QED
      BY <2>1, <2>2, <3>1, <3>2, <3>3 DEF WonRecorded, StaysClosed, Closed
  <2>5. QED
    BY <2>3, <2>4
<1>5. QED
  BY <1>2, <1>3, <1>4 DEF Special

LEMMA ClosedOverRestart ==
  ASSUME IndInv, SuccInv, WonRecorded, Crash
  PROVE  /\ UNCHANGED <<raced, ioErrors>> /\ WonRecorded'
         /\ log' = log /\ ioErrors = 0 => StaysClosed
<1>1. UNCHANGED <<raced, ioErrors>> /\ tasks' = Restored(log')
  BY DEF Crash, Restore
<1>2. log' \in Seq(Record) /\ OkLast(log')
  BY CrashPreserves, CrashDone DEF IndInv, TypeOK, Store!JournalTypeOK, SuccInv
<1>3. DOMAIN tasks' = EnqIds(log')
  BY <1>1, <1>2, RestoredType
<1>4. \A t \in EnqIds(log') : t \in Won' <=> t \in OkIds(log')
  BY <1>1, <1>2, <1>3, RestoredWon, RestoredDone DEF Won
<1>5. WonRecorded'
  BY <1>3, <1>4 DEF WonRecorded, Won
<1>6. ASSUME log' = log, ioErrors = 0 PROVE StaysClosed
  <2> SUFFICES ASSUME NEW t \in issued \ raced', Closed(t) PROVE Closed(t)'
    BY DEF StaysClosed
  <2>1. t \in EnqIds(log) => t \in OkIds(log)
    BY <1>1, <1>6 DEF Closed, WonRecorded
  <2>2. CASE t \in EnqIds(log)
    BY <1>4, <1>6, <2>1, <2>2 DEF Closed
  <2>3. CASE t \notin EnqIds(log)
    BY <1>3, <1>6, <2>3 DEF Closed
  <2>4. QED
    BY <2>2, <2>3
<1>7. QED
  BY <1>1, <1>5, <1>6

\* An answer of 2xx was heard, and nothing is to be sent any more.
Spent(t) == stage[t] = "success" \/ Closed(t)

OnceInv ==
  /\ \A t \in TaskId \ issued : wins[t] = 0
  /\ WonRecorded
  /\ ioErrors = 0 =>
       \A t \in TaskId \ raced : wins[t] <= cuts \/ (Spent(t) /\ wins[t] <= cuts + 1)

\* The steps by which no answer comes and the process does not end.
LEMMA SpentKept ==
  ASSUME DInv, SuccInv, OnceInv, [Next]_vars, ~Crash, UNCHANGED <<wins, cuts>>,
         \A t \in TaskId : stage[t] = "success" => stage'[t] = "success" \/ t \in Won'
  PROVE  OnceInv'
<1>1. IndInv /\ wins \in [TaskId -> Nat] /\ cuts \in Nat
  BY DEF DInv, DeliveryTypeOK, IndInv, TypeOK
<1>2. issued \subseteq issued' /\ raced \subseteq raced' /\ (ioErrors' = 0 => ioErrors = 0)
  <2>1. issued \subseteq issued' /\ raced \subseteq raced' /\ (ioErrors = ioErrors' \/ Fault)
    BY DEF Next, vars, history, faults, Submit, SubmitFails, SubmitDuplicate, Revive, Lease,
       Defer, OnRetry, OnSuccess, OnDead, PurgeExpired, EnforceTaskCap, MaybeCompact,
       TakeSnapshot, CompactStore, Overwritten, ResetUnstripped, SyncLoop, Tick
  <2>2. QED
    BY <1>1, <2>1, FaultSeen
<1>3. \A t \in TaskId \ issued' : wins'[t] = 0
  BY <1>2 DEF OnceInv
<1>4. ioErrors' = 0 => WonRecorded' /\ StaysClosed
  BY <1>1, ClosedKept DEF OnceInv
<1>5. WonRecorded'
  BY <1>4 DEF WonRecorded
<1>6. ASSUME ioErrors' = 0, NEW t \in TaskId \ raced'
      PROVE  wins'[t] <= cuts' \/ (Spent(t)' /\ wins'[t] <= cuts' + 1)
  <2>1. CASE wins[t] <= cuts
    BY <2>1
  <2>2. CASE ~(wins[t] <= cuts)
    <3>1. Spent(t) /\ wins[t] <= cuts + 1
      BY <1>2, <1>6, <2>2 DEF OnceInv
    <3>2. t \in issued
      BY <1>1, <2>2 DEF OnceInv
    <3>3. Closed(t) => Closed(t)'
      BY <1>4, <1>6, <3>2 DEF StaysClosed
    <3>4. Spent(t)'
      BY <3>1, <3>3 DEF Spent, Closed
    <3>5. QED
      BY <3>1, <3>4
  <2>3. QED
    BY <2>1, <2>2
<1>7. QED
  BY <1>3, <1>5, <1>6 DEF OnceInv

\* An answer comes: only to a task that is out.
LEMMA HearKeeps ==
  ASSUME DInv, OnceInv, NEW t \in TaskId, Hear(t)
  PROVE  OnceInv'
<1>a. UNCHANGED vars /\ UNCHANGED cuts /\ stage[t] = "sent"
  BY DEF Hear, StillQueue
<1>b. crashes \in Nat
  BY DEF DInv, IndInv, TypeOK
<1>1. /\ UNCHANGED vars /\ UNCHANGED cuts /\ stage[t] = "sent"
      /\ wins \in [TaskId -> Nat] /\ cuts \in Nat
      /\ stage \in [TaskId -> Stage]
  BY <1>a, <1>b DEF DInv, DeliveryTypeOK
<1>2. UNCHANGED <<tasks, log, issued, raced, ioErrors>>
  BY <1>1 DEF vars, memVars, logVars, history, faults
<1>3. PICK r \in Result :
        /\ To(t, Verdict(r))
        /\ wins' = [wins EXCEPT ![t] = IF r.code \in 200..299 THEN @ + 1 ELSE @]
  BY DEF Hear
<1>4. t \in DOMAIN tasks /\ tasks[t].st = "sending" /\ t \in issued
  BY <1>1 DEF DInv, Busy, Sending, IndInv, IssuedInv
<1>5. ~Spent(t)
  BY <1>1, <1>4 DEF Spent, Closed, Won
<1>6. r.code \in 200..299 => Verdict(r) = "success"
  <2> SUFFICES ASSUME r.code \in 200..299 PROVE Verdict(r) = "success"
    OBVIOUS
  <2>1. r.code \in Nat /\ 200 <= r.code /\ r.code <= 299
    OBVIOUS
  <2>2. r.err = "nil"
    BY <2>1, DeliveryAssumption
  <2>3. Classify(r) = "success"
    BY <2>1, <2>2 DEF Classify
  <2>4. QED
    BY <2>3 DEF Verdict
<1>7. /\ wins'[t] = wins[t] \/ (wins'[t] = wins[t] + 1 /\ stage'[t] = "success")
      /\ \A u \in TaskId : u # t => wins'[u] = wins[u] /\ stage'[u] = stage[u]
      /\ wins'[t] \in Nat /\ wins[t] \in Nat
  BY <1>1, <1>3, <1>6 DEF To
<1>8. \A u \in TaskId : Closed(u)' <=> Closed(u)
  BY <1>2 DEF Closed, Won
<1>9. WonRecorded' /\ \A u \in TaskId \ issued' : wins'[u] = 0
  BY <1>2, <1>4, <1>7 DEF OnceInv, WonRecorded, Won
<1>10. ASSUME ioErrors' = 0, NEW u \in TaskId \ raced'
       PROVE  wins'[u] <= cuts' \/ (Spent(u)' /\ wins'[u] <= cuts' + 1)
  <2>1. wins[u] <= cuts \/ (Spent(u) /\ wins[u] <= cuts + 1)
    BY <1>2, <1>10 DEF OnceInv
  <2>2. CASE u = t
    BY <1>1, <1>5, <1>7, <2>1, <2>2 DEF Spent
  <2>3. CASE u # t
    BY <1>1, <1>7, <1>8, <2>1, <2>3 DEF Spent
  <2>4. QED
    BY <2>2, <2>3
<1>11. QED
  BY <1>9, <1>10 DEF OnceInv

\* The process ends and starts again, with or without a cut.
LEMMA RestartSpent ==
  ASSUME DInv, SuccInv, OnceInv, ExitDrained \/ ExitTimeout \/ ServeError \/ Kill
  PROVE  OnceInv'
<1>1. Crash /\ wins' = wins
  BY DEF ExitDrained, ExitTimeout, ServeError, Kill, Close, Restarted
<1>2. IndInv /\ wins \in [TaskId -> Nat] /\ cuts \in Nat
  BY DEF DInv, DeliveryTypeOK, IndInv, TypeOK
<1>3. /\ UNCHANGED <<raced, ioErrors>> /\ WonRecorded' /\ issued \subseteq issued'
      /\ log' = log /\ ioErrors = 0 => StaysClosed
  BY <1>1, <1>2, ClosedOverRestart DEF OnceInv, Crash
<1>4. \A t \in TaskId \ issued' : wins'[t] = 0
  BY <1>1, <1>3 DEF OnceInv
<1>5. CASE cuts' = cuts + 1
  <2>1. \A t \in TaskId : wins[t] <= cuts + 1 => wins'[t] <= cuts'
    BY <1>1, <1>2, <1>5
  <2>2. \A t \in TaskId : wins[t] <= cuts => wins[t] <= cuts + 1
    BY <1>2
  <2>3. QED
    BY <1>3, <1>4, <2>1, <2>2 DEF OnceInv
<1>6. CASE ExitDrained
  <2>1. log' = log /\ cuts' = cuts /\ \A t \in TaskId : stage[t] = "none"
    BY <1>6 DEF ExitDrained, Close, AllQuiet
  <2>2. ASSUME ioErrors' = 0, NEW t \in TaskId \ raced'
        PROVE  wins'[t] <= cuts' \/ (Spent(t)' /\ wins'[t] <= cuts' + 1)
    <3>1. CASE wins[t] <= cuts
      BY <1>1, <2>1, <3>1
    <3>2. CASE ~(wins[t] <= cuts)
      <4>1. Closed(t) /\ wins[t] <= cuts + 1
        BY <1>3, <2>1, <2>2, <3>2 DEF OnceInv, Spent
      <4>2. t \in issued
        BY <1>2, <3>2 DEF OnceInv
      <4>3. Closed(t)'
        BY <1>3, <2>1, <2>2, <4>1, <4>2 DEF StaysClosed
      <4>4. QED
        BY <1>1, <2>1, <4>1, <4>3 DEF Spent
    <3>3. QED
      BY <3>1, <3>2
  <2>3. QED
    BY <1>3, <1>4, <2>2 DEF OnceInv
<1>7. QED
  BY <1>5, <1>6 DEF ExitTimeout, ServeError, Kill, Cut

LEMMA OnceKept ==
  ASSUME DInv, SuccInv, OnceInv, [DNext]_dvars
  PROVE  OnceInv'
<1>0. /\ [Next]_vars /\ stage \in [TaskId -> Stage] /\ tasks \in [DOMAIN tasks -> Task]
      /\ {"success", "none", "held", "sent", "retryable"} \cap Reason = {}
  BY StepIsQueueStep, DeliveryAssumption DEF DInv, DeliveryTypeOK, IndInv, TypeOK, IsPartialFn
<1> DEFINE Goes == /\ UNCHANGED <<wins, cuts>> /\ ~Crash
                   /\ \A t \in TaskId : stage[t] = "success" =>
                                          stage'[t] = "success" \/ t \in Won'
<1>1. Goes => OnceInv'
  BY <1>0, SpentKept
<1>2. ASSUME UNCHANGED crashes PROVE ~Crash
  <2>1. crashes \in Nat
    BY DEF DInv, IndInv, TypeOK
  <2>2. Crash => crashes' = crashes + 1
    BY DEF Crash
  <2>3. QED
    BY <1>2, <2>1, <2>2
<1>3. ASSUME UNCHANGED crashes, Quiet PROVE Goes
  BY <1>2, <1>3 DEF Quiet, seen
<1>4. CASE UNCHANGED dvars
  BY <1>1, <1>2, <1>4 DEF dvars, vars, faults
<1>5. ASSUME NEW t \in TaskId, NEW k \in Key, Accept(t, k) \/ Refuse(t, k) PROVE Goes
  BY <1>3, <1>5 DEF Accept, Refuse, Submit, SubmitFails, faults
<1>6. ASSUME NEW k \in Key, AcceptAgain(k) PROVE Goes
  BY <1>3, <1>6 DEF AcceptAgain, SubmitDuplicate, faults
<1>7. ASSUME NEW t \in TaskId, Reopen(t) PROVE Goes
  BY <1>2, <1>7 DEF Reopen, Revive
<1>8. ASSUME NEW t \in TaskId, TakeOut(t) PROVE Goes
  <2>1. t \notin Sending
    BY <1>8 DEF TakeOut, Lease, Least, Sending, DInv, IndInv, HeapMatches, Scheduled
  <2>2. stage[t] = "none"
    BY <2>1 DEF DInv, Busy
  <2>3. QED
    BY <1>0, <1>2, <1>8, <2>2 DEF TakeOut, Lease, To, seen, faults
<1>9. ASSUME NEW t \in TaskId, HostBusy(t) \/ GiveBack(t) PROVE Goes
  BY <1>0, <1>2, <1>9 DEF HostBusy, GiveBack, Defer, To, seen, faults
<1>10. ASSUME NEW t \in TaskId, FailsBeforeSending(t) \/ SendRequest(t) PROVE Goes
  BY <1>0, <1>2, <1>10 DEF FailsBeforeSending, SendRequest, StillQueue, To, seen, vars, faults
<1>11. ASSUME NEW t \in TaskId, Hear(t) PROVE OnceInv'
  BY <1>11, HearKeeps
<1>12. ASSUME NEW t \in TaskId, RecordSuccess(t) PROVE Goes
  <2>1. /\ t \in DOMAIN tasks /\ tasks[t] \in Task
        /\ tasks' = [tasks EXCEPT ![t] = Succeeded(@)]
    BY <1>0, <1>12 DEF RecordSuccess, OnSuccess, Sending
  <2>2. t \in Won'
    BY <1>0, <2>1 DEF Won, Succeeded, Task
  <2>3. QED
    BY <1>0, <1>2, <1>12, <2>2 DEF RecordSuccess, OnSuccess, Over, To, seen
<1>13. ASSUME NEW t \in TaskId,
              \/ RecordPermanent(t) \/ RecordExhausted(t)
              \/ RecordTooLate(t) \/ RecordRetry(t)
       PROVE  Goes
  BY <1>0, <1>2, <1>13 DEF RecordPermanent, RecordExhausted, RecordTooLate, RecordRetry,
     OnDead, OnRetry, Over, To, seen
<1>14. CASE (Maintain \/ SyncLoop \/ Tick) /\ Quiet
  BY <1>1, <1>3, <1>14 DEF Maintain, PurgeExpired, EnforceTaskCap, MaybeCompact, TakeSnapshot,
     CompactStore, ResetUnstripped, SyncLoop, Tick, faults
<1>15. CASE Terminate \/ RunStops
  BY <1>1, <1>2, <1>15 DEF Terminate, RunStops, seen, vars, faults
<1>16. CASE ExitDrained \/ ExitTimeout \/ ServeError \/ Kill
  BY <1>16, RestartSpent
<1> HIDE DEF Goes
<1>17. QED
  BY <1>1, <1>4, <1>5, <1>6, <1>7, <1>8, <1>9, <1>10, <1>11, <1>12, <1>13, <1>14, <1>15, <1>16
     DEF DNext, Step

\* The price of at-least-once: each 2xx answer that was heard, but for the first,
\* is paid for by an end of the process that cut something off; no orderly exit,
\* revival, purge or compaction costs one (dispatch.go: deliver; main.go: run;
\* wal.go: Close).
THEOREM HeardOncePerCut == DSpec => []HeardOnce
<1>1. DInit => OnceInv
  BY OkOfNothing DEF DInit, Init, OnceInv, WonRecorded, Won
<1>2. /\ DInit => DInv /\ SuccInv /\ FinalInv
      /\ DInv /\ SuccInv /\ FinalInv /\ [DNext]_dvars => (DInv /\ SuccInv /\ FinalInv)'
  BY DInitEstablishes, InitDone, DStepPreserves, FinalKept DEF DInit, FinalInv
<1>3. DInv /\ SuccInv /\ OnceInv /\ [DNext]_dvars => OnceInv'
  BY OnceKept
<1>4. DInv /\ OnceInv => HeardOnce
  <2> SUFFICES ASSUME DInv, OnceInv, ioErrors = 0, NEW t \in TaskId \ raced
               PROVE  wins[t] <= 1 + cuts
    BY DEF HeardOnce
  <2>1. wins[t] \in Nat /\ cuts \in Nat
    BY DEF DInv, DeliveryTypeOK, IndInv, TypeOK
  <2>2. QED
    BY <2>1 DEF OnceInv
<1>5. QED
  BY <1>1, <1>2, <1>3, <1>4, PTL DEF DSpec

-----------------------------------------------------------------------------
(* A restart undoes no revival that is durable. *)


\* A crash cuts the journal behind its synced records; what it may add is the
\* submission of a new task.
LEMMA CrashCuts ==
  ASSUME IndInv, Crash
  PROVE  /\ synced <= Len(log')
         /\ \A i \in 1..Len(log') :
              IF i \in 1..Len(log) THEN log'[i] = log[i]
                                   ELSE log'[i].T = "enq" /\ log'[i].id \notin issued
<1>1. log \in Seq(Record) /\ synced \in 0..Len(log)
  BY DEF IndInv, TypeOK, Store!JournalTypeOK
<1>2. ASSUME NEW l \in Seq(Record), Len(l) >= Len(log), Store!KeepPrefix(l)
      PROVE  synced <= Len(log') /\ \A i \in 1..Len(log') : i \in 1..Len(l) /\ log'[i] = l[i]
  <2>1. PICK n \in synced..Len(l) : log' = Prefix(l, n)
    BY <1>2 DEF Store!KeepPrefix, Prefix
  <2>2. n \in 0..Len(l)
    BY <1>1, <1>2
  <2>3. Len(log') = n /\ \A i \in 1..n : log'[i] = l[i]
    BY <2>1, <2>2, PrefixIds
  <2>4. QED
    BY <2>2, <2>3
<1>3. CASE Store!Crash(<<>>)
  <2>1. log \o <<>> = log /\ Len(log) >= Len(log)
    BY <1>1
  <2>2. QED
    BY <1>1, <1>2, <1>3, <2>1 DEF Store!Crash
<1>4. ASSUME NEW t \in TaskId \ issued, NEW k \in Key, Store!Crash(<<Enq(t, now, k, TRUE)>>)
      PROVE  /\ synced <= Len(log')
             /\ \A i \in 1..Len(log') :
                  IF i \in 1..Len(log) THEN log'[i] = log[i]
                                       ELSE log'[i].T = "enq" /\ log'[i].id \notin issued
  <2> DEFINE r == Enq(t, now, k, TRUE)
             l == Append(log, r)
  <2>1. r \in Record /\ r.T = "enq" /\ r.id \notin issued
    <3>1. t \in TaskId /\ t \notin issued
      OBVIOUS
    <3>2. r \in Record /\ r.T = "enq" /\ r.id = t
      BY <3>1, EnqIsRecord
    <3>3. QED
      BY <3>1, <3>2
  <2>2. Store!KeepPrefix(log \o <<r>>)
    BY <1>4 DEF Store!Crash
  <2> HIDE DEF r
  <2>3. /\ l \in Seq(Record) /\ Len(l) = Len(log) + 1 /\ log \o <<r>> = l
        /\ \A i \in 1..Len(l) : i \notin 1..Len(log) => l[i] = r
        /\ \A i \in 1..Len(log) : l[i] = log[i]
    BY <1>1, <2>1
  <2> HIDE DEF l
  <2>4. Store!KeepPrefix(l)
    BY <2>2, <2>3
  <2>a. Len(l) >= Len(log)
    BY <1>1, <2>3
  <2>5. synced <= Len(log') /\ \A i \in 1..Len(log') : i \in 1..Len(l) /\ log'[i] = l[i]
    BY <1>2, <2>3, <2>4, <2>a
  <2>6. QED
    BY <2>1, <2>3, <2>5
<1>5. QED
  BY <1>3, <1>4 DEF Crash

\* A restart buries no task (queue.go: Restore, Revive): whatever a crash leaves of
\* the journal, a task that was to be delivered is to be delivered again, if it is
\* still known and no revival of it was waiting for its fsync.
THEOREM NoneBuried == Spec => RestartBuriesNone
<1> DEFINE A == crashes' # crashes =>
                  \A t \in ActiveIn(tasks) :
                    t \in DOMAIN tasks' /\ ~RevivalAtRisk(t) => tasks'[t].st = "pending"
<1>1. ASSUME IndInv, SuccInv, [Next]_vars, crashes' # crashes, NEW t \in ActiveIn(tasks),
             t \in DOMAIN tasks', ~RevivalAtRisk(t)
      PROVE  tasks'[t].st = "pending"
  <2>1. Crash
    BY <1>1 DEF Next, vars, faults, history, memVars, Submit, SubmitFails, SubmitDuplicate,
       Revive, Lease, Defer, OnRetry, OnSuccess, OnDead, PurgeExpired, EnforceTaskCap,
       MaybeCompact, TakeSnapshot, CompactStore, ResetUnstripped, SyncLoop, Tick
  <2>2. tasks' = Restored(log')
    BY <2>1 DEF Crash, Restore
  <2>3. log' \in Seq(Record) /\ log \in Seq(Record) /\ synced \in 0..Len(log)
    BY <1>1, <2>1, CrashPreserves DEF IndInv, TypeOK, Store!JournalTypeOK
  <2>4. t \in EnqIds(log')
    BY <1>1, <2>2, <2>3, RestoredType
  <2> DEFINE P == Positions(log', t, {"enq", "att", "ok", "dead"})
             q == Max(P)
  <2>5. P \in SUBSET (DOMAIN log') /\ P # {}
    BY <2>4 DEF EnqIds, Positions
  <2>6. tasks'[t].st = StateAfter(log'[q].T)
    BY <2>2, <2>4 DEF Restored
  <2>7. \A i \in P : log'[i].id = t
    BY DEF Positions
  <2>8. \A i \in 1..Len(log') : log'[i].id = t => i \in P
    BY <2>3, RecordFields DEF Positions
  <2> HIDE DEF P
  <2>9. q \in P /\ q \in 1..Len(log') /\ \A i \in P : i <= q
    BY <2>3, <2>5, LastPosition
  <2> HIDE DEF q
  <2>10. t \in DOMAIN tasks /\ tasks[t].st \in Active /\ t \in issued
    BY <1>1 DEF ActiveIn, IndInv, IssuedInv
  <2>11. synced <= Len(log') /\ \A i \in 1..Len(log') : log'[i].id = t =>
           i \in 1..Len(log) /\ log'[i] = log[i]
    BY <1>1, <2>1, <2>10, CrashCuts
  <2>12. q \in 1..Len(log) /\ log'[q] = log[q] /\ log[q].id = t
    BY <2>7, <2>9, <2>11
  <2>13. log[q].T # "ok"
    <3>1. t \in OkIds(log) => tasks[t].st = "succeeded"
      BY <1>1, <2>10 DEF SuccInv, Won
    <3>2. QED
      BY <2>10, <2>12, <3>1, OkByPosition DEF Active
  <2>14. log[q].T # "dead"
    <3> SUFFICES ASSUME log[q].T = "dead" PROVE FALSE
      OBVIOUS
    <3>1. PICK j \in q + 1..synced : log[j].T = "att" /\ log[j].id = t
      BY <1>1, <2>3, <2>12 DEF RevivalAtRisk
    <3>2. j \in 1..Len(log') /\ j > q /\ j \in 1..Len(log)
      BY <2>3, <2>9, <2>11
    <3>3. log'[j].id = t
      BY <1>1, <2>1, <3>1, <3>2, CrashCuts
    <3>4. QED
      BY <2>8, <2>9, <3>2, <3>3
  <2>15. QED
    BY <2>6, <2>12, <2>13, <2>14 DEF StateAfter
<1>2. IndInv /\ SuccInv /\ [Next]_vars => A
  BY <1>1
<1> HIDE DEF A
<1>3. Spec => [][A]_vars
  BY <1>2, SuccessInvariance, PTL DEF Spec
<1>4. QED
  BY <1>3 DEF RestartBuriesNone, A

-----------------------------------------------------------------------------
(* The service.  Each step of the whole is one that Service allows: what the *)
(* queue, the journal and the deliveries do only shows in who is open,       *)
(* delivered or dead, in the requests under way, and in what is promised.    *)

\* Only what was submitted is ever dropped, recorded or overwritten.
GoneInv == dropped \cup touched \cup exposed \subseteq issued

LEMMA GoneKept == IndInv /\ GoneInv /\ [Next]_vars => GoneInv'
<1> SUFFICES ASSUME IndInv, GoneInv, [Next]_vars PROVE GoneInv'
  OBVIOUS
<1> USE DEF GoneInv
<1>0. DOMAIN tasks \subseteq issued
  BY DEF IndInv, IssuedInv
<1>1. ASSUME NEW t \in issued', Touch(t), issued \subseteq issued', UNCHANGED <<dropped, exposed>>
      PROVE  GoneInv'
  BY <1>1 DEF Touch
<1>2. ASSUME NEW t \in TaskId, NEW k \in Key, Submit(t, k) PROVE GoneInv'
  <2>1. issued' = issued \cup {t} /\ Touch(t) /\ UNCHANGED <<dropped, exposed>>
    BY <1>2 DEF Submit
  <2>2. QED
    BY <1>1, <2>1
<1>3. ASSUME NEW t \in TaskId, Revive(t) \/ OnRetry(t) \/ OnSuccess(t) \/ OnDead(t)
      PROVE  GoneInv'
  <2>1. t \in DOMAIN tasks /\ UNCHANGED <<issued, dropped, exposed>> /\ Touch(t)
    BY <1>3 DEF Revive, OnRetry, OnSuccess, OnDead, Sending
  <2>2. QED
    BY <1>0, <1>1, <2>1
<1>4. ASSUME NEW V \in SUBSET (DOMAIN tasks), DropAll(V), UNCHANGED <<issued, touched, exposed>>
      PROVE  GoneInv'
  BY <1>0, <1>4 DEF DropAll
<1>5. CASE PurgeExpired
  <2>1. Expired \in SUBSET (DOMAIN tasks)
    BY DEF Expired
  <2>2. QED
    BY <1>4, <1>5, <2>1 DEF PurgeExpired
<1>6. CASE EnforceTaskCap
  <2>1. PICK V \in Victims : DropAll(V)
    BY <1>6 DEF EnforceTaskCap
  <2>2. V \in SUBSET (DOMAIN tasks)
    BY <2>1 DEF Victims
  <2>3. QED
    BY <1>4, <1>6, <2>1, <2>2 DEF EnforceTaskCap
<1>7. CASE CompactStore
  <2>1. touched' = {} /\ UNCHANGED <<issued, dropped>> /\ exposed' \subseteq exposed \cup touched
    BY <1>7 DEF CompactStore, Overwritten
  <2>2. QED
    BY <2>1
<1>8. CASE TakeSnapshot \/ Crash
  <2>1. touched' = {} /\ issued \subseteq issued' /\ UNCHANGED <<dropped, exposed>>
    BY <1>8 DEF TakeSnapshot, Crash
  <2>2. QED
    BY <2>1
<1>9. CASE \/ \E t \in TaskId, k \in Key : SubmitFails(t, k)
           \/ \E k \in Key : SubmitDuplicate(k)
           \/ \E t \in TaskId : Lease(t) \/ Defer(t)
           \/ MaybeCompact \/ ResetUnstripped \/ SyncLoop \/ Tick \/ UNCHANGED vars
  <2>1. issued \subseteq issued' /\ UNCHANGED <<dropped, touched, exposed>>
    BY <1>9 DEF SubmitFails, SubmitDuplicate, Lease, Defer, MaybeCompact, ResetUnstripped,
       SyncLoop, Tick, vars, history
  <2>2. QED
    BY <2>1
<1>10. QED
  BY <1>2, <1>3, <1>5, <1>6, <1>7, <1>8, <1>9 DEF Next

\* What a move of one task does to the three sets of tasks.
LEMMA OneGoes ==
  ASSUME TypeOK, NEW t \in DOMAIN tasks, NEW m, tasks' = [tasks EXCEPT ![t] = m], NEW S
  PROVE  In(S)' = IF m.st \in S THEN In(S) \cup {t} ELSE In(S) \ {t}
<1>1. /\ tasks \in [DOMAIN tasks -> Task] /\ DOMAIN tasks' = DOMAIN tasks /\ tasks'[t] = m
      /\ \A u \in DOMAIN tasks : u # t => tasks'[u] = tasks[u]
  BY DEF TypeOK, IsPartialFn
<1>2. QED
  BY <1>1 DEF In

\* What becomes durable is over, and was answered.
LEMMA Settling ==
  ASSUME DInv', SuccInv', Observe, raced \subseteq raced'
  PROVE  \E S \in AsService!MaySettle :
           (final \ raced)' = ((final \ raced) \ (raced' \ raced)) \cup S
<1>1. log' \in Seq(Record) /\ synced' \in 0..Len(log')
  BY DEF DInv, IndInv, TypeOK, Store!JournalTypeOK
<1> DEFINE D == DurablySucceeded'
<1>2. D \subseteq TaskId /\ D \subseteq OkIds(log')
  BY <1>1 DEF DurablySucceeded, OkIds
<1>3. \A t \in D : wins'[t] > 0 /\ (t \in DOMAIN tasks' => t \in Won')
  BY <1>2 DEF DInv, OkInv, Answered, SuccInv
<1>4. \A t \in Won' : t \notin In(Active)' \cup In({"dead"})'
  BY DEF Won, In, Active
<1>5. In(Active)' \cup In({"dead"})' \subseteq DOMAIN tasks'
  BY DEF In
<1>6. D \ raced' \in AsService!MaySettle
  BY <1>2, <1>3, <1>4, <1>5 DEF AsService!MaySettle
<1>7. final' = final \cup D
  BY DEF Observe
<1> HIDE DEF D
<1>8. (final \ raced)' = ((final \ raced) \ (raced' \ raced)) \cup (D \ raced')
  BY <1>7
<1>9. QED
  BY <1>6, <1>8

LEMMA PromisesKept ==
  ASSUME DInv', SuccInv', Observe, UNCHANGED <<acked, dropped, exposed, raced>>
  PROVE  AsService!Promises
<1>1. PICK S \in AsService!MaySettle :
        (final \ raced)' = ((final \ raced) \ (raced' \ raced)) \cup S
  BY Settling
<1>2. (final \ raced)' = (final \ raced) \cup S
  BY <1>1
<1>3. QED
  BY <1>2 DEF AsService!Promises

\* The three sets of tasks stay as they are.
SameTasks == /\ In(Active)' = In(Active) /\ In({"succeeded"})' = In({"succeeded"})
             /\ In({"dead"})' = In({"dead"})

LEMMA NothingShows ==
  ASSUME DInv', SuccInv', Observe, UNCHANGED <<acked, dropped, exposed, raced>>,
         SameTasks, UNCHANGED <<issued, touched, wins, crashes>>,
         phase' = "replace" <=> phase = "replace",
         {t \in TaskId : stage'[t] = "sent"} = {t \in TaskId : stage[t] = "sent"}
  PROVE  AsService!Next
<1>1. AsService!Promises
  BY PromisesKept
<1>2. AsService!Wait
  BY <1>1 DEF AsService!Wait, AsService!states, AsService!vendor, SameTasks
<1>3. QED
  BY <1>2 DEF AsService!Next, AsService!Serve

LEMMA SubmitShows ==
  ASSUME DInv, DInv', SuccInv', GoneInv, Observe, NEW t \in TaskId, NEW k \in Key, Accept(t, k)
  PROVE  AsService!Next
<1> DEFINE r == Enq(t, now, k, TRUE)
           m == Fresh(r)
<1>1. /\ Submit(t, k) /\ UNCHANGED <<stage, wins>>
      /\ t \notin issued /\ issued' = issued \cup {t} /\ acked' = acked \cup {t}
      /\ tasks' = Put(tasks, t, m) /\ Touch(t)
      /\ UNCHANGED <<dropped, exposed, raced, phase, crashes>>
  BY DEF Accept, Quiet, seen, Submit, maintVars, faults
<1>2. t \notin DOMAIN tasks /\ t \notin dropped \cup exposed
  BY <1>1 DEF DInv, IndInv, IssuedInv, GoneInv
<1>3. m.st = "pending"
  BY EnqIsRecord DEF DInv
<1> HIDE DEF m
<1>4. /\ DOMAIN tasks' = DOMAIN tasks \cup {t} /\ tasks'[t] = m
      /\ \A u \in DOMAIN tasks : tasks'[u] = tasks[u]
  BY <1>1, <1>2 DEF Put
<1>5. /\ In(Active)' = In(Active) \cup {t} /\ In({"succeeded"})' = In({"succeeded"})
      /\ In({"dead"})' = In({"dead"})
  BY <1>2, <1>3, <1>4 DEF In, Active
<1>6. PICK S \in AsService!MaySettle : (final \ raced)' = (final \ raced) \cup S
  <2>1. PICK S \in AsService!MaySettle :
          (final \ raced)' = ((final \ raced) \ (raced' \ raced)) \cup S
    BY <1>1, Settling
  <2>2. (final \ raced)' = (final \ raced) \cup S
    BY <1>1, <2>1
  <2>3. QED
    BY <2>2
<1>7. (acked \ (dropped \cup exposed))' = (acked \ (dropped \cup exposed)) \cup {t}
  BY <1>1, <1>2
<1>8. AsService!Risk({t})
  BY <1>1 DEF Touch, AsService!Risk
<1>9. AsService!Accept(t)
  BY <1>1, <1>5, <1>6, <1>7, <1>8 DEF AsService!Accept, AsService!vendor
<1>10. QED
  BY <1>1, <1>9 DEF AsService!Next, AsService!Serve

LEMMA RefusalShows ==
  ASSUME DInv', SuccInv', Observe, NEW t \in TaskId, NEW k \in Key, Refuse(t, k)
  PROVE  AsService!Next
<1>1. /\ t \notin issued /\ issued' = issued \cup {t}
      /\ UNCHANGED <<stage, wins, tasks, phase, touched, crashes, acked, dropped, exposed, raced>>
  BY DEF Refuse, Quiet, seen, SubmitFails, memVars, maintVars
<1>2. AsService!Promises
  BY <1>1, PromisesKept
<1>3. SameTasks
  BY <1>1 DEF SameTasks, In
<1>4. AsService!Refuse(t)
  BY <1>1, <1>2, <1>3 DEF AsService!Refuse, AsService!states, AsService!vendor, SameTasks
<1>5. QED
  BY <1>1, <1>4 DEF AsService!Next, AsService!Serve

\* An operator revives a task.
LEMMA RevivalShows ==
  ASSUME DInv, DInv', SuccInv', Observe, NEW t \in TaskId, Reopen(t)
  PROVE  AsService!Next
<1> DEFINE m == Revived(tasks[t])
<1>1. /\ t \in DOMAIN tasks /\ tasks[t].st = "dead" /\ tasks' = [tasks EXCEPT ![t] = m]
      /\ Touch(t)
      /\ UNCHANGED <<stage, wins, issued, phase, crashes, acked, dropped, exposed, raced>>
  BY DEF Reopen, Revive, maintVars
<1>2. TypeOK /\ tasks[t] \in Task
  BY <1>1 DEF DInv, IndInv, TypeOK, IsPartialFn
<1>3. m.st = "pending"
  BY <1>2 DEF Revived, Task
<1> HIDE DEF m
<1>4. /\ In(Active)' = In(Active) \cup {t} /\ In({"succeeded"})' = In({"succeeded"}) \ {t}
      /\ In({"dead"})' = In({"dead"}) \ {t}
  <2>1. \A S : In(S)' = IF m.st \in S THEN In(S) \cup {t} ELSE In(S) \ {t}
    BY <1>1, <1>2, OneGoes
  <2>2. m.st \in Active /\ m.st \notin {"succeeded"} /\ m.st \notin {"dead"}
    BY <1>3 DEF Active
  <2>3. QED
    BY <2>1, <2>2
<1>5. t \in In({"dead"}) /\ t \notin In({"succeeded"})
  BY <1>1 DEF In
<1>6. AsService!Promises
  BY <1>1, PromisesKept
<1>7. AsService!Risk({t})
  BY <1>1 DEF Touch, AsService!Risk
<1>8. AsService!Revive(t)
  BY <1>1, <1>4, <1>5, <1>6, <1>7 DEF AsService!Revive, AsService!vendor
<1>9. QED
  BY <1>1, <1>8 DEF AsService!Next, AsService!Serve

\* A task changes hands without a record of it.
LEMMA HandingOverShows ==
  ASSUME DInv, DInv', SuccInv', Observe, NEW t \in TaskId,
         TakeOut(t) \/ HostBusy(t) \/ GiveBack(t)
  PROVE  AsService!Next
<1>1. /\ Lease(t) \/ Defer(t)
      /\ UNCHANGED <<wins, issued, touched, phase, crashes, acked, dropped, exposed, raced>>
  BY DEF TakeOut, HostBusy, GiveBack, Lease, Defer, seen, maintVars, history, faults
<1>2. /\ t \in DOMAIN tasks /\ tasks[t].st \in Active /\ TypeOK /\ tasks[t] \in Task
      /\ Lease(t) => tasks[t].st # "sending"
  BY <1>1 DEF Lease, Least, Defer, Sending, DInv, IndInv, HeapMatches, Scheduled, TypeOK,
     IsPartialFn, Active
<1>3. \E m : m.st \in Active /\ tasks' = [tasks EXCEPT ![t] = m]
  <2>1. CASE Lease(t)
    <3> DEFINE m == [tasks[t] EXCEPT !.st = "sending", !.updatedAt = now]
    <3>1. tasks' = [tasks EXCEPT ![t] = m]
      BY <2>1 DEF Lease
    <3>2. m.st = "sending"
      BY <1>2 DEF Task
    <3>3. m.st \in Active
      BY <3>2 DEF Active
    <3> HIDE DEF m
    <3>4. QED
      BY <3>1, <3>3
  <2>2. CASE Defer(t)
    <3>1. PICK at : tasks' = [tasks EXCEPT ![t].st = "pending", ![t].nextAt = at]
      BY <2>2 DEF Defer
    <3> DEFINE m == [tasks[t] EXCEPT !.st = "pending", !.nextAt = at]
    <3>2. tasks' = [tasks EXCEPT ![t] = m]
      BY <3>1
    <3>3. m.st \in Active
      BY <1>2 DEF Task, Active
    <3> HIDE DEF m
    <3>4. QED
      BY <3>2, <3>3
  <2>3. QED
    BY <1>1, <2>1, <2>2
<1>4. PICK m : m.st \in Active /\ tasks' = [tasks EXCEPT ![t] = m]
  BY <1>3
<1>5. /\ In(Active)' = In(Active) \cup {t} /\ In({"succeeded"})' = In({"succeeded"}) \ {t}
      /\ In({"dead"})' = In({"dead"}) \ {t}
  <2>1. \A S : In(S)' = IF m.st \in S THEN In(S) \cup {t} ELSE In(S) \ {t}
    BY <1>2, <1>4, OneGoes
  <2>2. m.st \in Active /\ m.st \notin {"succeeded"} /\ m.st \notin {"dead"}
    BY <1>4 DEF Active
  <2>3. QED
    BY <2>1, <2>2
<1>6. SameTasks
  BY <1>2, <1>5 DEF SameTasks, In, Active
<1>7. stage[t] # "sent" /\ stage \in [TaskId -> Stage]
      /\ \E s \in {"none", "held"} : stage' = [stage EXCEPT ![t] = s]
  <2>1. TakeOut(t) => stage[t] = "none"
    BY <1>2 DEF TakeOut, DInv, Busy, Sending
  <2>2. QED
    BY <2>1 DEF TakeOut, HostBusy, GiveBack, To, DInv, DeliveryTypeOK
<1>8. {u \in TaskId : stage'[u] = "sent"} = {u \in TaskId : stage[u] = "sent"}
  BY <1>7
<1>9. QED
  BY <1>1, <1>6, <1>8, NothingShows

LEMMA VerdictOver == ASSUME NEW r \in Result PROVE Verdict(r) # "sent"
<1>1. r.code \in Nat /\ r.err \in {"nil", "blocked", "bad_spec", "network"}
  BY DeliveryAssumption
<1>2. Classify(r) \in {"success", "retryable", "permanent"}
  BY <1>1 DEF Classify
<1>3. PermanentReason(r) # "sent"
  BY <1>1 DEF PermanentReason
<1>4. QED
  BY <1>2, <1>3 DEF Verdict

\* What passes between a delivery and its vendor.
LEMMA ExchangeShows ==
  ASSUME DInv, DInv', SuccInv', Observe, NEW t \in TaskId,
         FailsBeforeSending(t) \/ SendRequest(t) \/ Hear(t)
  PROVE  AsService!Next
<1>1. /\ UNCHANGED <<tasks, issued, touched, phase, crashes, acked, dropped, exposed, raced>>
      /\ stage \in [TaskId -> Stage] /\ wins \in [TaskId -> Nat]
  BY DEF FailsBeforeSending, SendRequest, Hear, StillQueue, vars, memVars, maintVars, history,
     faults, DInv, DeliveryTypeOK
<1>2. SameTasks
  BY <1>1 DEF SameTasks, In
<1>3. AsService!Promises
  BY <1>1, PromisesKept
<1>4. CASE FailsBeforeSending(t)
  <2>1. PICK r \in Result : stage' = [stage EXCEPT ![t] = Verdict(r)]
    BY <1>4 DEF FailsBeforeSending, To
  <2>2. stage[t] = "held" /\ UNCHANGED wins
    BY <1>4 DEF FailsBeforeSending, seen
  <2>3. {u \in TaskId : stage'[u] = "sent"} = {u \in TaskId : stage[u] = "sent"}
    BY <1>1, <2>1, <2>2, VerdictOver
  <2>4. QED
    BY <1>1, <1>2, <2>2, <2>3, NothingShows
<1>5. CASE SendRequest(t)
  <2>1. stage[t] = "held" /\ stage' = [stage EXCEPT ![t] = "sent"] /\ UNCHANGED wins
    BY <1>5 DEF SendRequest, To
  <2>2. t \in In(Active)
    BY <2>1 DEF DInv, Busy, Sending, In, Active
  <2>3. {u \in TaskId : stage'[u] = "sent"} = {u \in TaskId : stage[u] = "sent"} \cup {t}
    BY <1>1, <2>1
  <2>4. AsService!Ask(t)
    BY <1>1, <1>2, <1>3, <2>1, <2>2, <2>3 DEF AsService!Ask, AsService!states, SameTasks
  <2>5. QED
    BY <1>1, <2>4 DEF AsService!Next, AsService!Serve
<1>6. CASE Hear(t)
  <2>1. PICK r \in Result :
          /\ stage' = [stage EXCEPT ![t] = Verdict(r)]
          /\ wins' = [wins EXCEPT ![t] = IF r.code \in 200..299 THEN @ + 1 ELSE @]
    BY <1>6 DEF Hear, To
  <2>2. stage[t] = "sent"
    BY <1>6 DEF Hear
  <2>3. {u \in TaskId : stage'[u] = "sent"} = {u \in TaskId : stage[u] = "sent"} \ {t}
    BY <1>1, <2>1, VerdictOver
  <2>4. {u \in TaskId : wins'[u] > 0} \in {{u \in TaskId : wins[u] > 0},
                                          {u \in TaskId : wins[u] > 0} \cup {t}}
    <3>1. CASE r.code \in 200..299
      <4>1. wins[t] \in Nat /\ wins'[t] = wins[t] + 1 /\ \A u \in TaskId \ {t} : wins'[u] = wins[u]
        BY <1>1, <2>1, <3>1
      <4>2. {u \in TaskId : wins'[u] > 0} = {u \in TaskId : wins[u] > 0} \cup {t}
        BY <4>1
      <4>3. QED
        BY <4>2
    <3>2. CASE r.code \notin 200..299
      <4>1. wins' = wins
        BY <1>1, <2>1, <3>2
      <4>2. QED
        BY <4>1
    <3>3. QED
      BY <3>1, <3>2
  <2>5. AsService!Hear(t)
    BY <1>1, <1>2, <1>3, <2>2, <2>3, <2>4 DEF AsService!Hear, AsService!states, SameTasks
  <2>6. QED
    BY <1>1, <2>5 DEF AsService!Next, AsService!Serve
<1>7. QED
  BY <1>4, <1>5, <1>6

\* A delivery is over, and its outcome is recorded.
LEMMA OutcomeShows ==
  ASSUME DInv, DInv', SuccInv', Observe, NEW t \in TaskId,
         \/ RecordSuccess(t) \/ RecordPermanent(t) \/ RecordExhausted(t)
         \/ RecordTooLate(t) \/ RecordRetry(t)
  PROVE  AsService!Next
<1>1. /\ stage[t] \in {"success", "retryable"} \cup Reason /\ stage[t] # "sent"
      /\ stage' = [stage EXCEPT ![t] = "none"] /\ UNCHANGED wins
      /\ stage \in [TaskId -> Stage]
  BY DeliveryAssumption DEF RecordSuccess, RecordPermanent, RecordExhausted, RecordTooLate,
     RecordRetry, Over, To, seen, DInv, DeliveryTypeOK
<1>2. {u \in TaskId : stage'[u] = "sent"} = {u \in TaskId : stage[u] = "sent"}
  BY <1>1
<1>3. CASE OnRetry(t) \/ OnDead(t) \/ OnSuccess(t)
  <2>1. /\ t \in DOMAIN tasks /\ tasks[t].st = "sending" /\ tasks[t] \in Task /\ TypeOK
        /\ UNCHANGED <<issued, acked, dropped, exposed, raced, phase, crashes>> /\ Touch(t)
    BY <1>3 DEF OnRetry, OnDead, OnSuccess, Sending, maintVars, DInv, IndInv, TypeOK, IsPartialFn
  <2>2. AsService!Promises
    BY <2>1, PromisesKept
  <2>3. AsService!Risk({t})
    BY <2>1 DEF Touch, AsService!Risk
  <2>4. /\ t \in In(Active) /\ t \notin In({"succeeded"}) /\ t \notin In({"dead"})
        /\ t \notin {u \in TaskId : stage[u] = "sent"}
    BY <1>1, <2>1 DEF In, Active
  <2>5. ASSUME NEW m, tasks' = [tasks EXCEPT ![t] = m]
        PROVE  \A S : In(S)' = IF m.st \in S THEN In(S) \cup {t} ELSE In(S) \ {t}
    BY <2>1, <2>5, OneGoes
  <2>6. CASE OnRetry(t)
    <3>1. PICK at : tasks' = [tasks EXCEPT ![t] = Retried(tasks[t], at)]
      BY <2>6 DEF OnRetry
    <3>2. Retried(tasks[t], at).st = "waiting"
      BY <2>1 DEF Retried, Task
    <3>3. /\ Retried(tasks[t], at).st \in Active
          /\ Retried(tasks[t], at).st \notin {"succeeded"}
          /\ Retried(tasks[t], at).st \notin {"dead"}
      BY <3>2 DEF Active
    <3>4. SameTasks
      <4> DEFINE m == Retried(tasks[t], at)
      <4> HIDE DEF m
      <4>1. \A S : In(S)' = IF m.st \in S THEN In(S) \cup {t} ELSE In(S) \ {t}
        BY <2>5, <3>1 DEF m
      <4>2. QED
        BY <2>4, <3>3, <4>1 DEF m, SameTasks
    <3>5. AsService!Retry(t)
      BY <1>1, <1>2, <2>1, <2>2, <2>3, <2>4, <3>4 DEF AsService!Retry, AsService!states,
         AsService!vendor, SameTasks
    <3>6. QED
      BY <2>1, <3>5 DEF AsService!Next, AsService!Serve
  <2>7. CASE OnDead(t)
    <3>1. PICK why : tasks' = [tasks EXCEPT ![t] = Died(tasks[t], why)]
      BY <2>7 DEF OnDead
    <3>2. Died(tasks[t], why).st = "dead"
      BY <2>1 DEF Died, Task
    <3>3. /\ Died(tasks[t], why).st \notin Active
          /\ Died(tasks[t], why).st \notin {"succeeded"}
          /\ Died(tasks[t], why).st \in {"dead"}
      BY <3>2 DEF Active
    <3>4. /\ In(Active)' = In(Active) \ {t} /\ In({"succeeded"})' = In({"succeeded"})
          /\ In({"dead"})' = In({"dead"}) \cup {t}
      <4> DEFINE m == Died(tasks[t], why)
      <4> HIDE DEF m
      <4>1. \A S : In(S)' = IF m.st \in S THEN In(S) \cup {t} ELSE In(S) \ {t}
        BY <2>5, <3>1 DEF m
      <4>2. QED
        BY <2>4, <3>3, <4>1 DEF m
    <3>5. AsService!GiveUp(t)
      BY <1>1, <1>2, <2>1, <2>2, <2>3, <2>4, <3>4 DEF AsService!GiveUp, AsService!vendor
    <3>6. QED
      BY <2>1, <3>5 DEF AsService!Next, AsService!Serve
  <2>8. CASE OnSuccess(t)
    <3>1. tasks' = [tasks EXCEPT ![t] = Succeeded(tasks[t])]
      BY <2>8 DEF OnSuccess
    <3>2. Succeeded(tasks[t]).st = "succeeded"
      BY <2>1 DEF Succeeded, Task
    <3>3. /\ Succeeded(tasks[t]).st \notin Active
          /\ Succeeded(tasks[t]).st \in {"succeeded"}
          /\ Succeeded(tasks[t]).st \notin {"dead"}
      BY <3>2 DEF Active
    <3>4. /\ In(Active)' = In(Active) \ {t} /\ In({"dead"})' = In({"dead"})
          /\ In({"succeeded"})' = In({"succeeded"}) \cup {t}
      <4> DEFINE m == Succeeded(tasks[t])
      <4> HIDE DEF m
      <4>1. \A S : In(S)' = IF m.st \in S THEN In(S) \cup {t} ELSE In(S) \ {t}
        BY <2>5, <3>1 DEF m
      <4>2. QED
        BY <2>4, <3>3, <4>1 DEF m
    <3>5. wins[t] > 0
      <4>1. t \in Won'
        BY <2>1, <3>1, <3>2 DEF Won, TypeOK, IsPartialFn
      <4>2. QED
        BY <1>1, <4>1 DEF DInv, OkInv, Answered
    <3>6. AsService!Deliver(t)
      BY <1>1, <1>2, <2>1, <2>2, <2>3, <2>4, <3>4, <3>5 DEF AsService!Deliver, AsService!vendor
    <3>7. QED
      BY <2>1, <3>6 DEF AsService!Next, AsService!Serve
  <2>9. QED
    BY <1>3, <2>6, <2>7, <2>8
<1>4. QED
  BY <1>3 DEF RecordSuccess, RecordPermanent, RecordExhausted, RecordTooLate, RecordRetry

\* Maintenance drops what is over.
LEMMA DropShows ==
  ASSUME DInv, DInv', SuccInv', Observe, NEW V,
         V \subseteq {t \in DOMAIN tasks : tasks[t].st \in Terminal}, DropAll(V),
         phase # "replace", phase' # "replace",
         UNCHANGED <<stage, wins, issued, touched, crashes, acked, exposed, raced>>
  PROVE  AsService!Next
<1>1. /\ DOMAIN tasks' = DOMAIN tasks \ V
      /\ \A u \in DOMAIN tasks' : tasks'[u] = tasks[u]
  BY DEF DropAll, Restrict, DInv, IndInv, TypeOK, IsPartialFn
<1>2. /\ V \subseteq In({"succeeded"}) \cup In({"dead"}) /\ V \cap In(Active) = {}
  BY DEF In, Terminal, Active
<1>3. \A S : In(S)' = In(S) \ V
  BY <1>1 DEF In
<1>4. In(Active)' = In(Active) /\ In({"succeeded"})' = In({"succeeded"}) \ V
      /\ In({"dead"})' = In({"dead"}) \ V
  BY <1>2, <1>3
<1>5. (acked \ (dropped \cup exposed))' = (acked \ (dropped \cup exposed)) \ V
  BY DEF DropAll
<1>6. PICK S \in AsService!MaySettle : (final \ raced)' = (final \ raced) \cup S
  <2>1. PICK S \in AsService!MaySettle :
          (final \ raced)' = ((final \ raced) \ (raced' \ raced)) \cup S
    BY Settling
  <2>2. (final \ raced)' = (final \ raced) \cup S
    BY <2>1
  <2>3. QED
    BY <2>2
<1>7. AsService!Drop(V)
  BY <1>2, <1>4, <1>5, <1>6 DEF AsService!Drop, AsService!vendor
<1>8. QED
  BY <1>2, <1>7 DEF AsService!Next, AsService!Serve

LEMMA MaintenanceShows ==
  ASSUME DInv, DInv', SuccInv', Observe, GoneInv, Maintain, UNCHANGED <<stage, wins>>
  PROVE  AsService!Next
<1>1. CASE PurgeExpired
  <2>1. Expired \subseteq {t \in DOMAIN tasks : tasks[t].st \in Terminal}
    BY DEF Expired, Terminal
  <2>2. QED
    BY <1>1, <2>1, DropShows DEF PurgeExpired, faults
<1>2. CASE EnforceTaskCap
  <2>1. PICK V \in Victims : DropAll(V)
    BY <1>2 DEF EnforceTaskCap
  <2>2. V \subseteq {t \in DOMAIN tasks : tasks[t].st \in Terminal}
    BY <2>1 DEF Victims
  <2>3. QED
    BY <1>2, <2>1, <2>2, DropShows DEF EnforceTaskCap, faults
<1>3. CASE MaybeCompact \/ ResetUnstripped
  <2>1. /\ UNCHANGED <<tasks, issued, touched, crashes, acked, dropped, exposed, raced>>
        /\ phase # "replace" /\ phase' # "replace"
    BY <1>3 DEF MaybeCompact, ResetUnstripped, memVars, history, faults
  <2>2. SameTasks
    BY <2>1 DEF SameTasks, In
  <2>3. QED
    BY <2>1, <2>2, NothingShows
<1>4. CASE TakeSnapshot
  <2>1. /\ UNCHANGED <<tasks, issued, crashes, acked, dropped, exposed, raced>> /\ touched' = {}
        /\ phase # "replace" /\ phase' = "replace"
    BY <1>4 DEF TakeSnapshot, memVars, faults
  <2>2. SameTasks
    BY <2>1 DEF SameTasks, In
  <2>3. AsService!Promises
    BY <2>1, PromisesKept
  <2>4. AsService!BeginCompaction
    BY <2>1, <2>2, <2>3 DEF AsService!BeginCompaction, AsService!states, AsService!vendor,
       SameTasks
  <2>5. QED
    BY <2>1, <2>4 DEF AsService!Next, AsService!Serve
<1>5. CASE CompactStore
  <2>1. /\ UNCHANGED <<tasks, issued, crashes, acked, dropped>> /\ touched' = {}
        /\ phase = "replace" /\ phase' # "replace"
        /\ raced \subseteq raced' /\ raced' \subseteq raced \cup touched
        /\ exposed \subseteq exposed' /\ exposed' \subseteq exposed \cup touched
    BY <1>5 DEF CompactStore, Overwritten, memVars
  <2>2. SameTasks
    BY <2>1 DEF SameTasks, In
  <2>3. \E V \in SUBSET touched :
          (acked \ (dropped \cup exposed))' = (acked \ (dropped \cup exposed)) \ V
    <3>1. (acked \ (dropped \cup exposed))'
            = (acked \ (dropped \cup exposed)) \ (exposed' \ exposed)
      BY <2>1
    <3>2. QED
      BY <2>1, <3>1
  <2>4. PICK S \in AsService!MaySettle :
          (final \ raced)' = ((final \ raced) \ (raced' \ raced)) \cup S
    BY <2>1, Settling
  <2>5. raced' \ raced \in SUBSET touched
    BY <2>1
  <2>6. AsService!EndCompaction
    BY <2>1, <2>2, <2>3, <2>4, <2>5 DEF AsService!EndCompaction, AsService!states,
       AsService!vendor, SameTasks
  <2>7. QED
    BY <2>1, <2>6 DEF AsService!Next, AsService!Serve
<1>6. QED
  BY <1>1, <1>2, <1>3, <1>4, <1>5 DEF Maintain

\* Any end of the process, with the start that follows.
LEMMA RestartShows ==
  ASSUME DInv, DInv', SuccInv', FinalInv', Observe, ExitDrained \/ ExitTimeout \/ ServeError \/ Kill
  PROVE  AsService!Next
<1>1. Crash /\ Restarted
  BY DEF ExitDrained, ExitTimeout, ServeError, Kill, Close
<1>2. /\ UNCHANGED <<wins, acked, dropped, exposed, raced>> /\ touched' = {} /\ phase' = "idle"
      /\ crashes' = crashes + 1 /\ stage' = [t \in TaskId |-> "none"]
      /\ issued' = issued \/ \E t \in TaskId \ issued : issued' = issued \cup {t}
  BY <1>1 DEF Crash, Restarted
<1>3. /\ DOMAIN tasks' \subseteq issued' /\ Kept' \subseteq DOMAIN tasks'
      /\ tasks' \in [DOMAIN tasks' -> Task]
  BY DEF DInv, IndInv, IssuedInv, KeptInv, TypeOK, IsPartialFn
<1>4. \A t \in DOMAIN tasks' : tasks'[t].st \in Active \cup {"succeeded", "dead"}
  BY <1>3 DEF Task, Active, Terminal
<1>5. /\ In(Active)' \cup In({"succeeded"})' \cup In({"dead"})' = DOMAIN tasks'
      /\ In(Active)' \cap In({"succeeded"})' = {} /\ In(Active)' \cap In({"dead"})' = {}
      /\ In({"succeeded"})' \cap In({"dead"})' = {}
  BY <1>4 DEF In, Active
<1>6. acked \ (dropped \cup exposed) \subseteq DOMAIN tasks'
  BY <1>2, <1>3 DEF Kept
<1>7. In({"succeeded"})' \subseteq {t \in TaskId : wins[t] > 0}
  BY <1>2 DEF DInv, OkInv, Won, Answered, In
<1>8. AsService!Promises
  BY <1>2, PromisesKept
<1>9. (final \ raced)' \cap (In(Active)' \cup In({"dead"})') = {}
  BY DEF FinalInv, MemDone, Won, In, Active
<1>10. {t \in TaskId : stage'[t] = "sent"} = {}
  BY <1>2
<1>11. AsService!Restart
  <2>1. /\ In(Active)' \subseteq issued' /\ In({"succeeded"})' \subseteq issued'
        /\ In({"dead"})' \subseteq issued'
    BY <1>3, <1>5
  <2>2. (acked \ (dropped \cup exposed)) \subseteq AsService!Known'
    BY <1>5, <1>6 DEF AsService!Known
  <2>3. QED
    BY <1>2, <1>5, <1>7, <1>8, <1>9, <1>10, <2>1, <2>2 DEF AsService!Restart
<1>12. QED
  BY <1>11 DEF AsService!Next

\* A submission that is found to be one already, the journal's loop, the clock, and
\* the way to the exit.
LEMMA OthersShow ==
  ASSUME DInv', SuccInv', Observe,
         \/ \E k \in Key : AcceptAgain(k)
         \/ (SyncLoop \/ Tick) /\ Quiet
         \/ Terminate \/ RunStops
  PROVE  AsService!Next
<1>1. /\ UNCHANGED <<stage, wins>>
      /\ UNCHANGED <<tasks, issued, touched, phase, crashes, acked, dropped, exposed, raced>>
  BY DEF AcceptAgain, SubmitDuplicate, SyncLoop, Tick, Terminate, RunStops, Quiet, seen, vars,
     memVars, maintVars, history, faults
<1>2. SameTasks
  BY <1>1 DEF SameTasks, In
<1>3. QED
  BY <1>1, <1>2, NothingShows

ServiceInv == DInv /\ SuccInv /\ FinalInv /\ GoneInv

LEMMA ServiceInvKept == ServiceInv /\ [DNext]_dvars => ServiceInv'
BY DStepPreserves, FinalKept, GoneKept, StepIsQueueStep DEF ServiceInv, DInv

LEMMA StepShows ==
  ASSUME ServiceInv, [DNext]_dvars
  PROVE  [AsService!Next]_(AsService!serviceVars)
<1> /\ DInv /\ GoneInv /\ DInv' /\ SuccInv' /\ FinalInv'
  BY ServiceInvKept DEF ServiceInv
<1>1. CASE UNCHANGED dvars
  <2>1. UNCHANGED <<tasks, stage, wins, issued, touched, phase, crashes, acked, dropped,
                    exposed, raced, final>>
    BY <1>1 DEF dvars, vars, memVars, maintVars, history, faults
  <2>2. SameTasks
    BY <2>1 DEF SameTasks, In
  <2>3. QED
    BY <2>1, <2>2 DEF AsService!serviceVars, AsService!states, AsService!vendor, SameTasks
<1>2. CASE Step /\ Observe
  <2>1. ASSUME NEW t \in TaskId, NEW k \in Key, Accept(t, k) \/ Refuse(t, k)
        PROVE  AsService!Next
    BY <1>2, <2>1, SubmitShows, RefusalShows
  <2>2. ASSUME NEW t \in TaskId, Reopen(t) PROVE AsService!Next
    BY <1>2, <2>2, RevivalShows
  <2>3. ASSUME NEW t \in TaskId, TakeOut(t) \/ HostBusy(t) \/ GiveBack(t) PROVE AsService!Next
    BY <1>2, <2>3, HandingOverShows
  <2>4. ASSUME NEW t \in TaskId, FailsBeforeSending(t) \/ SendRequest(t) \/ Hear(t)
        PROVE  AsService!Next
    BY <1>2, <2>4, ExchangeShows
  <2>5. ASSUME NEW t \in TaskId,
               \/ RecordSuccess(t) \/ RecordPermanent(t) \/ RecordExhausted(t)
               \/ RecordTooLate(t) \/ RecordRetry(t)
        PROVE  AsService!Next
    BY <1>2, <2>5, OutcomeShows
  <2>6. CASE Maintain /\ Quiet
    BY <1>2, <2>6, MaintenanceShows DEF Quiet, seen
  <2>7. CASE \/ \E k \in Key : AcceptAgain(k)
             \/ (SyncLoop /\ Quiet) \/ (Tick /\ Quiet) \/ Terminate \/ RunStops
    BY <1>2, <2>7, OthersShow
  <2>8. CASE ExitDrained \/ ExitTimeout \/ ServeError \/ Kill
    BY <1>2, <2>8, RestartShows
  <2>9. QED
    BY <1>2, <2>1, <2>2, <2>3, <2>4, <2>5, <2>6, <2>7, <2>8 DEF Step
<1>3. QED
  BY <1>1, <1>2 DEF DNext

LEMMA ServiceBegins == DInit => ServiceInv /\ AsService!Init
<1> SUFFICES ASSUME DInit PROVE ServiceInv /\ AsService!Init
  OBVIOUS
<1>1. /\ tasks = <<>> /\ issued = {} /\ acked = {} /\ dropped = {} /\ exposed = {} /\ touched = {}
      /\ phase = "idle" /\ crashes = 0 /\ final = {}
      /\ stage = [t \in TaskId |-> "none"] /\ wins = [t \in TaskId |-> 0]
  BY DEF DInit, Init
<1>2. DInv /\ SuccInv /\ FinalInv /\ GoneInv
  BY <1>1, DInitEstablishes, InitDone DEF DInit, FinalInv, GoneInv
<1>3. DOMAIN tasks = {}
  BY <1>1
<1>4. In(Active) = {} /\ In({"succeeded"}) = {} /\ In({"dead"}) = {}
  BY <1>3 DEF In
<1>5. AsService!Init
  BY <1>1, <1>4 DEF AsService!Init
<1>6. QED
  BY <1>2, <1>5 DEF ServiceInv

\* The whole of notifyd does what Service allows, and nothing else: submissions,
\* deliveries, maintenance and every end of the process, with any journal they leave
\* (api.go, queue.go, maintenance.go, dispatch.go, main.go).
THEOREM ImplementsTheService == DSpec => ImplementsService
<1>1. DInit => ServiceInv /\ AsService!Init
  BY ServiceBegins
<1>2. ServiceInv /\ [DNext]_dvars => ServiceInv' /\ [AsService!Next]_(AsService!serviceVars)
  BY ServiceInvKept, StepShows
<1>3. QED
  BY <1>1, <1>2, PTL DEF DSpec, ImplementsService, AsService!Spec

\* What Service allows is what it is for.
LEMMA WordKept ==
  AsService!KeepsItsWord /\ [AsService!Next]_(AsService!serviceVars) => AsService!KeepsItsWord'
<1> SUFFICES ASSUME AsService!KeepsItsWord, [AsService!Next]_(AsService!serviceVars)
             PROVE  AsService!KeepsItsWord'
  OBVIOUS
<1> USE DEF AsService!KeepsItsWord, AsService!Known, AsService!states, AsService!vendor,
            AsService!Promises, AsService!MaySettle
<1>1. CASE UNCHANGED AsService!serviceVars
  BY <1>1 DEF AsService!serviceVars
<1>2. ASSUME NEW t \in TaskId, AsService!Accept(t) PROVE AsService!KeepsItsWord'
  BY <1>2 DEF AsService!Accept
<1>3. ASSUME NEW t \in TaskId, AsService!Refuse(t) \/ AsService!Ask(t) \/ AsService!Hear(t)
      PROVE  AsService!KeepsItsWord'
  BY <1>3 DEF AsService!Refuse, AsService!Ask, AsService!Hear
<1>4. ASSUME NEW t \in TaskId, AsService!Deliver(t) PROVE AsService!KeepsItsWord'
  BY <1>4 DEF AsService!Deliver
<1>5. ASSUME NEW t \in TaskId, AsService!GiveUp(t) \/ AsService!Retry(t) \/ AsService!Revive(t)
      PROVE  AsService!KeepsItsWord'
  BY <1>5 DEF AsService!GiveUp, AsService!Retry, AsService!Revive
<1>6. ASSUME NEW V, AsService!Drop(V) PROVE AsService!KeepsItsWord'
  BY <1>6 DEF AsService!Drop
<1>7. CASE AsService!BeginCompaction \/ AsService!EndCompaction \/ AsService!Wait
  BY <1>7 DEF AsService!BeginCompaction, AsService!EndCompaction, AsService!Wait
<1>8. CASE AsService!Restart
  BY <1>8 DEF AsService!Restart
<1>9. QED
  BY <1>1, <1>2, <1>3, <1>4, <1>5, <1>6, <1>7, <1>8 DEF AsService!Next, AsService!Serve

\* So notifyd keeps its word: a notification answered 202 is known until maintenance
\* drops it or a compaction runs over it, nothing counts as delivered without a 2xx, and
\* a vendor neither has nor gets a request for what is delivered for good.
THEOREM NotifydKeepsItsWord == DSpec => []AsService!KeepsItsWord
<1>1. AsService!Init => AsService!KeepsItsWord
  BY DEF AsService!Init, AsService!KeepsItsWord, AsService!Known
<1>2. AsService!Spec => []AsService!KeepsItsWord
  BY <1>1, WordKept, PTL DEF AsService!Spec
<1>3. QED
  BY <1>2, ImplementsTheService DEF ImplementsService
=============================================================================
