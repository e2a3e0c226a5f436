---------------------------- MODULE QueueProofs ----------------------------
(***************************************************************************)
(* What holds of the queue for every number of tasks, keys, crashes,       *)
(* maintenance passes and file system errors.                              *)
(***************************************************************************)
EXTENDS Queue, ReplayProofs

-----------------------------------------------------------------------------
(* The journal.  Every operation of it but a compaction keeps what it        *)
(* durably introduced, and introduces nothing but the record it was given.   *)

JournalOK == Store!JournalTypeOK /\ KeysConsistent(log)
Durable   == EnqIds(Prefix(log, synced))

Keeps(ids) ==
  /\ log' \in Seq(Record)
  /\ synced' \in 0..Len(log')
  /\ KeysConsistent(log')
  /\ EnqIds(log') \subseteq EnqIds(log) \cup ids
  /\ Durable \subseteq EnqIds(Prefix(log', synced'))

\* Cutting a journal behind its synced records loses none of them.
LEMMA CutKeeps ==
  ASSUME NEW l \in Seq(Record), KeysConsistent(l), NEW s \in 0..Len(l), NEW n \in s..Len(l)
  PROVE  /\ Prefix(l, n) \in Seq(Record) /\ Len(Prefix(l, n)) = n
         /\ KeysConsistent(Prefix(l, n))
         /\ EnqIds(Prefix(l, n)) \subseteq EnqIds(l)
         /\ EnqIds(Prefix(l, s)) \subseteq EnqIds(Prefix(l, n))
         /\ EnqIds(Prefix(Prefix(l, n), s)) = EnqIds(Prefix(l, s))
         /\ EnqIds(Prefix(Prefix(l, n), n)) = EnqIds(Prefix(l, n))
<1>1. n \in 0..Len(l) /\ s \in 0..n
  OBVIOUS
<1>2. Prefix(l, n) \in Seq(Record) /\ Len(Prefix(l, n)) = n
      /\ EnqIds(Prefix(l, n)) \subseteq EnqIds(l)
      /\ EnqIds(Prefix(l, s)) \subseteq EnqIds(Prefix(l, n))
  BY <1>1, PrefixIds
<1>3. KeysConsistent(Prefix(l, n))
  BY <1>1, KeysOfPrefix
<1>4. Prefix(Prefix(l, n), s) = Prefix(l, s) /\ Prefix(Prefix(l, n), n) = Prefix(l, n)
  BY <1>1, PrefixOfPrefix
<1>5. QED
  BY <1>2, <1>3, <1>4

\* Appending without losing anything, synced or not.
LEMMA GrowKeeps ==
  ASSUME JournalOK, NEW r \in Record, r.T = "enq" => r.id \notin EnqIds(log),
         log' = Append(log, r), synced' \in {synced, Len(log) + 1}
  PROVE  /\ Keeps(IF r.T = "enq" THEN {r.id} ELSE {})
         /\ synced' = Len(log) + 1 /\ r.T = "enq" => r.id \in EnqIds(Prefix(log', synced'))
<1> DEFINE l == Append(log, r)
<1>1. log \in Seq(Record) /\ synced \in 0..Len(log) /\ KeysConsistent(log)
  BY DEF JournalOK, Store!JournalTypeOK
<1>2. l \in Seq(Record) /\ Len(l) = Len(log) + 1
  BY <1>1
<1>3. KeysConsistent(l)
  BY <1>1, KeysOfAppend
<1>4. /\ EnqIds(log) \subseteq EnqIds(l)
      /\ EnqIds(l) \subseteq EnqIds(log) \cup (IF r.T = "enq" THEN {r.id} ELSE {})
      /\ r.T = "enq" => r.id \in EnqIds(l)
  BY <1>1, AppendedIds
<1>5. Prefix(l, synced) = Prefix(log, synced) /\ Prefix(l, Len(log) + 1) = l
  BY <1>1, <1>2, PrefixOfAppend, WholePrefix
<1>6. EnqIds(Prefix(log, synced)) \subseteq EnqIds(log)
  BY <1>1, PrefixIds
<1>7. synced' \in 0..Len(l)
  BY <1>1, <1>2
<1> HIDE DEF l
<1>8. log' = l
  BY DEF l
<1>9. QED
  BY <1>1, <1>2, <1>3, <1>4, <1>5, <1>6, <1>7, <1>8 DEF Keeps, Durable

\* Crashes and failing writes: some prefix with all synced records is left.
LEMMA CrashKeeps ==
  ASSUME JournalOK, NEW l, NEW ids,
         \/ l = log /\ ids = {}
         \/ \E r \in Record : r.T = "enq" /\ r.id \notin EnqIds(log)
                              /\ l = Append(log, r) /\ ids = {r.id},
         Store!KeepPrefix(l), synced' \in {synced, Len(log')}
  PROVE  Keeps(ids)
<1>1. log \in Seq(Record) /\ synced \in 0..Len(log) /\ KeysConsistent(log)
  BY DEF JournalOK, Store!JournalTypeOK
<1> DEFINE Good == /\ l \in Seq(Record) /\ Len(l) >= Len(log) /\ KeysConsistent(l)
                   /\ EnqIds(l) \subseteq EnqIds(log) \cup ids
                   /\ Prefix(l, synced) = Prefix(log, synced)
<1>2. Good
  <2>1. CASE l = log /\ ids = {}
    BY <1>1, <2>1
  <2>2. ASSUME NEW r \in Record, r.T = "enq", r.id \notin EnqIds(log),
               l = Append(log, r), ids = {r.id}
        PROVE  Good
    <3>1. KeysConsistent(Append(log, r))
      BY <1>1, <2>2, KeysOfAppend
    <3>2. EnqIds(Append(log, r)) \subseteq EnqIds(log) \cup {r.id}
      BY <1>1, AppendedIds
    <3>3. Prefix(Append(log, r), synced) = Prefix(log, synced)
      BY <1>1, PrefixOfAppend
    <3>4. QED
      BY <1>1, <2>2, <3>1, <3>2, <3>3
  <2>3. QED
    BY <2>1, <2>2
<1>3. PICK n \in synced..Len(l) : log' = Prefix(l, n)
  BY DEF Store!KeepPrefix, Prefix
<1>4. synced \in 0..Len(l) /\ synced \in 0..n
  BY <1>1, <1>2, <1>3
<1>5. /\ log' \in Seq(Record) /\ Len(log') = n /\ KeysConsistent(log')
      /\ EnqIds(log') \subseteq EnqIds(l)
      /\ EnqIds(Prefix(l, synced)) \subseteq EnqIds(log')
      /\ EnqIds(Prefix(log', synced)) = EnqIds(Prefix(l, synced))
      /\ EnqIds(Prefix(log', n)) = EnqIds(log')
  BY <1>2, <1>3, <1>4, CutKeeps
<1>6. QED
  BY <1>1, <1>2, <1>4, <1>5 DEF Keeps, Durable

\* The lazy appends of OnRetry, OnSuccess, OnDead and Revive, and their failures.
LEMMA LazyKeeps ==
  ASSUME JournalOK, NEW r \in Record, r.T # "enq",
         Store!AppendLazy(r) \/ Store!AppendLazyFails
  PROVE  Keeps({})
<1>1. log \in Seq(Record) /\ synced \in 0..Len(log) /\ KeysConsistent(log)
  BY DEF JournalOK, Store!JournalTypeOK
<1>2. CASE log' = Append(log, r) /\ synced' = synced
  BY <1>2, GrowKeeps
<1>3. CASE log' = log /\ synced' = synced
  BY <1>1, <1>3 DEF Keeps, Durable
<1>4. CASE Store!WriteError
  BY <1>4, CrashKeeps DEF Store!WriteError
<1>5. QED
  BY <1>2, <1>3, <1>4
     DEF Store!AppendLazy, Store!AppendLazyFails, Store!StillFailed, Store!journalVars

\* A submission the journal refuses.
LEMMA SyncFailsKeeps ==
  ASSUME JournalOK, NEW r \in Record, r.T = "enq", r.id \notin EnqIds(log),
         Store!AppendSyncFails(r)
  PROVE  Keeps({r.id})
<1>1. log \in Seq(Record) /\ synced \in 0..Len(log) /\ KeysConsistent(log)
  BY DEF JournalOK, Store!JournalTypeOK
<1>2. CASE Store!SyncError(r)
  BY <1>2, GrowKeeps DEF Store!SyncError
<1>3. CASE log' = log /\ synced' = synced
  BY <1>1, <1>3 DEF Keeps, Durable
<1>4. CASE Store!WriteError
  <2>1. Keeps({})
    BY <1>4, CrashKeeps DEF Store!WriteError
  <2>2. QED
    BY <2>1 DEF Keeps
<1>5. QED
  BY <1>2, <1>3, <1>4
     DEF Store!AppendSyncFails, Store!StillFailed, Store!DetachedSync, Store!journalVars

\* A tick of syncLoop.
LEMMA FlushKeeps ==
  ASSUME JournalOK, Store!Flush
  PROVE  Keeps({})
<1>1. log \in Seq(Record) /\ synced \in 0..Len(log) /\ KeysConsistent(log)
  BY DEF JournalOK, Store!JournalTypeOK
<1>2. EnqIds(Prefix(log, synced)) \subseteq EnqIds(Prefix(log, Len(log)))
  BY <1>1, PrefixIds
<1>3. QED
  BY <1>1, <1>2 DEF Store!Flush, Keeps, Durable

-----------------------------------------------------------------------------
(* The inductive invariant. *)

\* A fault is remembered; a handle that is not usable is the trace of one.
FaultInv == ioErrors = 0 => handle = "ok"

\* Identifiers are never used twice, wherever they still occur.
IssuedInv == /\ DOMAIN tasks \subseteq issued
             /\ EnqIds(log) \subseteq issued
             /\ EnqIds(snap) \subseteq issued

\* While a snapshot is on its way to disk, the tasks it does not know are those
\* with a record it is about to overwrite.
SnapInv == /\ KeysConsistent(snap)
           /\ phase = "replace" => DOMAIN tasks \subseteq EnqIds(snap) \cup touched

\* A journal introduces the tasks in memory under the keys memory knows.
SameKeys(l, mem) ==
  \A i \in DOMAIN l : l[i].T = "enq" /\ l[i].id \in DOMAIN mem => l[i].key = mem[l[i].id].key

\* What is acknowledged and neither dropped nor run over by a compaction.
Kept    == acked \ (dropped \cup exposed)
KeptInv == Kept \subseteq DOMAIN tasks /\ Kept \subseteq Durable

CountInv == IsFiniteSet(DOMAIN tasks) /\ ActiveCount

IndInv == /\ TypeOK
          /\ FaultInv
          /\ KeysConsistent(log)
          /\ HeapMatches
          /\ CountInv
          /\ IdemInv
          /\ IssuedInv
          /\ SnapInv
          /\ KeptInv

-----------------------------------------------------------------------------
(* The operations that move one task from one state to another. *)

One(B) == IF B THEN 1 ELSE 0

\* Task t becomes m: what the six operations have in common.
Updates(t, m) ==
  /\ t \in DOMAIN tasks /\ m \in Task /\ m.key = tasks[t].key
  /\ tasks' = [tasks EXCEPT ![t] = m]
  /\ active' = active + One(m.st \in Active) - One(tasks[t].st \in Active)
  /\ IF m.st \in {"pending", "waiting"}
     THEN due' = due \cup {t} \/ (due' = due /\ ioErrors' > 0)
     ELSE due' = due \ {t}
  /\ UNCHANGED <<idem, phase, snap, passes, issued, acked, answered, dropped, raced,
                 exposed, shuffled, crashes, now>>
  /\ touched \subseteq touched' /\ {touched', late', revived'} \subseteq SUBSET TaskId
  /\ unstripped' \in Nat
  /\ Keeps({}) /\ dirty' \in BOOLEAN /\ handle' \in {"ok", "failed", "detached"}
  /\ ioErrors' \in Nat /\ ioErrors <= ioErrors' /\ FaultInv'

\* A failed append leaves its trace.
LEMMA FaultCounted ==
  ASSUME TypeOK, FaultInv, Fault
  PROVE  ioErrors' \in Nat /\ ioErrors' > 0 /\ ioErrors <= ioErrors'
BY DEF TypeOK, FaultInv, Fault

\* A lazy append that succeeds, one that fails, and none at all.
LEMMA AppendOutcomes ==
  ASSUME TypeOK, FaultInv, KeysConsistent(log), NEW r \in Record, r.T # "enq",
         \/ Store!AppendLazy(r) /\ UNCHANGED ioErrors
         \/ Store!AppendLazyFails /\ Fault
         \/ UNCHANGED <<logVars, ioErrors>>
  PROVE  /\ Keeps({}) /\ dirty' \in BOOLEAN /\ handle' \in {"ok", "failed", "detached"}
         /\ ioErrors' \in Nat /\ ioErrors <= ioErrors' /\ FaultInv'
<1>1. JournalOK
  BY DEF TypeOK, JournalOK
<1>2. CASE Store!AppendLazy(r) /\ UNCHANGED ioErrors
  <2>1. Keeps({})
    BY <1>1, <1>2, LazyKeeps
  <2>2. QED
    BY <1>2, <2>1 DEF TypeOK, FaultInv, Store!AppendLazy, Store!JournalTypeOK
<1>3. CASE Store!AppendLazyFails /\ Fault
  <2>1. Keeps({})
    BY <1>1, <1>3, LazyKeeps
  <2>2. ioErrors' \in Nat /\ ioErrors' > 0 /\ ioErrors <= ioErrors'
    BY <1>3, FaultCounted
  <2>3. dirty \in BOOLEAN /\ handle \in {"ok", "failed", "detached"}
    BY DEF TypeOK, Store!JournalTypeOK
  <2>4. dirty' \in {dirty, TRUE} /\ handle' = "failed"
    BY <1>3 DEF Store!AppendLazyFails, Store!WriteError, Store!StillFailed, Store!journalVars
  <2>5. dirty' \in BOOLEAN
    BY <2>3, <2>4
  <2>6. FaultInv'
    BY <2>2 DEF FaultInv
  <2>7. QED
    BY <2>1, <2>2, <2>4, <2>5, <2>6
<1>4. CASE UNCHANGED <<logVars, ioErrors>>
  BY <1>4 DEF TypeOK, FaultInv, Keeps, Durable, logVars, Store!JournalTypeOK
<1>5. QED
  BY <1>2, <1>3, <1>4

LEMMA LeaseUpdates ==
  ASSUME IndInv, NEW t \in TaskId, Lease(t)
  PROVE  \E m : Updates(t, m)
<1> DEFINE m == [tasks[t] EXCEPT !.st = "sending", !.updatedAt = now]
<1>1. t \in due /\ t \in DOMAIN tasks /\ tasks[t].st \in {"pending", "waiting"}
  BY DEF Lease, Least, IndInv, HeapMatches, Scheduled
<1>2. tasks[t] \in Task
  BY <1>1 DEF IndInv, TypeOK, IsPartialFn
<1>3. m \in Task /\ m.key = tasks[t].key /\ m.st = "sending"
  BY <1>2 DEF Task, Active, IndInv, TypeOK
<1>4. tasks' = [tasks EXCEPT ![t] = m]
  BY <1>1, <1>2 DEF Lease, Task
<1>5. Keeps({}) /\ dirty' \in BOOLEAN /\ handle' \in {"ok", "failed", "detached"}
      /\ ioErrors' \in Nat /\ ioErrors <= ioErrors' /\ FaultInv'
  BY DEF Lease, IndInv, TypeOK, FaultInv, Keeps, Durable, logVars, faults,
         Store!JournalTypeOK
<1>6. active' = active + One(m.st \in Active) - One(tasks[t].st \in Active)
  BY <1>1, <1>3 DEF One, Active, Lease, IndInv, TypeOK
<1> HIDE DEF m
<1>7. Updates(t, m)
  BY <1>1, <1>3, <1>4, <1>5, <1>6
     DEF Updates, Lease, IndInv, TypeOK, history, maintVars, faults
<1>8. QED
  BY <1>7

LEMMA DeferUpdates ==
  ASSUME IndInv, NEW t \in TaskId, Defer(t)
  PROVE  \E m : Updates(t, m)
<1>1. PICK at \in {now, now + 1} :
        tasks' = [tasks EXCEPT ![t].st = "pending", ![t].nextAt = at]
  BY DEF Defer
<1> DEFINE m == [tasks[t] EXCEPT !.st = "pending", !.nextAt = at]
<1>2. t \in DOMAIN tasks /\ tasks[t].st = "sending" /\ tasks[t] \in Task
  BY DEF Defer, Sending, IndInv, TypeOK, IsPartialFn
<1>3. m \in Task /\ m.key = tasks[t].key /\ m.st = "pending"
  <2>1. at \in Nat
    BY DEF IndInv, TypeOK
  <2>2. QED
    BY <1>2, <2>1 DEF Task, Active
<1>4. tasks' = [tasks EXCEPT ![t] = m]
  BY <1>1, <1>2 DEF Task
<1>5. Keeps({}) /\ dirty' \in BOOLEAN /\ handle' \in {"ok", "failed", "detached"}
      /\ ioErrors' \in Nat /\ ioErrors <= ioErrors' /\ FaultInv'
  BY DEF Defer, IndInv, TypeOK, FaultInv, Keeps, Durable, logVars, faults,
         Store!JournalTypeOK
<1>6. active' = active + One(m.st \in Active) - One(tasks[t].st \in Active)
  BY <1>2, <1>3 DEF One, Active, Defer, IndInv, TypeOK
<1> HIDE DEF m
<1>7. Updates(t, m)
  BY <1>2, <1>3, <1>4, <1>5, <1>6
     DEF Updates, Defer, IndInv, TypeOK, history, maintVars, faults
<1>8. QED
  BY <1>7

LEMMA OnRetryUpdates ==
  ASSUME IndInv, NEW t \in TaskId, OnRetry(t)
  PROVE  \E m : Updates(t, m)
<1>1. PICK at \in now .. now + MaxDelay :
        /\ tasks' = [tasks EXCEPT ![t] = Retried(@, at)]
        /\ \/ /\ Store!AppendLazy(Att(t, now, tasks[t].attempts + 1, at))
              /\ due' = due \cup {t}
              /\ UNCHANGED ioErrors
           \/ Store!AppendLazyFails /\ Fault /\ UNCHANGED due
  BY DEF OnRetry
<1> DEFINE m == Retried(tasks[t], at)
           r == Att(t, now, tasks[t].attempts + 1, at)
<1>2. t \in DOMAIN tasks /\ tasks[t].st = "sending" /\ tasks[t] \in Task
  BY DEF OnRetry, Sending, IndInv, TypeOK, IsPartialFn
<1>3. at \in Nat
  BY <1>1, ConfigAssumption DEF IndInv, TypeOK
<1>4. m \in Task /\ m.key = tasks[t].key /\ m.st = "waiting"
  <2>1. now \in Nat /\ tasks[t].attempts + 1 \in Nat
    BY <1>2 DEF Task, IndInv, TypeOK
  <2>2. QED
    BY <1>2, <1>3, <2>1 DEF Retried, Task, Active
<1>5. tasks' = [tasks EXCEPT ![t] = m]
  BY <1>1
<1>6. r \in Record /\ r.T # "enq"
  BY <1>2, <1>3 DEF Task, Att, Record, AttRecord, IndInv, TypeOK
<1>7. Keeps({}) /\ dirty' \in BOOLEAN /\ handle' \in {"ok", "failed", "detached"}
      /\ ioErrors' \in Nat /\ ioErrors <= ioErrors' /\ FaultInv'
  <2> HIDE DEF r
  <2>1. \/ Store!AppendLazy(r) /\ UNCHANGED ioErrors
        \/ Store!AppendLazyFails /\ Fault
    BY <1>1 DEF r
  <2>2. QED
    BY <1>6, <2>1, AppendOutcomes DEF IndInv
<1>8. due' = due \cup {t} \/ (due' = due /\ ioErrors' > 0)
  BY <1>1, FaultCounted DEF IndInv
<1>9. active' = active + One(m.st \in Active) - One(tasks[t].st \in Active)
  BY <1>2, <1>4 DEF One, Active, OnRetry, IndInv, TypeOK
<1>10. touched \subseteq touched' /\ touched' \subseteq TaskId
  BY DEF OnRetry, Touch, IndInv, TypeOK
<1> HIDE DEF m
<1>11. Updates(t, m)
  BY <1>2, <1>4, <1>5, <1>7, <1>8, <1>9, <1>10
     DEF Updates, OnRetry, IndInv, TypeOK, maintVars
<1>12. QED
  BY <1>11

LEMMA OnSuccessUpdates ==
  ASSUME IndInv, NEW t \in TaskId, OnSuccess(t)
  PROVE  \E m : Updates(t, m)
<1> DEFINE m == Succeeded(tasks[t])
           r == Ok(t, now, tasks[t].attempts + 1)
<1>1. t \in DOMAIN tasks /\ tasks[t].st = "sending" /\ tasks[t] \in Task
  BY DEF OnSuccess, Sending, IndInv, TypeOK, IsPartialFn
<1>2. m \in Task /\ m.key = tasks[t].key /\ m.st = "succeeded"
  <2>1. now \in Nat /\ tasks[t].attempts + 1 \in Nat
    BY <1>1 DEF Task, IndInv, TypeOK
  <2>2. QED
    BY <1>1, <2>1 DEF Succeeded, Task, Terminal
<1>3. tasks' = [tasks EXCEPT ![t] = m]
  BY DEF OnSuccess
<1>4. r \in Record /\ r.T # "enq"
  BY <1>1 DEF Task, Ok, Record, OkRecord, IndInv, TypeOK
<1>5. Keeps({}) /\ dirty' \in BOOLEAN /\ handle' \in {"ok", "failed", "detached"}
      /\ ioErrors' \in Nat /\ ioErrors <= ioErrors' /\ FaultInv'
  <2> HIDE DEF r
  <2>1. \/ Store!AppendLazy(r) /\ UNCHANGED ioErrors
        \/ Store!AppendLazyFails /\ Fault
    BY DEF r, OnSuccess
  <2>2. QED
    BY <1>4, <2>1, AppendOutcomes DEF IndInv
<1>6. due' = due \ {t}
  BY <1>1 DEF OnSuccess, IndInv, HeapMatches, Scheduled
<1>7. active' = active + One(m.st \in Active) - One(tasks[t].st \in Active)
  BY <1>1, <1>2 DEF One, Active, OnSuccess, IndInv, TypeOK
<1>8. touched \subseteq touched' /\ {touched', late'} \subseteq SUBSET TaskId
  BY DEF OnSuccess, Touch, IndInv, TypeOK
<1>9. unstripped' \in Nat
  BY DEF OnSuccess, IndInv, TypeOK
<1> HIDE DEF m
<1>10. Updates(t, m)
  BY <1>1, <1>2, <1>3, <1>5, <1>6, <1>7, <1>8, <1>9
     DEF Updates, OnSuccess, IndInv, TypeOK, maintVars
<1>11. QED
  BY <1>10

LEMMA OnDeadUpdates ==
  ASSUME IndInv, NEW t \in TaskId, OnDead(t)
  PROVE  \E m : Updates(t, m)
<1>1. PICK why \in Reason :
        /\ tasks' = [tasks EXCEPT ![t] = Died(@, why)]
        /\ \/ /\ Store!AppendLazy(Dead(t, now, tasks[t].attempts + 1, why))
              /\ UNCHANGED ioErrors
           \/ Store!AppendLazyFails /\ Fault
  BY DEF OnDead
<1> DEFINE m == Died(tasks[t], why)
           r == Dead(t, now, tasks[t].attempts + 1, why)
<1>2. t \in DOMAIN tasks /\ tasks[t].st = "sending" /\ tasks[t] \in Task
  BY DEF OnDead, Sending, IndInv, TypeOK, IsPartialFn
<1>3. m \in Task /\ m.key = tasks[t].key /\ m.st = "dead"
  <2>1. now \in Nat /\ tasks[t].attempts + 1 \in Nat
    BY <1>2 DEF Task, IndInv, TypeOK
  <2>2. QED
    BY <1>2, <2>1 DEF Died, Task, Terminal
<1>4. tasks' = [tasks EXCEPT ![t] = m]
  BY <1>1
<1>5. r \in Record /\ r.T # "enq"
  BY <1>2 DEF Task, Dead, Record, DeadRecord, IndInv, TypeOK
<1>6. Keeps({}) /\ dirty' \in BOOLEAN /\ handle' \in {"ok", "failed", "detached"}
      /\ ioErrors' \in Nat /\ ioErrors <= ioErrors' /\ FaultInv'
  <2> HIDE DEF r
  <2>1. \/ Store!AppendLazy(r) /\ UNCHANGED ioErrors
        \/ Store!AppendLazyFails /\ Fault
    BY <1>1 DEF r
  <2>2. QED
    BY <1>5, <2>1, AppendOutcomes DEF IndInv
<1>7. due' = due \ {t}
  BY <1>2 DEF OnDead, IndInv, HeapMatches, Scheduled
<1>8. active' = active + One(m.st \in Active) - One(tasks[t].st \in Active)
  BY <1>2, <1>3 DEF One, Active, OnDead, IndInv, TypeOK
<1>9. touched \subseteq touched' /\ touched' \subseteq TaskId
  BY DEF OnDead, Touch, IndInv, TypeOK
<1> HIDE DEF m
<1>10. Updates(t, m)
  BY <1>2, <1>3, <1>4, <1>6, <1>7, <1>8, <1>9
     DEF Updates, OnDead, IndInv, TypeOK, maintVars
<1>11. QED
  BY <1>10

LEMMA ReviveUpdates ==
  ASSUME IndInv, NEW t \in TaskId, Revive(t)
  PROVE  \E m : Updates(t, m)
<1> DEFINE m == Revived(tasks[t])
           r == Att(t, now, 0, now)
<1>1. t \in DOMAIN tasks /\ tasks[t].st = "dead" /\ tasks[t] \in Task
  BY DEF Revive, IndInv, TypeOK, IsPartialFn
<1>2. m \in Task /\ m.key = tasks[t].key /\ m.st = "pending"
  BY <1>1 DEF Revived, Task, Active, IndInv, TypeOK
<1>3. tasks' = [tasks EXCEPT ![t] = m]
  BY DEF Revive
<1>4. r \in Record /\ r.T # "enq"
  BY DEF Att, Record, AttRecord, IndInv, TypeOK
<1>5. Keeps({}) /\ dirty' \in BOOLEAN /\ handle' \in {"ok", "failed", "detached"}
      /\ ioErrors' \in Nat /\ ioErrors <= ioErrors' /\ FaultInv'
  <2> HIDE DEF r
  <2>1. \/ Store!AppendLazy(r) /\ UNCHANGED ioErrors
        \/ Store!AppendLazyFails /\ Fault
    BY DEF r, Revive
  <2>2. QED
    BY <1>4, <2>1, AppendOutcomes DEF IndInv
<1>6. due' = due \cup {t} \/ (due' = due /\ ioErrors' > 0)
  BY FaultCounted DEF Revive, IndInv
<1>7. active' = active + One(m.st \in Active) - One(tasks[t].st \in Active)
  BY <1>1, <1>2 DEF One, Active, Terminal, Revive, IndInv, TypeOK
<1>8. touched \subseteq touched' /\ {touched', revived'} \subseteq SUBSET TaskId
  BY DEF Revive, Touch, IndInv, TypeOK
<1> HIDE DEF m
<1>9. Updates(t, m)
  BY <1>1, <1>2, <1>3, <1>5, <1>6, <1>7, <1>8
     DEF Updates, Revive, IndInv, TypeOK, maintVars
<1>10. QED
  BY <1>9

LEMMA UpdatesPreserve ==
  ASSUME IndInv, NEW t, NEW m, Updates(t, m)
  PROVE  IndInv'
<1>1. /\ tasks \in [DOMAIN tasks -> Task] /\ DOMAIN tasks \subseteq TaskId
      /\ t \in DOMAIN tasks /\ m \in Task /\ m.key = tasks[t].key
      /\ DOMAIN tasks' = DOMAIN tasks /\ tasks'[t] = m
      /\ \A u \in DOMAIN tasks : u # t => tasks'[u] = tasks[u]
  BY DEF Updates, IndInv, TypeOK, IsPartialFn
<1>2. TypeOK'
  <2>1. IsPartialFn(tasks', TaskId, Task)
    BY <1>1 DEF Updates, IsPartialFn
  <2>2. due' \subseteq TaskId
    BY <1>1 DEF Updates, IndInv, TypeOK
  <2>3. active' \in Int
    BY DEF Updates, One, IndInv, TypeOK
  <2>4. Store!JournalTypeOK'
    BY DEF Updates, Keeps, Store!JournalTypeOK
  <2>5. QED
    BY <2>1, <2>2, <2>3, <2>4 DEF Updates, IndInv, TypeOK
<1>3. FaultInv' /\ KeysConsistent(log')
  BY DEF Updates, Keeps
<1>4. HeapMatches'
  <2>1. Scheduled' = IF m.st \in {"pending", "waiting"} THEN Scheduled \cup {t}
                                                        ELSE Scheduled \ {t}
    BY <1>1 DEF Scheduled
  <2>2. ioErrors' = 0 => ioErrors = 0
    BY DEF Updates, IndInv, TypeOK
  <2>3. CASE m.st \in {"pending", "waiting"}
    BY <2>1, <2>2, <2>3 DEF Updates, HeapMatches, IndInv
  <2>4. CASE m.st \notin {"pending", "waiting"}
    BY <2>1, <2>2, <2>4 DEF Updates, HeapMatches, IndInv
  <2>5. QED
    BY <2>3, <2>4
<1>5. CountInv'
  <2> DEFINE A == ActiveIn(tasks)
  <2>1. IsFiniteSet(DOMAIN tasks) /\ A \in SUBSET DOMAIN tasks /\ active = Cardinality(A)
    BY DEF IndInv, CountInv, ActiveCount, ActiveIn
  <2>2. ActiveIn(tasks') = IF m.st \in Active THEN A \cup {t} ELSE A \ {t}
    BY <1>1 DEF ActiveIn
  <2>3. t \in A <=> tasks[t].st \in Active
    BY <1>1 DEF ActiveIn
  <2> HIDE DEF A
  <2>4. IsFiniteSet(A)
    BY <2>1, FS_Subset
  <2>5. Cardinality(A) \in Nat
    BY <2>4, FS_CardinalityType
  <2>6. /\ Cardinality(A \cup {t}) = IF t \in A THEN Cardinality(A) ELSE Cardinality(A) + 1
        /\ Cardinality(A \ {t}) = IF t \in A THEN Cardinality(A) - 1 ELSE Cardinality(A)
    BY <2>4, FS_AddElement, FS_RemoveElement
  <2>7. active' = Cardinality(A) + One(m.st \in Active) - One(tasks[t].st \in Active)
    BY <2>1 DEF Updates
  <2>8. active' = Cardinality(ActiveIn(tasks'))
    BY <2>2, <2>3, <2>5, <2>6, <2>7 DEF One
  <2>9. QED
    BY <1>1, <2>1, <2>8 DEF CountInv, ActiveCount
<1>6. IdemInv'
  BY <1>1 DEF Updates, IndInv, IdemInv
<1>7. IssuedInv'
  BY <1>1 DEF Updates, Keeps, IndInv, IssuedInv
<1>8. SnapInv'
  BY <1>1 DEF Updates, IndInv, SnapInv
<1>9. KeptInv'
  BY <1>1 DEF Updates, Keeps, IndInv, KeptInv, Kept, Durable
<1>10. QED
  BY <1>2, <1>3, <1>4, <1>5, <1>6, <1>7, <1>8, <1>9 DEF IndInv

-----------------------------------------------------------------------------
(* Submissions. *)

LEMMA EnqIsRecord ==
  ASSUME IndInv, NEW t \in TaskId, NEW k \in Key
  PROVE  /\ Enq(t, now, k, TRUE) \in Record
         /\ Enq(t, now, k, TRUE).T = "enq" /\ Enq(t, now, k, TRUE).id = t
         /\ Fresh(Enq(t, now, k, TRUE)) \in Task
         /\ Fresh(Enq(t, now, k, TRUE)).key = k
         /\ Fresh(Enq(t, now, k, TRUE)).st = "pending"
BY DEF Enq, Record, EnqRecord, Fresh, Task, Active, IndInv, TypeOK

LEMMA SubmitPreserves ==
  ASSUME IndInv, NEW t \in TaskId, NEW k \in Key, Submit(t, k)
  PROVE  IndInv'
<1> DEFINE r == Enq(t, now, k, TRUE)
           m == Fresh(r)
<1>1. /\ r \in Record /\ r.T = "enq" /\ r.id = t
      /\ m \in Task /\ m.key = k /\ m.st = "pending"
  BY EnqIsRecord
<1>2. /\ tasks' = Put(tasks, t, m) /\ idem' = Put(idem, k, t)
      /\ log' = Append(log, r) /\ synced' = Len(log) + 1 /\ dirty' = FALSE
  BY DEF Submit, Store!AppendSync
<1> HIDE DEF r, m
<1>3. /\ tasks \in [DOMAIN tasks -> Task] /\ DOMAIN tasks \subseteq TaskId
      /\ idem \in [DOMAIN idem -> TaskId] /\ DOMAIN idem \subseteq Key
      /\ t \notin DOMAIN tasks /\ k \notin DOMAIN idem /\ t \notin EnqIds(log)
  BY DEF IndInv, TypeOK, IsPartialFn, IssuedInv, Submit
<1>4. /\ DOMAIN tasks' = DOMAIN tasks \cup {t} /\ tasks' \in [DOMAIN tasks' -> Task]
      /\ tasks'[t] = m /\ \A u \in DOMAIN tasks : tasks'[u] = tasks[u]
  BY <1>1, <1>2, <1>3 DEF Put
<1>5. /\ DOMAIN idem' = DOMAIN idem \cup {k} /\ idem' \in [DOMAIN idem' -> TaskId]
      /\ idem'[k] = t /\ \A j \in DOMAIN idem : idem'[j] = idem[j]
  BY <1>2, <1>3 DEF Put
<1>6. Keeps({t}) /\ t \in EnqIds(Prefix(log', synced'))
  BY <1>1, <1>2, <1>3, GrowKeeps DEF IndInv, TypeOK, JournalOK
<1>7. TypeOK'
  <2>1. Store!JournalTypeOK'
    BY <1>6 DEF Keeps, Submit, Store!AppendSync, Store!JournalTypeOK, IndInv, TypeOK
  <2>2. IsPartialFn(tasks', TaskId, Task) /\ IsPartialFn(idem', Key, TaskId)
    BY <1>3, <1>4, <1>5 DEF IsPartialFn
  <2>3. touched' \subseteq TaskId
    BY DEF Submit, Touch, IndInv, TypeOK
  <2>4. answered' \subseteq Key \X TaskId /\ active' \in Int
    BY DEF Submit, IndInv, TypeOK
  <2>5. QED
    BY <2>1, <2>2, <2>3, <2>4 DEF Submit, IndInv, TypeOK, maintVars, faults
<1>8. FaultInv' /\ KeysConsistent(log')
  BY <1>6 DEF Keeps, Submit, Store!AppendSync, IndInv, FaultInv, faults
<1>9. HeapMatches'
  <2>1. Scheduled' = Scheduled \cup {t}
    BY <1>1, <1>3, <1>4 DEF Scheduled
  <2>2. QED
    BY <2>1 DEF IndInv, HeapMatches, Submit, faults
<1>10. CountInv'
  <2> DEFINE A == ActiveIn(tasks)
  <2>1. /\ IsFiniteSet(DOMAIN tasks) /\ A \in SUBSET DOMAIN tasks
        /\ active = Cardinality(A)
    BY DEF IndInv, CountInv, ActiveCount, ActiveIn
  <2>2. ActiveIn(tasks') = A \cup {t} /\ t \notin A
    BY <1>1, <1>3, <1>4 DEF ActiveIn, Active
  <2> HIDE DEF A
  <2>3. IsFiniteSet(A)
    BY <2>1, FS_Subset
  <2>4. Cardinality(A \cup {t}) = Cardinality(A) + 1
    BY <2>2, <2>3, FS_AddElement
  <2>5. IsFiniteSet(DOMAIN tasks \cup {t})
    BY <2>1, FS_AddElement
  <2>6. active' = Cardinality(ActiveIn(tasks'))
    BY <2>1, <2>2, <2>4 DEF Submit
  <2>7. QED
    BY <1>4, <2>5, <2>6 DEF CountInv, ActiveCount
<1>11. IdemInv'
  BY <1>1, <1>3, <1>4, <1>5 DEF IndInv, IdemInv
<1>12. IssuedInv'
  BY <1>4, <1>6 DEF Keeps, IndInv, IssuedInv, Submit, maintVars
<1>13. SnapInv'
  BY <1>4 DEF IndInv, SnapInv, Submit, Touch, maintVars
<1>14. KeptInv'
  BY <1>4, <1>6 DEF Keeps, IndInv, KeptInv, Kept, Durable, Submit
<1>15. QED
  BY <1>7, <1>8, <1>9, <1>10, <1>11, <1>12, <1>13, <1>14 DEF IndInv

\* An operation that leaves memory alone and loses nothing from the journal.
LEMMA JournalOnlyPreserves ==
  ASSUME IndInv, NEW ids \in SUBSET TaskId, Keeps(ids),
         UNCHANGED <<memVars, maintVars, acked, revived, dropped, touched,
                     raced, exposed, late, shuffled, crashes>>,
         now' \in Nat, issued \cup ids \subseteq issued', issued' \subseteq TaskId,
         answered' \subseteq Key \X TaskId,
         dirty' \in BOOLEAN, handle' \in {"ok", "failed", "detached"},
         ioErrors' \in Nat, ioErrors <= ioErrors', FaultInv'
  PROVE  IndInv'
<1>1. TypeOK'
  <2>1. Store!JournalTypeOK'
    BY DEF Keeps, Store!JournalTypeOK
  <2>2. QED
    BY <2>1 DEF IndInv, TypeOK, IsPartialFn, memVars, maintVars
<1>2. HeapMatches'
  BY DEF IndInv, TypeOK, HeapMatches, Scheduled, memVars
<1>3. CountInv' /\ IdemInv' /\ SnapInv'
  BY DEF IndInv, CountInv, ActiveCount, IdemInv, SnapInv, memVars, maintVars
<1>4. IssuedInv'
  BY DEF Keeps, IndInv, IssuedInv, memVars, maintVars
<1>5. KeptInv'
  BY DEF Keeps, IndInv, KeptInv, Kept, Durable, memVars
<1>6. QED
  BY <1>1, <1>2, <1>3, <1>4, <1>5 DEF IndInv, Keeps

LEMMA SubmitFailsPreserves ==
  ASSUME IndInv, NEW t \in TaskId, NEW k \in Key, SubmitFails(t, k)
  PROVE  IndInv'
<1> DEFINE r == Enq(t, now, k, TRUE)
<1>1. r \in Record /\ r.T = "enq" /\ r.id = t
  BY EnqIsRecord
<1>2. t \notin EnqIds(log) /\ JournalOK
  BY DEF SubmitFails, IndInv, IssuedInv, TypeOK, JournalOK
<1>3. Store!AppendSyncFails(r)
  BY DEF SubmitFails
<1> HIDE DEF r
<1>4. Keeps({t})
  BY <1>1, <1>2, <1>3, SyncFailsKeeps
<1>5. ioErrors' \in Nat /\ ioErrors' > 0 /\ ioErrors <= ioErrors'
  BY FaultCounted DEF IndInv, SubmitFails
<1>6. dirty' \in BOOLEAN /\ handle' \in {"ok", "failed", "detached"}
  BY <1>3 DEF IndInv, TypeOK, Store!JournalTypeOK, Store!AppendSyncFails, Store!WriteError,
     Store!SyncError, Store!StillFailed, Store!DetachedSync, Store!journalVars
<1>7. QED
  BY <1>4, <1>5, <1>6, JournalOnlyPreserves
     DEF SubmitFails, IndInv, TypeOK, FaultInv

LEMMA NothingAppended ==
  ASSUME IndInv, UNCHANGED logVars
  PROVE  Keeps({})
BY DEF IndInv, TypeOK, Store!JournalTypeOK, Keeps, Durable, logVars

LEMMA DuplicatePreserves ==
  ASSUME IndInv, NEW k \in Key, SubmitDuplicate(k)
  PROVE  IndInv'
<1>1. answered' \subseteq Key \X TaskId
  BY DEF SubmitDuplicate, IndInv, TypeOK, IsPartialFn
<1>2. Keeps({})
  BY NothingAppended DEF SubmitDuplicate
<1>3. UNCHANGED <<dirty, handle, ioErrors>> /\ FaultInv'
  BY DEF SubmitDuplicate, logVars, faults, IndInv, FaultInv
<1>4. QED
  BY <1>1, <1>2, <1>3, JournalOnlyPreserves
     DEF SubmitDuplicate, IndInv, TypeOK, Store!JournalTypeOK, faults

-----------------------------------------------------------------------------
(* Time and the sync loop. *)

LEMMA TickPreserves ==
  ASSUME IndInv, Tick
  PROVE  IndInv'
<1>1. Keeps({})
  BY NothingAppended DEF Tick
<1>2. UNCHANGED <<dirty, handle, ioErrors>> /\ FaultInv'
  BY DEF Tick, logVars, faults, IndInv, FaultInv
<1>3. now' \in Nat /\ dirty' \in BOOLEAN /\ handle' \in {"ok", "failed", "detached"}
      /\ ioErrors' \in Nat /\ ioErrors <= ioErrors'
  BY <1>2 DEF Tick, IndInv, TypeOK, Store!JournalTypeOK
<1>4. issued' \subseteq TaskId /\ answered' \subseteq Key \X TaskId
  BY DEF Tick, IndInv, TypeOK, history
<1>5. QED
  BY <1>1, <1>2, <1>3, <1>4, JournalOnlyPreserves DEF Tick, faults, history

LEMMA SyncLoopPreserves ==
  ASSUME IndInv, SyncLoop
  PROVE  IndInv'
<1>1. issued' = issued /\ issued' \subseteq TaskId /\ answered' \subseteq Key \X TaskId
  BY DEF SyncLoop, IndInv, TypeOK, history
<1>2. now' \in Nat
  BY DEF SyncLoop, IndInv, TypeOK
<1>3. JournalOK
  BY DEF IndInv, TypeOK, JournalOK
<1>4. CASE Store!Flush /\ UNCHANGED ioErrors
  <2>1. Keeps({})
    BY <1>3, <1>4, FlushKeeps
  <2>2. handle' \in {"ok", "failed", "detached"} /\ dirty' = FALSE /\ FaultInv'
    BY <1>4 DEF Store!Flush, IndInv, FaultInv
  <2>3. ioErrors' \in Nat /\ ioErrors <= ioErrors'
    BY <1>4 DEF IndInv, TypeOK
  <2>4. QED
    BY <1>1, <1>2, <2>1, <2>2, <2>3, JournalOnlyPreserves DEF SyncLoop, history
<1>5. CASE Store!FlushFails /\ Fault
  <2>1. Keeps({})
    BY <1>3, <1>5, CrashKeeps DEF Store!FlushFails, Store!WriteError
  <2>2. ioErrors' \in Nat /\ ioErrors' > 0 /\ ioErrors <= ioErrors'
    BY <1>5, FaultCounted DEF IndInv
  <2>3. handle' = "failed" /\ dirty' = TRUE
    BY <1>5 DEF Store!FlushFails, Store!WriteError
  <2>4. FaultInv'
    BY <2>2 DEF FaultInv
  <2>5. QED
    BY <1>1, <1>2, <2>1, <2>2, <2>3, <2>4, JournalOnlyPreserves DEF SyncLoop, history
<1>6. QED
  BY <1>4, <1>5 DEF SyncLoop

-----------------------------------------------------------------------------
(* Maintenance. *)

\* Dropping terminal tasks keeps every task that is still to be delivered, and
\* leaves no dangling entry in the index.
LEMMA DropAllPreserves ==
  ASSUME IndInv, NEW V \in SUBSET {t \in DOMAIN tasks : tasks[t].st \in Terminal},
         DropAll(V), phase \in {"idle", "cap"}, phase' \in {"cap", "check"}, passes' \in Nat,
         UNCHANGED <<due, active, unstripped, logVars, snap, issued, acked, answered,
                     revived, touched, raced, exposed, late, shuffled, faults, now>>
  PROVE  IndInv'
<1>1. /\ tasks \in [DOMAIN tasks -> Task] /\ DOMAIN tasks \subseteq TaskId
      /\ idem \in [DOMAIN idem -> TaskId] /\ DOMAIN idem \subseteq Key
  BY DEF IndInv, TypeOK, IsPartialFn
<1>2. /\ DOMAIN tasks' = DOMAIN tasks \ V
      /\ \A t \in DOMAIN tasks' : tasks'[t] = tasks[t]
      /\ tasks' \in [DOMAIN tasks' -> Task]
  BY <1>1 DEF DropAll, Restrict
<1>3. /\ DOMAIN idem' \subseteq DOMAIN idem
      /\ \A k \in DOMAIN idem' : /\ idem'[k] = idem[k]
                                 /\ \A t \in V : ~(tasks[t].key = k /\ idem[k] = t)
      /\ idem' \in [DOMAIN idem' -> TaskId]
  BY <1>1 DEF DropAll, Restrict
<1>4. Store!JournalTypeOK'
  BY DEF IndInv, TypeOK, Store!JournalTypeOK, logVars
<1>5. dropped' = dropped \cup V
  BY DEF DropAll
<1>6. TypeOK'
  <2>1. IsPartialFn(tasks', TaskId, Task) /\ IsPartialFn(idem', Key, TaskId)
    BY <1>1, <1>2, <1>3 DEF IsPartialFn
  <2>2. dropped' \subseteq TaskId
    BY <1>1, <1>5 DEF IndInv, TypeOK
  <2>3. QED
    BY <1>4, <2>1, <2>2 DEF IndInv, TypeOK, faults
<1>7. FaultInv' /\ KeysConsistent(log') /\ SnapInv'
  BY DEF IndInv, FaultInv, SnapInv, logVars, faults
<1>8. HeapMatches'
  <2>1. Scheduled' = Scheduled
    BY <1>2 DEF Scheduled, Terminal
  <2>2. QED
    BY <2>1 DEF IndInv, HeapMatches, faults
<1>9. CountInv'
  <2>1. ActiveIn(tasks') = ActiveIn(tasks)
    BY <1>2 DEF ActiveIn, Active, Terminal
  <2>2. IsFiniteSet(DOMAIN tasks) /\ DOMAIN tasks' \in SUBSET (DOMAIN tasks)
    BY <1>2 DEF IndInv, CountInv
  <2>3. IsFiniteSet(DOMAIN tasks')
    BY <2>2, FS_Subset
  <2>4. QED
    BY <2>1, <2>3 DEF IndInv, CountInv, ActiveCount
<1>10. IdemInv'
  BY <1>2, <1>3 DEF IndInv, IdemInv
<1>11. IssuedInv'
  BY <1>2 DEF IndInv, IssuedInv, logVars
<1>12. KeptInv'
  BY <1>2, <1>5 DEF IndInv, KeptInv, Kept, Durable, logVars
<1>13. QED
  BY <1>6, <1>7, <1>8, <1>9, <1>10, <1>11, <1>12 DEF IndInv

LEMMA PurgePreserves ==
  ASSUME IndInv, PurgeExpired
  PROVE  IndInv'
<1>1. Expired \in SUBSET {t \in DOMAIN tasks : tasks[t].st \in Terminal}
  BY DEF Expired, Terminal
<1>2. passes' \in Nat
  BY DEF PurgeExpired, IndInv, TypeOK
<1> HIDE DEF Expired
<1>3. QED
  BY <1>1, <1>2, DropAllPreserves DEF PurgeExpired

LEMMA EnforceTaskCapPreserves ==
  ASSUME IndInv, EnforceTaskCap
  PROVE  IndInv'
<1>1. PICK V \in Victims : DropAll(V)
  BY DEF EnforceTaskCap
<1>2. V \in SUBSET {t \in DOMAIN tasks : tasks[t].st \in Terminal}
  BY <1>1 DEF Victims
<1>3. QED
  BY <1>1, <1>2, DropAllPreserves DEF EnforceTaskCap, IndInv, TypeOK

LEMMA MaybeCompactPreserves ==
  ASSUME IndInv, MaybeCompact
  PROVE  IndInv'
<1>1. phase' \in {"snapshot", "idle"}
  BY DEF MaybeCompact
<1>2. TypeOK'
  BY <1>1 DEF MaybeCompact, IndInv, TypeOK, IsPartialFn, Store!JournalTypeOK, memVars, logVars,
         history, faults
<1>3. FaultInv' /\ KeysConsistent(log') /\ SnapInv' /\ IssuedInv' /\ KeptInv'
  BY <1>1 DEF MaybeCompact, IndInv, FaultInv, SnapInv, IssuedInv, KeptInv, Kept, Durable,
         memVars, logVars, history, faults
<1>4. HeapMatches' /\ CountInv' /\ IdemInv'
  BY DEF MaybeCompact, IndInv, HeapMatches, Scheduled, CountInv, ActiveCount, IdemInv,
         memVars, faults
<1>5. QED
  BY <1>2, <1>3, <1>4 DEF IndInv

LEMMA ResetPreserves ==
  ASSUME IndInv, ResetUnstripped
  PROVE  IndInv'
<1>1. TypeOK'
  BY DEF ResetUnstripped, IndInv, TypeOK, IsPartialFn, Store!JournalTypeOK, logVars, history,
         faults
<1>2. FaultInv' /\ KeysConsistent(log') /\ SnapInv' /\ IssuedInv' /\ KeptInv'
  BY DEF ResetUnstripped, IndInv, FaultInv, SnapInv, IssuedInv, KeptInv, Kept, Durable,
         logVars, history, faults
<1>3. HeapMatches' /\ CountInv' /\ IdemInv'
  BY DEF ResetUnstripped, IndInv, HeapMatches, Scheduled, CountInv, ActiveCount, IdemInv,
         faults
<1>4. QED
  BY <1>1, <1>2, <1>3 DEF IndInv

-----------------------------------------------------------------------------
(* Compaction. *)

LEMMA StateRecordType ==
  ASSUME IndInv, NEW t \in DOMAIN tasks
  PROVE  StateRecord(t) \in Record /\ StateRecord(t).T # "enq"
<1>1. tasks[t] \in Task /\ t \in TaskId
  BY DEF IndInv, TypeOK, IsPartialFn
<1>2. QED
  BY <1>1 DEF StateRecord, Ok, Dead, Att, Task, Record, OkRecord, DeadRecord, AttRecord

LEMMA OrderType ==
  ASSUME NEW S, IsFiniteSet(S), NEW order \in Orders(S)
  PROVE  order \in Seq(S) /\ \A t \in S : \E i \in 1..Len(order) : order[i] = t
<1>1. Cardinality(S) \in Nat
  BY FS_CardinalityType
<1>2. order \in [1..Cardinality(S) -> S]
      /\ \A t \in S : \E i \in 1..Cardinality(S) : order[i] = t
  BY DEF Orders, Bijection, Surjection
<1>3. QED
  BY <1>1, <1>2

\* A snapshot introduces exactly the tasks in memory, each under its key.
LEMMA SnapshotIds ==
  ASSUME IndInv, NEW order \in Orders(DOMAIN tasks),
         NEW S \in SUBSET (DOMAIN tasks), NEW rest \in Orders(S)
  PROVE  /\ SnapshotIn(order, rest) \in Seq(Record)
         /\ EnqIds(SnapshotIn(order, rest)) = DOMAIN tasks
         /\ KeysConsistent(SnapshotIn(order, rest))
         /\ SameKeys(SnapshotIn(order, rest), tasks)
<1> DEFINE e(i) == Enq(order[i], tasks[order[i]].createdAt, tasks[order[i]].key,
                       tasks[order[i]].full /\ tasks[order[i]].st # "succeeded")
           a == [i \in 1..Len(order) |-> e(i)]
           b == [i \in 1..Len(rest) |-> StateRecord(rest[i])]
           l == a \o b
<1>1. IsFiniteSet(DOMAIN tasks) /\ IsFiniteSet(S)
  BY FS_Subset DEF IndInv, CountInv
<1>2. /\ order \in Seq(DOMAIN tasks) /\ rest \in Seq(S)
      /\ \A t \in DOMAIN tasks : \E i \in 1..Len(order) : order[i] = t
  BY <1>1, OrderType
<1>3. /\ a \in Seq(Record) /\ Len(a) = Len(order)
      /\ \A i \in 1..Len(order) : /\ a[i].T = "enq" /\ a[i].id = order[i]
                                  /\ a[i].key = tasks[order[i]].key
  <2>1. \A i \in 1..Len(order) : tasks[order[i]] \in Task /\ order[i] \in TaskId
    BY <1>2 DEF IndInv, TypeOK, IsPartialFn
  <2>2. \A i \in 1..Len(order) : e(i) \in Record
    BY <2>1 DEF Enq, Task, Record, EnqRecord
  <2>3. \A i \in 1..Len(order) : a[i] = e(i)
    OBVIOUS
  <2>4. \A i \in 1..Len(order) : /\ e(i).T = "enq" /\ e(i).id = order[i]
                                 /\ e(i).key = tasks[order[i]].key
    BY DEF Enq
  <2> HIDE DEF e
  <2>5. a \in Seq(Record) /\ Len(a) = Len(order)
    BY <1>2, <2>2
  <2>6. QED
    BY <2>3, <2>4, <2>5
<1>4. /\ b \in Seq(Record) /\ \A i \in 1..Len(b) : b[i].T # "enq"
  <2>1. \A i \in 1..Len(rest) : StateRecord(rest[i]) \in Record
                                /\ StateRecord(rest[i]).T # "enq"
    BY <1>2, StateRecordType
  <2>2. QED
    BY <1>2, <2>1
<1> HIDE DEF a, b
<1>5. /\ l \in Seq(Record) /\ Len(l) = Len(a) + Len(b)
      /\ \A i \in 1..Len(a) : l[i] = a[i]
      /\ \A i \in 1..Len(l) : i > Len(a) => l[i] = b[i - Len(a)] /\ i - Len(a) \in 1..Len(b)
  BY <1>3, <1>4
<1> HIDE DEF l
<1>6. \A i \in 1..Len(l) : l[i].T = "enq" => i \in 1..Len(a) /\ l[i] = a[i]
  <2> SUFFICES ASSUME NEW i \in 1..Len(l), l[i].T = "enq"
               PROVE  i \in 1..Len(a) /\ l[i] = a[i]
    OBVIOUS
  <2>1. Len(a) \in Nat
    BY <1>3
  <2>2. ~ (i > Len(a))
    BY <1>4, <1>5
  <2>3. i \in 1..Len(a)
    BY <2>1, <2>2
  <2>4. QED
    BY <1>5, <2>3
<1>7. \A t : t \in EnqIds(l) <=> t \in DOMAIN tasks
  <2> SUFFICES ASSUME NEW t PROVE t \in EnqIds(l) <=> t \in DOMAIN tasks
    OBVIOUS
  <2>1. t \in EnqIds(l) <=> \E i \in 1..Len(l) : l[i].T = "enq" /\ l[i].id = t
    BY <1>5, EnqIdsByPosition
  <2>2. \A i \in 1..Len(a) : i \in 1..Len(l) /\ l[i].T = "enq" /\ l[i].id = order[i]
    <3>1. Len(a) \in Nat /\ Len(b) \in Nat
      BY <1>3, <1>4
    <3>2. \A i \in 1..Len(a) : i \in 1..Len(l)
      BY <1>5, <3>1
    <3>3. QED
      BY <1>3, <1>5, <3>2
  <2>3. \A i \in 1..Len(order) : order[i] \in DOMAIN tasks
    BY <1>2
  <2>4. QED
    BY <1>2, <1>3, <1>6, <2>1, <2>2, <2>3
<1>8. KeysConsistent(l) /\ SameKeys(l, tasks)
  <2>1. \A i \in 1..Len(l) : l[i].T = "enq" => l[i].key = tasks[l[i].id].key
    BY <1>3, <1>6
  <2>2. SameKeys(l, tasks)
    BY <1>5, <2>1 DEF SameKeys
  <2>3. QED
    BY <1>3, <1>6, <2>2 DEF KeysConsistent
<1>9. SnapshotIn(order, rest) = l
  BY DEF SnapshotIn, l, a, b
<1>10. QED
  BY <1>5, <1>7, <1>8, <1>9

LEMMA TakeSnapshotPreserves ==
  ASSUME IndInv, TakeSnapshot
  PROVE  IndInv'
<1>1. PICK order \in Orders(DOMAIN tasks),
           rest \in Orders({t \in DOMAIN tasks : HasStateRecord(t)}) :
        snap' = SnapshotIn(order, rest)
  BY DEF TakeSnapshot
<1>2. snap' \in Seq(Record) /\ EnqIds(snap') = DOMAIN tasks /\ KeysConsistent(snap')
  BY <1>1, SnapshotIds
<1>3. phase' = "replace" /\ touched' = {}
  BY DEF TakeSnapshot
<1>4. TypeOK'
  BY <1>2, <1>3 DEF TakeSnapshot, IndInv, TypeOK, IsPartialFn, Store!JournalTypeOK, memVars,
     logVars, faults
<1>5. FaultInv' /\ KeysConsistent(log') /\ KeptInv' /\ HeapMatches' /\ CountInv' /\ IdemInv'
  BY DEF TakeSnapshot, IndInv, FaultInv, KeptInv, Kept, Durable, HeapMatches, Scheduled,
         CountInv, ActiveCount, IdemInv, memVars, logVars, faults
<1>6. IssuedInv' /\ SnapInv'
  BY <1>2, <1>3 DEF TakeSnapshot, IndInv, IssuedInv, SnapInv, memVars, logVars
<1>7. QED
  BY <1>4, <1>5, <1>6 DEF IndInv

LEMMA EmptyJournal ==
  <<>> \in Seq(Record) /\ EnqIds(<<>>) = {} /\ KeysConsistent(<<>>)
<1>1. <<>> \in Seq(Record) /\ Len(<<>>) = 0
  OBVIOUS
<1>2. \A i : i \notin 1..0
  OBVIOUS
<1>3. EnqIds(<<>>) = {}
  <2>1. \A t : t \in EnqIds(<<>>) <=>
                \E i \in 1..Len(<<>>) : <<>>[i].T = "enq" /\ <<>>[i].id = t
    BY <1>1, EnqIdsByPosition
  <2>2. QED
    BY <1>1, <1>2, <2>1
<1>4. QED
  BY <1>1, <1>2, <1>3 DEF KeysConsistent

LEMMA TwinKeysAreKeys ==
  ASSUME NEW l \in Seq(Record)
  PROVE  TwinKeys(l) \subseteq Key
<1>1. SUFFICES ASSUME NEW i \in DOMAIN l, l[i].T = "enq"
               PROVE  l[i].key \in Key
  BY DEF TwinKeys
<1>2. QED
  BY <1>1 DEF Record, EnqRecord, AttRecord, OkRecord, DeadRecord

\* Whatever a compaction, complete or cut off, leaves in the journal, a task
\* that is not run over by it stays durable.
LEMMA CompactStorePreserves ==
  ASSUME IndInv, CompactStore
  PROVE  IndInv'
<1>1. /\ log \in Seq(Record) /\ synced \in 0..Len(log) /\ KeysConsistent(log)
      /\ snap \in Seq(Record) /\ KeysConsistent(snap)
      /\ handle \in {"ok", "failed", "detached"} /\ dirty \in BOOLEAN
  BY DEF IndInv, TypeOK, Store!JournalTypeOK, SnapInv
<1>2. /\ phase = "replace" /\ phase' \in {"idle", "reset"} /\ touched' = {} /\ snap' = <<>>
      /\ exposed' = exposed \cup (touched \ EnqIds(log'))
      /\ raced' \in {raced, raced \cup touched}
      /\ shuffled' \in {shuffled \cup {}, shuffled \cup TwinKeys(snap)}
      /\ UNCHANGED <<memVars, passes, issued, acked, answered, revived, dropped, late,
                     crashes, now>>
  BY DEF CompactStore, Overwritten
<1> DEFINE Left == /\ log' \in Seq(Record) /\ synced' \in 0..Len(log')
                   /\ KeysConsistent(log')
                   /\ EnqIds(log') \subseteq EnqIds(log) \cup EnqIds(snap)
                   /\ \/ EnqIds(Prefix(log', synced')) = EnqIds(snap) /\ log' = snap
                      \/ Durable \subseteq EnqIds(Prefix(log', synced'))
           Usable == /\ ioErrors' \in Nat /\ FaultInv' /\ dirty' \in BOOLEAN
                     /\ handle' \in {"ok", "failed", "detached"}
                     /\ ioErrors <= ioErrors'
<1>3. ASSUME log' = snap, synced' = Len(log') PROVE Left
  <2>1. Prefix(snap, Len(snap)) = snap
    BY <1>1, WholePrefix
  <2>2. Left
    BY <1>1, <1>3, <2>1
  <2>3. QED
    BY <2>2
<1>4. ASSUME log' = log, synced' = synced PROVE Left
  BY <1>1, <1>4 DEF Durable
<1>5. ASSUME Store!KeepPrefix(log), synced' = synced PROVE Left
  <2>1. PICK n \in synced..Len(log) : log' = Prefix(log, n)
    BY <1>5 DEF Store!KeepPrefix, Prefix
  <2>2. QED
    BY <1>1, <1>5, <2>1, CutKeeps DEF Durable
<1>6. Left
  <2>1. CASE Store!Compact(snap)
    BY <1>3, <2>1 DEF Store!Compact
  <2>2. CASE Store!CompactFails(snap)
    BY <1>3, <1>4, <1>5, <2>2 DEF Store!CompactFails, Store!journalVars, logVars
  <2>3. QED
    BY <2>1, <2>2 DEF CompactStore
<1>7. Usable
  <2>1. CASE Store!Compact(snap) /\ UNCHANGED ioErrors
    <3>1. ioErrors' \in Nat /\ ioErrors <= ioErrors'
      BY <2>1 DEF IndInv, TypeOK
    <3>2. QED
      BY <2>1, <3>1 DEF Store!Compact, FaultInv
  <2>2. CASE Store!CompactFails(snap) /\ Fault
    <3>1. ioErrors' \in Nat /\ ioErrors' > 0 /\ ioErrors <= ioErrors'
      BY <2>2, FaultCounted DEF IndInv
    <3>2. QED
      BY <1>1, <2>2, <3>1 DEF Store!CompactFails, Store!journalVars, FaultInv
  <2>3. QED
    BY <2>1, <2>2 DEF CompactStore
<1> HIDE DEF Left, Usable
<1>8. TypeOK'
  <2>1. Store!JournalTypeOK'
    BY <1>6, <1>7 DEF Left, Usable, Store!JournalTypeOK
  <2>2. exposed' \subseteq TaskId /\ raced' \subseteq TaskId
    BY <1>2 DEF IndInv, TypeOK
  <2>3. shuffled' \subseteq Key
    BY <1>1, <1>2, TwinKeysAreKeys DEF IndInv, TypeOK
  <2>4. QED
    BY <1>2, <1>7, <2>1, <2>2, <2>3, EmptyJournal
       DEF Usable, IndInv, TypeOK, IsPartialFn, memVars
<1>9. FaultInv' /\ KeysConsistent(log')
  BY <1>6, <1>7 DEF Left, Usable
<1>10. HeapMatches' /\ CountInv' /\ IdemInv'
  BY <1>2, <1>7 DEF Usable, IndInv, TypeOK, HeapMatches, Scheduled, CountInv, ActiveCount,
     IdemInv, memVars
<1>11. IssuedInv' /\ SnapInv'
  BY <1>2, <1>6, EmptyJournal DEF Left, IndInv, IssuedInv, SnapInv, memVars
<1>12. KeptInv'
  BY <1>2, <1>6 DEF Left, IndInv, KeptInv, Kept, SnapInv, Durable, memVars
<1>13. QED
  BY <1>8, <1>9, <1>10, <1>11, <1>12 DEF IndInv

-----------------------------------------------------------------------------
(* Crash and restart. *)

\* The journal a crash leaves: all that was durable, perhaps one submission
\* nobody got an answer to, and no other task.
LEMMA CrashLeaves ==
  ASSUME IndInv, Crash
  PROVE  \E ids \in SUBSET TaskId : /\ Keeps(ids) /\ issued' = issued \cup ids
                                    /\ issued' \subseteq TaskId
                                    /\ handle' = "ok" /\ dirty' = FALSE
<1>1. JournalOK /\ log \in Seq(Record)
  BY DEF IndInv, TypeOK, JournalOK, Store!JournalTypeOK
<1>2. CASE Store!Crash(<<>>) /\ UNCHANGED issued
  <2>1. log \o <<>> = log
    BY <1>1
  <2>2. Store!KeepPrefix(log) /\ synced' \in {synced, Len(log')}
    BY <1>2, <2>1 DEF Store!Crash
  <2>3. Keeps({})
    BY <1>1, <2>2, CrashKeeps
  <2>4. QED
    BY <1>2, <2>3 DEF Store!Crash, IndInv, TypeOK
<1>3. ASSUME NEW t \in TaskId \ issued, NEW k \in Key,
             Store!Crash(<<Enq(t, now, k, TRUE)>>), issued' = issued \cup {t}
      PROVE  \E ids \in SUBSET TaskId : /\ Keeps(ids) /\ issued' = issued \cup ids
                                        /\ issued' \subseteq TaskId
                                        /\ handle' = "ok" /\ dirty' = FALSE
  <2> DEFINE r == Enq(t, now, k, TRUE)
  <2>1. r \in Record /\ r.T = "enq" /\ r.id = t
    BY EnqIsRecord
  <2>2. t \notin EnqIds(log)
    BY DEF IndInv, IssuedInv
  <2>3. Store!Crash(<<r>>)
    BY <1>3
  <2> HIDE DEF r
  <2>4. log \o <<r>> = Append(log, r)
    BY <1>1, <2>1
  <2>5. Store!KeepPrefix(Append(log, r)) /\ synced' \in {synced, Len(log')}
    BY <2>3, <2>4 DEF Store!Crash
  <2>6. Keeps({t})
    BY <1>1, <2>1, <2>2, <2>5, CrashKeeps
  <2>7. QED
    BY <1>3, <2>3, <2>6 DEF Store!Crash, IndInv, TypeOK
<1>4. QED
  BY <1>2, <1>3 DEF Crash

LEMMA CrashPreserves ==
  ASSUME IndInv, Crash
  PROVE  IndInv'
<1>1. PICK ids \in SUBSET TaskId : /\ Keeps(ids) /\ issued' = issued \cup ids
                                   /\ issued' \subseteq TaskId
                                   /\ handle' = "ok" /\ dirty' = FALSE
  BY CrashLeaves
<1>2. /\ log' \in Seq(Record) /\ synced' \in 0..Len(log') /\ KeysConsistent(log')
      /\ EnqIds(log') \subseteq issued'
      /\ Durable \subseteq EnqIds(Prefix(log', synced'))
  BY <1>1 DEF Keeps, IndInv, IssuedInv
<1>3. /\ tasks' = Restored(log') /\ idem' = RestoredIdem(log')
      /\ due' = ActiveIn(tasks') /\ active' = Cardinality(ActiveIn(tasks'))
      /\ unstripped' = 0 /\ phase' = "idle" /\ snap' = <<>> /\ touched' = {}
      /\ UNCHANGED <<passes, acked, answered, revived, dropped, raced, exposed, late,
                     shuffled, ioErrors, now>>
  BY DEF Crash, Restore
<1>4. /\ DOMAIN tasks' = EnqIds(log') /\ tasks' \in [DOMAIN tasks' -> Task]
      /\ \A t \in DOMAIN tasks' : tasks'[t].st \in {"pending", "succeeded", "dead"}
  BY <1>2, <1>3, RestoredType
<1>5. IsFiniteSet(DOMAIN tasks')
  BY <1>2, <1>4, EnqIdsFinite
<1>6. /\ DOMAIN idem' \subseteq Key
      /\ \A k \in DOMAIN idem' : idem'[k] \in DOMAIN tasks' /\ tasks'[idem'[k]].key = k
  BY <1>2, <1>3, RestoredIdemType, RestoredIdemSound
<1>7. EnqIds(Prefix(log', synced')) \subseteq EnqIds(log')
  BY <1>2, PrefixIds
<1>8. TypeOK'
  <2>1. Store!JournalTypeOK'
    BY <1>1, <1>2 DEF Store!JournalTypeOK
  <2>2. DOMAIN tasks' \subseteq TaskId
    BY <1>1, <1>2, <1>4
  <2>3. IsPartialFn(tasks', TaskId, Task)
    BY <1>4, <2>2 DEF IsPartialFn
  <2>4. idem' \in [DOMAIN idem' -> TaskId]
    <3>1. idem' = [k \in DOMAIN idem' |-> idem'[k]]
      BY <1>3 DEF RestoredIdem
    <3>2. QED
      BY <1>6, <2>2, <3>1
  <2>5. due' \subseteq TaskId
    BY <1>3, <2>2 DEF ActiveIn
  <2>6. active' \in Int
    <3>1. ActiveIn(tasks') \in SUBSET (DOMAIN tasks')
      BY DEF ActiveIn
    <3>2. IsFiniteSet(ActiveIn(tasks'))
      BY <1>5, <3>1, FS_Subset
    <3>3. QED
      BY <1>3, <3>2, FS_CardinalityType
  <2>7. crashes' \in Nat
    BY DEF Crash, IndInv, TypeOK
  <2>8. IsPartialFn(idem', Key, TaskId)
    BY <1>6, <2>4 DEF IsPartialFn
  <2>9. QED
    BY <1>1, <1>3, <2>1, <2>3, <2>5, <2>6, <2>7, <2>8, EmptyJournal DEF IndInv, TypeOK
<1>9. FaultInv'
  BY <1>1 DEF FaultInv
<1>10. HeapMatches'
  BY <1>3, <1>4 DEF HeapMatches, Scheduled, ActiveIn, Active
<1>11. CountInv'
  BY <1>3, <1>5 DEF CountInv, ActiveCount
<1>12. IdemInv'
  BY <1>6 DEF IdemInv
<1>13. IssuedInv' /\ SnapInv'
  BY <1>2, <1>3, <1>4, EmptyJournal DEF IssuedInv, SnapInv
<1>14. KeptInv'
  BY <1>2, <1>3, <1>4, <1>7 DEF IndInv, KeptInv, Kept, Durable
<1>15. QED
  BY <1>2, <1>8, <1>9, <1>10, <1>11, <1>12, <1>13, <1>14 DEF IndInv

-----------------------------------------------------------------------------
(* The theorems. *)

LEMMA InitEstablishes == Init => IndInv
<1> SUFFICES ASSUME Init PROVE IndInv
  OBVIOUS
<1>1. tasks = <<>> /\ idem = <<>> /\ log = <<>> /\ snap = <<>> /\ synced = 0
  BY DEF Init, Store!Init
<1>2. DOMAIN tasks = {} /\ DOMAIN idem = {}
  BY <1>1
<1>3. IsFiniteSet({}) /\ Cardinality({}) = 0
  BY FS_EmptySet
<1>4. Prefix(<<>>, 0) = <<>>
  BY DEF Prefix
<1>5. TypeOK
  <2>1. IsPartialFn(tasks, TaskId, Task) /\ IsPartialFn(idem, Key, TaskId)
    BY <1>1, <1>2 DEF IsPartialFn
  <2>2. Store!JournalTypeOK
    <3>1. Len(<<>>) = 0 /\ 0 \in 0..0
      OBVIOUS
    <3>2. dirty = FALSE /\ handle = "ok"
      BY DEF Init, Store!Init
    <3>3. QED
      BY <1>1, <3>1, <3>2, EmptyJournal DEF Store!JournalTypeOK
  <2>3. QED
    BY <1>1, <2>1, <2>2, EmptyJournal DEF Init, TypeOK
<1>6. FaultInv /\ KeysConsistent(log) /\ IdemInv /\ IssuedInv /\ SnapInv /\ KeptInv
  BY <1>1, <1>2, <1>4, EmptyJournal DEF Init, Store!Init, FaultInv, IdemInv, IssuedInv,
     SnapInv, KeptInv, Kept, Durable
<1>7. HeapMatches /\ CountInv
  <2>1. ActiveIn(tasks) = {} /\ Scheduled = {}
    BY <1>2 DEF ActiveIn, Scheduled
  <2>2. QED
    BY <1>2, <1>3, <2>1 DEF Init, HeapMatches, CountInv, ActiveCount
<1>8. QED
  BY <1>5, <1>6, <1>7 DEF IndInv

LEMMA NextPreserves == IndInv /\ [Next]_vars => IndInv'
<1> SUFFICES ASSUME IndInv, [Next]_vars PROVE IndInv'
  OBVIOUS
<1>1. ASSUME NEW t \in TaskId, NEW k \in Key, Submit(t, k) PROVE IndInv'
  BY <1>1, SubmitPreserves
<1>2. ASSUME NEW t \in TaskId, NEW k \in Key, SubmitFails(t, k) PROVE IndInv'
  BY <1>2, SubmitFailsPreserves
<1>3. ASSUME NEW k \in Key, SubmitDuplicate(k) PROVE IndInv'
  BY <1>3, DuplicatePreserves
<1>4. ASSUME NEW t \in TaskId,
             \/ Revive(t) \/ Lease(t) \/ Defer(t)
             \/ OnRetry(t) \/ OnSuccess(t) \/ OnDead(t)
      PROVE  IndInv'
  <2>1. \E m : Updates(t, m)
    BY <1>4, ReviveUpdates, LeaseUpdates, DeferUpdates, OnRetryUpdates, OnSuccessUpdates,
       OnDeadUpdates
  <2>2. QED
    BY <2>1, UpdatesPreserve
<1>5. CASE PurgeExpired
  BY <1>5, PurgePreserves
<1>6. CASE EnforceTaskCap
  BY <1>6, EnforceTaskCapPreserves
<1>7. CASE MaybeCompact
  BY <1>7, MaybeCompactPreserves
<1>8. CASE TakeSnapshot
  BY <1>8, TakeSnapshotPreserves
<1>9. CASE CompactStore
  BY <1>9, CompactStorePreserves
<1>10. CASE ResetUnstripped
  BY <1>10, ResetPreserves
<1>11. CASE SyncLoop
  BY <1>11, SyncLoopPreserves
<1>12. CASE Tick
  BY <1>12, TickPreserves
<1>13. CASE Crash
  BY <1>13, CrashPreserves
<1>14. CASE UNCHANGED vars
  BY <1>14 DEF vars, memVars, logVars, maintVars, history, faults, IndInv, TypeOK, IsPartialFn,
     Store!JournalTypeOK, FaultInv, HeapMatches, Scheduled, CountInv, ActiveCount, IdemInv,
     IssuedInv, SnapInv, KeptInv, Kept, Durable
<1>15. QED
  BY <1>1, <1>2, <1>3, <1>4, <1>5, <1>6, <1>7, <1>8, <1>9, <1>10, <1>11, <1>12, <1>13, <1>14
     DEF Next

\* Durability survives any cut a crash may make, because the kept tasks are all
\* introduced by synced records.
LEMMA KeptIsDurable == IndInv => AckedDurable
<1> SUFFICES ASSUME IndInv PROVE AckedDurable
  OBVIOUS
<1>1. Kept \subseteq DOMAIN tasks /\ Kept \subseteq Durable
  BY DEF IndInv, KeptInv
<1>2. ASSUME NEW n \in synced..Len(log) PROVE Durable \subseteq EnqIds(Prefix(log, n))
  <2>1. log \in Seq(Record) /\ n \in 0..Len(log) /\ synced \in 0..n
    BY DEF IndInv, TypeOK, Store!JournalTypeOK
  <2>2. QED
    BY <2>1, PrefixIds DEF Durable
<1>3. QED
  BY <1>1, <1>2 DEF AckedDurable, Kept

\* The queue never leaves its invariant, on any journal, under any number of
\* faults.
THEOREM Invariance == Spec => []IndInv
BY InitEstablishes, NextPreserves, PTL DEF Spec

\* Every variable of the queue keeps its type.
THEOREM TypeCorrect == Spec => []TypeOK
<1>1. IndInv => TypeOK
  BY DEF IndInv
<1>2. QED
  BY Invariance, <1>1, PTL

\* The heap holds only tasks that wait for delivery, and all of them as long as
\* the journal has not refused a record: no task is leased twice.
THEOREM HeapCorrect == Spec => []HeapMatches
<1>1. IndInv => HeapMatches
  BY DEF IndInv
<1>2. QED
  BY Invariance, <1>1, PTL

\* The count of unfinished tasks behind the 429 answer is exact.
THEOREM CountCorrect == Spec => []ActiveCount
<1>1. IndInv => ActiveCount
  BY DEF IndInv, CountInv
<1>2. QED
  BY Invariance, <1>1, PTL

\* The idempotency index never leads to a task that is not there, or to the
\* wrong one.
THEOREM IndexSound == Spec => []IdemInv
<1>1. IndInv => IdemInv
  BY DEF IndInv
<1>2. QED
  BY Invariance, <1>1, PTL

\* Promise C1, as far as the code keeps it: an accepted task is lost neither
\* from memory nor by any crash, unless maintenance dropped it or a compaction
\* ran over its submission.
THEOREM Durability == Spec => []AckedDurable
BY Invariance, KeptIsDurable, PTL

-----------------------------------------------------------------------------
(* The idempotency index and the journal.  "sh" are the keys a compaction has  *)
(* written twice, S the tasks the index must lead to.                          *)

\* The enq records of a journal are among those of an older one.
Carries(old, new) ==
  \A i \in DOMAIN new : new[i].T = "enq" => i \in DOMAIN old /\ new[i] = old[i]

Indexed(S, mem, idx, sh) ==
  \A t \in S \cap DOMAIN mem :
    mem[t].key \notin sh => mem[t].key \in DOMAIN idx /\ idx[mem[t].key] = t

\* No other task is introduced under its key after a task of S: the next
\* restart gives the key to that task.
Newest(S, l, sh) ==
  \A i, j \in DOMAIN l :
    /\ l[i].T = "enq" /\ l[j].T = "enq" /\ l[i].id \in S
    /\ l[j].key = l[i].key /\ l[j].id # l[i].id /\ l[i].key \notin sh
    => j < i

Rule(S, mem, idx, l, sh) == /\ S \cap EnqIds(l) \subseteq DOMAIN mem
                            /\ Indexed(S, mem, idx, sh)
                            /\ Newest(S, l, sh)

LEMMA CarriedIds ==
  ASSUME NEW old, NEW new, Carries(old, new)
  PROVE  EnqIds(new) \subseteq EnqIds(old)
BY DEF Carries, EnqIds, Positions

\* Operations that move tasks, or none, and introduce none.
LEMMA RuleCarried ==
  ASSUME NEW S, NEW mem, NEW idx, NEW l, NEW sh, Rule(S, mem, idx, l, sh),
         NEW R \in SUBSET S, NEW new, Carries(l, new),
         NEW mem2, DOMAIN mem2 = DOMAIN mem, \A t \in DOMAIN mem : mem2[t].key = mem[t].key
  PROVE  Rule(R, mem2, idx, new, sh)
<1>1. R \cap EnqIds(new) \subseteq DOMAIN mem2
  BY CarriedIds DEF Rule
<1>2. Indexed(R, mem2, idx, sh)
  BY DEF Rule, Indexed
<1>3. Newest(R, new, sh)
  BY DEF Rule, Newest, Carries
<1>4. QED
  BY <1>1, <1>2, <1>3 DEF Rule

\* A key that is free has no task of S in the journal, so a new one is the newest.
LEMMA NewestGrows ==
  ASSUME NEW S, NEW mem, NEW idx, NEW sh, NEW l \in Seq(Record),
         Rule(S, mem, idx, l, sh), SameKeys(l, mem),
         NEW r \in Record, r.T = "enq", r.key \notin DOMAIN idx, r.id \notin EnqIds(l)
  PROVE  Newest(S \cup {r.id}, Append(l, r), sh)
<1> DEFINE m == Append(l, r)
<1>1. /\ DOMAIN m = 1..Len(l) + 1 /\ DOMAIN l = 1..Len(l) /\ Len(l) \in Nat
      /\ m[Len(l) + 1] = r /\ \A i \in 1..Len(l) : m[i] = l[i]
  OBVIOUS
<1> HIDE DEF m
<1> SUFFICES ASSUME NEW i \in DOMAIN m, NEW j \in DOMAIN m,
                    m[i].T = "enq", m[j].T = "enq", m[i].id \in S \cup {r.id},
                    m[j].key = m[i].key, m[j].id # m[i].id, m[i].key \notin sh
             PROVE  j < i
  BY DEF Newest, m
<1>2. CASE i = Len(l) + 1
  BY <1>1, <1>2
<1>3. CASE i \in 1..Len(l)
  <2>1. l[i].T = "enq" /\ l[i] = m[i] /\ i \in DOMAIN l
    BY <1>1, <1>3
  <2>2. l[i].id \in EnqIds(l) /\ l[i].id \in S
    BY <1>3, <2>1, EnqIdsByPosition
  <2>3. l[i].id \in DOMAIN mem /\ mem[l[i].id].key = l[i].key
    BY <2>1, <2>2 DEF Rule, SameKeys
  <2>4. l[i].key \in DOMAIN idx
    BY <2>1, <2>2, <2>3 DEF Rule, Indexed
  <2>5. j # Len(l) + 1
    BY <1>1, <2>1, <2>4
  <2>6. j \in DOMAIN l /\ l[j] = m[j]
    BY <1>1, <2>5
  <2>7. QED
    BY <2>1, <2>2, <2>6 DEF Rule, Newest
<1>4. QED
  BY <1>1, <1>2, <1>3

\* A submission takes a free key.
LEMMA RuleGrows ==
  ASSUME NEW S, NEW mem, NEW idx, NEW sh, NEW l \in Seq(Record),
         Rule(S, mem, idx, l, sh), SameKeys(l, mem),
         NEW r \in Record, r.T = "enq", r.key \notin DOMAIN idx, r.id \notin EnqIds(l),
         r.id \notin DOMAIN mem, NEW x, x.key = r.key, NEW R \in SUBSET (S \cup {r.id})
  PROVE  Rule(R, Put(mem, r.id, x), Put(idx, r.key, r.id), Append(l, r), sh)
<1> DEFINE mem2 == Put(mem, r.id, x)
           idx2 == Put(idx, r.key, r.id)
<1>1. /\ DOMAIN mem2 = DOMAIN mem \cup {r.id} /\ mem2[r.id].key = r.key
      /\ \A t \in DOMAIN mem : mem2[t] = mem[t]
  BY DEF Put
<1>2. /\ DOMAIN idx2 = DOMAIN idx \cup {r.key} /\ idx2[r.key] = r.id
      /\ \A k \in DOMAIN idx : idx2[k] = idx[k]
  BY DEF Put
<1> HIDE DEF mem2, idx2
<1>3. R \cap EnqIds(Append(l, r)) \subseteq DOMAIN mem2
  <2>1. EnqIds(Append(l, r)) \subseteq EnqIds(l) \cup {r.id}
    BY AppendedIds
  <2>2. QED
    BY <1>1, <2>1 DEF Rule
<1>4. Indexed(R, mem2, idx2, sh)
  BY <1>1, <1>2 DEF Rule, Indexed
<1>5. Newest(R, Append(l, r), sh)
  BY NewestGrows DEF Newest
<1>6. QED
  BY <1>3, <1>4, <1>5 DEF Rule, mem2, idx2

\* Dropping a task frees its key only if the key leads to it.
LEMMA RuleDrops ==
  ASSUME NEW S, NEW mem, NEW idx, NEW l, NEW sh, Rule(S, mem, idx, l, sh),
         NEW V \in SUBSET DOMAIN mem, NEW R \in SUBSET (S \ V), NEW keep \in SUBSET DOMAIN idx,
         \A k \in DOMAIN idx : (\A t \in V : ~(mem[t].key = k /\ idx[k] = t)) => k \in keep
  PROVE  Rule(R, Restrict(mem, DOMAIN mem \ V), Restrict(idx, keep), l, sh)
BY DEF Rule, Indexed, Newest, Restrict

\* A compaction writes the journal anew, in any order.
LEMMA RuleRewritten ==
  ASSUME NEW S, NEW mem, NEW idx, NEW l, NEW sh, Rule(S, mem, idx, l, sh),
         NEW R \in SUBSET S, NEW new, EnqIds(new) \subseteq DOMAIN mem
  PROVE  Rule(R, mem, idx, new, sh \cup TwinKeys(new))
<1>1. Newest(R, new, sh \cup TwinKeys(new))
  BY DEF Newest, TwinKeys, KeyPositions
<1>2. Indexed(R, mem, idx, sh \cup TwinKeys(new))
  BY DEF Rule, Indexed
<1>3. QED
  BY <1>1, <1>2 DEF Rule

\* A restart indexes the newest task of each key.
LEMMA RuleRestored ==
  ASSUME NEW S, NEW sh, NEW l \in Seq(Record), KeysConsistent(l), Newest(S, l, sh)
  PROVE  Rule(S, Restored(l), RestoredIdem(l), l, sh) /\ SameKeys(l, Restored(l))
<1>1. DOMAIN Restored(l) = EnqIds(l)
  BY RestoredType
<1>2. SameKeys(l, Restored(l))
  BY RestoredKey DEF SameKeys
<1>3. ASSUME NEW t \in S, t \in EnqIds(l), Restored(l)[t].key \notin sh
      PROVE  /\ Restored(l)[t].key \in DOMAIN RestoredIdem(l)
             /\ RestoredIdem(l)[Restored(l)[t].key] = t
  <2> DEFINE k == Restored(l)[t].key
             P == KeyPositions(l, k)
  <2>1. PICK i \in 1..Len(l) : l[i].T = "enq" /\ l[i].id = t
    BY <1>3, EnqIdsByPosition
  <2>2. l[i].key = k /\ k \in Key
    BY <2>1, RestoredKey, RecordFields
  <2>3. i \in P /\ P \in SUBSET (DOMAIN l)
    BY <2>1, <2>2 DEF KeyPositions
  <2>4. k \in DOMAIN RestoredIdem(l) /\ RestoredIdem(l)[k] = l[Max(P)].id
    BY <2>2, <2>3 DEF RestoredIdem
  <2>5. Max(P) \in P /\ Max(P) \in 1..Len(l) /\ \A q \in P : q <= Max(P)
    <3> HIDE DEF P
    <3>1. QED
      BY <2>3, LastPosition
  <2>6. l[Max(P)].T = "enq" /\ l[Max(P)].key = k
    BY <2>5 DEF KeyPositions
  <2>7. l[Max(P)].id = t
    <3>1. i <= Max(P)
      BY <2>3, <2>5
    <3>2. ~(Max(P) < i)
      <4> HIDE DEF P, k
      <4>1. QED
        BY <2>5, <3>1
    <3> HIDE DEF P
    <3>3. QED
      BY <1>3, <2>1, <2>2, <2>5, <2>6, <3>2 DEF Newest
  <2>8. QED
    BY <2>4, <2>7
<1>4. Indexed(S, Restored(l), RestoredIdem(l), sh)
  BY <1>1, <1>3 DEF Indexed
<1>5. QED
  BY <1>1, <1>2, <1>4 DEF Rule

SnapKeys == phase = "replace" => SameKeys(snap, tasks) /\ EnqIds(snap) \subseteq DOMAIN tasks

\* Who was answered with a task that is kept asked for its key.
AnswerInv == \A a \in answered : a[2] \in issued /\ (a[2] \in Kept => tasks[a[2]].key = a[1])

NotDropped == TaskId \ dropped

KeyInv == /\ SameKeys(log, tasks)
          /\ SnapKeys
          /\ AnswerInv
          /\ Rule(Kept, tasks, idem, log, shuffled)
          /\ ioErrors = 0 => Rule(NotDropped, tasks, idem, log, shuffled)

LEMMA AppendedAt ==
  ASSUME NEW T, NEW l \in Seq(T), NEW r \in T
  PROVE  /\ DOMAIN Append(l, r) = 1..Len(l) + 1 /\ Append(l, r)[Len(l) + 1] = r
         /\ \A i \in 1..Len(l) : Append(l, r)[i] = l[i]
OBVIOUS

\* What the operations that submit, drop and rewrite nothing do to the journal.
LEMMA JournalCarries ==
  ASSUME IndInv, NEW r, r.T # "enq",
         \/ Store!AppendLazy(r) \/ Store!AppendLazyFails
         \/ Store!Flush \/ Store!FlushFails \/ UNCHANGED log
  PROVE  Carries(log, log')
<1>1. /\ log \in Seq(Record) /\ DOMAIN log = 1..Len(log) /\ Len(log) \in Nat
      /\ synced \in 0..Len(log)
  BY DEF IndInv, TypeOK, Store!JournalTypeOK
<1>2. CASE log' = log
  BY <1>2 DEF Carries
<1>3. CASE log' = Append(log, r)
  <2>1. log \in Seq(Record \cup {r}) /\ r \in Record \cup {r}
    BY <1>1
  <2>2. /\ DOMAIN log' = 1..Len(log) + 1 /\ log'[Len(log) + 1] = r
        /\ \A i \in 1..Len(log) : log'[i] = log[i]
    BY <1>3, <2>1, AppendedAt
  <2>3. QED
    BY <1>1, <2>2 DEF Carries
<1>4. CASE Store!WriteError
  <2>1. PICK n \in synced..Len(log) : log' = Prefix(log, n)
    BY <1>4 DEF Store!WriteError, Store!KeepPrefix, Prefix
  <2>2. n \in 0..Len(log)
    BY <1>1
  <2>3. Len(log') = n /\ (\A i \in 1..n : log'[i] = log[i]) /\ log' \in Seq(Record)
    BY <1>1, <2>1, <2>2, PrefixIds
  <2>4. QED
    BY <1>1, <2>2, <2>3 DEF Carries
<1>5. log' = log \/ log' = Append(log, r) \/ Store!WriteError
  BY DEF Store!AppendLazy, Store!AppendLazyFails, Store!StillFailed, Store!journalVars,
         Store!Flush, Store!FlushFails
<1>6. QED
  BY <1>2, <1>3, <1>4, <1>5

LEMMA SameKeysCarried ==
  ASSUME NEW old, NEW new, Carries(old, new), NEW mem, SameKeys(old, mem),
         NEW mem2, DOMAIN mem2 \subseteq DOMAIN mem,
         \A t \in DOMAIN mem2 : mem2[t].key = mem[t].key
  PROVE  SameKeys(new, mem2)
BY DEF SameKeys, Carries

\* Operations that leave every task in place, under its key, and introduce none.
LEMMA QuietKeys ==
  ASSUME IndInv, KeyInv, Carries(log, log'), SnapKeys',
         DOMAIN tasks' = DOMAIN tasks, \A t \in DOMAIN tasks : tasks'[t].key = tasks[t].key,
         UNCHANGED <<idem, shuffled, dropped, acked, exposed>>, issued \subseteq issued',
         \A a \in answered' : \/ a \in answered
                              \/ /\ a[2] \in DOMAIN tasks
                                 /\ tasks[a[2]].key = a[1],
         ioErrors' = 0 => ioErrors = 0
  PROVE  KeyInv'
<1>1. Kept' = Kept /\ NotDropped' = NotDropped
  BY DEF Kept, NotDropped
<1>2. SameKeys(log', tasks')
  BY SameKeysCarried DEF KeyInv
<1>3. AnswerInv'
  <2>1. Kept \subseteq DOMAIN tasks /\ DOMAIN tasks \subseteq issued
    BY DEF IndInv, KeptInv, IssuedInv
  <2>2. QED
    BY <1>1, <2>1 DEF KeyInv, AnswerInv
<1>4. Rule(Kept', tasks', idem', log', shuffled')
  <2>1. Rule(Kept, tasks', idem, log', shuffled)
    BY RuleCarried DEF KeyInv
  <2>2. QED
    BY <1>1, <2>1
<1>5. ioErrors' = 0 => Rule(NotDropped', tasks', idem', log', shuffled')
  <2>1. ioErrors = 0 => Rule(NotDropped, tasks', idem, log', shuffled)
    BY RuleCarried DEF KeyInv
  <2>2. QED
    BY <1>1, <2>1
<1>6. QED
  BY <1>2, <1>3, <1>4, <1>5 DEF KeyInv

LEMMA UpdateKeys ==
  ASSUME IndInv, KeyInv, NEW t \in TaskId,
         \/ Revive(t) \/ Lease(t) \/ Defer(t)
         \/ OnRetry(t) \/ OnSuccess(t) \/ OnDead(t)
  PROVE  KeyInv'
<1>1. PICK m : Updates(t, m)
  BY ReviveUpdates, LeaseUpdates, DeferUpdates, OnRetryUpdates, OnSuccessUpdates, OnDeadUpdates
<1>2. DOMAIN tasks' = DOMAIN tasks /\ \A u \in DOMAIN tasks : tasks'[u].key = tasks[u].key
  BY <1>1 DEF Updates
<1>3. SnapKeys'
  BY <1>1, <1>2 DEF Updates, KeyInv, SnapKeys, SameKeys
<1>4. \E r : r.T # "enq" /\ \/ Store!AppendLazy(r) \/ Store!AppendLazyFails \/ UNCHANGED log
  <2>1. \A a, b, c, d : Att(a, b, c, d).T # "enq" /\ Ok(a, b, c).T # "enq"
                        /\ Dead(a, b, c, d).T # "enq"
    BY DEF Att, Ok, Dead
  <2>2. CASE Revive(t)
    BY <2>1, <2>2 DEF Revive
  <2>3. CASE Lease(t) \/ Defer(t)
    BY <2>1, <2>3 DEF Lease, Defer, logVars
  <2>4. CASE OnRetry(t)
    BY <2>1, <2>4 DEF OnRetry
  <2>5. CASE OnSuccess(t)
    BY <2>1, <2>5 DEF OnSuccess
  <2>6. CASE OnDead(t)
    BY <2>1, <2>6 DEF OnDead
  <2>7. QED
    BY <2>2, <2>3, <2>4, <2>5, <2>6
<1>5. Carries(log, log')
  BY <1>4, JournalCarries
<1>6. UNCHANGED <<idem, shuffled, dropped, acked, exposed, issued, answered>>
      /\ (ioErrors' = 0 => ioErrors = 0)
  BY <1>1 DEF Updates, IndInv, TypeOK
<1>7. QED
  BY <1>2, <1>3, <1>5, <1>6, QuietKeys

LEMMA SubmitKeys ==
  ASSUME IndInv, KeyInv, NEW t \in TaskId, NEW k \in Key, Submit(t, k)
  PROVE  KeyInv'
<1> DEFINE r == Enq(t, now, k, TRUE)
           m == Fresh(r)
<1>1. r \in Record /\ r.T = "enq" /\ r.id = t /\ r.key = k /\ m.key = k
  BY EnqIsRecord DEF Enq
<1>2. /\ tasks' = Put(tasks, t, m) /\ idem' = Put(idem, k, t) /\ log' = Append(log, r)
      /\ Kept' \subseteq Kept \cup {t} /\ issued' = issued \cup {t}
      /\ answered' = answered \cup {<<k, t>>}
      /\ UNCHANGED <<phase, snap, dropped, shuffled, ioErrors>>
  BY DEF Submit, Store!AppendSync, Kept, maintVars, faults
<1> HIDE DEF r, m
<1>3. /\ log \in Seq(Record) /\ t \notin EnqIds(log) /\ t \notin DOMAIN tasks
      /\ t \notin EnqIds(snap) /\ t \notin issued /\ k \notin DOMAIN idem
      /\ Kept \subseteq DOMAIN tasks /\ snap \in Seq(Record)
  BY DEF IndInv, IssuedInv, KeptInv, TypeOK, Store!JournalTypeOK, Submit
<1>4. /\ DOMAIN tasks' = DOMAIN tasks \cup {t} /\ tasks'[t].key = k
      /\ \A u \in DOMAIN tasks : tasks'[u] = tasks[u]
  BY <1>1, <1>2, <1>3 DEF Put
<1>5. Rule(Kept', tasks', idem', log', shuffled')
  <2>1. Rule(Kept', Put(tasks, t, m), Put(idem, k, t), Append(log, r), shuffled)
    BY <1>1, <1>2, <1>3, RuleGrows DEF KeyInv
  <2>2. QED
    BY <1>2, <2>1
<1>6. ioErrors' = 0 => Rule(NotDropped', tasks', idem', log', shuffled')
  <2>1. NotDropped \in SUBSET (NotDropped \cup {t}) /\ NotDropped' = NotDropped
    BY <1>2 DEF NotDropped
  <2>2. ioErrors = 0 =>
          Rule(NotDropped, Put(tasks, t, m), Put(idem, k, t), Append(log, r), shuffled)
    BY <1>1, <1>2, <1>3, <2>1, RuleGrows DEF KeyInv
  <2>3. QED
    BY <1>2, <2>1, <2>2
<1>7. SameKeys(log', tasks')
  <2>1. /\ DOMAIN log' = 1..Len(log) + 1 /\ DOMAIN log = 1..Len(log) /\ Len(log) \in Nat
        /\ log'[Len(log) + 1] = r /\ \A i \in 1..Len(log) : log'[i] = log[i]
    BY <1>1, <1>2, <1>3
  <2>2. \A i \in 1..Len(log) : log[i].T = "enq" => log[i].id # t
    BY <1>3, EnqIdsByPosition
  <2>3. QED
    BY <1>1, <1>4, <2>1, <2>2 DEF KeyInv, SameKeys
<1>8. SnapKeys'
  <2>1. \A i \in DOMAIN snap : snap[i].T = "enq" => snap[i].id # t
    BY <1>3, EnqIdsByPosition
  <2>2. QED
    BY <1>2, <1>4, <2>1 DEF KeyInv, SnapKeys, SameKeys
<1>9. AnswerInv'
  BY <1>2, <1>3, <1>4 DEF KeyInv, AnswerInv
<1>10. QED
  BY <1>5, <1>6, <1>7, <1>8, <1>9 DEF KeyInv

\* A submission the journal refuses may still be introduced by it: nobody was
\* told, and no fault was without a trace.
LEMMA SubmitFailsKeys ==
  ASSUME IndInv, KeyInv, NEW t \in TaskId, NEW k \in Key, SubmitFails(t, k)
  PROVE  KeyInv'
<1> DEFINE r == Enq(t, now, k, TRUE)
<1>1. r \in Record /\ r.T = "enq" /\ r.id = t /\ r.key = k
  BY EnqIsRecord DEF Enq
<1>2. /\ UNCHANGED <<tasks, idem, phase, snap, dropped, acked, exposed, shuffled, answered>>
      /\ issued \subseteq issued' /\ Store!AppendSyncFails(r)
  BY DEF SubmitFails, memVars, maintVars
<1>3. ioErrors' > 0
  BY FaultCounted DEF SubmitFails, IndInv
<1>4. /\ log \in Seq(Record) /\ t \notin EnqIds(log) /\ t \notin DOMAIN tasks
      /\ k \notin DOMAIN idem /\ Kept \subseteq DOMAIN tasks
  BY DEF IndInv, IssuedInv, KeptInv, TypeOK, Store!JournalTypeOK, SubmitFails
<1> HIDE DEF r
<1>5. SnapKeys' /\ ~(ioErrors' = 0)
  BY <1>2, <1>3 DEF KeyInv, SnapKeys
<1>6. CASE Carries(log, log')
  BY <1>2, <1>5, <1>6, QuietKeys
<1>7. CASE log' = Append(log, r)
  <2>1. Kept' = Kept
    BY <1>2 DEF Kept
  <2>2. Newest(Kept \cup {t}, Append(log, r), shuffled)
    BY <1>1, <1>4, NewestGrows DEF KeyInv
  <2>3. Rule(Kept', tasks', idem', log', shuffled')
    BY <1>2, <1>4, <1>7, <2>1, <2>2 DEF KeyInv, Rule, Newest
  <2>4. SameKeys(log', tasks')
    <3>1. /\ DOMAIN log' = 1..Len(log) + 1 /\ DOMAIN log = 1..Len(log) /\ Len(log) \in Nat
          /\ log'[Len(log) + 1] = r /\ \A i \in 1..Len(log) : log'[i] = log[i]
      BY <1>1, <1>4, <1>7
    <3>2. QED
      BY <1>1, <1>2, <1>4, <3>1 DEF KeyInv, SameKeys
  <2>5. AnswerInv'
    BY <1>2, <2>1 DEF KeyInv, AnswerInv
  <2>6. QED
    BY <1>5, <2>3, <2>4, <2>5 DEF KeyInv
<1>8. Carries(log, log') \/ log' = Append(log, r)
  <2>1. CASE Store!WriteError
    <3>1. Store!AppendLazyFails
      BY <2>1 DEF Store!AppendLazyFails
    <3>2. Att(t, 0, 0, 0).T # "enq"
      BY DEF Att
    <3>3. QED
      BY <3>1, <3>2, JournalCarries
  <2>2. CASE log' = log
    BY <2>2 DEF Carries
  <2>3. QED
    BY <1>2, <2>1, <2>2 DEF Store!AppendSyncFails, Store!SyncError, Store!StillFailed,
       Store!DetachedSync, Store!journalVars
<1>9. QED
  BY <1>6, <1>7, <1>8

\* Purge and cap.
LEMMA DropKeys ==
  ASSUME IndInv, KeyInv, NEW V \in SUBSET DOMAIN tasks, DropAll(V), phase' # "replace",
         UNCHANGED <<log, issued, acked, answered, exposed, shuffled, ioErrors>>
  PROVE  KeyInv'
<1>1. DOMAIN tasks' = DOMAIN tasks \ V /\ \A t \in DOMAIN tasks' : tasks'[t] = tasks[t]
  BY DEF DropAll, Restrict
<1>2. Kept' \subseteq Kept \ V /\ NotDropped' \subseteq NotDropped \ V
  BY DEF DropAll, Kept, NotDropped
<1> DEFINE keep == {k \in DOMAIN idem : \A t \in V : ~(tasks[t].key = k /\ idem[k] = t)}
<1>3. /\ keep \in SUBSET DOMAIN idem
      /\ \A k \in DOMAIN idem : (\A t \in V : ~(tasks[t].key = k /\ idem[k] = t)) => k \in keep
  OBVIOUS
<1>4. tasks' = Restrict(tasks, DOMAIN tasks \ V) /\ idem' = Restrict(idem, keep)
  BY DEF DropAll
<1> HIDE DEF keep
<1>5. ASSUME NEW S, Rule(S, tasks, idem, log, shuffled), NEW R \in SUBSET (S \ V)
      PROVE  Rule(R, tasks', idem', log', shuffled')
  <2>1. Rule(R, Restrict(tasks, DOMAIN tasks \ V), Restrict(idem, keep), log, shuffled)
    BY <1>3, <1>5, RuleDrops
  <2>2. QED
    BY <1>4, <2>1
<1>6. Rule(Kept', tasks', idem', log', shuffled')
      /\ (ioErrors' = 0 => Rule(NotDropped', tasks', idem', log', shuffled'))
  BY <1>2, <1>5 DEF KeyInv
<1>7. SameKeys(log', tasks') /\ SnapKeys'
  BY <1>1 DEF KeyInv, SameKeys, SnapKeys
<1>8. AnswerInv'
  <2>1. Kept \subseteq DOMAIN tasks
    BY DEF IndInv, KeptInv
  <2>2. \A t \in Kept' : t \in Kept /\ tasks'[t] = tasks[t]
    BY <1>1, <1>2, <2>1
  <2>3. QED
    BY <2>2 DEF KeyInv, AnswerInv
<1>9. QED
  BY <1>6, <1>7, <1>8 DEF KeyInv

LEMMA CompactStoreKeys ==
  ASSUME IndInv, KeyInv, CompactStore
  PROVE  KeyInv'
<1>1. /\ phase = "replace" /\ phase' # "replace"
      /\ UNCHANGED <<tasks, idem, issued, acked, answered, dropped>>
      /\ Kept' \subseteq Kept /\ NotDropped' = NotDropped
      /\ shuffled' = shuffled \cup (IF log' = snap THEN TwinKeys(snap) ELSE {})
      /\ (ioErrors' = 0 => ioErrors = 0)
  BY FaultCounted
     DEF CompactStore, Overwritten, Kept, NotDropped, memVars, Fault, IndInv, TypeOK
<1>2. SnapKeys'
  BY <1>1 DEF SnapKeys
<1>3. AnswerInv'
  BY <1>1 DEF KeyInv, AnswerInv
<1>4. CASE log' = snap
  <2>1. SameKeys(snap, tasks) /\ EnqIds(snap) \subseteq DOMAIN tasks
    BY <1>1 DEF KeyInv, SnapKeys
  <2>2. Rule(Kept', tasks, idem, snap, shuffled \cup TwinKeys(snap))
    BY <1>1, <2>1, RuleRewritten DEF KeyInv
  <2>3. ioErrors = 0 => Rule(NotDropped, tasks, idem, snap, shuffled \cup TwinKeys(snap))
    BY <2>1, RuleRewritten DEF KeyInv
  <2>4. shuffled' = shuffled \cup TwinKeys(snap)
    BY <1>1, <1>4
  <2>5. QED
    BY <1>1, <1>2, <1>3, <1>4, <2>1, <2>2, <2>3, <2>4 DEF KeyInv
<1>5. CASE log' # snap
  <2>1. log' = log \/ Store!KeepPrefix(log)
    BY <1>5 DEF CompactStore, Store!Compact, Store!CompactFails, Store!journalVars
  <2>2. Carries(log, log')
    <3>1. CASE log' = log
      BY <3>1 DEF Carries
    <3>2. CASE Store!KeepPrefix(log)
      <4>1. log \in Seq(Record) /\ synced \in 0..Len(log)
        BY DEF IndInv, TypeOK, Store!JournalTypeOK
      <4>2. PICK n \in synced..Len(log) : log' = Prefix(log, n)
        BY <3>2 DEF Store!KeepPrefix, Prefix
      <4>3. n \in 0..Len(log)
        BY <4>1
      <4>4. Len(log') = n /\ (\A i \in 1..n : log'[i] = log[i]) /\ log' \in Seq(Record)
        BY <4>1, <4>2, <4>3, PrefixIds
      <4>5. QED
        BY <4>1, <4>3, <4>4 DEF Carries
    <3>3. QED
      BY <2>1, <3>1, <3>2
  <2>3. Rule(Kept', tasks, idem, log', shuffled)
    BY <1>1, <2>2, RuleCarried DEF KeyInv
  <2>4. ioErrors = 0 => Rule(NotDropped, tasks, idem, log', shuffled)
    BY <2>2, RuleCarried DEF KeyInv
  <2>5. SameKeys(log', tasks)
    BY <2>2, SameKeysCarried DEF KeyInv
  <2>6. shuffled' = shuffled
    BY <1>1, <1>5
  <2>7. QED
    BY <1>1, <1>2, <1>3, <2>3, <2>4, <2>5, <2>6 DEF KeyInv
<1>6. QED
  BY <1>4, <1>5

\* The submission a crash interrupts is introduced under a key that is free.
LEMMA CrashKeys ==
  ASSUME IndInv, KeyInv, Crash
  PROVE  KeyInv'
<1>1. /\ tasks' = Restored(log') /\ idem' = RestoredIdem(log') /\ phase' = "idle"
      /\ UNCHANGED <<acked, answered, dropped, exposed, shuffled, ioErrors>>
      /\ issued \subseteq issued'
  BY DEF Crash, Restore
<1>2. Kept' = Kept /\ NotDropped' = NotDropped
  BY <1>1 DEF Kept, NotDropped
<1>3. log' \in Seq(Record) /\ KeysConsistent(log') /\ Kept \subseteq EnqIds(log')
  <2>1. PICK ids \in SUBSET TaskId : Keeps(ids)
    BY CrashLeaves
  <2>2. EnqIds(Prefix(log', synced')) \subseteq EnqIds(log')
    BY <2>1, PrefixIds DEF Keeps
  <2>3. QED
    BY <2>1, <2>2 DEF Keeps, IndInv, KeptInv
<1>4. log \in Seq(Record) /\ synced \in 0..Len(log) /\ Kept \subseteq DOMAIN tasks
  BY DEF IndInv, KeptInv, TypeOK, Store!JournalTypeOK
<1> DEFINE Fits(l) == /\ l \in Seq(Record) /\ Len(l) >= Len(log)
                      /\ Newest(Kept, l, shuffled)
                      /\ (ioErrors = 0 => Newest(NotDropped, l, shuffled))
                      /\ SameKeys(l, tasks) /\ Store!KeepPrefix(l)
<1>5. \E l : Fits(l)
  <2>1. CASE Store!Crash(<<>>)
    <3>1. log \o <<>> = log
      BY <1>4
    <3>2. Fits(log)
      BY <1>4, <2>1, <3>1 DEF Store!Crash, KeyInv, Rule
    <3>3. QED
      BY <3>2
  <2>2. ASSUME NEW t \in TaskId \ issued, NEW k \in Key \ DOMAIN idem,
               Store!Crash(<<Enq(t, now, k, TRUE)>>)
        PROVE  \E l : Fits(l)
    <3> DEFINE r == Enq(t, now, k, TRUE)
    <3>1. r \in Record /\ r.T = "enq" /\ r.id = t /\ r.key = k
      BY EnqIsRecord DEF Enq
    <3>2. Store!Crash(<<r>>)
      BY <2>2
    <3> HIDE DEF r
    <3>3. log \o <<r>> = Append(log, r)
      BY <1>4, <3>1
    <3>4. Store!KeepPrefix(Append(log, r))
      BY <3>2, <3>3 DEF Store!Crash
    <3>5. t \notin EnqIds(log) /\ t \notin DOMAIN tasks
      BY DEF IndInv, IssuedInv
    <3>6. Newest(Kept \cup {t}, Append(log, r), shuffled)
      BY <1>4, <3>1, <3>5, NewestGrows DEF KeyInv
    <3>7. ioErrors = 0 => Newest(NotDropped \cup {t}, Append(log, r), shuffled)
      BY <1>4, <3>1, <3>5, NewestGrows DEF KeyInv
    <3>8. Append(log, r) \in Seq(Record) /\ Len(Append(log, r)) >= Len(log)
      BY <1>4, <3>1
    <3>9. SameKeys(Append(log, r), tasks)
      <4>1. /\ DOMAIN Append(log, r) = 1..Len(log) + 1 /\ DOMAIN log = 1..Len(log)
            /\ Len(log) \in Nat /\ Append(log, r)[Len(log) + 1] = r
            /\ \A i \in 1..Len(log) : Append(log, r)[i] = log[i]
        BY <1>4, <3>1
      <4>2. QED
        BY <3>1, <3>5, <4>1 DEF KeyInv, SameKeys
    <3>10. Newest(Kept, Append(log, r), shuffled)
      BY <3>6 DEF Newest
    <3>11. ioErrors = 0 => Newest(NotDropped, Append(log, r), shuffled)
      BY <3>7 DEF Newest
    <3>12. Fits(Append(log, r))
      BY <3>4, <3>8, <3>9, <3>10, <3>11
    <3>13. QED
      BY <3>12
  <2>3. QED
    BY <2>1, <2>2 DEF Crash
<1>6. PICK l : Fits(l)
  BY <1>5
<1>7. Carries(l, log')
  <2>1. PICK n \in synced..Len(l) : log' = Prefix(l, n)
    BY <1>6 DEF Store!KeepPrefix, Prefix
  <2>2. n \in 0..Len(l)
    BY <1>4, <1>6
  <2>3. Len(log') = n /\ (\A i \in 1..n : log'[i] = l[i])
    BY <1>6, <2>1, <2>2, PrefixIds
  <2>4. DOMAIN l = 1..Len(l) /\ DOMAIN log' = 1..Len(log') /\ Len(l) \in Nat
    BY <1>3, <1>6
  <2>5. QED
    BY <2>2, <2>3, <2>4 DEF Carries
<1>8. Newest(Kept, log', shuffled) /\ (ioErrors = 0 => Newest(NotDropped, log', shuffled))
  BY <1>6, <1>7 DEF Newest, Carries
<1>9. Rule(Kept', tasks', idem', log', shuffled') /\ SameKeys(log', tasks')
  <2>1. Rule(Kept, Restored(log'), RestoredIdem(log'), log', shuffled)
        /\ SameKeys(log', Restored(log'))
    BY <1>3, <1>8, RuleRestored
  <2>2. QED
    BY <1>1, <1>2, <2>1
<1>10. ioErrors' = 0 => Rule(NotDropped', tasks', idem', log', shuffled')
  <2>1. ioErrors = 0 => Rule(NotDropped, Restored(log'), RestoredIdem(log'), log', shuffled)
    BY <1>3, <1>8, RuleRestored
  <2>2. QED
    BY <1>1, <1>2, <2>1
<1>11. \A t \in Kept : tasks'[t].key = tasks[t].key
  <2> SUFFICES ASSUME NEW t \in Kept PROVE tasks'[t].key = tasks[t].key
    OBVIOUS
  <2>1. PICK i \in 1..Len(log') : log'[i].T = "enq" /\ log'[i].id = t
    BY <1>3, EnqIdsByPosition
  <2>2. tasks'[t].key = log'[i].key
    BY <1>1, <1>3, <2>1, RestoredKey
  <2>3. i \in DOMAIN log' /\ t \in DOMAIN tasks
    BY <1>3, <1>4
  <2>4. log'[i].key = tasks[t].key
    BY <1>6, <1>7, <2>1, <2>3 DEF Carries, SameKeys
  <2>5. QED
    BY <2>2, <2>4
<1>12. AnswerInv'
  BY <1>1, <1>2, <1>11 DEF KeyInv, AnswerInv
<1>13. SnapKeys'
  BY <1>1 DEF SnapKeys
<1>14. QED
  BY <1>9, <1>10, <1>12, <1>13 DEF KeyInv

LEMMA TakeSnapshotKeys ==
  ASSUME IndInv, KeyInv, TakeSnapshot
  PROVE  KeyInv'
<1>1. PICK order \in Orders(DOMAIN tasks),
           rest \in Orders({t \in DOMAIN tasks : HasStateRecord(t)}) :
        snap' = SnapshotIn(order, rest)
  BY DEF TakeSnapshot
<1>2. EnqIds(snap') = DOMAIN tasks /\ SameKeys(snap', tasks)
  BY <1>1, SnapshotIds
<1>3. /\ UNCHANGED <<tasks, idem, log, shuffled, dropped, acked, exposed, issued, answered>>
      /\ ioErrors' = ioErrors
  BY DEF TakeSnapshot, memVars, logVars, faults
<1>4. Carries(log, log')
  BY <1>3 DEF Carries
<1>5. SnapKeys'
  BY <1>2, <1>3 DEF SnapKeys
<1>6. QED
  BY <1>3, <1>4, <1>5, QuietKeys

\* The operations of no task.
LEMMA IdleKeys ==
  ASSUME IndInv, KeyInv,
         \/ \E k \in Key : SubmitDuplicate(k)
         \/ MaybeCompact \/ ResetUnstripped \/ SyncLoop \/ Tick \/ UNCHANGED vars
  PROVE  KeyInv'
<1>1. /\ UNCHANGED <<tasks, idem, shuffled, dropped, acked, exposed, issued>>
      /\ (ioErrors' = 0 => ioErrors = 0)
      /\ phase' = "replace" => phase = "replace" /\ snap' = snap
  BY DEF SubmitDuplicate, MaybeCompact, ResetUnstripped, SyncLoop, Fault, Tick, vars, memVars,
     maintVars, history, faults, IndInv, TypeOK
<1>2. Carries(log, log')
  <2>1. Store!Flush \/ Store!FlushFails \/ UNCHANGED log
    BY DEF SubmitDuplicate, MaybeCompact, ResetUnstripped, SyncLoop, Tick, vars, logVars
  <2>2. \A a, b, c, d : Att(a, b, c, d).T # "enq"
    BY DEF Att
  <2>3. QED
    BY <2>1, <2>2, JournalCarries
<1>3. \A a \in answered' : \/ a \in answered
                           \/ a[2] \in DOMAIN tasks /\ tasks[a[2]].key = a[1]
  BY DEF SubmitDuplicate, MaybeCompact, ResetUnstripped, SyncLoop, Tick, vars, history, IndInv,
     IdemInv
<1>4. SnapKeys'
  BY <1>1 DEF KeyInv, SnapKeys
<1>5. QED
  BY <1>1, <1>2, <1>3, <1>4, QuietKeys

LEMMA KeyStep == IndInv /\ KeyInv /\ [Next]_vars => KeyInv'
<1> SUFFICES ASSUME IndInv, KeyInv, [Next]_vars PROVE KeyInv'
  OBVIOUS
<1>1. ASSUME NEW t \in TaskId, NEW k \in Key, Submit(t, k) PROVE KeyInv'
  BY <1>1, SubmitKeys
<1>2. ASSUME NEW t \in TaskId, NEW k \in Key, SubmitFails(t, k) PROVE KeyInv'
  BY <1>2, SubmitFailsKeys
<1>3. ASSUME NEW t \in TaskId,
             \/ Revive(t) \/ Lease(t) \/ Defer(t)
             \/ OnRetry(t) \/ OnSuccess(t) \/ OnDead(t)
      PROVE  KeyInv'
  BY <1>3, UpdateKeys
<1>4. CASE PurgeExpired
  <2>1. Expired \in SUBSET DOMAIN tasks
    BY DEF Expired
  <2>2. QED
    BY <1>4, <2>1, DropKeys DEF PurgeExpired, logVars, faults
<1>5. CASE EnforceTaskCap
  <2>1. PICK V \in Victims : DropAll(V)
    BY <1>5 DEF EnforceTaskCap
  <2>2. V \in SUBSET DOMAIN tasks
    BY DEF Victims
  <2>3. QED
    BY <1>5, <2>1, <2>2, DropKeys DEF EnforceTaskCap, logVars, faults
<1>6. QED
  BY <1>1, <1>2, <1>3, <1>4, <1>5, IdleKeys, TakeSnapshotKeys, CompactStoreKeys, CrashKeys
     DEF Next

\* The index, the journal and the answers given stay in step, on any journal.
THEOREM KeyInvariance == Spec => [](IndInv /\ KeyInv)
<1>1. Init => KeyInv
  <2> SUFFICES ASSUME Init PROVE KeyInv
    OBVIOUS
  <2>1. /\ DOMAIN tasks = {} /\ log = <<>> /\ DOMAIN log = {} /\ phase = "idle"
        /\ answered = {} /\ acked = {}
    BY DEF Init, Store!Init
  <2>2. EnqIds(log) = {}
    BY <2>1, EmptyJournal
  <2>3. QED
    BY <2>1, <2>2 DEF KeyInv, SameKeys, SnapKeys, AnswerInv, Rule, Indexed, Newest
<1>2. QED
  BY <1>1, InitEstablishes, NextPreserves, KeyStep, PTL DEF Spec

\* One key, one task (queue.go: Submit; maintain.go: dropLocked): whatever is
\* retried, dropped, replayed and dropped again, no second task is accepted under
\* the key of one that is kept, as long as no compaction has mixed up two tasks of
\* the key.
THEOREM OneTask == Spec => []OneTaskPerKey
<1>1. IndInv /\ KeyInv => OneTaskPerKey
  <2> SUFFICES ASSUME IndInv, KeyInv, NEW a \in answered, NEW b \in answered,
                      a[1] = b[1], a[1] \notin shuffled, a[2] \in Kept, b[2] \in Kept
               PROVE  a[2] = b[2]
    BY DEF OneTaskPerKey, Kept
  <2>1. a[2] \in DOMAIN tasks /\ b[2] \in DOMAIN tasks
    BY DEF IndInv, KeptInv
  <2>2. tasks[a[2]].key = a[1] /\ tasks[b[2]].key = a[1]
    BY DEF KeyInv, AnswerInv
  <2>3. QED
    BY <2>1, <2>2 DEF KeyInv, Rule, Indexed
<1>2. QED
  BY <1>1, KeyInvariance, PTL

\* The index is exact (queue.go: Restore; maintain.go: dropLocked): a dropped task
\* that a restart brings back neither takes the key of its successor nor takes it
\* along when it is dropped again.
THEOREM IndexExact == Spec => []KeyIndexExact
<1>1. IndInv /\ KeyInv => KeyIndexExact
  <2> SUFFICES ASSUME IndInv, KeyInv, ioErrors = 0, NEW t \in DOMAIN tasks \ dropped,
                      tasks[t].key \notin shuffled
               PROVE  tasks[t].key \in DOMAIN idem /\ idem[tasks[t].key] = t
    BY DEF KeyIndexExact
  <2>1. t \in NotDropped
    BY DEF NotDropped, IndInv, TypeOK, IsPartialFn
  <2>2. QED
    BY <2>1 DEF KeyInv, Rule, Indexed
<1>2. QED
  BY <1>1, KeyInvariance, PTL

-----------------------------------------------------------------------------
(* The queue and its journal.  Every step of the queue leaves the journal as   *)
(* it is, or is a step that the contract of the journal allows.                *)

LEMMA JournalStep == IndInv /\ [Next]_vars => [Store!Next]_(Store!journalVars)
<1> DEFINE Goal == Store!Next \/ UNCHANGED Store!journalVars
<1> SUFFICES ASSUME IndInv, [Next]_vars PROVE Goal
  OBVIOUS
<1>0. UNCHANGED logVars => Goal
  BY DEF logVars, Store!journalVars
<1>1. ASSUME NEW r \in Record, Store!AppendLazy(r) \/ Store!AppendLazyFails PROVE Goal
  BY <1>1 DEF Store!Next
<1>2. ASSUME NEW t \in TaskId, NEW k \in Key, Submit(t, k) \/ SubmitFails(t, k) PROVE Goal
  <2>1. Enq(t, now, k, TRUE) \in Record
    BY EnqIsRecord
  <2>2. QED
    BY <1>2, <2>1 DEF Submit, SubmitFails, Store!Next
<1>3. ASSUME NEW t \in TaskId, Revive(t) \/ OnRetry(t) \/ OnSuccess(t) \/ OnDead(t)
      PROVE  Goal
  <2>1. t \in DOMAIN tasks
    BY <1>3 DEF Revive, OnRetry, OnSuccess, OnDead, Sending
  <2>2. now \in Nat /\ MaxDelay \in Nat
    BY ConfigAssumption DEF IndInv, TypeOK
  <2>3. CASE Revive(t)
    <3>1. Att(t, now, 0, now) \in Record
      BY <2>2 DEF Att, Record, AttRecord
    <3>2. QED
      BY <1>1, <2>3, <3>1 DEF Revive
  <2>4. CASE OnRetry(t)
    <3>1. PICK at \in now .. now + MaxDelay :
            \/ Store!AppendLazy(Att(t, now, tasks[t].attempts + 1, at))
            \/ Store!AppendLazyFails
      BY <2>4 DEF OnRetry
    <3>2. at \in Nat /\ tasks[t].attempts + 1 \in Nat
      BY <2>1, <2>2 DEF IndInv, TypeOK, IsPartialFn, Task
    <3>3. Att(t, now, tasks[t].attempts + 1, at) \in Record
      BY <2>2, <3>2 DEF Att, Record, AttRecord
    <3>4. QED
      BY <1>1, <3>1, <3>3
  <2>5. CASE OnSuccess(t)
    <3>1. tasks[t].attempts + 1 \in Nat
      BY <2>1 DEF IndInv, TypeOK, IsPartialFn, Task
    <3>2. Ok(t, now, tasks[t].attempts + 1) \in Record
      BY <2>2, <3>1 DEF Ok, Record, OkRecord
    <3>3. QED
      BY <1>1, <2>5, <3>2 DEF OnSuccess
  <2>6. CASE OnDead(t)
    <3>1. PICK why \in Reason :
            \/ Store!AppendLazy(Dead(t, now, tasks[t].attempts + 1, why))
            \/ Store!AppendLazyFails
      BY <2>6 DEF OnDead
    <3>2. tasks[t].attempts + 1 \in Nat
      BY <2>1 DEF IndInv, TypeOK, IsPartialFn, Task
    <3>3. Dead(t, now, tasks[t].attempts + 1, why) \in Record
      BY <2>2, <3>2 DEF Dead, Record, DeadRecord
    <3>4. QED
      BY <1>1, <3>1, <3>3
  <2>7. QED
    BY <1>3, <2>3, <2>4, <2>5, <2>6
<1>4. ASSUME NEW t \in TaskId, Lease(t) \/ Defer(t) PROVE Goal
  BY <1>0, <1>4 DEF Lease, Defer
<1>5. CASE \/ \E k \in Key : SubmitDuplicate(k)
           \/ PurgeExpired \/ EnforceTaskCap \/ MaybeCompact \/ TakeSnapshot
           \/ ResetUnstripped \/ Tick \/ UNCHANGED vars
  BY <1>0, <1>5 DEF SubmitDuplicate, PurgeExpired, EnforceTaskCap, MaybeCompact,
     TakeSnapshot, ResetUnstripped, Tick, vars
<1>6. CASE CompactStore
  <2>1. snap \in Seq(Record)
    BY DEF IndInv, TypeOK
  <2>2. QED
    BY <1>6, <2>1 DEF CompactStore, Store!Next
<1>7. CASE SyncLoop
  BY <1>7 DEF SyncLoop, Store!Next
<1>8. CASE Crash
  <2>1. CASE Store!Crash(<<>>)
    BY <2>1 DEF Store!Next
  <2>2. ASSUME NEW t \in TaskId, NEW k \in Key, Store!Crash(<<Enq(t, now, k, TRUE)>>)
        PROVE  Goal
    <3>1. Enq(t, now, k, TRUE) \in Record
      BY EnqIsRecord
    <3>2. QED
      BY <2>2, <3>1 DEF Store!Next
  <2>3. QED
    BY <1>8, <2>1, <2>2 DEF Crash
<1>9. QED
  BY <1>2, <1>3, <1>4, <1>5, <1>6, <1>7, <1>8 DEF Next

\* The queue asks nothing of its store but what the contract of the journal promises,
\* which the write-ahead log keeps: whatever holds of every journal holds of the one
\* under the queue (store.go: Store; queue.go and maintenance.go: their calls of it).
THEOREM UsesJournal == Spec => Store!Spec
<1>1. Init => Store!Init
  BY DEF Init
<1>2. QED
  BY <1>1, JournalStep, Invariance, PTL DEF Spec, Store!Spec
=============================================================================
