----------------------------- MODULE MirrorProofs -----------------------------
(***************************************************************************)
(* The journal says of every task what memory says of it, and goes on      *)
(* doing so when a snapshot takes its place: a restart that loses nothing  *)
(* rebuilds what was there.  Whatever it loses, it brings no task back     *)
(* that is still to be delivered and has lost its request; and the loop    *)
(* that reads the journal does rebuild what its records say.               *)
(*                                                                         *)
(* From this follow three counts that restarts must not disturb: of the    *)
(* unfinished tasks, of the credentials on disk, and of the requests a     *)
(* vendor gets for one task.                                               *)
(***************************************************************************)
EXTENDS DeliveryProofs

-----------------------------------------------------------------------------
(* What the operations on one task do to it, and what they record of it.    *)

\* The record r says of t what memory now says, m.
Tells(r, t, m) ==
  /\ r.T # "enq" /\ r.id = t /\ r.n = m.attempts
  /\ StateAfter(r.T) = IF m.st \in Terminal THEN m.st ELSE "pending"
  /\ m.st \in {"waiting", "succeeded", "dead"} => r.ts = m.updatedAt
  /\ m.st = "waiting" => r.T = "att" /\ r.next = m.nextAt
  /\ t \notin revived' => /\ tasks[t].st # "dead" /\ m.createdAt = tasks[t].createdAt
                         /\ m.why = IF r.T = "dead" THEN r.why ELSE tasks[t].why

\* Nothing is recorded, and there is nothing to say.
Silent(t, m) ==
  /\ {tasks[t].st, m.st} \subseteq Active /\ m.st # "waiting"
  /\ m.attempts = tasks[t].attempts /\ m.createdAt = tasks[t].createdAt
  /\ m.why = tasks[t].why

Becomes(t, m) ==
  /\ t \in DOMAIN tasks /\ m \in Task /\ tasks[t].st # "succeeded"
  /\ tasks' = [tasks EXCEPT ![t] = m]
  /\ m.key = tasks[t].key /\ m.full = (tasks[t].full /\ m.st # "succeeded")
  /\ m.st = "waiting" => m.attempts > 0
  /\ UNCHANGED <<snap, phase, issued, raced>>
  /\ revived \subseteq revived' /\ touched \subseteq touched'
  /\ \/ Silent(t, m) /\ log' = log
     \/ /\ phase = "replace" => t \in touched'
        /\ ioErrors' = 0 => \E r \in Record : Tells(r, t, m) /\ log' = Append(log, r)

\* A lazy append by which the journal has not come to harm.
LEMMA CleanAppend ==
  ASSUME IndInv, NEW r, ioErrors' = 0,
         \/ Store!AppendLazy(r) /\ UNCHANGED ioErrors
         \/ Store!AppendLazyFails /\ Fault
  PROVE  log' = Append(log, r)
<1>1. Store!AppendLazy(r) /\ ioErrors = 0
  BY FaultSeen
<1>2. QED
  BY <1>1 DEF Store!AppendLazy, IndInv, FaultInv

LEMMA LeaseBecomes ==
  ASSUME IndInv, NEW t \in TaskId, Lease(t)
  PROVE  \E m : Becomes(t, m)
<1> DEFINE m == [tasks[t] EXCEPT !.st = "sending", !.updatedAt = now]
<1>1. /\ t \in DOMAIN tasks /\ tasks[t] \in Task /\ now \in Nat
      /\ tasks[t].st \in {"pending", "waiting"}
  BY DEF Lease, Least, IndInv, HeapMatches, Scheduled, TypeOK, IsPartialFn
<1>2. m \in Task /\ m.st = "sending" /\ m.key = tasks[t].key /\ m.full = tasks[t].full
      /\ m.attempts = tasks[t].attempts /\ m.createdAt = tasks[t].createdAt
      /\ m.why = tasks[t].why
  BY <1>1 DEF Task, Active
<1>3. tasks' = [tasks EXCEPT ![t] = m]
  BY <1>1 DEF Lease, Task
<1> HIDE DEF m
<1>4. UNCHANGED <<snap, phase, issued, raced, revived, touched, log>>
  BY DEF Lease, maintVars, history, logVars
<1>5. Silent(t, m)
  BY <1>1, <1>2 DEF Silent, Active
<1>6. m.full = (tasks[t].full /\ m.st # "succeeded")
  BY <1>1, <1>2 DEF Task
<1>7. Becomes(t, m)
  BY <1>1, <1>2, <1>3, <1>4, <1>5, <1>6 DEF Becomes
<1>8. QED
  BY <1>7

LEMMA DeferBecomes ==
  ASSUME IndInv, NEW t \in TaskId, Defer(t)
  PROVE  \E m : Becomes(t, m)
<1>1. /\ t \in DOMAIN tasks /\ tasks[t] \in Task /\ now \in Nat
      /\ tasks[t].st = "sending"
  BY DEF Defer, Sending, IndInv, TypeOK, IsPartialFn
<1>2. PICK at \in {now, now + 1} :
        tasks' = [tasks EXCEPT ![t].st = "pending", ![t].nextAt = at]
  BY DEF Defer
<1> DEFINE m == [tasks[t] EXCEPT !.st = "pending", !.nextAt = at]
<1>a. at \in Nat
  BY <1>1
<1>3. m \in Task /\ m.st = "pending" /\ m.key = tasks[t].key /\ m.full = tasks[t].full
      /\ m.attempts = tasks[t].attempts /\ m.createdAt = tasks[t].createdAt
      /\ m.why = tasks[t].why
  BY <1>1, <1>a DEF Task, Active
<1>4. tasks' = [tasks EXCEPT ![t] = m]
  BY <1>1, <1>2 DEF Task
<1> HIDE DEF m
<1>5. UNCHANGED <<snap, phase, issued, raced, revived, touched, log>>
  BY DEF Defer, maintVars, history, logVars
<1>6. Silent(t, m)
  BY <1>1, <1>3 DEF Silent, Active
<1>7. m.full = (tasks[t].full /\ m.st # "succeeded")
  BY <1>1, <1>3 DEF Task
<1>8. Becomes(t, m)
  BY <1>1, <1>3, <1>4, <1>5, <1>6, <1>7 DEF Becomes
<1>9. QED
  BY <1>8

LEMMA OnRetryBecomes ==
  ASSUME IndInv, NEW t \in TaskId, OnRetry(t)
  PROVE  \E m : Becomes(t, m)
<1>1. /\ t \in DOMAIN tasks /\ tasks[t] \in Task /\ now \in Nat
      /\ tasks[t].st = "sending"
  BY DEF OnRetry, Sending, IndInv, TypeOK, IsPartialFn
<1>2. PICK at \in now .. now + MaxDelay :
        /\ tasks' = [tasks EXCEPT ![t] = Retried(@, at)]
        /\ \/ Store!AppendLazy(Att(t, now, tasks[t].attempts + 1, at)) /\ UNCHANGED ioErrors
           \/ Store!AppendLazyFails /\ Fault
  BY DEF OnRetry
<1> DEFINE m == Retried(tasks[t], at)
           r == Att(t, now, tasks[t].attempts + 1, at)
<1>3. at \in Nat /\ tasks[t].attempts + 1 \in Nat /\ tasks[t].attempts + 1 > 0
  BY <1>1, ConfigAssumption DEF Task
<1>4. /\ m \in Task /\ m.st = "waiting" /\ m.key = tasks[t].key /\ m.full = tasks[t].full
      /\ m.attempts = tasks[t].attempts + 1 /\ m.createdAt = tasks[t].createdAt
      /\ m.why = tasks[t].why /\ m.updatedAt = now /\ m.nextAt = at
  BY <1>1, <1>3 DEF Retried, Task, Active
<1>5. /\ r \in Record /\ r.T = "att" /\ r.id = t /\ r.ts = now /\ r.next = at
      /\ r.n = tasks[t].attempts + 1
  BY <1>1, <1>3 DEF Att, Record, AttRecord
<1>6. /\ tasks' = [tasks EXCEPT ![t] = m]
      /\ \/ Store!AppendLazy(r) /\ UNCHANGED ioErrors
         \/ Store!AppendLazyFails /\ Fault
  BY <1>2
<1> HIDE DEF m, r
<1>7. /\ UNCHANGED <<snap, phase, issued, raced, revived>> /\ touched \subseteq touched'
      /\ phase = "replace" => t \in touched'
  BY TouchGrows DEF OnRetry, maintVars
<1>8. Tells(r, t, m)
  BY <1>1, <1>4, <1>5 DEF Tells, StateAfter, Terminal
<1>9. m.full = (tasks[t].full /\ m.st # "succeeded")
  BY <1>1, <1>4 DEF Task
<1>10. ioErrors' = 0 => log' = Append(log, r)
  BY <1>6, CleanAppend
<1>11. Becomes(t, m)
  BY <1>1, <1>3, <1>4, <1>5, <1>6, <1>7, <1>8, <1>9, <1>10 DEF Becomes
<1>12. QED
  BY <1>11

LEMMA OnSuccessBecomes ==
  ASSUME IndInv, NEW t \in TaskId, OnSuccess(t)
  PROVE  \E m : Becomes(t, m)
<1>1. /\ t \in DOMAIN tasks /\ tasks[t] \in Task /\ now \in Nat
      /\ tasks[t].st = "sending"
  BY DEF OnSuccess, Sending, IndInv, TypeOK, IsPartialFn
<1> DEFINE m == Succeeded(tasks[t])
           r == Ok(t, now, tasks[t].attempts + 1)
<1>2. tasks[t].attempts + 1 \in Nat
  BY <1>1 DEF Task
<1>3. /\ m \in Task /\ m.st = "succeeded" /\ m.key = tasks[t].key /\ m.full = FALSE
      /\ m.attempts = tasks[t].attempts + 1 /\ m.createdAt = tasks[t].createdAt
      /\ m.why = tasks[t].why /\ m.updatedAt = now
  BY <1>1, <1>2 DEF Succeeded, Task, Terminal
<1>4. /\ r \in Record /\ r.T = "ok" /\ r.id = t /\ r.ts = now
      /\ r.n = tasks[t].attempts + 1
  BY <1>1, <1>2 DEF Ok, Record, OkRecord
<1>5. /\ tasks' = [tasks EXCEPT ![t] = m]
      /\ \/ Store!AppendLazy(r) /\ UNCHANGED ioErrors
         \/ Store!AppendLazyFails /\ Fault
  BY DEF OnSuccess
<1> HIDE DEF m, r
<1>6. /\ UNCHANGED <<snap, phase, issued, raced, revived>> /\ touched \subseteq touched'
      /\ phase = "replace" => t \in touched'
  BY TouchGrows DEF OnSuccess, maintVars
<1>7. Tells(r, t, m)
  BY <1>1, <1>3, <1>4 DEF Tells, StateAfter, Terminal
<1>8. m.full = (tasks[t].full /\ m.st # "succeeded")
  BY <1>3
<1>9. ioErrors' = 0 => log' = Append(log, r)
  BY <1>5, CleanAppend
<1>10. Becomes(t, m)
  BY <1>1, <1>3, <1>4, <1>5, <1>6, <1>7, <1>8, <1>9 DEF Becomes
<1>11. QED
  BY <1>10

LEMMA OnDeadBecomes ==
  ASSUME IndInv, NEW t \in TaskId, OnDead(t)
  PROVE  \E m : Becomes(t, m)
<1>1. /\ t \in DOMAIN tasks /\ tasks[t] \in Task /\ now \in Nat
      /\ tasks[t].st = "sending"
  BY DEF OnDead, Sending, IndInv, TypeOK, IsPartialFn
<1>2. PICK why \in Reason :
        /\ tasks' = [tasks EXCEPT ![t] = Died(@, why)]
        /\ \/ Store!AppendLazy(Dead(t, now, tasks[t].attempts + 1, why)) /\ UNCHANGED ioErrors
           \/ Store!AppendLazyFails /\ Fault
  BY DEF OnDead
<1> DEFINE m == Died(tasks[t], why)
           r == Dead(t, now, tasks[t].attempts + 1, why)
<1>3. tasks[t].attempts + 1 \in Nat
  BY <1>1 DEF Task
<1>4. /\ m \in Task /\ m.st = "dead" /\ m.key = tasks[t].key /\ m.full = tasks[t].full
      /\ m.attempts = tasks[t].attempts + 1 /\ m.createdAt = tasks[t].createdAt
      /\ m.why = why /\ m.updatedAt = now
  BY <1>1, <1>3 DEF Died, Task, Terminal
<1>5. /\ r \in Record /\ r.T = "dead" /\ r.id = t /\ r.ts = now /\ r.why = why
      /\ r.n = tasks[t].attempts + 1
  BY <1>1, <1>3 DEF Dead, Record, DeadRecord
<1>6. /\ tasks' = [tasks EXCEPT ![t] = m]
      /\ \/ Store!AppendLazy(r) /\ UNCHANGED ioErrors
         \/ Store!AppendLazyFails /\ Fault
  BY <1>2
<1> HIDE DEF m, r
<1>7. /\ UNCHANGED <<snap, phase, issued, raced, revived>> /\ touched \subseteq touched'
      /\ phase = "replace" => t \in touched'
  BY TouchGrows DEF OnDead, maintVars
<1>8. Tells(r, t, m)
  BY <1>1, <1>4, <1>5 DEF Tells, StateAfter, Terminal
<1>9. m.full = (tasks[t].full /\ m.st # "succeeded")
  BY <1>1, <1>4 DEF Task
<1>10. ioErrors' = 0 => log' = Append(log, r)
  BY <1>6, CleanAppend
<1>11. Becomes(t, m)
  BY <1>1, <1>4, <1>5, <1>6, <1>7, <1>8, <1>9, <1>10 DEF Becomes
<1>12. QED
  BY <1>11

LEMMA ReviveBecomes ==
  ASSUME IndInv, NEW t \in TaskId, Revive(t)
  PROVE  \E m : Becomes(t, m)
<1>1. /\ t \in DOMAIN tasks /\ tasks[t] \in Task /\ now \in Nat
      /\ tasks[t].st = "dead"
  BY DEF Revive, IndInv, TypeOK, IsPartialFn
<1> DEFINE m == Revived(tasks[t])
           r == Att(t, now, 0, now)
<1>2. /\ m \in Task /\ m.st = "pending" /\ m.key = tasks[t].key /\ m.full = tasks[t].full
      /\ m.attempts = 0
  BY <1>1 DEF Revived, Task, Active
<1>3. r \in Record /\ r.T = "att" /\ r.id = t /\ r.n = 0
  BY <1>1 DEF Att, Record, AttRecord
<1>4. /\ tasks' = [tasks EXCEPT ![t] = m]
      /\ \/ Store!AppendLazy(r) /\ UNCHANGED ioErrors
         \/ Store!AppendLazyFails /\ Fault
  BY DEF Revive
<1> HIDE DEF m, r
<1>5. /\ UNCHANGED <<snap, phase, issued, raced>> /\ revived' = revived \cup {t}
      /\ touched \subseteq touched' /\ (phase = "replace" => t \in touched')
  BY TouchGrows DEF Revive, maintVars
<1>6. Tells(r, t, m)
  BY <1>1, <1>2, <1>3, <1>5 DEF Tells, StateAfter, Terminal
<1>7. m.full = (tasks[t].full /\ m.st # "succeeded")
  BY <1>1, <1>2 DEF Task
<1>8. ioErrors' = 0 => log' = Append(log, r)
  BY <1>4, CleanAppend
<1>9. Becomes(t, m)
  BY <1>1, <1>2, <1>3, <1>4, <1>5, <1>6, <1>7, <1>8 DEF Becomes
<1>10. QED
  BY <1>9

\* An accepted submission.
Enters(t, r) ==
  /\ t \notin issued /\ r \in Record /\ r.T = "enq" /\ r.id = t /\ r.full
  /\ Fresh(r).st = "pending" /\ tasks' = Put(tasks, t, Fresh(r))
  /\ log' = Append(log, r) /\ issued' = issued \cup {t}
  /\ UNCHANGED <<snap, phase, raced, revived>> /\ touched \subseteq touched'
  /\ phase = "replace" => t \in touched'

\* Tasks are dropped, or nothing happens to them.
Rests ==
  /\ DOMAIN tasks' \subseteq DOMAIN tasks /\ \A t \in DOMAIN tasks' : tasks'[t] = tasks[t]
  /\ \A t \in DOMAIN tasks \ DOMAIN tasks' : tasks[t].st \in Terminal
  /\ ioErrors' = 0 => log' = log
  /\ UNCHANGED <<snap, raced, revived>> /\ issued \subseteq issued'
  /\ touched \subseteq touched' /\ (phase' = "replace" => phase = "replace")

LEMMA SubmitEnters ==
  ASSUME IndInv, NEW t \in TaskId, NEW k \in Key, Submit(t, k)
  PROVE  \E r : Enters(t, r)
<1> DEFINE r == Enq(t, now, k, TRUE)
<1>1. r \in Record /\ r.T = "enq" /\ r.id = t /\ r.full
  BY EnqIsRecord DEF Enq
<1>2. Fresh(r).st = "pending"
  BY EnqIsRecord
<1>3. tasks' = Put(tasks, t, Fresh(r)) /\ Store!AppendSync(r)
  BY DEF Submit
<1> HIDE DEF r
<1>4. log' = Append(log, r)
  BY <1>3 DEF Store!AppendSync
<1>5. /\ t \notin issued /\ issued' = issued \cup {t}
      /\ UNCHANGED <<snap, phase, raced, revived>> /\ touched \subseteq touched'
      /\ phase = "replace" => t \in touched'
  BY TouchGrows DEF Submit, maintVars
<1>6. Enters(t, r)
  BY <1>1, <1>2, <1>3, <1>4, <1>5 DEF Enters
<1>7. QED
  BY <1>6

LEMMA DropRests ==
  ASSUME IndInv, PurgeExpired \/ EnforceTaskCap
  PROVE  Rests
<1>1. PICK V : DropAll(V) /\ \A t \in V : tasks[t].st \in Terminal
  <2>1. CASE PurgeExpired
    BY <2>1 DEF PurgeExpired, Expired, Terminal
  <2>2. CASE EnforceTaskCap
    <3>1. PICK V \in Victims : DropAll(V)
      BY <2>2 DEF EnforceTaskCap
    <3>2. \A t \in V : tasks[t].st \in Terminal
      BY <3>1 DEF Victims
    <3>3. QED
      BY <3>1, <3>2
  <2>3. QED
    BY <2>1, <2>2
<1>2. /\ DOMAIN tasks' = DOMAIN tasks \ V
      /\ \A t \in DOMAIN tasks' : tasks'[t] = tasks[t]
      /\ \A t \in DOMAIN tasks \ DOMAIN tasks' : tasks[t].st \in Terminal
  BY <1>1 DEF DropAll, Restrict, IndInv, TypeOK, IsPartialFn
<1>3. /\ UNCHANGED <<log, snap, raced, revived, issued, touched>> /\ phase' # "replace"
  BY DEF PurgeExpired, EnforceTaskCap, logVars
<1>4. QED
  BY <1>2, <1>3 DEF Rests

LEMMA IdleRests ==
  ASSUME IndInv,
         \/ \E t \in TaskId, k \in Key : SubmitFails(t, k)
         \/ \E k \in Key : SubmitDuplicate(k)
         \/ MaybeCompact \/ ResetUnstripped \/ SyncLoop \/ Tick \/ UNCHANGED vars
  PROVE  Rests
<1>1. CASE \E t \in TaskId, k \in Key : SubmitFails(t, k)
  <2>1. Fault
    BY <1>1 DEF SubmitFails
  <2>2. /\ UNCHANGED <<tasks, snap, raced, revived, touched, phase>>
        /\ issued \subseteq issued'
    BY <1>1 DEF SubmitFails, memVars, maintVars
  <2>3. QED
    BY <2>1, <2>2, FaultSeen DEF Rests
<1>2. CASE \/ \E k \in Key : SubmitDuplicate(k)
           \/ MaybeCompact \/ ResetUnstripped \/ Tick \/ UNCHANGED vars
  <2>1. UNCHANGED <<tasks, snap, raced, revived, touched, issued, log>>
    BY <1>2 DEF SubmitDuplicate, MaybeCompact, ResetUnstripped, Tick, vars, memVars, logVars,
       maintVars, history
  <2>2. phase' = "replace" => phase = "replace"
    BY <1>2 DEF SubmitDuplicate, MaybeCompact, ResetUnstripped, Tick, vars, maintVars
  <2>3. QED
    BY <2>1, <2>2 DEF Rests
<1>3. CASE SyncLoop
  <2>1. UNCHANGED <<tasks, snap, raced, revived, touched, issued, phase>>
    BY <1>3 DEF SyncLoop, memVars, maintVars, history
  <2>2. ioErrors' = 0 => log' = log
    BY <1>3, FaultSeen DEF SyncLoop, Store!Flush
  <2>3. QED
    BY <2>1, <2>2 DEF Rests
<1>4. QED
  BY <1>1, <1>2, <1>3

\* Every step but the two ends of a compaction and a crash is one of these.
LEMMA ThreeWays ==
  ASSUME IndInv, [Next]_vars, ~Special
  PROVE  (\E t, m : Becomes(t, m)) \/ (\E t, r : Enters(t, r)) \/ Rests
<1>1. ASSUME NEW t \in TaskId, NEW k \in Key, Submit(t, k)
      PROVE  \E u, r : Enters(u, r)
  BY <1>1, SubmitEnters
<1>2. ASSUME NEW t \in TaskId, \/ Revive(t) \/ Lease(t) \/ Defer(t)
                               \/ OnRetry(t) \/ OnSuccess(t) \/ OnDead(t)
      PROVE  \E u, m : Becomes(u, m)
  BY <1>2, ReviveBecomes, LeaseBecomes, DeferBecomes, OnRetryBecomes, OnSuccessBecomes,
     OnDeadBecomes
<1>3. CASE PurgeExpired \/ EnforceTaskCap
  BY <1>3, DropRests
<1>4. CASE \/ \E t \in TaskId, k \in Key : SubmitFails(t, k)
           \/ \E k \in Key : SubmitDuplicate(k)
           \/ MaybeCompact \/ ResetUnstripped \/ SyncLoop \/ Tick \/ UNCHANGED vars
  BY <1>4, IdleRests
<1>5. QED
  BY <1>1, <1>2, <1>3, <1>4 DEF Next, Special

-----------------------------------------------------------------------------
(* No request is lost before its task has succeeded.                        *)

TargetInv ==
  /\ StripIds(log) \subseteq DurOk
  /\ StripIds(snap) \subseteq OkIds(snap)
  /\ \A t \in DOMAIN tasks : tasks[t].st # "succeeded" => tasks[t].full

\* What is rebuilt from a journal has its request, unless it has succeeded.
LEMMA RestoredFull ==
  ASSUME NEW l \in Seq(Record), OkLast(l), StripIds(l) \subseteq OkIds(l),
         NEW t \in EnqIds(l), Restored(l)[t].st # "succeeded"
  PROVE  Restored(l)[t].full
<1>1. Restored(l)[t] = Rebuilt(l, t)
  BY RestoredIsRebuilt
<1>2. Latest(l, t, Kinds).T # "ok"
  BY <1>1 DEF Rebuilt, StateAfter
<1>3. t \notin StripIds(l)
  BY RestoredDone
<1>4. PICK p \in 1..Len(l) : Latest(l, t, {"enq"}) = l[p] /\ l[p].id = t /\ l[p].T \in {"enq"}
  BY HasLast, LastProperty
<1>5. l[p].full
  BY <1>3, <1>4 DEF StripIds
<1>6. Latest(l, t, {"enq"}).full = TRUE
  <2>1. l[p].full \in BOOLEAN
    BY <1>4, RecordFields
  <2>2. QED
    BY <1>4, <1>5, <2>1
<1>7. Rebuilt(l, t).full = (Latest(l, t, {"enq"}).full /\ Latest(l, t, Kinds).T # "ok")
  BY DEF Rebuilt
<1>8. Rebuilt(l, t).full = TRUE
  BY <1>2, <1>6, <1>7
<1>9. QED
  BY <1>1, <1>8

LEMMA StepFull ==
  ASSUME IndInv, TargetInv, [Next]_vars, ~Special
  PROVE  \A t \in DOMAIN tasks' : tasks'[t].st # "succeeded" => tasks'[t].full
<1>0. tasks \in [DOMAIN tasks -> Task]
  BY DEF IndInv, TypeOK, IsPartialFn
<1>1. ASSUME NEW t, NEW m, Becomes(t, m)
      PROVE  \A u \in DOMAIN tasks' : tasks'[u].st # "succeeded" => tasks'[u].full
  BY <1>0, <1>1 DEF Becomes, TargetInv
<1>2. ASSUME NEW t, NEW r, Enters(t, r)
      PROVE  \A u \in DOMAIN tasks' : tasks'[u].st # "succeeded" => tasks'[u].full
  <2>1. Fresh(r).full
    BY <1>2 DEF Enters, Fresh
  <2>2. \A u \in DOMAIN tasks' : tasks'[u] = Fresh(r) \/ (u \in DOMAIN tasks /\ tasks'[u] = tasks[u])
    BY <1>2 DEF Enters, Put
  <2>3. QED
    BY <2>1, <2>2 DEF TargetInv
<1>3. CASE Rests
  BY <1>3 DEF Rests, TargetInv
<1>4. QED
  BY <1>1, <1>2, <1>3, ThreeWays

LEMMA NoStrip == StripIds(<<>>) = {}
<1>1. Len(<<>>) = 0 /\ \A i : i \notin 1..0
  OBVIOUS
<1>2. QED
  BY <1>1 DEF StripIds

LEMMA TargetStep ==
  ASSUME IndInv, SuccInv, TargetInv, [Next]_vars
  PROVE  TargetInv'
<1>0. /\ log \in Seq(Record) /\ synced \in 0..Len(log) /\ snap \in Seq(Record)
      /\ log' \in Seq(Record) /\ synced' \in 0..Len(log')
  BY NextPreserves DEF IndInv, TypeOK, Store!JournalTypeOK
<1>1. CASE ~Special
  <2>1. /\ snap' = snap /\ DurOk \subseteq DurOk' /\ StripIds(log') \subseteq StripIds(log)
    BY <1>1, NextMoves DEF Moves, Proceeds, Recorded
  <2>2. QED
    BY <1>1, <2>1, StepFull DEF TargetInv
<1>2. CASE TakeSnapshot
  <2> DEFINE S == {t \in DOMAIN tasks : HasStateRecord(t)}
  <2>1. PICK order \in Orders(DOMAIN tasks), rest \in Orders(S) :
          snap' = SnapshotIn(order, rest)
    BY <1>2 DEF TakeSnapshot
  <2>2. Won \subseteq S /\ S \subseteq DOMAIN tasks
    BY DEF Won, HasStateRecord, Terminal
  <2> HIDE DEF S
  <2>3. Won \subseteq OkIds(snap') /\ TellsTasks(snap', S)
    BY <2>1, <2>2, SnapshotKnows, SnapshotTells
  <2>4. \A t \in DOMAIN tasks : ~EnqOf(t).full => t \in Won
    BY DEF EnqOf, Enq, TargetInv, Won
  <2>5. StripIds(snap') \subseteq Won
    BY <2>3, <2>4 DEF StripIds, TellsTasks
  <2>6. UNCHANGED <<tasks, log, synced>>
    BY <1>2 DEF TakeSnapshot, memVars, logVars
  <2>7. QED
    BY <2>3, <2>5, <2>6 DEF TargetInv, DurOk
<1>3. CASE CompactStore
  <2>1. tasks' = tasks /\ snap' = <<>>
    BY <1>3 DEF CompactStore, memVars
  <2>2. \/ log' = snap /\ synced' = Len(snap)
        \/ UNCHANGED <<log, synced>>
        \/ Store!KeepPrefix(log) /\ synced' = synced
    BY <1>3 DEF CompactStore, Store!Compact, Store!CompactFails, Store!journalVars
  <2>3. CASE log' = snap /\ synced' = Len(snap)
    <3>1. DurOk' = OkIds(snap)
      BY <1>0, <2>3, WholePrefix DEF DurOk
    <3>2. QED
      BY <2>1, <2>3, <3>1, NoStrip DEF TargetInv
  <2>4. CASE UNCHANGED <<log, synced>> \/ (Store!KeepPrefix(log) /\ synced' = synced)
    <3>1. Recorded({}, {})
      BY <2>4, NothingRecorded, WriteErrorRecords
    <3>2. QED
      BY <2>1, <3>1, NoStrip DEF TargetInv, Recorded
  <2>5. QED
    BY <2>2, <2>3, <2>4
<1>4. CASE Crash
  <2>1. PICK ids : Recorded(ids, {}) /\ ids \cap issued = {}
    BY <1>4, CrashRecords
  <2>2. tasks' = Restored(log') /\ snap' = <<>>
    BY <1>4 DEF Crash, Restore
  <2>3. StripIds(log') \subseteq DurOk' /\ OkLast(log')
    BY <2>1 DEF Recorded, TargetInv
  <2>4. DurOk' \subseteq OkIds(log')
    BY <1>0, OkOfPrefix DEF DurOk
  <2>5. DOMAIN tasks' = EnqIds(log')
    BY <1>0, <2>2, RestoredType
  <2>6. \A t \in DOMAIN tasks' : tasks'[t].st # "succeeded" => tasks'[t].full
    BY <1>0, <2>2, <2>3, <2>4, <2>5, RestoredFull
  <2>7. QED
    BY <2>2, <2>3, <2>6, NoStrip DEF TargetInv
<1>5. QED
  BY <1>1, <1>2, <1>3, <1>4 DEF Special

\* Stripping credentials (queue.go: OnSuccess, Restore; maintenance.go: snapshot)
\* never reaches a task that is still to be delivered, or may be revived: neither
\* in memory nor in whatever a crash leaves of the journal.
THEOREM TargetsKept == Spec => []TargetKept
<1>1. Init => TargetInv
  <2> SUFFICES ASSUME Init PROVE TargetInv
    OBVIOUS
  <2>1. tasks = <<>> /\ log = <<>> /\ snap = <<>>
    BY DEF Init, Store!Init
  <2>2. QED
    BY <2>1, NoStrip DEF TargetInv
<1>2. IndInv /\ SuccInv /\ TargetInv /\ [Next]_vars => TargetInv'
  BY TargetStep
<1>3. IndInv /\ SuccInv /\ TargetInv => TargetKept
  <2> SUFFICES ASSUME IndInv, SuccInv, TargetInv PROVE TargetKept
    OBVIOUS
  <2>1. log \in Seq(Record) /\ synced \in 0..Len(log)
    BY DEF IndInv, TypeOK, Store!JournalTypeOK
  <2>2. ASSUME NEW n \in synced..Len(log), NEW t \in DOMAIN Restored(Prefix(log, n)),
               Restored(Prefix(log, n))[t].st # "succeeded"
        PROVE  Restored(Prefix(log, n))[t].full
    <3> DEFINE l == Prefix(log, n)
    <3>1. n \in 0..Len(log) /\ synced \in 0..n
      BY <2>1
    <3>2. l \in Seq(Record) /\ OkLast(l) /\ StripIds(l) \subseteq StripIds(log)
      BY <2>1, <3>1, PrefixIds, LastOfPrefix, StripOfPrefix DEF SuccInv
    <3>3. DurOk \subseteq OkIds(l)
      BY <2>1, <3>1, DurableKept DEF DurOk
    <3> HIDE DEF l
    <3>4. StripIds(l) \subseteq OkIds(l)
      BY <3>2, <3>3 DEF TargetInv
    <3>5. DOMAIN Restored(l) = EnqIds(l)
      BY <3>2, RestoredType
    <3>6. t \in EnqIds(l) /\ Restored(l)[t].st # "succeeded"
      BY <2>2, <3>5 DEF l
    <3>7. Restored(l)[t].full
      BY <3>2, <3>4, <3>6, RestoredFull
    <3>8. QED
      BY <3>7 DEF l
  <2>3. QED
    BY <2>2 DEF TargetKept, TargetInv
<1>4. QED
  BY <1>1, <1>2, <1>3, SuccessInvariance, PTL DEF Spec

-----------------------------------------------------------------------------
(* The journal mirrors memory.                                              *)

\* What JournalMirrorsMemory says of a task m in memory and a rebuilt one, r.
Agrees(m, r, isRevived) ==
  /\ r.key = m.key /\ r.attempts = m.attempts /\ r.full = m.full
  /\ r.st = IF m.st \in Terminal THEN m.st ELSE "pending"
  /\ m.st \in {"waiting", "succeeded", "dead"} => r.updatedAt = m.updatedAt
  /\ m.st = "waiting" => r.nextAt = m.nextAt
  /\ ~isRevived => r.createdAt = m.createdAt /\ r.why = m.why

Mirrored(t, l) == t \in EnqIds(l) /\ Agrees(tasks[t], Restored(l)[t], t \in revived)

Known(l) == \A i \in 1..Len(l) : l[i].id \in issued

\* Nothing follows the death of a task that was never revived.
DeadLast(l) ==
  \A i, j \in 1..Len(l) :
    l[i].T = "dead" /\ i < j /\ l[i].id \notin raced \cup revived => l[j].id # l[i].id

MirrorInv ==
  ioErrors = 0 =>
    /\ Known(log) /\ Known(snap) /\ DeadLast(log) /\ DeadLast(snap)
    /\ \A t \in DOMAIN tasks \ raced : Mirrored(t, log)
    /\ phase = "replace" => \A t \in DOMAIN tasks \ (raced \cup touched) : Mirrored(t, snap)
    /\ \A t \in DOMAIN tasks : tasks[t].st = "waiting" => tasks[t].attempts > 0

\* A task that is rebuilt as a success has no credentials, and one that is not dead
\* and was never revived has no death on record.
LEMMA RestoredSays ==
  ASSUME NEW l \in Seq(Record), NEW t \in EnqIds(l)
  PROVE  /\ Restored(l)[t].st = "succeeded" => Restored(l)[t].full = FALSE
         /\ DeadLast(l) /\ t \notin raced \cup revived /\ Restored(l)[t].st # "dead" =>
              /\ Restored(l)[t].why = NoReason
              /\ \A i \in 1..Len(l) : l[i].id = t => l[i].T # "dead"
<1>1. Restored(l)[t] = Rebuilt(l, t)
  BY RestoredIsRebuilt
<1>2. PICK p \in 1..Len(l) :
        /\ Latest(l, t, Kinds) = l[p] /\ l[p].id = t
        /\ \A i \in 1..Len(l) : l[i].id = t /\ l[i].T \in Kinds => i <= p
  BY HasLast, LastProperty
<1>3. ASSUME Restored(l)[t].st = "succeeded"
      PROVE  Restored(l)[t].full = FALSE
  <2>1. Rebuilt(l, t).st = StateAfter(Latest(l, t, Kinds).T)
    BY DEF Rebuilt
  <2>2. Latest(l, t, Kinds).T = "ok"
    BY <1>1, <1>3, <2>1 DEF StateAfter
  <2>3. Rebuilt(l, t).full = (Latest(l, t, {"enq"}).full /\ Latest(l, t, Kinds).T # "ok")
    BY DEF Rebuilt
  <2>4. QED
    BY <1>1, <2>2, <2>3
<1>4. ASSUME DeadLast(l), t \notin raced \cup revived, Restored(l)[t].st # "dead"
      PROVE  /\ Restored(l)[t].why = NoReason
             /\ \A i \in 1..Len(l) : l[i].id = t => l[i].T # "dead"
  <2>1. l[p].T # "dead"
    BY <1>1, <1>2, <1>4 DEF Rebuilt, StateAfter
  <2>2. ASSUME NEW i \in 1..Len(l), l[i].id = t, l[i].T = "dead"
        PROVE  FALSE
    <3>1. i <= p /\ i # p
      BY <1>2, <2>1, <2>2 DEF Kinds
    <3>2. i < p
      BY <3>1
    <3>3. QED
      BY <1>2, <1>4, <2>2, <3>2 DEF DeadLast
  <2>3. Positions(l, t, {"dead"}) = {}
    BY <2>2, NoPosition
  <2>4. Rebuilt(l, t).why = NoReason
    BY <2>3 DEF Rebuilt
  <2>5. QED
    BY <1>1, <2>2, <2>4
<1>5. QED
  BY <1>3, <1>4

LEMMA KnownAppend ==
  ASSUME NEW l \in Seq(Record), NEW r \in Record, Known(l), r.id \in issued',
         issued \subseteq issued'
  PROVE  \A i \in 1..Len(Append(l, r)) : Append(l, r)[i].id \in issued'
<1> DEFINE m == Append(l, r)
<1>1. Len(l) \in Nat /\ Len(m) = Len(l) + 1
      /\ \A i \in 1..Len(m) : m[i] = IF i <= Len(l) THEN l[i] ELSE r
  OBVIOUS
<1>2. \A i \in 1..Len(m) : i <= Len(l) => i \in 1..Len(l)
  BY <1>1
<1> HIDE DEF m
<1>3. \A i \in 1..Len(m) : m[i].id \in issued'
  BY <1>1, <1>2 DEF Known
<1>4. QED
  BY <1>3 DEF m

\* A record may follow where no death of its task does.
LEMMA DeadLastAppend ==
  ASSUME NEW l \in Seq(Record), NEW r \in Record, DeadLast(l), raced' = raced,
         revived \subseteq revived',
         r.id \notin raced \cup revived' =>
           \A i \in 1..Len(l) : l[i].id = r.id => l[i].T # "dead"
  PROVE  \A i, j \in 1..Len(Append(l, r)) :
           /\ Append(l, r)[i].T = "dead" /\ i < j
           /\ Append(l, r)[i].id \notin raced' \cup revived'
           => Append(l, r)[j].id # Append(l, r)[i].id
<1> DEFINE m == Append(l, r)
<1>1. Len(l) \in Nat /\ Len(m) = Len(l) + 1
      /\ \A i \in 1..Len(m) : m[i] = IF i <= Len(l) THEN l[i] ELSE r
  OBVIOUS
<1> HIDE DEF m
<1>2. SUFFICES ASSUME NEW i \in 1..Len(m), NEW j \in 1..Len(m), m[i].T = "dead", i < j,
                      m[i].id \notin raced' \cup revived'
               PROVE  m[j].id # m[i].id
  BY DEF m
<1>3. i \in 1..Len(l) /\ m[i] = l[i]
  BY <1>1, <1>2
<1>4. CASE j <= Len(l)
  <2>1. j \in 1..Len(l) /\ m[j] = l[j]
    BY <1>1, <1>4
  <2>2. QED
    BY <1>2, <1>3, <2>1 DEF DeadLast
<1>5. CASE ~(j <= Len(l))
  <2>1. m[j] = r
    BY <1>1, <1>5
  <2>2. QED
    BY <1>2, <1>3, <2>1
<1>6. QED
  BY <1>4, <1>5

\* A cut journal keeps both.
LEMMA CutStays ==
  ASSUME NEW l \in Seq(Record), NEW n \in 0..Len(l), NEW ids,
         \A i \in 1..Len(l) : l[i].id \in ids, DeadLast(l)
  PROVE  /\ \A i \in 1..Len(Prefix(l, n)) : Prefix(l, n)[i].id \in ids
         /\ DeadLast(Prefix(l, n))
<1>1. Len(Prefix(l, n)) = n /\ \A i \in 1..n : i \in 1..Len(l) /\ Prefix(l, n)[i] = l[i]
  BY PrefixIds
<1>2. QED
  BY <1>1 DEF DeadLast
-----------------------------------------------------------------------------
(* Memory and the journal move together.                                    *)

LEMMA AgreesSilent ==
  ASSUME NEW t, NEW m, NEW r, tasks[t] \in Task, Agrees(tasks[t], r, t \in revived),
         Silent(t, m), m.key = tasks[t].key, m.full = (tasks[t].full /\ m.st # "succeeded"),
         revived \subseteq revived'
  PROVE  Agrees(m, r, t \in revived')
<1>1. /\ m.st \notin Terminal /\ tasks[t].st \notin Terminal
      /\ m.st \notin {"waiting", "succeeded", "dead"}
  BY DEF Silent, Active, Terminal
<1>2. m.full = tasks[t].full
  <2>1. tasks[t].full \in BOOLEAN
    BY DEF Task
  <2>2. QED
    BY <1>1, <2>1
<1>3. QED
  BY <1>1, <1>2 DEF Agrees, Silent

LEMMA AgreesTells ==
  ASSUME NEW t, NEW m, NEW r \in Record, NEW was, Agrees(tasks[t], was, t \in revived),
         Tells(r, t, m), m.key = tasks[t].key, m.full = (tasks[t].full /\ m.st # "succeeded"),
         revived \subseteq revived'
  PROVE  Agrees(m, After(was, r), t \in revived')
<1> DEFINE n == After(was, r)
<1>1. /\ n.st = StateAfter(r.T) /\ n.key = was.key /\ n.attempts = r.n
      /\ n.nextAt = (IF r.T = "att" THEN r.next ELSE was.nextAt)
      /\ n.createdAt = was.createdAt /\ n.updatedAt = r.ts
      /\ n.why = (IF r.T = "dead" THEN r.why ELSE was.why)
      /\ n.full = (was.full /\ r.T # "ok")
  BY DEF After
<1> HIDE DEF n
<1>2. r.T = "ok" <=> m.st = "succeeded"
  BY DEF Tells, StateAfter, Terminal
<1>3. n.full = m.full
  BY <1>1, <1>2 DEF Agrees
<1>4. t \notin revived' => n.createdAt = m.createdAt /\ n.why = m.why
  BY <1>1 DEF Agrees, Tells
<1>5. Agrees(m, n, t \in revived')
  BY <1>1, <1>3, <1>4 DEF Agrees, Tells
<1>6. QED
  BY <1>5 DEF n

LEMMA BecomesMirrors ==
  ASSUME IndInv, MirrorInv, ioErrors = 0, ioErrors' = 0, NEW t, NEW m, Becomes(t, m)
  PROVE  MirrorInv'
<1>1. /\ tasks \in [DOMAIN tasks -> Task] /\ log \in Seq(Record) /\ t \in issued
      /\ snap \in Seq(Record)
  BY DEF IndInv, TypeOK, IsPartialFn, Store!JournalTypeOK, IssuedInv, Becomes
<1>2. /\ DOMAIN tasks' = DOMAIN tasks /\ tasks'[t] = m /\ t \in DOMAIN tasks
      /\ \A u \in DOMAIN tasks : u # t => tasks'[u] = tasks[u]
  BY <1>1 DEF Becomes
<1>3. /\ Known(log) /\ Known(snap) /\ DeadLast(log) /\ DeadLast(snap)
      /\ \A u \in DOMAIN tasks \ raced : Mirrored(u, log)
      /\ phase = "replace" => \A u \in DOMAIN tasks \ (raced \cup touched) : Mirrored(u, snap)
      /\ \A u \in DOMAIN tasks : tasks[u].st = "waiting" => tasks[u].attempts > 0
  BY DEF MirrorInv
<1>4. /\ UNCHANGED <<snap, phase, issued, raced>> /\ revived \subseteq revived'
      /\ touched \subseteq touched' /\ m.key = tasks[t].key
      /\ m.full = (tasks[t].full /\ m.st # "succeeded")
  BY DEF Becomes
<1>5. \A u \in DOMAIN tasks' : tasks'[u].st = "waiting" => tasks'[u].attempts > 0
  BY <1>2, <1>3 DEF Becomes
<1>6. Known(snap)' /\ DeadLast(snap)'
  BY <1>3, <1>4 DEF Known, DeadLast
<1>7. ASSUME NEW u, NEW r, Agrees(tasks[u], r, u \in revived)
      PROVE  Agrees(tasks[u], r, u \in revived')
  BY <1>4, <1>7 DEF Agrees
<1>8. CASE Silent(t, m) /\ log' = log
  <2>1. Known(log)' /\ DeadLast(log)'
    BY <1>3, <1>4, <1>8 DEF Known, DeadLast
  <2>2. ASSUME NEW u \in DOMAIN tasks, NEW l, Mirrored(u, l)
        PROVE  u \in EnqIds(l) /\ Agrees(tasks'[u], Restored(l)[u], u \in revived')
    <3>1. CASE u = t
      BY <1>1, <1>2, <1>4, <1>8, <2>2, <3>1, AgreesSilent DEF Mirrored
    <3>2. CASE u # t
      BY <1>2, <1>7, <2>2, <3>2 DEF Mirrored
    <3>3. QED
      BY <3>1, <3>2
  <2>3. \A u \in DOMAIN tasks' \ raced' : Mirrored(u, log)'
    BY <1>2, <1>3, <1>4, <1>8, <2>2 DEF Mirrored
  <2>4. phase' = "replace" =>
          \A u \in DOMAIN tasks' \ (raced' \cup touched') : Mirrored(u, snap)'
    BY <1>2, <1>3, <1>4, <2>2 DEF Mirrored
  <2>5. QED
    BY <1>5, <1>6, <2>1, <2>3, <2>4 DEF MirrorInv
<1>9. ASSUME NEW r \in Record, Tells(r, t, m), log' = Append(log, r),
             phase = "replace" => t \in touched'
      PROVE  MirrorInv'
  <2>1. r.id = t /\ r.T # "enq"
    BY <1>9 DEF Tells
  <2>2. Known(log)'
    BY <1>1, <1>3, <1>4, <1>9, <2>1, KnownAppend DEF Known
  <2>3. t \notin raced => /\ t \in EnqIds(log) /\ Agrees(tasks[t], Restored(log)[t], t \in revived)
                          /\ Restored(log)[t].st # "succeeded"
    BY <1>2, <1>3 DEF Mirrored, Agrees, Becomes, Terminal
  <2>4. t \notin raced \cup revived' =>
          \A i \in 1..Len(log) : log[i].id = t => log[i].T # "dead"
    <3> SUFFICES ASSUME t \notin raced \cup revived'
                 PROVE  \A i \in 1..Len(log) : log[i].id = t => log[i].T # "dead"
      OBVIOUS
    <3>1. tasks[t].st # "dead"
      BY <1>9 DEF Tells
    <3>2. Restored(log)[t].st # "dead"
      BY <2>3, <3>1 DEF Agrees
    <3>3. QED
      BY <1>1, <1>3, <1>4, <2>3, <3>2, RestoredSays
  <2>5. DeadLast(log)'
    BY <1>1, <1>3, <1>4, <1>9, <2>1, <2>4, DeadLastAppend DEF DeadLast
  <2>6. ASSUME NEW u \in DOMAIN tasks \ raced
        PROVE  u \in EnqIds(log') /\ Agrees(tasks'[u], Restored(log')[u], u \in revived')
    <3>1. CASE u = t
      <4>1. /\ t \in EnqIds(log') /\ Restored(log')[t] = After(Restored(log)[t], r)
        BY <1>1, <1>9, <2>1, <2>3, <2>6, <3>1, MovedOn
      <4>2. Agrees(m, After(Restored(log)[t], r), t \in revived')
        BY <1>4, <1>9, <2>3, <2>6, <3>1, AgreesTells
      <4>3. QED
        BY <1>2, <3>1, <4>1, <4>2
    <3>2. CASE u # t
      <4>1. u \in EnqIds(log) /\ Agrees(tasks[u], Restored(log)[u], u \in revived)
        BY <1>3, <2>6 DEF Mirrored
      <4>2. u \in EnqIds(log') /\ Restored(log')[u] = Restored(log)[u]
        BY <1>1, <1>9, <2>1, <3>2, <4>1, OthersUnchanged
      <4>3. Agrees(tasks[u], Restored(log)[u], u \in revived')
        BY <1>7, <4>1
      <4>4. QED
        BY <1>2, <3>2, <4>2, <4>3
    <3>3. QED
      BY <3>1, <3>2
  <2>7. \A u \in DOMAIN tasks' \ raced' : Mirrored(u, log)'
    BY <1>2, <1>4, <2>6 DEF Mirrored
  <2>8. ASSUME phase = "replace", NEW u \in DOMAIN tasks \ (raced \cup touched')
        PROVE  u \in EnqIds(snap) /\ Agrees(tasks'[u], Restored(snap)[u], u \in revived')
    <3>1. u # t /\ u \notin touched
      BY <1>4, <1>9, <2>8
    <3>2. u \in EnqIds(snap) /\ Agrees(tasks[u], Restored(snap)[u], u \in revived)
      BY <1>3, <2>8, <3>1 DEF Mirrored
    <3>3. QED
      BY <1>2, <1>7, <3>1, <3>2
  <2>9. phase' = "replace" =>
          \A u \in DOMAIN tasks' \ (raced' \cup touched') : Mirrored(u, snap)'
    BY <1>2, <1>4, <2>8 DEF Mirrored
  <2>10. QED
    BY <1>5, <1>6, <2>2, <2>5, <2>7, <2>9 DEF MirrorInv
<1>10. QED
  BY <1>8, <1>9 DEF Becomes
LEMMA EntersMirrors ==
  ASSUME IndInv, MirrorInv, ioErrors = 0, ioErrors' = 0, NEW t, NEW r, Enters(t, r)
  PROVE  MirrorInv'
<1>1. /\ log \in Seq(Record) /\ r \in Record /\ r.T = "enq" /\ r.id = t /\ t \notin DOMAIN tasks
      /\ t \notin issued
  BY DEF IndInv, TypeOK, Store!JournalTypeOK, IssuedInv, Enters
<1>2. /\ DOMAIN tasks' = DOMAIN tasks \cup {t} /\ tasks'[t] = Fresh(r)
      /\ \A u \in DOMAIN tasks : u # t /\ tasks'[u] = tasks[u]
  BY <1>1 DEF Enters, Put
<1>3. /\ Known(log) /\ Known(snap) /\ DeadLast(log) /\ DeadLast(snap)
      /\ \A u \in DOMAIN tasks \ raced : Mirrored(u, log)
      /\ phase = "replace" => \A u \in DOMAIN tasks \ (raced \cup touched) : Mirrored(u, snap)
      /\ \A u \in DOMAIN tasks : tasks[u].st = "waiting" => tasks[u].attempts > 0
  BY DEF MirrorInv
<1>4. /\ UNCHANGED <<snap, phase, raced, revived>> /\ touched \subseteq touched'
      /\ issued \subseteq issued' /\ t \in issued' /\ log' = Append(log, r)
      /\ phase = "replace" => t \in touched'
  BY DEF Enters
<1>5. \A u \in DOMAIN tasks' : tasks'[u].st = "waiting" => tasks'[u].attempts > 0
  BY <1>2, <1>3 DEF Enters
<1>6. Known(snap)' /\ DeadLast(snap)'
  BY <1>3, <1>4 DEF Known, DeadLast
<1>7. Known(log)'
  BY <1>1, <1>3, <1>4, KnownAppend DEF Known
<1>8. \A i \in 1..Len(log) : log[i].id # t
  BY <1>1, <1>3 DEF Known
<1>9. DeadLast(log)'
  BY <1>1, <1>3, <1>4, <1>8, DeadLastAppend DEF DeadLast
<1>10. t \in EnqIds(log') /\ Agrees(tasks'[t], Restored(log')[t], t \in revived')
  <2>1. t \in EnqIds(log') /\ Restored(log')[t] = Fresh(r)
    BY <1>1, <1>4, <1>8, Introduced
  <2>2. Agrees(Fresh(r), Fresh(r), t \in revived')
    BY DEF Agrees, Fresh, Terminal
  <2>3. QED
    BY <1>2, <2>1, <2>2
<1>11. ASSUME NEW u \in DOMAIN tasks \ raced
       PROVE  u \in EnqIds(log') /\ Agrees(tasks'[u], Restored(log')[u], u \in revived')
  <2>1. u \in EnqIds(log) /\ Agrees(tasks[u], Restored(log)[u], u \in revived)
    BY <1>3, <1>11 DEF Mirrored
  <2>2. u \in EnqIds(log') /\ Restored(log')[u] = Restored(log)[u]
    BY <1>1, <1>2, <1>4, <2>1, OthersUnchanged
  <2>3. QED
    BY <1>2, <1>4, <2>1, <2>2
<1>12. \A u \in DOMAIN tasks' \ raced' : Mirrored(u, log)'
  BY <1>2, <1>4, <1>10, <1>11 DEF Mirrored
<1>13. phase' = "replace" =>
         \A u \in DOMAIN tasks' \ (raced' \cup touched') : Mirrored(u, snap)'
  BY <1>2, <1>3, <1>4 DEF Mirrored
<1>14. QED
  BY <1>5, <1>6, <1>7, <1>9, <1>12, <1>13 DEF MirrorInv

LEMMA RestsMirrors ==
  ASSUME IndInv, MirrorInv, ioErrors = 0, ioErrors' = 0, Rests
  PROVE  MirrorInv'
<1>1. /\ DOMAIN tasks' \subseteq DOMAIN tasks /\ \A t \in DOMAIN tasks' : tasks'[t] = tasks[t]
      /\ UNCHANGED <<log, snap, raced, revived>> /\ issued \subseteq issued'
      /\ touched \subseteq touched' /\ (phase' = "replace" => phase = "replace")
  BY DEF Rests
<1>2. Known(log)' /\ Known(snap)' /\ DeadLast(log)' /\ DeadLast(snap)'
  BY <1>1 DEF MirrorInv, Known, DeadLast
<1>3. \A t \in DOMAIN tasks' \ raced' : Mirrored(t, log)'
  BY <1>1 DEF MirrorInv, Mirrored
<1>4. phase' = "replace" => \A t \in DOMAIN tasks' \ (raced' \cup touched') : Mirrored(t, snap)'
  BY <1>1 DEF MirrorInv, Mirrored
<1>5. \A t \in DOMAIN tasks' : tasks'[t].st = "waiting" => tasks'[t].attempts > 0
  BY <1>1 DEF MirrorInv
<1>6. QED
  BY <1>2, <1>3, <1>4, <1>5 DEF MirrorInv

-----------------------------------------------------------------------------
(* Snapshots and restarts.                                                  *)

\* A snapshot is rebuilt as the tasks it was taken from.
LEMMA SnapshotAgrees ==
  ASSUME IndInv, NEW S, S = {t \in DOMAIN tasks : HasStateRecord(t)},
         NEW l, TellsTasks(l, S), NEW t \in DOMAIN tasks, t \in EnqIds(l),
         tasks[t].st = "succeeded" => tasks[t].full = FALSE,
         tasks[t].st = "waiting" => tasks[t].attempts > 0,
         t \notin revived /\ tasks[t].st # "dead" => tasks[t].why = NoReason
  PROVE  Agrees(tasks[t], Restored(l)[t], t \in revived)
<1>1. l \in Seq(Record) /\ tasks[t] \in Task
  BY DEF TellsTasks, IndInv, TypeOK, IsPartialFn
<1> DEFINE r == StateRecord(t)
<1>2. /\ tasks[t].attempts \in Nat /\ tasks[t].full \in BOOLEAN
      /\ tasks[t].st \in {"pending", "waiting", "sending", "succeeded", "dead"}
  BY <1>1 DEF Task, Active, Terminal
<1>3. /\ r.id = t /\ r.ts = tasks[t].updatedAt /\ r.n = tasks[t].attempts
      /\ r.T = IF tasks[t].st = "succeeded" THEN "ok"
               ELSE IF tasks[t].st = "dead" THEN "dead" ELSE "att"
      /\ r.T = "att" => r.next = tasks[t].nextAt
      /\ r.T = "dead" => r.why = tasks[t].why
  BY <1>2 DEF StateRecord, Ok, Dead, Att
<1> HIDE DEF r
<1>4. /\ \A i \in 1..Len(l) : l[i].id = t => IF l[i].T = "enq" THEN l[i] = EnqOf(t)
                                                            ELSE t \in S /\ l[i] = r
      /\ t \in S => \E i \in 1..Len(l) : l[i].T # "enq" /\ l[i].id = t
      /\ \A i, j \in 1..Len(l) : l[i].T # "enq" /\ i < j => l[j].id # l[i].id
  BY DEF TellsTasks, r
<1>5. /\ Latest(l, t, {"enq"}) = EnqOf(t)
  <2>1. PICK p \in 1..Len(l) : /\ Latest(l, t, {"enq"}) = l[p] /\ l[p].id = t
                               /\ l[p].T \in {"enq"}
    BY <1>1, HasLast, LastProperty
  <2>2. QED
    BY <1>4, <2>1
<1>6. /\ EnqOf(t).T = "enq" /\ EnqOf(t).ts = tasks[t].createdAt /\ EnqOf(t).key = tasks[t].key
      /\ EnqOf(t).full = (tasks[t].full /\ tasks[t].st # "succeeded")
  BY DEF EnqOf, Enq
<1> DEFINE n == Restored(l)[t]
<1>7. n = Rebuilt(l, t)
  BY RestoredIsRebuilt
<1>8. /\ n.st = StateAfter(Latest(l, t, Kinds).T) /\ n.key = tasks[t].key
      /\ n.attempts = (IF Latest(l, t, Kinds).T = "enq" THEN 0 ELSE Latest(l, t, Kinds).n)
      /\ n.nextAt = (IF Positions(l, t, {"att"}) = {} THEN Latest(l, t, {"enq"}).ts
                                                    ELSE Latest(l, t, {"att"}).next)
      /\ n.createdAt = tasks[t].createdAt /\ n.updatedAt = Latest(l, t, Kinds).ts
      /\ n.why = (IF Positions(l, t, {"dead"}) = {} THEN NoReason
                                                  ELSE Latest(l, t, {"dead"}).why)
      /\ n.full = (EnqOf(t).full /\ Latest(l, t, Kinds).T # "ok")
  BY <1>5, <1>6, <1>7 DEF Rebuilt
<1> HIDE DEF n
<1>9. CASE t \in S
  <2>1. PICK i \in 1..Len(l) : l[i] = r /\ l[i].id = t /\ l[i].T # "enq"
    BY <1>4, <1>9
  <2>2. \A j \in 1..Len(l) : l[j].id = l[i].id => j <= i
    BY <1>4, <2>1
  <2>3. \A K : r.T \in K => Positions(l, t, K) # {} /\ Latest(l, t, K) = r
    BY <1>1, <2>1, <2>2, LastIs
  <2>4. Latest(l, t, Kinds) = r
    BY <1>3, <2>3 DEF Kinds
  <2>5. n.full = tasks[t].full
    <3>1. r.T # "ok" => tasks[t].st # "succeeded"
      BY <1>3
    <3>2. n.full = (EnqOf(t).full /\ r.T # "ok")
      BY <1>8, <2>4
    <3>3. CASE tasks[t].st = "succeeded"
      BY <1>6, <3>2, <3>3
    <3>4. CASE tasks[t].st # "succeeded"
      <4>1. r.T # "ok" /\ EnqOf(t).full = tasks[t].full
        BY <1>2, <1>3, <1>6, <3>4
      <4>2. QED
        BY <1>2, <3>2, <4>1
    <3>5. QED
      BY <3>3, <3>4
  <2>6. t \notin revived => n.why = tasks[t].why
    <3>1. CASE r.T = "dead"
      <4>1. Positions(l, t, {"dead"}) # {} /\ Latest(l, t, {"dead"}) = r
        BY <2>3, <3>1
      <4>2. QED
        BY <1>3, <1>8, <3>1, <4>1
    <3>2. CASE r.T # "dead"
      <4>1. \A j \in 1..Len(l) : l[j].id = t => l[j].T # "dead"
        BY <1>4, <3>2
      <4>2. Positions(l, t, {"dead"}) = {}
        BY <1>1, <4>1, NoPosition
      <4>3. tasks[t].st # "dead"
        BY <1>3, <3>2
      <4>4. QED
        BY <1>8, <4>2, <4>3
    <3>3. QED
      BY <3>1, <3>2
  <2>7. tasks[t].st = "waiting" => n.nextAt = tasks[t].nextAt
    <3> SUFFICES ASSUME tasks[t].st = "waiting" PROVE n.nextAt = tasks[t].nextAt
      OBVIOUS
    <3>1. r.T = "att"
      BY <1>3
    <3>2. Positions(l, t, {"att"}) # {} /\ Latest(l, t, {"att"}) = r
      BY <2>3, <3>1
    <3>3. QED
      BY <1>3, <1>8, <3>1, <3>2
  <2>8. /\ n.st = IF tasks[t].st \in Terminal THEN tasks[t].st ELSE "pending"
        /\ n.attempts = tasks[t].attempts /\ n.updatedAt = tasks[t].updatedAt
    BY <1>2, <1>3, <1>8, <2>1, <2>4 DEF StateAfter, Terminal
  <2>9. Agrees(tasks[t], n, t \in revived)
    BY <1>8, <2>5, <2>6, <2>7, <2>8 DEF Agrees
  <2>10. QED
    BY <2>9 DEF n
<1>10. CASE t \notin S
  <2>1. /\ tasks[t].st \notin Terminal /\ tasks[t].attempts = 0
    BY <1>2, <1>10 DEF HasStateRecord
  <2>2. tasks[t].st \notin {"waiting", "succeeded", "dead"}
    BY <2>1 DEF Terminal
  <2>3. \A i \in 1..Len(l) : l[i].id = t => l[i] = EnqOf(t) /\ l[i].T = "enq"
    BY <1>4, <1>10
  <2>4. PICK p \in 1..Len(l) : Latest(l, t, Kinds) = l[p] /\ l[p].id = t
    BY <1>1, HasLast, LastProperty
  <2>5. Latest(l, t, Kinds).T = "enq"
    BY <2>3, <2>4
  <2>6. Positions(l, t, {"dead"}) = {}
    BY <1>1, <2>3, NoPosition
  <2>7. n.full = tasks[t].full
    <3>1. EnqOf(t).full = tasks[t].full
      BY <1>2, <1>6, <2>2
    <3>2. n.full = (EnqOf(t).full /\ Latest(l, t, Kinds).T # "ok")
      BY <1>8
    <3>3. QED
      BY <1>2, <2>5, <3>1, <3>2
  <2>8. n.st = "pending" /\ n.attempts = 0 /\ n.why = NoReason
    BY <1>8, <2>5, <2>6 DEF StateAfter
  <2>9. Agrees(tasks[t], n, t \in revived)
    BY <1>8, <2>1, <2>2, <2>7, <2>8 DEF Agrees
  <2>10. QED
    BY <2>9 DEF n
<1>11. QED
  BY <1>9, <1>10
LEMMA TakeSnapshotMirrors ==
  ASSUME IndInv, MirrorInv, ioErrors = 0, TakeSnapshot
  PROVE  MirrorInv'
<1> DEFINE S == {t \in DOMAIN tasks : HasStateRecord(t)}
<1>1. PICK order \in Orders(DOMAIN tasks), rest \in Orders(S) : snap' = SnapshotIn(order, rest)
  BY DEF TakeSnapshot
<1>2. S \subseteq DOMAIN tasks /\ S = {t \in DOMAIN tasks : HasStateRecord(t)}
  OBVIOUS
<1> HIDE DEF S
<1>3. TellsTasks(snap', S) /\ EnqIds(snap') = DOMAIN tasks
  BY <1>1, <1>2, SnapshotTells, SnapshotIds
<1>4. UNCHANGED <<tasks, log, raced, revived, issued>>
  BY DEF TakeSnapshot, memVars, logVars
<1>5. /\ log \in Seq(Record) /\ DOMAIN tasks \subseteq issued
  BY DEF IndInv, TypeOK, Store!JournalTypeOK, IssuedInv
<1>6. Known(snap)'
  BY <1>2, <1>3, <1>4, <1>5 DEF TellsTasks, Known
<1>7. DeadLast(snap)'
  BY <1>3 DEF TellsTasks, DeadLast
<1>8. Known(log)' /\ DeadLast(log)'
  BY <1>4 DEF MirrorInv, Known, DeadLast
<1>9. ASSUME NEW t \in DOMAIN tasks \ raced
      PROVE  Agrees(tasks[t], Restored(snap')[t], t \in revived)
  <2>1. /\ t \in EnqIds(log) /\ Agrees(tasks[t], Restored(log)[t], t \in revived)
        /\ DeadLast(log) /\ (tasks[t].st = "waiting" => tasks[t].attempts > 0)
    BY DEF MirrorInv, Mirrored
  <2>2. tasks[t].st = "succeeded" => tasks[t].full = FALSE
    BY <1>5, <2>1, RestoredSays DEF Agrees, Terminal
  <2>3. t \notin revived /\ tasks[t].st # "dead" => tasks[t].why = NoReason
    <3> SUFFICES ASSUME t \notin revived, tasks[t].st # "dead" PROVE tasks[t].why = NoReason
      OBVIOUS
    <3>1. Restored(log)[t].st # "dead"
      BY <2>1 DEF Agrees
    <3>2. Restored(log)[t].why = NoReason
      BY <1>5, <2>1, <3>1, RestoredSays
    <3>3. QED
      BY <2>1, <3>2 DEF Agrees
  <2>4. QED
    BY <1>2, <1>3, <2>1, <2>2, <2>3, SnapshotAgrees
<1>10. \A t \in DOMAIN tasks' \ (raced' \cup touched') : Mirrored(t, snap)'
  BY <1>3, <1>4, <1>9 DEF Mirrored
<1>11. /\ \A t \in DOMAIN tasks' \ raced' : Mirrored(t, log)'
       /\ \A t \in DOMAIN tasks' : tasks'[t].st = "waiting" => tasks'[t].attempts > 0
  BY <1>4 DEF MirrorInv, Mirrored
<1>12. QED
  BY <1>6, <1>7, <1>8, <1>10, <1>11 DEF MirrorInv

\* Of an empty journal there is nothing to say.
LEMMA NothingKnown ==
  ASSUME NEW l, l = <<>>
  PROVE  Known(l) /\ DeadLast(l)
<1>1. Len(l) = 0 /\ \A i : i \notin 1..0
  OBVIOUS
<1>2. QED
  BY <1>1 DEF Known, DeadLast

\* The snapshot takes the place of the journal: it says the same of every task it
\* has not overwritten a record of.
LEMMA CompactMirrors ==
  ASSUME IndInv, MirrorInv, ioErrors = 0, ioErrors' = 0, CompactStore
  PROVE  MirrorInv'
<1>1. /\ phase = "replace" /\ phase' # "replace" /\ log' = snap
      /\ raced' = IF log' = log THEN raced ELSE raced \cup touched
  BY FaultSeen DEF CompactStore, Overwritten, Store!Compact
<1>2. snap' = <<>> /\ UNCHANGED <<tasks, issued, revived>>
  BY DEF CompactStore, memVars
<1>3. Known(snap)' /\ DeadLast(snap)'
  <2>1. /\ Len(snap') = 0 /\ \A i : i \notin 1..0
    BY <1>2
  <2>2. QED
    BY <2>1 DEF Known, DeadLast
<1>4. Known(log)' /\ DeadLast(log)'
  <2>1. raced \subseteq raced' /\ Known(snap) /\ DeadLast(snap)
    BY <1>1 DEF MirrorInv
  <2>2. QED
    BY <1>1, <1>2, <2>1 DEF Known, DeadLast
<1>5. \A t \in DOMAIN tasks \ raced' : Mirrored(t, log')
  <2>1. CASE log' = log
    BY <1>1, <2>1 DEF MirrorInv
  <2>2. CASE log' # log
    BY <1>1, <2>2 DEF MirrorInv
  <2>3. QED
    BY <2>1, <2>2
<1>6. \A t \in DOMAIN tasks' \ raced' : Mirrored(t, log)'
  BY <1>2, <1>5 DEF Mirrored
<1>7. \A t \in DOMAIN tasks' : tasks'[t].st = "waiting" => tasks'[t].attempts > 0
  BY <1>2 DEF MirrorInv
<1>8. QED
  BY <1>1, <1>3, <1>4, <1>6, <1>7 DEF MirrorInv

\* What a crash leaves: the records are still of tasks that were issued, and nothing
\* follows a death.
LEMMA CrashKnows ==
  ASSUME IndInv, MirrorInv, ioErrors = 0, Crash
  PROVE  Known(log)' /\ DeadLast(log)'
<1>1. log \in Seq(Record) /\ synced \in 0..Len(log) /\ Known(log) /\ DeadLast(log)
  BY DEF IndInv, TypeOK, Store!JournalTypeOK, MirrorInv
<1>2. UNCHANGED <<raced, revived>>
  BY DEF Crash
<1>3. ASSUME NEW l \in Seq(Record), \A i \in 1..Len(l) : l[i].id \in issued', DeadLast(l),
             Len(l) >= Len(log), Store!KeepPrefix(l)
      PROVE  Known(log)' /\ DeadLast(log)'
  <2>1. PICK n \in synced..Len(l) : log' = Prefix(l, n)
    BY <1>3 DEF Store!KeepPrefix, Prefix
  <2>2. n \in 0..Len(l)
    BY <1>1, <2>1
  <2>3. /\ \A i \in 1..Len(log') : log'[i].id \in issued'
        /\ DeadLast(log')
    BY <1>3, <2>1, <2>2, CutStays
  <2>4. QED
    BY <1>2, <2>3 DEF Known, DeadLast
<1>4. CASE Store!Crash(<<>>) /\ UNCHANGED issued
  <2>1. log \o <<>> = log
    BY <1>1
  <2>2. Store!KeepPrefix(log) /\ Len(log) >= Len(log)
    BY <1>1, <1>4, <2>1 DEF Store!Crash
  <2>3. \A i \in 1..Len(log) : log[i].id \in issued'
    BY <1>1, <1>4 DEF Known
  <2>4. QED
    BY <1>1, <1>3, <2>2, <2>3
<1>5. ASSUME NEW t \in TaskId \ issued, NEW k \in Key,
             Store!Crash(<<Enq(t, now, k, TRUE)>>), issued' = issued \cup {t}
      PROVE  Known(log)' /\ DeadLast(log)'
  <2> DEFINE r == Enq(t, now, k, TRUE)
             l == Append(log, r)
  <2>1. r \in Record /\ r.id = t
    BY EnqIsRecord DEF Enq
  <2>2. Store!Crash(<<r>>)
    BY <1>5
  <2> HIDE DEF r
  <2>3. /\ l \in Seq(Record) /\ Len(l) >= Len(log) /\ log \o <<r>> = l
    BY <1>1, <2>1
  <2>4. \A i \in 1..Len(l) : l[i].id \in issued'
    BY <1>1, <1>5, <2>1, KnownAppend
  <2>5. \A i \in 1..Len(log) : log[i].id # r.id
    BY <1>1, <2>1 DEF Known
  <2>6. DeadLast(l)
    <3>1. revived \subseteq revived'
      BY <1>2
    <3>2. \A i, j \in 1..Len(l) :
            /\ l[i].T = "dead" /\ i < j /\ l[i].id \notin raced' \cup revived'
            => l[j].id # l[i].id
      BY <1>1, <1>2, <2>1, <2>5, <3>1, DeadLastAppend
    <3>3. QED
      BY <1>2, <3>2 DEF DeadLast
  <2> HIDE DEF l
  <2>7. Store!KeepPrefix(l)
    BY <2>2, <2>3 DEF Store!Crash
  <2>8. QED
    BY <1>3, <2>3, <2>4, <2>6, <2>7
<1>6. QED
  BY <1>4, <1>5 DEF Crash

\* After a restart memory is what the journal says.
LEMMA CrashMirrors ==
  ASSUME IndInv, MirrorInv, ioErrors = 0, Crash
  PROVE  MirrorInv'
<1>1. /\ tasks' = Restored(log') /\ snap' = <<>> /\ phase' = "idle"
  BY DEF Crash, Restore
<1>2. log' \in Seq(Record)
  BY CrashPreserves DEF IndInv, TypeOK, Store!JournalTypeOK
<1>3. DOMAIN tasks' = EnqIds(log')
  BY <1>1, <1>2, RestoredType
<1>4. ASSUME NEW t \in EnqIds(log')
      PROVE  Restored(log')[t].st \in {"pending", "succeeded", "dead"}
  <2>1. Restored(log')[t] = Rebuilt(log', t)
    BY RestoredIsRebuilt
  <2>2. QED
    BY <2>1 DEF Rebuilt, StateAfter
<1>5. ASSUME NEW t \in EnqIds(log')
      PROVE  Agrees(Restored(log')[t], Restored(log')[t], t \in revived')
  BY <1>4 DEF Agrees, Terminal
<1>6. \A t \in DOMAIN tasks' \ raced' : Mirrored(t, log)'
  BY <1>1, <1>3, <1>5 DEF Mirrored
<1>7. \A t \in DOMAIN tasks' : tasks'[t].st = "waiting" => tasks'[t].attempts > 0
  BY <1>1, <1>3, <1>4
<1>8. Known(snap)' /\ DeadLast(snap)'
  <2>1. Len(snap') = 0 /\ \A i : i \notin 1..0
    BY <1>1
  <2>2. QED
    BY <2>1 DEF Known, DeadLast
<1>9. QED
  BY <1>1, <1>6, <1>7, <1>8, CrashKnows DEF MirrorInv

\* A failure of the file system is never forgotten.
LEMMA FaultsStay ==
  ASSUME IndInv, [Next]_vars, ioErrors' = 0
  PROVE  ioErrors = 0
<1>1. ioErrors = ioErrors' \/ Fault
  BY DEF Next, vars, faults, Submit, SubmitFails, SubmitDuplicate, Revive, Lease, Defer, OnRetry,
     OnSuccess, OnDead, PurgeExpired, EnforceTaskCap, MaybeCompact, TakeSnapshot,
     CompactStore, ResetUnstripped, SyncLoop, Tick, Crash
<1>2. QED
  BY <1>1, FaultSeen

LEMMA MirrorStep ==
  ASSUME IndInv, MirrorInv, [Next]_vars
  PROVE  MirrorInv'
<1> SUFFICES ASSUME ioErrors' = 0 PROVE MirrorInv'
  BY DEF MirrorInv
<1>1. ioErrors = 0
  BY FaultsStay
<1>2. CASE ~Special
  BY <1>1, <1>2, ThreeWays, BecomesMirrors, EntersMirrors, RestsMirrors
<1>3. CASE Special
  BY <1>1, <1>3, TakeSnapshotMirrors, CompactMirrors, CrashMirrors DEF Special
<1>4. QED
  BY <1>2, <1>3

LEMMA InitMirrors == Init => MirrorInv
<1> SUFFICES ASSUME Init PROVE MirrorInv
  OBVIOUS
<1>1. tasks = <<>> /\ log = <<>> /\ snap = <<>> /\ phase = "idle"
  BY DEF Init, Store!Init
<1>2. Known(log) /\ Known(snap) /\ DeadLast(log) /\ DeadLast(snap)
  BY <1>1, NothingKnown
<1>3. QED
  BY <1>1, <1>2 DEF MirrorInv

\* As long as the file system works, a restart that loses no record finds every
\* task as memory has it, whatever was submitted, delivered, revived, purged,
\* compacted or restarted before, unless a compaction has overwritten one of its
\* records (queue.go: Restore and every append; maintenance.go: snapshot).
THEOREM JournalMirrors == Spec => []JournalMirrorsMemory
<1>1. Init => MirrorInv
  BY InitMirrors
<1>2. IndInv /\ MirrorInv /\ [Next]_vars => MirrorInv'
  BY MirrorStep
<1>3. MirrorInv => JournalMirrorsMemory
  BY DEF MirrorInv, Mirrored, Agrees, JournalMirrorsMemory
<1>4. QED
  BY <1>1, <1>2, <1>3, Invariance, PTL DEF Spec

-----------------------------------------------------------------------------
(* The bound on the unfinished tasks, over restarts.                        *)

\* What the journal still knows of a task maintenance has dropped is that it is
\* over: a restart that brings the task back does not bring it back to life.
GhostInv ==
  ioErrors = 0 =>
    \A t \in EnqIds(log) \ (DOMAIN tasks \cup raced) : Restored(log)[t].st \in Terminal

LEMMA GhostStep ==
  ASSUME IndInv, KeyInv, MirrorInv, GhostInv, [Next]_vars
  PROVE  GhostInv'
<1> SUFFICES ASSUME ioErrors' = 0, NEW t \in EnqIds(log') \ (DOMAIN tasks' \cup raced')
             PROVE  Restored(log')[t].st \in Terminal
  BY DEF GhostInv
<1>0. log \in Seq(Record) /\ tasks \in [DOMAIN tasks -> Task] /\ ioErrors = 0
  BY FaultsStay DEF IndInv, TypeOK, Store!JournalTypeOK, IsPartialFn
<1>1. \A u \in EnqIds(log) \ (DOMAIN tasks \cup raced) : Restored(log)[u].st \in Terminal
  BY <1>0 DEF GhostInv
<1>2. ASSUME NEW u, NEW m, Becomes(u, m)
      PROVE  Restored(log')[t].st \in Terminal
  <2>1. DOMAIN tasks' = DOMAIN tasks /\ raced' = raced /\ u \in DOMAIN tasks
    BY <1>2 DEF Becomes
  <2>2. CASE log' = log
    BY <1>1, <2>1, <2>2
  <2>3. ASSUME NEW r \in Record, Tells(r, u, m), log' = Append(log, r)
        PROVE  Restored(log')[t].st \in Terminal
    <3>1. r.T # "enq" /\ r.id # t
      BY <2>1, <2>3 DEF Tells
    <3>2. t \in EnqIds(log)
      BY <1>0, <2>3, <3>1, AppendedIds
    <3>3. QED
      BY <1>0, <1>1, <2>1, <2>3, <3>1, <3>2, OthersUnchanged
  <2>4. QED
    BY <1>2, <2>2, <2>3 DEF Becomes
<1>3. ASSUME NEW u, NEW r, Enters(u, r)
      PROVE  Restored(log')[t].st \in Terminal
  <2>1. /\ DOMAIN tasks' = DOMAIN tasks \cup {u} /\ raced' = raced /\ r.id = u
        /\ r \in Record /\ log' = Append(log, r)
    BY <1>3 DEF Enters, Put
  <2>2. t # r.id /\ t \in EnqIds(log)
    BY <1>0, <2>1, AppendedIds
  <2>3. QED
    BY <1>0, <1>1, <2>1, <2>2, OthersUnchanged
<1>4. CASE Rests
  <2>1. /\ log' = log /\ raced' = raced
        /\ \A u \in DOMAIN tasks \ DOMAIN tasks' : tasks[u].st \in Terminal
    BY <1>4 DEF Rests
  <2>2. CASE t \in DOMAIN tasks
    <3>1. tasks[t].st \in Terminal /\ Mirrored(t, log)
      BY <1>0, <2>1, <2>2 DEF MirrorInv
    <3>2. QED
      BY <2>1, <3>1 DEF Mirrored, Agrees
  <2>3. CASE t \notin DOMAIN tasks
    BY <1>1, <2>1, <2>3
  <2>4. QED
    BY <2>2, <2>3
<1>5. CASE TakeSnapshot
  <2>1. UNCHANGED <<log, tasks, raced>>
    BY <1>5 DEF TakeSnapshot, memVars, logVars
  <2>2. QED
    BY <1>1, <2>1
<1>6. CASE CompactStore
  <2>1. /\ tasks' = tasks /\ log' = snap /\ EnqIds(snap) \subseteq DOMAIN tasks
    BY <1>6, FaultSeen DEF CompactStore, Store!Compact, memVars, KeyInv, SnapKeys
  <2>2. QED
    BY <2>1
<1>7. CASE Crash
  <2>1. tasks' = Restored(log') /\ log' \in Seq(Record)
    BY <1>7, CrashPreserves DEF Crash, Restore, IndInv, TypeOK, Store!JournalTypeOK
  <2>2. QED
    BY <2>1, RestoredType
<1>8. QED
  BY <1>2, <1>3, <1>4, <1>5, <1>6, <1>7, ThreeWays DEF Special

\* A journal and the memory it mirrors have the same unfinished tasks.
LEMMA SameActive ==
  ASSUME NEW l \in Seq(Record), NEW mem,
         \A t \in DOMAIN mem : /\ t \in EnqIds(l)
                               /\ mem[t].st \in Active \cup Terminal
                               /\ Restored(l)[t].st = IF mem[t].st \in Terminal
                                                      THEN mem[t].st ELSE "pending",
         \A t \in EnqIds(l) \ DOMAIN mem : Restored(l)[t].st \in Terminal
  PROVE  ActiveIn(Restored(l)) = ActiveIn(mem)
<1>1. DOMAIN Restored(l) = EnqIds(l)
  BY RestoredType
<1>2. ASSUME NEW t \in EnqIds(l)
      PROVE  Restored(l)[t].st \in Active <=> t \in DOMAIN mem /\ mem[t].st \in Active
  BY DEF Active, Terminal
<1>3. QED
  BY <1>1, <1>2 DEF ActiveIn

\* The tasks a restart on the journal l has to deliver fit under the bound.
Bounded(l) == Cardinality(ActiveIn(Restored(l))) <= QueueMax

BoundInv ==
  raced = {} /\ ioErrors = 0 =>
    active <= QueueMax /\ \A n \in synced..Len(log) : Bounded(Prefix(log, n))

\* Only Submit and Revive add an unfinished task, and both look at the bound.
LEMMA RoomSeen ==
  ASSUME IndInv, [Next]_vars, ~Crash, active <= QueueMax
  PROVE  active' <= QueueMax
<1>1. active \in Int /\ QueueMax \in Nat
  BY ConfigAssumption DEF IndInv, TypeOK
<1>2. \/ active' = active \/ active' = active - 1
      \/ active' = active + 1 /\ HasRoom
  BY DEF Next, vars, memVars, Submit, SubmitFails, SubmitDuplicate, Revive, Lease, Defer,
     OnRetry, OnSuccess, OnDead, PurgeExpired, EnforceTaskCap, MaybeCompact, TakeSnapshot,
     CompactStore, ResetUnstripped, SyncLoop, Tick
<1>3. QED
  BY <1>1, <1>2 DEF HasRoom

\* Nothing synced is forgotten.
LEMMA SyncedStays ==
  ASSUME IndInv, [Next]_vars, ~Special, ioErrors' = 0
  PROVE  synced' \in {synced, Len(log')}
<1>0. log \in Seq(Record)
  BY DEF IndInv, TypeOK, Store!JournalTypeOK
<1>1. ASSUME NEW t \in TaskId, NEW k \in Key, Submit(t, k)
      PROVE  synced' = Len(log')
  BY <1>0, <1>1, EnqIsRecord DEF Submit, Store!AppendSync
<1>2. CASE \E t \in TaskId : Revive(t) \/ OnRetry(t) \/ OnSuccess(t) \/ OnDead(t)
  BY <1>2 DEF Revive, OnRetry, OnSuccess, OnDead, Store!AppendLazy, Store!AppendLazyFails,
     Store!WriteError, Store!StillFailed, Store!journalVars
<1>3. CASE SyncLoop
  BY <1>3, FaultSeen DEF SyncLoop, Store!Flush
<1>4. CASE \E t \in TaskId, k \in Key : SubmitFails(t, k)
  BY <1>4, FaultSeen DEF SubmitFails
<1>5. CASE \/ \E t \in TaskId : Lease(t) \/ Defer(t)
           \/ \E k \in Key : SubmitDuplicate(k)
           \/ PurgeExpired \/ EnforceTaskCap \/ MaybeCompact \/ ResetUnstripped
           \/ Tick \/ UNCHANGED vars
  BY <1>5 DEF Lease, Defer, SubmitDuplicate, PurgeExpired, EnforceTaskCap, MaybeCompact,
     ResetUnstripped, Tick, vars, logVars
<1>6. QED
  BY <1>1, <1>2, <1>3, <1>4, <1>5 DEF Next, Special

\* A crash leaves a part of the journal, or adds a submission there was room for.
LEMMA CrashShape ==
  ASSUME IndInv, Crash
  PROVE  /\ \/ \E n \in synced..Len(log) : log' = Prefix(log, n)
            \/ \E r \in Record : /\ r.T = "enq" /\ r.id \notin issued /\ HasRoom
                                 /\ log' = Append(log, r)
         /\ synced' \in {synced, Len(log')}
<1>1. log \in Seq(Record) /\ synced \in 0..Len(log)
  BY DEF IndInv, TypeOK, Store!JournalTypeOK
<1>2. synced' \in {synced, Len(log')}
  BY DEF Crash, Store!Crash
<1>3. CASE Store!Crash(<<>>)
  <2>1. log \o <<>> = log
    BY <1>1
  <2>2. QED
    BY <1>2, <1>3, <2>1 DEF Store!Crash, Store!KeepPrefix, Prefix
<1>4. ASSUME NEW t \in TaskId \ issued, NEW k \in Key, HasRoom,
             Store!Crash(<<Enq(t, now, k, TRUE)>>)
      PROVE  \/ \E n \in synced..Len(log) : log' = Prefix(log, n)
             \/ \E r \in Record : /\ r.T = "enq" /\ r.id \notin issued /\ HasRoom
                                  /\ log' = Append(log, r)
  <2> DEFINE r == Enq(t, now, k, TRUE)
  <2>1. r \in Record /\ r.T = "enq" /\ r.id = t /\ t \notin issued
    BY EnqIsRecord
  <2>2. Store!KeepPrefix(log \o <<r>>)
    BY <1>4 DEF Store!Crash
  <2> HIDE DEF r
  <2>3. /\ log \o <<r>> = Append(log, r) /\ Append(log, r) \in Seq(Record)
        /\ Len(Append(log, r)) = Len(log) + 1 /\ Len(log) \in Nat
    BY <1>1, <2>1
  <2>4. PICK n \in synced..Len(log) + 1 : log' = Prefix(Append(log, r), n)
    BY <2>2, <2>3 DEF Store!KeepPrefix, Prefix
  <2>5. CASE n = Len(log) + 1
    <3>1. log' = Append(log, r)
      BY <2>3, <2>4, <2>5, WholePrefix
    <3>2. QED
      BY <1>4, <2>1, <3>1
  <2>6. CASE n # Len(log) + 1
    <3>1. n \in synced..Len(log) /\ n \in 0..Len(log)
      BY <1>1, <2>3, <2>4, <2>6
    <3>2. log' = Prefix(log, n)
      BY <1>1, <2>1, <2>4, <3>1, PrefixOfAppend
    <3>3. QED
      BY <3>1, <3>2
  <2>7. QED
    BY <2>5, <2>6
<1>5. QED
  BY <1>2, <1>3, <1>4 DEF Crash

\* A submission adds one unfinished task.
LEMMA OneMoreActive ==
  ASSUME NEW l \in Seq(Record), NEW r \in Record, r.T = "enq"
  PROVE  /\ Cardinality(ActiveIn(Restored(l))) \in Nat
         /\ Cardinality(ActiveIn(Restored(Append(l, r)))) \in Nat
         /\ Cardinality(ActiveIn(Restored(Append(l, r)))) <= Cardinality(ActiveIn(Restored(l))) + 1
<1> DEFINE A == ActiveIn(Restored(l))
           B == ActiveIn(Restored(Append(l, r)))
<1>1. Append(l, r) \in Seq(Record) /\ EnqIds(Append(l, r)) \subseteq EnqIds(l) \cup {r.id}
  BY AppendedIds
<1>2. DOMAIN Restored(l) = EnqIds(l) /\ DOMAIN Restored(Append(l, r)) = EnqIds(Append(l, r))
  BY <1>1, RestoredType
<1>3. A \subseteq EnqIds(l) /\ B \subseteq A \cup {r.id}
  <2>1. ASSUME NEW t \in B, t # r.id PROVE t \in A
    BY <1>1, <1>2, <2>1, OthersUnchanged DEF ActiveIn
  <2>2. QED
    BY <1>2, <2>1 DEF ActiveIn
<1> HIDE DEF A, B
<1>4. IsFiniteSet(A)
  BY <1>3, EnqIdsFinite, FS_Subset
<1>5. /\ IsFiniteSet(A \cup {r.id}) /\ Cardinality(A) \in Nat
      /\ Cardinality(A \cup {r.id}) <= Cardinality(A) + 1
  <2>1. Cardinality(A) \in Nat
    BY <1>4, FS_CardinalityType
  <2>2. /\ IsFiniteSet(A \cup {r.id})
        /\ Cardinality(A \cup {r.id}) = IF r.id \in A THEN Cardinality(A) ELSE Cardinality(A) + 1
    BY <1>4, FS_AddElement
  <2>3. QED
    BY <2>1, <2>2
<1>6. /\ Cardinality(B) \in Nat /\ Cardinality(A \cup {r.id}) \in Nat
      /\ Cardinality(B) <= Cardinality(A \cup {r.id})
  BY <1>3, <1>5, FS_Subset, FS_CardinalityType
<1>7. QED
  BY <1>5, <1>6 DEF A, B

LEMMA BoundStep ==
  ASSUME IndInv, KeyInv, MirrorInv, GhostInv, BoundInv, [Next]_vars
  PROVE  BoundInv'
<1> SUFFICES ASSUME raced' = {}, ioErrors' = 0
             PROVE  active' <= QueueMax /\ \A n \in synced'..Len(log') : Bounded(Prefix(log', n))
  BY DEF BoundInv, Bounded, ActiveIn
<1>0. /\ IndInv' /\ MirrorInv' /\ GhostInv' /\ ioErrors = 0
  BY NextPreserves, MirrorStep, GhostStep, FaultsStay
<1>1. /\ log \in Seq(Record) /\ log' \in Seq(Record) /\ synced \in 0..Len(log)
      /\ synced' \in 0..Len(log') /\ QueueMax \in Nat /\ active \in Int
      /\ tasks \in [DOMAIN tasks -> Task] /\ tasks' \in [DOMAIN tasks' -> Task]
  BY <1>0, ConfigAssumption DEF IndInv, TypeOK, Store!JournalTypeOK, IsPartialFn
<1>2. raced = {}
  <2>1. raced \subseteq raced'
    <3>1. ~Special => raced' = raced
      BY ThreeWays DEF Becomes, Enters, Rests
    <3>2. TakeSnapshot \/ CompactStore \/ Crash => raced \subseteq raced'
      BY DEF TakeSnapshot, CompactStore, Overwritten, Crash
    <3>3. QED
      BY <3>1, <3>2 DEF Special
  <2>2. QED
    BY <2>1
<1>3. /\ active <= QueueMax /\ active = Cardinality(ActiveIn(Restored(log)))
      /\ \A n \in synced..Len(log) : Bounded(Prefix(log, n))
  <2>1. \A t \in DOMAIN tasks : Mirrored(t, log)
    BY <1>0, <1>2 DEF MirrorInv
  <2>2. \A t \in EnqIds(log) \ DOMAIN tasks : Restored(log)[t].st \in Terminal
    BY <1>0, <1>2 DEF GhostInv
  <2>3. \A t \in DOMAIN tasks : tasks[t].st \in Active \cup Terminal
    BY <1>1 DEF Task
  <2>4. ActiveIn(Restored(log)) = ActiveIn(tasks)
    BY <1>1, <2>1, <2>2, <2>3, SameActive DEF Mirrored, Agrees
  <2>5. QED
    BY <1>0, <1>2, <2>4 DEF IndInv, CountInv, ActiveCount, BoundInv
<1>4. active' = Cardinality(ActiveIn(Restored(log')))
  <2>1. \A t \in DOMAIN tasks' : /\ t \in EnqIds(log')
                                 /\ Restored(log')[t].st = IF tasks'[t].st \in Terminal
                                                           THEN tasks'[t].st ELSE "pending"
    BY <1>0 DEF MirrorInv, Mirrored, Agrees
  <2>2. \A t \in EnqIds(log') \ DOMAIN tasks' : Restored(log')[t].st \in Terminal
    BY <1>0 DEF GhostInv
  <2>3. \A t \in DOMAIN tasks' : tasks'[t].st \in Active \cup Terminal
    BY <1>1 DEF Task
  <2>4. ActiveIn(Restored(log')) = ActiveIn(tasks')
    BY <1>1, <2>1, <2>2, <2>3, SameActive
  <2>5. active' = Cardinality(ActiveIn(tasks'))
    BY <1>0 DEF IndInv, CountInv, ActiveCount, ActiveIn
  <2>6. QED
    BY <2>4, <2>5
\* What is proved of the whole journal, and of its prefixes that were there before.
<1>5. SUFFICES /\ active' <= QueueMax
               /\ \A n \in synced'..Len(log') :
                    n # Len(log') => \E m \in synced..Len(log) : Prefix(log', n) = Prefix(log, m)
  <2>1. Prefix(log', Len(log')) = log'
    BY <1>1, WholePrefix
  <2>2. Bounded(log')
    BY <1>4, <1>5 DEF Bounded
  <2>3. QED
    BY <1>3, <1>5, <2>1, <2>2
<1>6. CASE ~Crash
  <2>1. active' <= QueueMax
    BY <1>3, <1>6, RoomSeen
  <2>2. CASE ~Special
    <3>1. synced' \in {synced, Len(log')}
      BY <2>2, SyncedStays
    <3>2. log' = log \/ \E r \in Record : log' = Append(log, r)
      BY <2>2, ThreeWays DEF Becomes, Enters, Rests
    <3>3. CASE log' = log
      BY <1>1, <2>1, <3>1, <3>3
    <3>4. ASSUME NEW r \in Record, log' = Append(log, r), NEW n \in synced'..Len(log'),
                 n # Len(log')
          PROVE  n \in synced..Len(log) /\ Prefix(log', n) = Prefix(log, n)
      <4>1. Len(log') = Len(log) + 1 /\ Len(log) \in Nat
        BY <1>1, <3>4
      <4>2. n \in synced..Len(log) /\ n \in 0..Len(log)
        BY <1>1, <3>1, <3>4, <4>1
      <4>3. QED
        BY <1>1, <3>4, <4>2, PrefixOfAppend
    <3>5. QED
      BY <2>1, <3>2, <3>3, <3>4
  <2>3. CASE TakeSnapshot
    BY <1>1, <2>1, <2>3 DEF TakeSnapshot, logVars
  <2>4. CASE CompactStore
    <3>1. synced' = Len(log')
      BY <2>4, FaultSeen DEF CompactStore, Store!Compact
    <3>2. QED
      BY <1>1, <2>1, <3>1
  <2>5. QED
    BY <1>6, <2>2, <2>3, <2>4 DEF Special
<1>7. CASE Crash
  <2>1. synced' \in {synced, Len(log')}
    BY <1>7, CrashShape
  <2>2. ASSUME NEW m \in synced..Len(log), log' = Prefix(log, m)
        PROVE  /\ active' <= QueueMax
               /\ \A n \in synced'..Len(log') :
                    n # Len(log') => \E k \in synced..Len(log) : Prefix(log', n) = Prefix(log, k)
    <3>1. m \in 0..Len(log)
      BY <1>1
    <3>2. Len(log') = m
      BY <1>1, <2>2, <3>1, PrefixIds
    <3>3. active' <= QueueMax
      BY <1>3, <1>4, <2>2 DEF Bounded
    <3>4. ASSUME NEW n \in synced'..Len(log'), n # Len(log')
          PROVE  n \in synced..Len(log) /\ Prefix(log', n) = Prefix(log, n)
      <4>1. n \in synced..Len(log) /\ n \in 0..m
        BY <1>1, <2>1, <3>1, <3>2, <3>4
      <4>2. QED
        BY <1>1, <2>2, <3>1, <4>1, PrefixOfPrefix
    <3>5. QED
      BY <3>3, <3>4
  <2>3. ASSUME NEW r \in Record, r.T = "enq", HasRoom, log' = Append(log, r)
        PROVE  /\ active' <= QueueMax
               /\ \A n \in synced'..Len(log') :
                    n # Len(log') => \E k \in synced..Len(log) : Prefix(log', n) = Prefix(log, k)
    <3>1. active' <= QueueMax
      <4>1. /\ Cardinality(ActiveIn(Restored(log))) \in Nat
            /\ Cardinality(ActiveIn(Restored(log'))) \in Nat
            /\ Cardinality(ActiveIn(Restored(log'))) <= Cardinality(ActiveIn(Restored(log))) + 1
        BY <1>1, <2>3, OneMoreActive
      <4>2. active < QueueMax
        BY <2>3 DEF HasRoom
      <4>3. QED
        BY <1>1, <1>3, <1>4, <4>1, <4>2
    <3>2. ASSUME NEW n \in synced'..Len(log'), n # Len(log')
          PROVE  n \in synced..Len(log) /\ Prefix(log', n) = Prefix(log, n)
      <4>1. Len(log') = Len(log) + 1 /\ Len(log) \in Nat
        BY <1>1, <2>3
      <4>2. n \in synced..Len(log) /\ n \in 0..Len(log)
        BY <1>1, <2>1, <3>2, <4>1
      <4>3. QED
        BY <1>1, <2>3, <4>2, PrefixOfAppend
    <3>3. QED
      BY <3>1, <3>2
  <2>4. QED
    BY <1>7, <2>2, <2>3, CrashShape
<1>8. QED
  BY <1>6, <1>7

\* The bound the 429 answer keeps (queue.go: Submit, Revive) also holds of what a
\* restart brings back, wherever a crash has cut the journal: also of the tasks
\* maintenance had dropped, and of a submission nobody was answered.
THEOREM QueueBounded == Spec => []ActiveBounded
<1>1. Init => MirrorInv /\ GhostInv /\ BoundInv
  <2> SUFFICES ASSUME Init PROVE MirrorInv /\ GhostInv /\ BoundInv
    OBVIOUS
  <2>1. /\ tasks = <<>> /\ log = <<>> /\ snap = <<>> /\ phase = "idle" /\ active = 0
        /\ synced = 0
    BY DEF Init, Store!Init
  <2>2. MirrorInv
    BY InitMirrors
  <2>3. EnqIds(log) = {} /\ log \in Seq(Record) /\ Len(log) = 0
    BY <2>1, EmptyJournal
  <2>4. GhostInv
    BY <2>3 DEF GhostInv
  <2>5. Prefix(log, 0) = log
    BY <2>3, WholePrefix
  <2>6. ActiveIn(Restored(log)) = {}
    BY <2>3, RestoredType DEF ActiveIn
  <2>7. QueueMax \in Nat /\ Cardinality({}) = 0
    BY ConfigAssumption, FS_EmptySet
  <2>8. BoundInv
    <3>1. \A n \in synced..Len(log) : n = 0
      BY <2>1, <2>3
    <3>2. Bounded(Prefix(log, 0)) /\ active <= QueueMax
      BY <2>1, <2>5, <2>6, <2>7 DEF Bounded
    <3>3. QED
      BY <3>1, <3>2 DEF BoundInv
  <2>9. QED
    BY <2>2, <2>4, <2>8
<1>2. /\ IndInv /\ KeyInv /\ MirrorInv /\ GhostInv /\ BoundInv /\ [Next]_vars
         => MirrorInv' /\ GhostInv' /\ BoundInv'
  BY MirrorStep, GhostStep, BoundStep
<1>3. BoundInv => ActiveBounded
  BY DEF BoundInv, ActiveBounded
<1>4. QED
  BY <1>1, <1>2, <1>3, KeyInvariance, PTL DEF Spec

-----------------------------------------------------------------------------
(* The count of credentials still on disk.                                  *)

\* The tasks a journal introduces with their credentials.
FullIds(l) == {l[i].id : i \in {i \in 1..Len(l) : l[i].T = "enq" /\ l[i].full}}

CredInv ==
  crashes = 0 /\ ioErrors = 0 =>
    /\ Cardinality(Unstripped \ late) <= unstripped
    /\ phase = "reset" => Unstripped \subseteq late
    /\ phase = "replace" => Won \cap FullIds(snap) \subseteq late

LEMMA UnstrippedIs ==
  ASSUME IndInv
  PROVE  /\ Unstripped = Won \cap FullIds(log)
         /\ IsFiniteSet(Unstripped) /\ unstripped \in Nat
<1>1. log \in Seq(Record) /\ DOMAIN log = 1..Len(log) /\ IsFiniteSet(DOMAIN tasks)
      /\ unstripped \in Nat
  BY DEF IndInv, TypeOK, Store!JournalTypeOK, CountInv
<1>2. Unstripped = Won \cap FullIds(log)
  BY <1>1 DEF Unstripped, Won, FullIds
<1>3. Unstripped \subseteq DOMAIN tasks
  BY DEF Unstripped
<1>4. QED
  BY <1>1, <1>2, <1>3, FS_Subset

LEMMA FullAppended ==
  ASSUME NEW l \in Seq(Record), NEW r \in Record
  PROVE  /\ FullIds(Append(l, r)) \subseteq FullIds(l) \cup {r.id}
         /\ r.T # "enq" => FullIds(Append(l, r)) \subseteq FullIds(l)
<1> DEFINE m == Append(l, r)
<1>1. Len(l) \in Nat /\ Len(m) = Len(l) + 1
      /\ \A i \in 1..Len(m) : m[i] = IF i <= Len(l) THEN l[i] ELSE r
  OBVIOUS
<1> HIDE DEF m
<1>2. ASSUME NEW i \in 1..Len(m), m[i].T = "enq", m[i].full
      PROVE  m[i].id \in FullIds(l) \/ (m[i] = r /\ r.T = "enq")
  <2>1. CASE i <= Len(l)
    BY <1>1, <1>2, <2>1 DEF FullIds
  <2>2. CASE ~(i <= Len(l))
    BY <1>1, <1>2, <2>2
  <2>3. QED
    BY <2>1, <2>2
<1>3. QED
  BY <1>2 DEF FullIds, m

\* The journal introduces no task that has succeeded a second time.
LEMMA CredentialsAdded ==
  ASSUME IndInv, [Next]_vars, ~Special, ioErrors' = 0
  PROVE  Won' \cap FullIds(log') \subseteq FullIds(log) /\ snap' = snap
<1>0. log \in Seq(Record) /\ DOMAIN tasks \subseteq issued
  BY DEF IndInv, TypeOK, Store!JournalTypeOK, IssuedInv
<1>1. ASSUME NEW t, NEW m, Becomes(t, m)
      PROVE  FullIds(log') \subseteq FullIds(log) /\ snap' = snap
  BY <1>0, <1>1, FullAppended DEF Becomes, Tells
<1>2. ASSUME NEW t, NEW r, Enters(t, r)
      PROVE  Won' \cap FullIds(log') \subseteq FullIds(log) /\ snap' = snap
  <2>1. FullIds(log') \subseteq FullIds(log) \cup {t}
    BY <1>0, <1>2, FullAppended DEF Enters
  <2>2. t \notin Won'
    BY <1>2 DEF Enters, Put, Won
  <2>3. QED
    BY <1>2, <2>1, <2>2 DEF Enters
<1>3. CASE Rests
  BY <1>3 DEF Rests
<1>4. QED
  BY <1>1, <1>2, <1>3, ThreeWays

\* A success is counted, and so is every other one but those the reset covers.
LEMMA SuccessCounted ==
  ASSUME IndInv, [Next]_vars, ~Special
  PROVE  \/ \E t \in TaskId : /\ Won' \subseteq Won \cup {t}
                              /\ unstripped' = unstripped + 1 /\ phase' = phase
                              /\ late \subseteq late'
                              /\ phase \in {"replace", "reset"} => t \in late'
         \/ /\ Won' \subseteq Won /\ UNCHANGED <<unstripped, late>>
            /\ phase' \in {"replace", "reset"} => phase' = phase
         \/ Won' = Won /\ late' = late /\ phase = "reset" /\ phase' = "idle"
<1>0. tasks \in [DOMAIN tasks -> Task]
  BY DEF IndInv, TypeOK, IsPartialFn
<1>1. ASSUME NEW t \in TaskId, OnSuccess(t)
      PROVE  /\ Won' \subseteq Won \cup {t}
             /\ unstripped' = unstripped + 1 /\ phase' = phase
             /\ late \subseteq late'
             /\ phase \in {"replace", "reset"} => t \in late'
  BY <1>0, <1>1 DEF OnSuccess, Won, maintVars
<1>2. CASE ResetUnstripped
  BY <1>2 DEF ResetUnstripped, Won, history
<1> DEFINE NoneWon == /\ Won' \subseteq Won /\ UNCHANGED <<unstripped, late>>
                      /\ phase' \in {"replace", "reset"} => phase' = phase
<1>3. ASSUME NEW t \in TaskId, NEW k \in Key, Submit(t, k) \/ SubmitFails(t, k)
      PROVE  NoneWon
  <2>1. UNCHANGED <<unstripped, late, phase>>
    BY <1>3 DEF Submit, SubmitFails, memVars, maintVars
  <2>2. Won' \subseteq Won
    <3>1. CASE Submit(t, k)
      BY <3>1 DEF Submit, Put, Fresh, Won
    <3>2. CASE SubmitFails(t, k)
      BY <3>2 DEF SubmitFails, memVars, Won
    <3>3. QED
      BY <1>3, <3>1, <3>2
  <2>3. QED
    BY <2>1, <2>2
<1>4. ASSUME NEW t \in TaskId,
             Revive(t) \/ Lease(t) \/ Defer(t) \/ OnRetry(t) \/ OnDead(t)
      PROVE  NoneWon
  <2>1. UNCHANGED <<unstripped, late, phase>>
    BY <1>4 DEF Revive, Lease, Defer, OnRetry, OnDead, maintVars, history
  <2>2. \E m : tasks' = [tasks EXCEPT ![t] = m] /\ m.st # "succeeded"
    <3>1. CASE Lease(t)
      <4>1. t \in DOMAIN tasks
        BY <3>1 DEF Lease, Least, IndInv, HeapMatches, Scheduled
      <4>2. tasks' = [tasks EXCEPT ![t] = [tasks[t] EXCEPT !.st = "sending", !.updatedAt = now]]
        BY <1>0, <3>1, <4>1 DEF Lease, Task
      <4>3. [tasks[t] EXCEPT !.st = "sending", !.updatedAt = now].st # "succeeded"
        BY <1>0, <4>1 DEF Task
      <4>4. QED
        BY <4>2, <4>3
    <3>2. CASE Defer(t)
      <4>1. t \in DOMAIN tasks
        BY <3>2 DEF Defer, Sending
      <4>2. PICK at : tasks' = [tasks EXCEPT ![t].st = "pending", ![t].nextAt = at]
        BY <3>2 DEF Defer
      <4>3. tasks' = [tasks EXCEPT ![t] = [tasks[t] EXCEPT !.st = "pending", !.nextAt = at]]
        BY <1>0, <4>1, <4>2 DEF Task
      <4>4. [tasks[t] EXCEPT !.st = "pending", !.nextAt = at].st # "succeeded"
        BY <1>0, <4>1 DEF Task
      <4>5. QED
        BY <4>3, <4>4
    <3>3. CASE Revive(t)
      <4>1. tasks' = [tasks EXCEPT ![t] = Revived(tasks[t])] /\ t \in DOMAIN tasks
        BY <3>3 DEF Revive
      <4>2. Revived(tasks[t]).st # "succeeded"
        BY <1>0, <4>1 DEF Revived, Task
      <4>3. QED
        BY <4>1, <4>2
    <3>4. CASE OnRetry(t)
      <4>1. PICK at : tasks' = [tasks EXCEPT ![t] = Retried(tasks[t], at)] /\ t \in DOMAIN tasks
        BY <3>4 DEF OnRetry, Sending
      <4>2. Retried(tasks[t], at).st # "succeeded"
        BY <1>0, <4>1 DEF Retried, Task
      <4>3. QED
        BY <4>1, <4>2
    <3>5. CASE OnDead(t)
      <4>1. PICK why : tasks' = [tasks EXCEPT ![t] = Died(tasks[t], why)] /\ t \in DOMAIN tasks
        BY <3>5 DEF OnDead, Sending
      <4>2. Died(tasks[t], why).st # "succeeded"
        BY <1>0, <4>1 DEF Died, Task
      <4>3. QED
        BY <4>1, <4>2
    <3>6. QED
      BY <1>4, <3>1, <3>2, <3>3, <3>4, <3>5
  <2>3. Won' \subseteq Won
    BY <2>2 DEF Won
  <2>4. QED
    BY <2>1, <2>3
<1>5. CASE PurgeExpired \/ EnforceTaskCap
  <2>1. Rests /\ UNCHANGED <<unstripped, late>> /\ phase' \notin {"replace", "reset"}
    BY <1>5, DropRests DEF PurgeExpired, EnforceTaskCap
  <2>2. NoneWon
    BY <2>1 DEF Rests, Won
  <2>3. QED
    BY <2>2
<1>6. CASE \/ \E k \in Key : SubmitDuplicate(k)
           \/ MaybeCompact \/ SyncLoop \/ Tick \/ UNCHANGED vars
  <2>1. NoneWon
    BY <1>6 DEF SubmitDuplicate, MaybeCompact, SyncLoop, Tick, vars, memVars, maintVars, history,
       Won
  <2>2. QED
    BY <2>1
<1>7. QED
  BY <1>1, <1>2, <1>3, <1>4, <1>5, <1>6 DEF Next, Special

LEMMA CredStep ==
  ASSUME IndInv, CredInv, [Next]_vars
  PROVE  CredInv'
<1> SUFFICES ASSUME crashes' = 0, ioErrors' = 0 PROVE CredInv'
  BY DEF CredInv
<1>1. /\ ioErrors = 0 /\ crashes = 0 /\ ~Crash
  <2>1. crashes \in Nat
    BY DEF IndInv, TypeOK
  <2>2. ~Crash
    <3>1. Crash => crashes' = crashes + 1
      BY DEF Crash
    <3>2. QED
      BY <2>1, <3>1
  <2>3. crashes' = crashes
    BY <2>2 DEF Next, vars, faults, Submit, SubmitFails, SubmitDuplicate, Revive, Lease,
       Defer, OnRetry, OnSuccess, OnDead, PurgeExpired, EnforceTaskCap, MaybeCompact,
       TakeSnapshot, CompactStore, ResetUnstripped, SyncLoop, Tick
  <2>4. QED
    BY <2>2, <2>3, FaultsStay
<1>2. /\ Cardinality(Unstripped \ late) <= unstripped
      /\ phase = "reset" => Unstripped \subseteq late
      /\ phase = "replace" => Won \cap FullIds(snap) \subseteq late
  BY <1>1 DEF CredInv
<1>3. /\ Unstripped = Won \cap FullIds(log)
      /\ IsFiniteSet(Unstripped) /\ unstripped \in Nat
  BY UnstrippedIs
<1>4. IndInv'
  BY NextPreserves
<1>5. /\ Unstripped' = Won' \cap FullIds(log') /\ unstripped' \in Nat
  <2>1. log' \in Seq(Record) /\ DOMAIN log' = 1..Len(log') /\ unstripped' \in Nat
    BY <1>4 DEF IndInv, TypeOK, Store!JournalTypeOK
  <2>2. QED
    BY <2>1 DEF Unstripped, Won, FullIds
<1>6. CASE ~Special
  <2>1. /\ Unstripped' \subseteq Won' \cap FullIds(log) /\ snap' = snap
    BY <1>5, <1>6, CredentialsAdded
  <2>2. ASSUME NEW t, Won' \subseteq Won \cup {t}, unstripped' = unstripped + 1,
               phase' = phase, late \subseteq late',
               phase \in {"replace", "reset"} => t \in late'
        PROVE  CredInv'
    <3>1. Unstripped' \ late' \subseteq (Unstripped \ late) \cup {t}
      BY <1>3, <2>1, <2>2
    <3>2. IsFiniteSet(Unstripped \ late)
      BY <1>3, FS_Subset
    <3>3. /\ IsFiniteSet((Unstripped \ late) \cup {t})
          /\ Cardinality((Unstripped \ late) \cup {t})
               = IF t \in Unstripped \ late THEN Cardinality(Unstripped \ late)
                                            ELSE Cardinality(Unstripped \ late) + 1
      BY <3>2, FS_AddElement
    <3>4. Cardinality(Unstripped \ late) \in Nat
      BY <3>2, FS_CardinalityType
    <3>5. /\ Cardinality(Unstripped' \ late') <= Cardinality((Unstripped \ late) \cup {t})
          /\ Cardinality(Unstripped' \ late') \in Nat
      BY <3>1, <3>3, FS_Subset, FS_CardinalityType
    <3>6. Cardinality(Unstripped' \ late') <= unstripped'
      BY <1>2, <1>3, <2>2, <3>3, <3>4, <3>5
    <3>7. phase' = "reset" => Unstripped' \subseteq late'
      BY <1>2, <1>3, <2>1, <2>2
    <3>8. phase' = "replace" => Won' \cap FullIds(snap') \subseteq late'
      BY <1>2, <2>1, <2>2
    <3>9. QED
      BY <3>6, <3>7, <3>8 DEF CredInv, FullIds
  <2>3. ASSUME Won' \subseteq Won, late' = late,
               \/ unstripped' = unstripped
               \/ phase = "reset",
               phase' \in {"replace", "reset"} => phase' = phase
        PROVE  CredInv'
    <3>1. Unstripped' \ late' \subseteq Unstripped \ late
      BY <1>3, <2>1, <2>3
    <3>2. IsFiniteSet(Unstripped \ late) /\ Cardinality(Unstripped \ late) \in Nat
      BY <1>3, FS_Subset, FS_CardinalityType
    <3>3. /\ Cardinality(Unstripped' \ late') <= Cardinality(Unstripped \ late)
          /\ Cardinality(Unstripped' \ late') \in Nat
      BY <3>1, <3>2, FS_Subset, FS_CardinalityType
    <3>4. Cardinality(Unstripped' \ late') <= unstripped'
      <4>1. CASE unstripped' = unstripped
        BY <1>2, <1>3, <3>2, <3>3, <4>1
      <4>2. CASE phase = "reset"
        <5>1. Unstripped' \ late' = {}
          BY <1>2, <3>1, <4>2
        <5>2. Cardinality({}) = 0
          BY FS_EmptySet
        <5>3. QED
          BY <1>5, <5>1, <5>2
      <4>3. QED
        BY <2>3, <4>1, <4>2
    <3>5. phase' = "reset" => Unstripped' \subseteq late'
      BY <1>2, <1>3, <2>1, <2>3
    <3>6. phase' = "replace" => Won' \cap FullIds(snap') \subseteq late'
      BY <1>2, <2>1, <2>3
    <3>7. QED
      BY <3>4, <3>5, <3>6 DEF CredInv, FullIds
  <2>4. QED
    BY <1>6, <2>2, <2>3, SuccessCounted
<1>7. CASE TakeSnapshot
  <2> DEFINE S == {t \in DOMAIN tasks : HasStateRecord(t)}
  <2>1. PICK order \in Orders(DOMAIN tasks), rest \in Orders(S) :
          snap' = SnapshotIn(order, rest)
    BY <1>7 DEF TakeSnapshot
  <2>2. S \in SUBSET (DOMAIN tasks)
    OBVIOUS
  <2> HIDE DEF S
  <2>3. TellsTasks(snap', S)
    BY <2>1, <2>2, SnapshotTells
  <2>4. /\ UNCHANGED <<tasks, unstripped, log, late>> /\ phase' = "replace"
    BY <1>7 DEF TakeSnapshot, memVars, logVars
  <2>5. Won' = Won /\ Unstripped' = Unstripped
    BY <2>4 DEF Won, Unstripped
  <2>6. Won \cap FullIds(snap') = {}
    <3>1. \A t \in Won : ~EnqOf(t).full
      BY DEF EnqOf, Enq, Won
    <3>2. \A i \in 1..Len(snap') : snap'[i].T = "enq" => snap'[i] = EnqOf(snap'[i].id)
      BY <2>3 DEF TellsTasks
    <3>3. QED
      BY <3>1, <3>2 DEF FullIds
  <2>7. QED
    BY <1>2, <2>4, <2>5, <2>6 DEF CredInv, FullIds
<1>8. CASE CompactStore
  <2>1. /\ phase = "replace" /\ phase' = "reset" /\ log' = snap
        /\ UNCHANGED <<tasks, unstripped, late>>
    BY <1>8, FaultSeen DEF CompactStore, Store!Compact, memVars
  <2>2. Unstripped' \subseteq late'
    BY <1>2, <1>5, <2>1 DEF Won
  <2>3. Unstripped' \ late' = {} /\ Cardinality({}) = 0
    BY <2>2, FS_EmptySet
  <2>4. Cardinality(Unstripped' \ late') <= unstripped'
    BY <1>5, <2>3
  <2>5. QED
    BY <2>1, <2>2, <2>4 DEF CredInv
<1>9. QED
  BY <1>1, <1>6, <1>7, <1>8 DEF Special

\* The count that triggers a compaction (queue.go: OnSuccess; maintenance.go:
\* maybeCompact) never falls behind the credentials in the file, in a process that
\* was never restarted, but for the successes during a compaction.
THEOREM CredentialsCounted == Spec => []UnstrippedCounted
<1>1. Init => CredInv
  <2> SUFFICES ASSUME Init PROVE CredInv
    OBVIOUS
  <2>1. /\ tasks = <<>> /\ phase = "idle" /\ unstripped = 0
    BY DEF Init
  <2>2. DOMAIN tasks = {}
    BY <2>1
  <2>3. Unstripped \ late = {} /\ Cardinality({}) = 0
    BY <2>2, FS_EmptySet DEF Unstripped
  <2>4. Cardinality(Unstripped \ late) <= unstripped
    <3>1. Cardinality(Unstripped \ late) = 0
      BY <2>3
    <3>2. QED
      BY <2>1, <3>1
  <2>5. QED
    BY <2>1, <2>4 DEF CredInv
<1>2. IndInv /\ CredInv /\ [Next]_vars => CredInv'
  BY CredStep
<1>3. CredInv => UnstrippedCounted
  BY DEF CredInv, UnstrippedCounted
<1>4. QED
  BY <1>1, <1>2, <1>3, Invariance, PTL DEF Spec

-----------------------------------------------------------------------------
(* What a vendor gets of one task.                                          *)

\* What memory and the journal say of a task, at every step.
THEOREM MirrorInvariance == Spec => [](IndInv /\ KeyInv /\ MirrorInv /\ GhostInv)
<1>1. Init => GhostInv
  BY EmptyJournal DEF Init, Store!Init, GhostInv
<1>2. IndInv /\ KeyInv /\ MirrorInv /\ GhostInv /\ [Next]_vars => MirrorInv' /\ GhostInv'
  BY MirrorStep, GhostStep
<1>3. QED
  BY <1>1, <1>2, InitMirrors, KeyInvariance, PTL DEF Spec

Live(t)   == t \in DOMAIN tasks /\ tasks[t].st \in Active
Flying(t) == stage[t] \notin {"none", "held"}

\* The attempts a journal may give back to an unfinished task.
AttBound(l) == \A i \in 1..Len(l) : l[i].T = "att" => l[i].n < AttemptsOf[l[i].id]

\* No more requests than attempts, and one for the attempt that is under way; the
\* attempt of an overdue request is not followed by another.
OnBudget(t) ==
  /\ Live(t) => tasks[t].attempts < AttemptsOf[t]
  /\ t \notin issued => sent[t] = 0 /\ overdue[t] = 0
  /\ t \notin raced =>
       /\ sent[t] <= AttemptsOf[t] /\ overdue[t] <= 1
       /\ Live(t) => /\ sent[t] <= tasks[t].attempts + One(Flying(t))
                     /\ \/ overdue[t] = 0
                        \/ Flying(t) /\ now >= tasks[t].createdAt + DeadlineOf[t]

BudgetInv ==
  ioErrors = 0 => AttBound(log) /\ AttBound(snap) /\ \A t \in TaskId : OnBudget(t)

LEMMA BudgetTypes ==
  ASSUME DInv, NEW t \in TaskId
  PROVE  /\ sent[t] \in Nat /\ overdue[t] \in Nat /\ now \in Nat
         /\ AttemptsOf[t] \in Nat /\ AttemptsOf[t] >= 1 /\ DeadlineOf[t] \in Nat
         /\ t \in DOMAIN tasks => /\ tasks[t].attempts \in Nat /\ tasks[t].createdAt \in Nat
                                  /\ tasks[t] \in Task /\ t \in issued
<1>1. sent[t] \in Nat /\ overdue[t] \in Nat /\ now \in Nat
  BY DEF DInv, DeliveryTypeOK, IndInv, TypeOK
<1>2. AttemptsOf[t] \in Nat /\ AttemptsOf[t] >= 1 /\ DeadlineOf[t] \in Nat
  BY DeliveryAssumption, ConfigAssumption
<1>3. ASSUME t \in DOMAIN tasks
      PROVE  /\ tasks[t].attempts \in Nat /\ tasks[t].createdAt \in Nat
             /\ tasks[t] \in Task /\ t \in issued
  <2>1. tasks[t] \in Task /\ t \in issued
    BY <1>3 DEF DInv, IndInv, TypeOK, IsPartialFn, IssuedInv
  <2>2. QED
    BY <2>1 DEF Task
<1>4. QED
  BY <1>1, <1>2, <1>3

\* A task that is not touched keeps to its budget, and so does one that only waits.
LEMMA KeepsBudget ==
  ASSUME DInv, DInv', NEW u \in TaskId, OnBudget(u),
         issued \subseteq issued', raced \subseteq raced', now <= now',
         sent'[u] = sent[u], overdue'[u] = overdue[u],
         Live(u)' => /\ Live(u) /\ tasks'[u].attempts = tasks[u].attempts
                     /\ tasks'[u].createdAt = tasks[u].createdAt
                     /\ Flying(u) => Flying(u)'
  PROVE  OnBudget(u)'
<1>1. /\ sent[u] \in Nat /\ overdue[u] \in Nat /\ now \in Nat /\ now' \in Nat
      /\ AttemptsOf[u] \in Nat /\ DeadlineOf[u] \in Nat
      /\ u \in DOMAIN tasks => tasks[u].attempts \in Nat /\ tasks[u].createdAt \in Nat
  BY BudgetTypes DEF DInv, IndInv, TypeOK
<1>2. Live(u)' => tasks'[u].attempts < AttemptsOf[u]
  BY DEF OnBudget
<1>3. u \notin issued' => sent'[u] = 0 /\ overdue'[u] = 0
  BY DEF OnBudget
<1>4. ASSUME u \notin raced', Live(u)'
      PROVE  /\ sent'[u] <= tasks'[u].attempts + One(Flying(u)')
             /\ \/ overdue'[u] = 0
                \/ Flying(u)' /\ now' >= tasks'[u].createdAt + DeadlineOf[u]
  <2>1. u \in DOMAIN tasks /\ u \notin raced /\ Live(u)
    BY <1>4 DEF Live
  <2>2. /\ sent[u] <= tasks[u].attempts + One(Flying(u))
        /\ \/ overdue[u] = 0
           \/ Flying(u) /\ now >= tasks[u].createdAt + DeadlineOf[u]
    BY <2>1 DEF OnBudget
  <2>3. Flying(u) => Flying(u)'
    BY <1>4
  <2>4. CASE Flying(u)
    BY <1>1, <1>4, <2>1, <2>2, <2>3, <2>4 DEF One
  <2>5. CASE ~Flying(u)
    BY <1>1, <1>4, <2>1, <2>2, <2>5 DEF One
  <2>6. QED
    BY <2>4, <2>5
<1>5. u \notin raced' => sent'[u] <= AttemptsOf[u] /\ overdue'[u] <= 1
  BY DEF OnBudget
<1>6. QED
  BY <1>2, <1>3, <1>4, <1>5 DEF OnBudget

\* What is rebuilt has attempts left, if it is to be delivered.
LEMMA RestoredAttempts ==
  ASSUME NEW l \in Seq(Record), AttBound(l), NEW t \in EnqIds(l), Restored(l)[t].st \in Active
  PROVE  t \in TaskId /\ Restored(l)[t].attempts < AttemptsOf[t]
<1>1. t \in TaskId /\ AttemptsOf[t] \in Nat /\ AttemptsOf[t] >= 1
  BY DeliveryAssumption, ConfigAssumption DEF EnqIds
<1>2. Restored(l)[t] = Rebuilt(l, t)
  BY RestoredIsRebuilt
<1>3. PICK p \in 1..Len(l) : Latest(l, t, Kinds) = l[p] /\ l[p].id = t /\ l[p].T \in Kinds
  BY HasLast, LastProperty
<1>4. /\ Rebuilt(l, t).st = StateAfter(l[p].T)
      /\ Rebuilt(l, t).attempts = IF l[p].T = "enq" THEN 0 ELSE l[p].n
  BY <1>3 DEF Rebuilt
<1>5. l[p].T \in {"enq", "att"}
  BY <1>2, <1>3, <1>4 DEF StateAfter, Kinds, Active
<1>6. QED
  BY <1>1, <1>2, <1>3, <1>4, <1>5 DEF AttBound

LEMMA AttBoundStep ==
  ASSUME IndInv, [Next]_vars, ioErrors' = 0, AttBound(log), AttBound(snap),
         \A t \in DOMAIN tasks : tasks[t].st \in Active => tasks[t].attempts < AttemptsOf[t],
         ~Crash => \A t \in DOMAIN tasks' :
                     tasks'[t].st \in Active => tasks'[t].attempts < AttemptsOf[t]
  PROVE  AttBound(log') /\ AttBound(snap')
<1>0. log \in Seq(Record) /\ tasks \in [DOMAIN tasks -> Task]
  BY DEF IndInv, TypeOK, Store!JournalTypeOK, IsPartialFn
<1>1. ASSUME NEW r \in Record, log' = Append(log, r), r.T = "att" => r.n < AttemptsOf[r.id]
      PROVE  AttBound(log')
  <2>1. Len(log') = Len(log) + 1 /\ Len(log) \in Nat
        /\ \A i \in 1..Len(log') : log'[i] = IF i <= Len(log) THEN log[i] ELSE r
    BY <1>0, <1>1
  <2>2. \A i \in 1..Len(log') : i <= Len(log) => i \in 1..Len(log)
    BY <2>1
  <2>3. QED
    BY <1>1, <2>1, <2>2 DEF AttBound
<1>2. CASE ~Special
  <2>1. ~Crash
    BY <1>2 DEF Special
  <2>2. ASSUME NEW t, NEW m, Becomes(t, m)
        PROVE  AttBound(log') /\ AttBound(snap')
    <3>1. snap' = snap /\ t \in DOMAIN tasks' /\ tasks'[t] = m /\ m \in Task
      BY <1>0, <2>2 DEF Becomes
    <3>2. ASSUME NEW r \in Record, Tells(r, t, m), r.T = "att"
          PROVE  r.n < AttemptsOf[r.id]
      <4>1. m.st \in Active
        BY <3>1, <3>2 DEF Tells, StateAfter, Terminal, Task
      <4>2. QED
        BY <2>1, <3>1, <3>2, <4>1 DEF Tells
    <3>3. QED
      BY <1>1, <2>2, <3>1, <3>2 DEF Becomes
  <2>3. ASSUME NEW t, NEW r, Enters(t, r)
        PROVE  AttBound(log') /\ AttBound(snap')
    BY <1>1, <2>3 DEF Enters
  <2>4. CASE Rests
    BY <2>4 DEF Rests
  <2>5. QED
    BY <1>2, <2>2, <2>3, <2>4, ThreeWays
<1>3. CASE TakeSnapshot
  <2> DEFINE S == {t \in DOMAIN tasks : HasStateRecord(t)}
  <2>1. PICK order \in Orders(DOMAIN tasks), rest \in Orders(S) :
          snap' = SnapshotIn(order, rest)
    BY <1>3 DEF TakeSnapshot
  <2>2. S \in SUBSET (DOMAIN tasks)
    OBVIOUS
  <2> HIDE DEF S
  <2>3. TellsTasks(snap', S)
    BY <2>1, <2>2, SnapshotTells
  <2>4. ASSUME NEW i \in 1..Len(snap'), snap'[i].T = "att"
        PROVE  snap'[i].n < AttemptsOf[snap'[i].id]
    <3>1. PICK t \in DOMAIN tasks : snap'[i] = StateRecord(t) /\ snap'[i].id = t
      BY <2>2, <2>3, <2>4 DEF TellsTasks
    <3>2. tasks[t] \in Task
      BY <1>0
    <3>3. tasks[t].st \notin Terminal /\ StateRecord(t).n = tasks[t].attempts
      BY <2>4, <3>1 DEF StateRecord, Ok, Dead, Att, Terminal
    <3>4. tasks[t].st \in Active
      BY <3>2, <3>3 DEF Task
    <3>5. QED
      BY <3>1, <3>3, <3>4
  <2>5. log' = log
    BY <1>3 DEF TakeSnapshot, logVars
  <2>6. QED
    BY <2>4, <2>5 DEF AttBound
<1>4. CASE CompactStore
  <2>1. log' = snap /\ snap' = <<>>
    BY <1>4, FaultSeen DEF CompactStore, Store!Compact
  <2>2. Len(snap') = 0 /\ \A i : i \notin 1..0
    BY <2>1
  <2>3. QED
    BY <2>1, <2>2 DEF AttBound
<1>5. CASE Crash
  <2>1. snap' = <<>>
    BY <1>5 DEF Crash
  <2>2. Len(snap') = 0 /\ \A i : i \notin 1..0
    BY <2>1
  <2>3. AttBound(log')
    BY <1>5, CrashCuts DEF AttBound
  <2>4. QED
    BY <2>2, <2>3 DEF AttBound
<1>6. QED
  BY <1>2, <1>3, <1>4, <1>5 DEF Special

\* The operations on one task leave the others alone.
LEMMA OthersKeepBudget ==
  ASSUME DInv, DInv', NEW t, NEW m, t \in DOMAIN tasks, tasks' = [tasks EXCEPT ![t] = m],
         UNCHANGED <<issued, raced, now>>, \A u \in TaskId : OnBudget(u),
         \A u \in TaskId \ {t} : stage'[u] = stage[u],
         \A u \in TaskId \ {t} : sent'[u] = sent[u] /\ overdue'[u] = overdue[u]
  PROVE  \A u \in TaskId \ {t} : OnBudget(u)'
<1> SUFFICES ASSUME NEW u \in TaskId \ {t} PROVE OnBudget(u)'
  OBVIOUS
<1>1. tasks \in [DOMAIN tasks -> Task] /\ now \in Nat
  BY DEF DInv, IndInv, TypeOK, IsPartialFn
<1>2. DOMAIN tasks' = DOMAIN tasks /\ (u \in DOMAIN tasks => tasks'[u] = tasks[u])
  BY <1>1
<1>3. Live(u)' => /\ Live(u) /\ tasks'[u].attempts = tasks[u].attempts
                  /\ tasks'[u].createdAt = tasks[u].createdAt
  BY <1>2 DEF Live
<1>4. Flying(u) => Flying(u)'
  BY DEF Flying
<1>5. now <= now'
  BY <1>1
<1>6. QED
  BY <1>3, <1>4, <1>5, KeepsBudget

\* Lease and Defer change neither the attempts nor the age of a task.
LEMMA WaitsOnBudget ==
  ASSUME DInv, DInv', NEW t \in TaskId, Lease(t) \/ Defer(t), \A u \in TaskId : OnBudget(u),
         UNCHANGED <<sent, overdue>>, NEW s, To(t, s), ~Flying(t)
  PROVE  \A u \in TaskId : OnBudget(u)'
<1>1. IndInv /\ tasks \in [DOMAIN tasks -> Task] /\ now \in Nat /\ stage \in [TaskId -> Stage]
  BY DEF DInv, IndInv, TypeOK, IsPartialFn, DeliveryTypeOK
<1>2. UNCHANGED <<issued, raced, now>>
  BY DEF Lease, Defer, history
<1>3. \E m : /\ t \in DOMAIN tasks /\ tasks' = [tasks EXCEPT ![t] = m]
             /\ m.attempts = tasks[t].attempts /\ m.createdAt = tasks[t].createdAt
             /\ tasks[t].st \in Active
  <2>1. CASE Lease(t)
    <3>1. t \in DOMAIN tasks /\ tasks[t].st \in Active
      BY <1>1, <2>1 DEF Lease, Least, IndInv, HeapMatches, Scheduled, Active
    <3> DEFINE m == [tasks[t] EXCEPT !.st = "sending", !.updatedAt = now]
    <3>2. tasks' = [tasks EXCEPT ![t] = m]
      BY <1>1, <2>1, <3>1 DEF Lease, Task
    <3>3. m.attempts = tasks[t].attempts /\ m.createdAt = tasks[t].createdAt
      BY <1>1, <3>1 DEF Task
    <3>4. QED
      BY <3>1, <3>2, <3>3
  <2>2. CASE Defer(t)
    <3>1. t \in DOMAIN tasks /\ tasks[t].st \in Active
      BY <2>2 DEF Defer, Sending, Active
    <3>2. PICK at : tasks' = [tasks EXCEPT ![t].st = "pending", ![t].nextAt = at]
      BY <2>2 DEF Defer
    <3> DEFINE m == [tasks[t] EXCEPT !.st = "pending", !.nextAt = at]
    <3>3. tasks' = [tasks EXCEPT ![t] = m]
      BY <1>1, <3>1, <3>2 DEF Task
    <3>4. m.attempts = tasks[t].attempts /\ m.createdAt = tasks[t].createdAt
      BY <1>1, <3>1 DEF Task
    <3>5. QED
      BY <3>1, <3>3, <3>4
  <2>3. QED
    BY <2>1, <2>2
<1>4. PICK m : /\ t \in DOMAIN tasks /\ tasks' = [tasks EXCEPT ![t] = m]
               /\ m.attempts = tasks[t].attempts /\ m.createdAt = tasks[t].createdAt
               /\ tasks[t].st \in Active
  BY <1>3
<1>5. \A u \in TaskId \ {t} : stage'[u] = stage[u]
  BY <1>1 DEF To
<1>6. \A u \in TaskId \ {t} : OnBudget(u)'
  BY <1>2, <1>4, <1>5, OthersKeepBudget
<1>7. OnBudget(t)'
  <2>1. tasks'[t] = m /\ Live(t)
    BY <1>1, <1>4 DEF Live
  <2>2. now <= now'
    BY <1>1, <1>2
  <2>3. QED
    BY <1>2, <1>4, <2>1, <2>2, KeepsBudget
<1>8. QED
  BY <1>6, <1>7

\* A goroutine goes on.
LEMMA SendsOnBudget ==
  ASSUME DInv, DInv', NEW t \in TaskId, SendRequest(t) \/ FailsBeforeSending(t) \/ Hear(t),
         \A u \in TaskId : OnBudget(u)
  PROVE  \A u \in TaskId : OnBudget(u)'
<1>1. /\ UNCHANGED <<tasks, issued, raced, now>> /\ now \in Nat /\ stage \in [TaskId -> Stage]
      /\ sent \in [TaskId -> Nat] /\ overdue \in [TaskId -> Nat]
  BY DEF SendRequest, FailsBeforeSending, Hear, StillQueue, vars, memVars, history, DInv, IndInv,
     TypeOK, DeliveryTypeOK
<1>2. stage[t] # "none" /\ t \in DOMAIN tasks /\ tasks[t].st = "sending"
  BY DEF SendRequest, FailsBeforeSending, Hear, DInv, Busy, Sending
<1>3. \E s \in Stage \ {"none", "held"} : To(t, s)
  <2>1. \A r \in Result : Verdict(r) \in Stage \ {"none", "held"}
    BY VerdictType
  <2>2. "sent" \in Stage
    BY DEF Stage
  <2>3. QED
    BY <2>1, <2>2 DEF SendRequest, FailsBeforeSending, Hear
<1>4. PICK s \in Stage \ {"none", "held"} : To(t, s)
  BY <1>3
<1>5. /\ Flying(t)' /\ \A u \in TaskId \ {t} : stage'[u] = stage[u]
  BY <1>1, <1>4 DEF To, Flying
<1>6. ASSUME NEW u \in TaskId, sent'[u] = sent[u], overdue'[u] = overdue[u]
      PROVE  OnBudget(u)'
  <2>1. Live(u)' => /\ Live(u) /\ tasks'[u].attempts = tasks[u].attempts
                    /\ tasks'[u].createdAt = tasks[u].createdAt
    BY <1>1 DEF Live
  <2>2. Flying(u) => Flying(u)'
    BY <1>5 DEF Flying
  <2>3. now <= now'
    BY <1>1
  <2>4. QED
    BY <1>1, <1>6, <2>1, <2>2, <2>3, KeepsBudget
<1>7. CASE FailsBeforeSending(t) \/ Hear(t)
  BY <1>6, <1>7 DEF FailsBeforeSending, Hear, seen
<1>8. CASE SendRequest(t)
  <2>1. /\ stage[t] = "held" /\ sent' = [sent EXCEPT ![t] = @ + 1]
        /\ overdue' = [overdue EXCEPT ![t] =
                         IF now >= tasks[t].createdAt + DeadlineOf[t] THEN @ + 1 ELSE @]
    BY <1>8 DEF SendRequest
  <2>2. \A u \in TaskId \ {t} : OnBudget(u)'
    BY <1>1, <1>6, <2>1
  <2>3. Live(t) /\ ~Flying(t) /\ t \in issued
    BY <1>2, <2>1 DEF Live, Active, Flying, DInv, IndInv, IssuedInv
  <2>4. /\ sent'[t] = sent[t] + 1
        /\ overdue'[t] = IF now >= tasks[t].createdAt + DeadlineOf[t]
                         THEN overdue[t] + 1 ELSE overdue[t]
    BY <1>1, <2>1
  <2>5. /\ sent[t] \in Nat /\ overdue[t] \in Nat /\ AttemptsOf[t] \in Nat
        /\ tasks[t].attempts \in Nat /\ tasks[t].createdAt \in Nat /\ DeadlineOf[t] \in Nat
    BY <1>2, BudgetTypes
  <2>6. /\ tasks[t].attempts < AttemptsOf[t]
        /\ t \notin raced => sent[t] <= tasks[t].attempts /\ overdue[t] = 0
    BY <2>3, <2>5 DEF OnBudget, One
  <2>7. /\ Live(t)' => tasks'[t].attempts < AttemptsOf[t]
        /\ t \in issued'
    BY <1>1, <2>3, <2>6
  <2>8. ASSUME t \notin raced'
        PROVE  /\ sent'[t] <= AttemptsOf[t] /\ overdue'[t] <= 1
               /\ sent'[t] <= tasks'[t].attempts + One(Flying(t)')
               /\ \/ overdue'[t] = 0
                  \/ Flying(t)' /\ now' >= tasks'[t].createdAt + DeadlineOf[t]
    BY <1>1, <1>5, <2>4, <2>5, <2>6, <2>8 DEF One
  <2>9. OnBudget(t)'
    BY <2>7, <2>8 DEF OnBudget
  <2>10. QED
    BY <2>2, <2>9
<1>9. QED
  BY <1>7, <1>8

\* A delivery that is over for good asks for nothing more.
LEMMA EndsOnBudget ==
  ASSUME DInv, DInv', NEW t \in TaskId, OnSuccess(t) \/ OnDead(t), To(t, "none"),
         UNCHANGED <<sent, overdue>>, \A u \in TaskId : OnBudget(u)
  PROVE  \A u \in TaskId : OnBudget(u)'
<1>1. tasks \in [DOMAIN tasks -> Task] /\ now \in Nat /\ stage \in [TaskId -> Stage]
  BY DEF DInv, IndInv, TypeOK, IsPartialFn, DeliveryTypeOK
<1>2. UNCHANGED <<issued, raced, now>> /\ t \in DOMAIN tasks
  BY DEF OnSuccess, OnDead, Sending
<1>3. \E m : tasks' = [tasks EXCEPT ![t] = m] /\ m.st \notin Active
  <2>1. CASE OnSuccess(t)
    <3>1. tasks' = [tasks EXCEPT ![t] = Succeeded(tasks[t])]
      BY <1>2, <2>1 DEF OnSuccess
    <3>2. Succeeded(tasks[t]).st = "succeeded"
      BY <1>1, <1>2 DEF Succeeded, Task
    <3>3. QED
      BY <3>1, <3>2 DEF Active
  <2>2. CASE OnDead(t)
    <3>1. PICK why \in Reason : tasks' = [tasks EXCEPT ![t] = Died(tasks[t], why)]
      BY <1>2, <2>2 DEF OnDead
    <3>2. Died(tasks[t], why).st = "dead"
      BY <1>1, <1>2 DEF Died, Task
    <3>3. QED
      BY <3>1, <3>2 DEF Active
  <2>3. QED
    BY <2>1, <2>2
<1>4. PICK m : tasks' = [tasks EXCEPT ![t] = m] /\ m.st \notin Active
  BY <1>3
<1>5. \A u \in TaskId \ {t} : stage'[u] = stage[u]
  BY <1>1 DEF To
<1>6. \A u \in TaskId \ {t} : OnBudget(u)'
  BY <1>2, <1>4, <1>5, OthersKeepBudget
<1>7. ~Live(t)' /\ now <= now'
  BY <1>1, <1>2, <1>4 DEF Live
<1>8. OnBudget(t)'
  BY <1>2, <1>7, KeepsBudget
<1>9. QED
  BY <1>6, <1>8

\* A retry has an attempt left, and its deadline ahead.
LEMMA RetryOnBudget ==
  ASSUME DInv, DInv', NEW t \in TaskId, RecordRetry(t), \A u \in TaskId : OnBudget(u)
  PROVE  \A u \in TaskId : OnBudget(u)'
<1>1. tasks \in [DOMAIN tasks -> Task] /\ now \in Nat /\ stage \in [TaskId -> Stage]
  BY DEF DInv, IndInv, TypeOK, IsPartialFn, DeliveryTypeOK
<1>2. /\ OnRetry(t) /\ To(t, "none") /\ UNCHANGED <<sent, overdue>> /\ ~Exhausted(t)
      /\ \E d \in MinDelay..MaxDelay : ~TooLate(t, now + d)
  BY DEF RecordRetry, Over, seen
<1>3. UNCHANGED <<issued, raced, now>> /\ t \in DOMAIN tasks /\ tasks[t].st = "sending"
  BY <1>2 DEF OnRetry, Sending
<1>4. PICK at : tasks' = [tasks EXCEPT ![t] = Retried(tasks[t], at)]
  BY <1>2, <1>3 DEF OnRetry
<1>5. /\ Retried(tasks[t], at).attempts = tasks[t].attempts + 1
      /\ Retried(tasks[t], at).createdAt = tasks[t].createdAt
  BY <1>1, <1>3 DEF Retried, Task
<1> DEFINE m == Retried(tasks[t], at)
<1>6. tasks' = [tasks EXCEPT ![t] = m]
  BY <1>4
<1> HIDE DEF m
<1>7. \A u \in TaskId \ {t} : stage'[u] = stage[u]
  BY <1>1, <1>2 DEF To
<1>8. \A u \in TaskId \ {t} : OnBudget(u)'
  BY <1>2, <1>3, <1>6, <1>7, OthersKeepBudget
<1>9. /\ tasks[t].attempts \in Nat /\ tasks[t].createdAt \in Nat /\ t \in issued
      /\ sent[t] \in Nat /\ overdue[t] \in Nat
      /\ AttemptsOf[t] \in Nat /\ DeadlineOf[t] \in Nat
  BY <1>3, BudgetTypes
<1>10. /\ tasks'[t].attempts = tasks[t].attempts + 1
       /\ tasks'[t].attempts < AttemptsOf[t]
  BY <1>1, <1>2, <1>3, <1>4, <1>5, <1>9 DEF Exhausted
<1>11. now < tasks[t].createdAt + DeadlineOf[t]
  <2>1. PICK d \in MinDelay..MaxDelay : ~TooLate(t, now + d)
    BY <1>2
  <2>2. d \in Nat
    BY <2>1, DeliveryAssumption, ConfigAssumption
  <2>3. QED
    BY <1>1, <1>9, <2>1, <2>2 DEF TooLate
<1>12. Live(t)
  BY <1>3 DEF Live, Active
<1>13. ASSUME t \notin raced
       PROVE  /\ sent[t] <= AttemptsOf[t] /\ overdue[t] = 0
              /\ sent[t] <= tasks[t].attempts + 1
  <2>1. /\ sent[t] <= AttemptsOf[t]
        /\ sent[t] <= tasks[t].attempts + One(Flying(t))
        /\ overdue[t] = 0 \/ now >= tasks[t].createdAt + DeadlineOf[t]
    BY <1>12, <1>13 DEF OnBudget
  <2>2. QED
    BY <1>1, <1>9, <1>11, <2>1 DEF One
<1>14. OnBudget(t)'
  <2>1. ASSUME t \notin raced'
        PROVE  /\ sent'[t] <= AttemptsOf[t] /\ overdue'[t] = 0 /\ overdue'[t] <= 1
               /\ sent'[t] <= tasks'[t].attempts + One(Flying(t)')
    BY <1>2, <1>3, <1>9, <1>10, <1>13, <2>1 DEF One
  <2>2. t \in issued'
    BY <1>3, <1>9
  <2>3. QED
    BY <1>10, <2>1, <2>2 DEF OnBudget
<1>15. QED
  BY <1>8, <1>14

\* A revival starts over.
LEMMA ReopenOnBudget ==
  ASSUME DInv, DInv', NEW t \in TaskId, Reopen(t), \A u \in TaskId : OnBudget(u)
  PROVE  \A u \in TaskId : OnBudget(u)'
<1>1. /\ tasks \in [DOMAIN tasks -> Task] /\ now \in Nat
      /\ sent \in [TaskId -> Nat] /\ overdue \in [TaskId -> Nat]
  BY DEF DInv, IndInv, TypeOK, IsPartialFn, DeliveryTypeOK
<1>2. /\ Revive(t) /\ stage' = stage
      /\ sent' = [sent EXCEPT ![t] = 0] /\ overdue' = [overdue EXCEPT ![t] = 0]
  BY DEF Reopen
<1>3. UNCHANGED <<issued, raced, now>> /\ t \in DOMAIN tasks
  BY <1>2 DEF Revive
<1> DEFINE m == Revived(tasks[t])
<1>4. tasks' = [tasks EXCEPT ![t] = m] /\ m.attempts = 0
  BY <1>1, <1>2, <1>3 DEF Revive, Revived, Task
<1> HIDE DEF m
<1>5. \A u \in TaskId \ {t} : OnBudget(u)'
  BY <1>1, <1>2, <1>3, <1>4, OthersKeepBudget
<1>6. t \in issued /\ AttemptsOf[t] \in Nat /\ AttemptsOf[t] >= 1
  BY <1>3, BudgetTypes
<1>7. sent'[t] = 0 /\ overdue'[t] = 0 /\ tasks'[t].attempts = 0
  BY <1>1, <1>2, <1>3, <1>4
<1>8. OnBudget(t)'
  <2>1. /\ tasks'[t].attempts < AttemptsOf[t]
        /\ sent'[t] <= AttemptsOf[t] /\ overdue'[t] <= 1
        /\ sent'[t] <= tasks'[t].attempts + One(Flying(t)')
    BY <1>6, <1>7 DEF One
  <2>2. QED
    BY <1>7, <2>1 DEF OnBudget
<1>9. QED
  BY <1>5, <1>8

\* So does a submission.
LEMMA AcceptOnBudget ==
  ASSUME DInv, DInv', NEW t \in TaskId, NEW k \in Key, Accept(t, k),
         \A u \in TaskId : OnBudget(u)
  PROVE  \A u \in TaskId : OnBudget(u)'
<1>1. now \in Nat /\ DOMAIN tasks \subseteq issued
  BY DEF DInv, IndInv, TypeOK, IssuedInv
<1>2. /\ Submit(t, k) /\ UNCHANGED <<stage, sent, overdue>>
  BY DEF Accept, Quiet, seen
<1>3. /\ UNCHANGED <<raced, now>> /\ issued' = issued \cup {t} /\ t \notin issued
      /\ tasks' = Put(tasks, t, Fresh(Enq(t, now, k, TRUE)))
  BY <1>2 DEF Submit
<1>4. /\ DOMAIN tasks' = DOMAIN tasks \cup {t}
      /\ tasks'[t].attempts = 0
      /\ \A u \in DOMAIN tasks \ {t} : tasks'[u] = tasks[u]
  BY <1>3 DEF Put, Fresh
<1>5. ASSUME NEW u \in TaskId \ {t}
      PROVE  OnBudget(u)'
  <2>1. Live(u)' => /\ Live(u) /\ tasks'[u].attempts = tasks[u].attempts
                    /\ tasks'[u].createdAt = tasks[u].createdAt
    BY <1>4 DEF Live
  <2>2. Flying(u) => Flying(u)'
    BY <1>2 DEF Flying
  <2>3. now <= now'
    BY <1>1, <1>3
  <2>4. QED
    BY <1>2, <1>3, <2>1, <2>2, <2>3, KeepsBudget
<1>6. OnBudget(t)'
  <2>1. AttemptsOf[t] \in Nat /\ AttemptsOf[t] >= 1
    BY BudgetTypes
  <2>2. sent'[t] = 0 /\ overdue'[t] = 0
    BY <1>2, <1>3 DEF OnBudget
  <2>3. /\ tasks'[t].attempts < AttemptsOf[t]
        /\ sent'[t] <= AttemptsOf[t] /\ overdue'[t] <= 1
        /\ sent'[t] <= tasks'[t].attempts + One(Flying(t)')
    BY <1>4, <2>1, <2>2 DEF One
  <2>4. QED
    BY <2>2, <2>3 DEF OnBudget
<1>7. QED
  BY <1>5, <1>6

\* Nothing that happens to no task in particular costs an attempt.
LEMMA RestOnBudget ==
  ASSUME DInv, DInv', UNCHANGED <<stage, sent, overdue>>,
         DOMAIN tasks' \subseteq DOMAIN tasks, \A u \in DOMAIN tasks' : tasks'[u] = tasks[u],
         issued \subseteq issued', raced \subseteq raced', now <= now',
         \A u \in TaskId : OnBudget(u)
  PROVE  \A u \in TaskId : OnBudget(u)'
<1> SUFFICES ASSUME NEW u \in TaskId PROVE OnBudget(u)'
  OBVIOUS
<1>1. Live(u)' => /\ Live(u) /\ tasks'[u].attempts = tasks[u].attempts
                  /\ tasks'[u].createdAt = tasks[u].createdAt
  BY DEF Live
<1>2. Flying(u) => Flying(u)'
  BY DEF Flying
<1>3. QED
  BY <1>1, <1>2, KeepsBudget

\* An end of the process starts over, unless it was an orderly one: then every task
\* is found again with the attempts it has used, and none has a request under way.
LEMMA ExitOnBudget ==
  ASSUME DInv, DInv', MirrorInv, GhostInv, ioErrors = 0, AttBound(log'),
         ExitDrained \/ ExitTimeout \/ ServeError \/ Kill,
         \A u \in TaskId : OnBudget(u)
  PROVE  \A u \in TaskId : OnBudget(u)'
<1> SUFFICES ASSUME NEW u \in TaskId PROVE OnBudget(u)'
  OBVIOUS
<1>1. /\ Crash /\ Restarted /\ log \in Seq(Record) /\ log' \in Seq(Record)
      /\ tasks' = Restored(log') /\ raced' = raced
  BY DEF ExitDrained, ExitTimeout, ServeError, Kill, Close, DInv, IndInv, TypeOK,
     Store!JournalTypeOK, Crash, Restore
<1>2. DOMAIN tasks' = EnqIds(log')
  BY <1>1, RestoredType
<1>3. Live(u)' => tasks'[u].attempts < AttemptsOf[u] /\ tasks'[u].attempts \in Nat
  <2>1. Live(u)' => tasks'[u].attempts < AttemptsOf[u]
    BY <1>1, <1>2, RestoredAttempts DEF Live
  <2>2. u \in DOMAIN tasks' => tasks'[u] \in Task
    BY DEF DInv, IndInv, TypeOK, IsPartialFn
  <2>3. QED
    BY <2>1, <2>2 DEF Live, Task
<1>4. AttemptsOf[u] \in Nat /\ AttemptsOf[u] >= 1 /\ sent[u] \in Nat /\ overdue[u] \in Nat
  BY BudgetTypes
<1>5. CASE Cut
  <2>1. sent'[u] = 0 /\ overdue'[u] = 0
    BY <1>5 DEF Cut
  <2>2. QED
    BY <1>3, <1>4, <2>1 DEF OnBudget, One
<1>6. CASE ExitDrained
  <2>1. /\ ~Flying(u) /\ UNCHANGED <<log, issued, sent, overdue>>
    BY <1>6 DEF ExitDrained, AllQuiet, Flying, Close
  <2>2. ASSUME u \notin raced, Live(u)'
        PROVE  sent[u] <= tasks'[u].attempts /\ overdue[u] = 0
    <3>1. u \in EnqIds(log) /\ Restored(log)[u].st \in Active /\ tasks'[u] = Restored(log)[u]
      BY <1>1, <1>2, <2>1, <2>2 DEF Live
    <3>2. u \in DOMAIN tasks
      BY <2>2, <3>1 DEF GhostInv, Active, Terminal
    <3>3. Mirrored(u, log)
      BY <2>2, <3>2 DEF MirrorInv
    <3>4. tasks[u] \in Task
      BY <3>2 DEF DInv, IndInv, TypeOK, IsPartialFn
    <3>5. tasks'[u].attempts = tasks[u].attempts /\ Live(u) /\ tasks[u].attempts \in Nat
      BY <3>1, <3>2, <3>3, <3>4 DEF Mirrored, Agrees, Live, Active, Terminal, Task
    <3>6. sent[u] <= tasks[u].attempts + One(Flying(u)) /\ overdue[u] = 0
      BY <2>1, <2>2, <3>5 DEF OnBudget
    <3>7. QED
      BY <1>4, <2>1, <3>5, <3>6 DEF One
  <2>3. /\ u \notin issued' => sent'[u] = 0 /\ overdue'[u] = 0
        /\ u \notin raced' => sent'[u] <= AttemptsOf[u] /\ overdue'[u] <= 1
    BY <1>1, <2>1 DEF OnBudget
  <2>4. ASSUME u \notin raced', Live(u)'
        PROVE  sent'[u] <= tasks'[u].attempts + One(Flying(u)') /\ overdue'[u] = 0
    BY <1>1, <1>3, <1>4, <2>1, <2>2, <2>4 DEF One
  <2>5. QED
    BY <1>3, <2>3, <2>4 DEF OnBudget
<1>7. QED
  BY <1>5, <1>6 DEF ExitTimeout, ServeError, Kill

LEMMA BudgetStep ==
  ASSUME DInv, MirrorInv, GhostInv, BudgetInv, [DNext]_dvars
  PROVE  BudgetInv'
<1> SUFFICES ASSUME ioErrors' = 0 PROVE BudgetInv'
  BY DEF BudgetInv
<1>0. /\ DInv' /\ IndInv /\ IndInv' /\ [Next]_vars /\ ioErrors = 0
  BY DStepPreserves, StepIsQueueStep, FaultsStay DEF DInv
<1>1. AttBound(log) /\ AttBound(snap) /\ \A u \in TaskId : OnBudget(u)
  BY <1>0 DEF BudgetInv
<1>2. DOMAIN tasks \subseteq TaskId /\ DOMAIN tasks' \subseteq TaskId /\ now \in Nat
  BY <1>0 DEF IndInv, TypeOK, IsPartialFn
<1>3. \A u \in DOMAIN tasks : tasks[u].st \in Active => tasks[u].attempts < AttemptsOf[u]
  BY <1>1, <1>2 DEF OnBudget, Live
<1>4. ASSUME \A u \in TaskId : OnBudget(u)'
      PROVE  BudgetInv'
  <2>1. \A u \in DOMAIN tasks' : tasks'[u].st \in Active => tasks'[u].attempts < AttemptsOf[u]
    BY <1>2, <1>4 DEF OnBudget, Live
  <2>2. AttBound(log') /\ AttBound(snap')
    BY <1>0, <1>1, <1>3, <2>1, AttBoundStep
  <2>3. QED
    BY <1>4, <2>2 DEF BudgetInv, AttBound
<1>5. ASSUME UNCHANGED <<stage, sent, overdue>>,
             DOMAIN tasks' \subseteq DOMAIN tasks, \A u \in DOMAIN tasks' : tasks'[u] = tasks[u],
             issued \subseteq issued', raced \subseteq raced', now <= now'
      PROVE  BudgetInv'
  BY <1>0, <1>1, <1>4, <1>5, RestOnBudget
<1>6. CASE UNCHANGED dvars \/ Terminate \/ RunStops
  BY <1>2, <1>5, <1>6 DEF dvars, vars, memVars, history, Terminate, RunStops, seen
<1>7. ASSUME NEW t \in TaskId, NEW k \in Key, Accept(t, k) PROVE BudgetInv'
  BY <1>0, <1>1, <1>4, <1>7, AcceptOnBudget
<1>8. CASE \/ \E t \in TaskId, k \in Key : Refuse(t, k)
           \/ \E k \in Key : AcceptAgain(k)
  <2>1. UNCHANGED <<stage, sent, overdue, tasks, raced, now>> /\ issued \subseteq issued'
    BY <1>8 DEF Refuse, AcceptAgain, SubmitFails, SubmitDuplicate, memVars, Quiet, seen
  <2>2. now <= now'
    BY <1>2, <2>1
  <2>3. QED
    BY <1>5, <2>1, <2>2
<1>9. ASSUME NEW t \in TaskId, Reopen(t) PROVE BudgetInv'
  BY <1>0, <1>1, <1>4, <1>9, ReopenOnBudget
<1>10. ASSUME NEW t \in TaskId, TakeOut(t) \/ HostBusy(t) \/ GiveBack(t) PROVE BudgetInv'
  <2>1. UNCHANGED <<sent, overdue>> /\ \E s : To(t, s)
    BY <1>10 DEF TakeOut, HostBusy, GiveBack, seen
  <2>2. (Lease(t) \/ Defer(t)) /\ ~Flying(t)
    <3>1. CASE TakeOut(t)
      <4>1. Lease(t) /\ t \notin Sending
        BY <1>0, <3>1 DEF TakeOut, Lease, Least, IndInv, HeapMatches, Scheduled, Sending
      <4>2. stage[t] = "none"
        BY <4>1 DEF DInv, Busy
      <4>3. QED
        BY <4>1, <4>2 DEF Flying
    <3>2. CASE HostBusy(t) \/ GiveBack(t)
      BY <3>2 DEF HostBusy, GiveBack, Flying
    <3>3. QED
      BY <1>10, <3>1, <3>2
  <2>3. QED
    BY <1>0, <1>1, <1>4, <2>1, <2>2, WaitsOnBudget
<1>11. ASSUME NEW t \in TaskId, SendRequest(t) \/ FailsBeforeSending(t) \/ Hear(t)
       PROVE  BudgetInv'
  BY <1>0, <1>1, <1>4, <1>11, SendsOnBudget
<1>12. ASSUME NEW t \in TaskId,
              \/ RecordSuccess(t) \/ RecordPermanent(t) \/ RecordExhausted(t) \/ RecordTooLate(t)
       PROVE  BudgetInv'
  <2>1. (OnSuccess(t) \/ OnDead(t)) /\ To(t, "none") /\ UNCHANGED <<sent, overdue>>
    BY <1>12 DEF RecordSuccess, RecordPermanent, RecordExhausted, RecordTooLate, Over, seen
  <2>2. QED
    BY <1>0, <1>1, <1>4, <2>1, EndsOnBudget
<1>13. ASSUME NEW t \in TaskId, RecordRetry(t) PROVE BudgetInv'
  BY <1>0, <1>1, <1>4, <1>13, RetryOnBudget
<1>14. CASE (Maintain \/ SyncLoop \/ Tick) /\ Quiet
  <2>1. /\ DOMAIN tasks' \subseteq DOMAIN tasks /\ \A u \in DOMAIN tasks' : tasks'[u] = tasks[u]
    BY <1>14 DEF Maintain, SyncLoop, Tick, PurgeExpired, EnforceTaskCap, MaybeCompact,
       TakeSnapshot, CompactStore, ResetUnstripped, memVars, DropAll, Restrict
  <2>2. issued' = issued
    BY <1>14 DEF Maintain, SyncLoop, Tick, PurgeExpired, EnforceTaskCap, MaybeCompact,
       TakeSnapshot, CompactStore, ResetUnstripped, history
  <2>3. raced \subseteq raced'
    BY <1>14 DEF Maintain, SyncLoop, Tick, PurgeExpired, EnforceTaskCap, MaybeCompact,
       TakeSnapshot, CompactStore, ResetUnstripped, history, Overwritten
  <2>4. now <= now'
    BY <1>2, <1>14 DEF Maintain, SyncLoop, Tick, PurgeExpired, EnforceTaskCap, MaybeCompact,
       TakeSnapshot, CompactStore, ResetUnstripped
  <2>5. QED
    BY <1>5, <1>14, <2>1, <2>2, <2>3, <2>4 DEF Quiet, seen
<1>15. CASE ExitDrained \/ ExitTimeout \/ ServeError \/ Kill
  <2>1. Crash
    BY <1>15 DEF ExitDrained, ExitTimeout, ServeError, Kill, Close
  <2>2. AttBound(log') /\ AttBound(snap')
    BY <1>0, <1>1, <1>3, <2>1, AttBoundStep
  <2>3. QED
    BY <1>0, <1>1, <1>4, <1>15, <2>2, ExitOnBudget
<1>16. QED
  BY <1>6, <1>7, <1>8, <1>9, <1>10, <1>11, <1>12, <1>13, <1>14, <1>15 DEF DNext, Step

THEOREM BudgetInvariance == DSpec => []BudgetInv
<1>1. DInit => BudgetInv
  <2> SUFFICES ASSUME DInit PROVE BudgetInv
    OBVIOUS
  <2>1. /\ tasks = <<>> /\ log = <<>> /\ snap = <<>> /\ issued = {}
        /\ sent = [t \in TaskId |-> 0] /\ overdue = [t \in TaskId |-> 0]
    BY DEF DInit, Init, Store!Init
  <2>2. AttBound(log) /\ AttBound(snap)
    <3>1. Len(log) = 0 /\ Len(snap) = 0 /\ \A i : i \notin 1..0
      BY <2>1
    <3>2. QED
      BY <3>1 DEF AttBound
  <2>3. ASSUME NEW t \in TaskId
        PROVE  OnBudget(t)
    <3>1. AttemptsOf[t] \in Nat /\ sent[t] = 0 /\ overdue[t] = 0 /\ ~Live(t)
      BY <2>1, DeliveryAssumption, ConfigAssumption DEF Live
    <3>2. QED
      BY <3>1 DEF OnBudget
  <2>4. QED
    BY <2>2, <2>3 DEF BudgetInv
<1>2. DInv /\ MirrorInv /\ GhostInv /\ BudgetInv /\ [DNext]_dvars => BudgetInv'
  BY BudgetStep
<1>3. QED
  BY <1>1, <1>2, DeliveryInvariance, ImplementsQueue, MirrorInvariance, PTL DEF DSpec

\* Between two cuts a vendor gets no more requests for a task than its max_attempts,
\* however many orderly restarts, deferrals and compactions lie in between, unless a
\* compaction overwrote a record (dispatch.go: deliver; queue.go: OnRetry, Restore).
THEOREM BudgetKept == DSpec => []RequestBudget
<1>1. BudgetInv => RequestBudget
  BY DEF BudgetInv, OnBudget, RequestBudget
<1>2. QED
  BY <1>1, BudgetInvariance, PTL

\* However late a task gets its turn, its deadline passed, only one request goes out
\* that late, through any deferrals and orderly restarts: the failure that follows is its
\* last, until an operator revives it, a cut loses the record of that failure or a
\* compaction overwrites it (dispatch.go: deliver).
THEOREM LateOnce == DSpec => []OneLateRequest
<1>1. BudgetInv => OneLateRequest
  BY DEF BudgetInv, OnBudget, OneLateRequest
<1>2. QED
  BY <1>1, BudgetInvariance, PTL

-----------------------------------------------------------------------------
(* The loop of Restore, on the journals the queue writes.                   *)

\* Every record is of a task that was issued, and its submission comes first.
Begun(l) == Known(l) /\ EnqFirst(l)
BegunInv == Begun(log) /\ Begun(snap)

\* The records of the journal after a step are those it had, in their places, and
\* perhaps one more: the submission of a new task, or a record of one that was issued.
Grows ==
  \A i \in 1..Len(log') :
    \/ i \in 1..Len(log) /\ log'[i] = log[i]
    \/ /\ i = Len(log) + 1 /\ log'[i].id \in issued'
       /\ log'[i].T = "enq" => log'[i].id \notin issued

LEMMA GrowsKeeps ==
  ASSUME log \in Seq(Record), Begun(log), Grows, issued \subseteq issued'
  PROVE  Begun(log)'
<1>1. Len(log) \in Nat /\ \A i \in 1..Len(log) : log[i].id \in issued
  BY DEF Begun, Known
<1>2. Known(log)'
  BY <1>1 DEF Grows, Known
<1>3. ASSUME NEW i \in 1..Len(log'), NEW j \in 1..Len(log'), i < j, log'[i].id = log'[j].id
      PROVE  log'[j].T # "enq"
  <2>1. CASE j \in 1..Len(log) /\ log'[j] = log[j]
    <3>1. i \in 1..Len(log) /\ log'[i] = log[i]
      BY <1>1, <1>3, <2>1 DEF Grows
    <3>2. QED
      BY <1>3, <2>1, <3>1 DEF Begun, EnqFirst
  <2>2. CASE /\ j = Len(log) + 1 /\ log'[j].id \in issued'
             /\ log'[j].T = "enq" => log'[j].id \notin issued
    <3>1. i \in 1..Len(log) /\ log'[i] = log[i]
      BY <1>1, <1>3, <2>2 DEF Grows
    <3>2. QED
      BY <1>1, <1>3, <2>2, <3>1
  <2>3. QED
    BY <2>1, <2>2 DEF Grows
<1>4. QED
  BY <1>2, <1>3 DEF Begun, EnqFirst

\* Appending one record, cutting the journal, or both.
LEMMA OneGrows ==
  ASSUME IndInv, NEW r, r.id \in issued', r.T = "enq" => r.id \notin issued,
         \/ log' = log \/ log' = Append(log, r)
         \/ Store!KeepPrefix(log) \/ Store!KeepPrefix(Append(log, r))
  PROVE  Grows
<1>1. log \in Seq(Record) /\ Len(log) \in Nat /\ synced \in 0..Len(log)
  BY DEF IndInv, TypeOK, Store!JournalTypeOK
<1> DEFINE R == Record \cup {r}
           l == Append(log, r)
<1>2. log \in Seq(R) /\ r \in R
  BY <1>1
<1>3. /\ l \in Seq(R) /\ Len(l) = Len(log) + 1 /\ l[Len(log) + 1] = r
      /\ \A i \in 1..Len(log) : l[i] = log[i]
  <2> HIDE DEF R
  <2>1. QED
    BY <1>2
<1> HIDE DEF R, l
<1>4. ASSUME NEW n \in 0..Len(l), Len(log') = n, \A i \in 1..n : log'[i] = l[i]
      PROVE  Grows
  <2>1. \A i \in 1..n : i \in 1..Len(log) \/ i = Len(log) + 1
    BY <1>1, <1>3, <1>4
  <2>2. QED
    BY <1>3, <1>4, <2>1 DEF Grows
<1>5. \A n \in synced..Len(l) :
        /\ n \in 0..Len(l) /\ Len(SubSeq(l, 1, n)) = n
        /\ \A i \in 1..n : SubSeq(l, 1, n)[i] = l[i]
  BY <1>1, <1>3
<1>6. \A n \in synced..Len(log) :
        /\ n \in 0..Len(l) /\ Len(SubSeq(log, 1, n)) = n
        /\ \A i \in 1..n : SubSeq(log, 1, n)[i] = l[i]
  BY <1>1, <1>3
<1>7. CASE log' = log
  <2>1. Len(log) \in 0..Len(l)
    BY <1>1, <1>3
  <2>2. QED
    BY <1>3, <1>4, <1>7, <2>1
<1>8. CASE log' = Append(log, r)
  <2>1. log' = l /\ Len(l) \in 0..Len(l)
    BY <1>1, <1>3, <1>8 DEF l
  <2>2. QED
    BY <1>4, <2>1
<1>9. CASE Store!KeepPrefix(log)
  <2>1. PICK n \in synced..Len(log) : log' = SubSeq(log, 1, n)
    BY <1>9 DEF Store!KeepPrefix
  <2>2. QED
    BY <1>4, <1>6, <2>1
<1>10. CASE Store!KeepPrefix(Append(log, r))
  <2>1. PICK n \in synced..Len(l) : log' = SubSeq(l, 1, n)
    BY <1>10 DEF Store!KeepPrefix, l
  <2>2. QED
    BY <1>4, <1>5, <2>1
<1>11. QED
  BY <1>7, <1>8, <1>9, <1>10

LEMMA LazyGrows ==
  ASSUME IndInv, NEW r, r.T # "enq", r.id \in DOMAIN tasks, issued' = issued,
         Store!AppendLazy(r) \/ Store!AppendLazyFails
  PROVE  Grows
<1>1. r.id \in issued'
  BY DEF IndInv, IssuedInv
<1>2. \/ log' = log \/ log' = Append(log, r) \/ Store!KeepPrefix(log)
  BY DEF Store!AppendLazy, Store!AppendLazyFails, Store!WriteError, Store!StillFailed,
     Store!journalVars
<1>3. QED
  BY <1>1, <1>2, OneGrows

\* No operation but the two ends of a compaction touches the snapshot or rewrites the
\* journal.
LEMMA NextGrows ==
  ASSUME IndInv, [Next]_vars, ~TakeSnapshot, ~CompactStore
  PROVE  /\ Grows /\ issued \subseteq issued'
         /\ snap' \in {snap, <<>>}
<1> DEFINE Goal == Grows /\ issued \subseteq issued' /\ snap' \in {snap, <<>>}
<1>0. log \in Seq(Record)
  BY DEF IndInv, TypeOK, Store!JournalTypeOK
<1>1. ASSUME log' = log, issued' = issued, snap' = snap PROVE Goal
  BY <1>1 DEF Grows
<1>2. ASSUME NEW t \in TaskId, NEW k \in Key, Submit(t, k) \/ SubmitFails(t, k) PROVE Goal
  <2> DEFINE r == Enq(t, now, k, TRUE)
  <2>1. r.id = t /\ r.T = "enq" /\ t \notin issued /\ issued' = issued \cup {t} /\ snap' = snap
    BY <1>2 DEF Submit, SubmitFails, Enq, maintVars
  <2>2. Store!AppendSync(r) \/ Store!AppendSyncFails(r)
    BY <1>2 DEF Submit, SubmitFails
  <2> HIDE DEF r
  <2>3. log' = log \/ log' = Append(log, r) \/ Store!KeepPrefix(log)
    BY <2>2 DEF Store!AppendSync, Store!AppendSyncFails, Store!WriteError, Store!SyncError,
       Store!StillFailed, Store!DetachedSync, Store!journalVars
  <2>4. Grows
    BY <2>1, <2>3, OneGrows
  <2>5. QED
    BY <2>1, <2>4
<1>3. ASSUME NEW t \in TaskId, Revive(t) \/ OnRetry(t) \/ OnSuccess(t) \/ OnDead(t) PROVE Goal
  <2>1. t \in DOMAIN tasks /\ issued' = issued /\ snap' = snap
    BY <1>3 DEF Revive, OnRetry, OnSuccess, OnDead, Sending, maintVars
  <2>2. \E r : /\ r.id = t /\ r.T # "enq"
               /\ Store!AppendLazy(r) \/ Store!AppendLazyFails
    <3>1. \A a, b, c : /\ Att(t, a, b, c).T # "enq" /\ Att(t, a, b, c).id = t
                       /\ Ok(t, a, b).T # "enq" /\ Ok(t, a, b).id = t
                       /\ Dead(t, a, b, c).T # "enq" /\ Dead(t, a, b, c).id = t
      BY DEF Att, Ok, Dead
    <3>2. CASE Revive(t)
      BY <3>1, <3>2 DEF Revive
    <3>3. CASE OnRetry(t)
      BY <3>1, <3>3 DEF OnRetry
    <3>4. CASE OnSuccess(t)
      BY <3>1, <3>4 DEF OnSuccess
    <3>5. CASE OnDead(t)
      BY <3>1, <3>5 DEF OnDead
    <3>6. QED
      BY <1>3, <3>2, <3>3, <3>4, <3>5
  <2>3. QED
    BY <2>1, <2>2, LazyGrows
<1>4. ASSUME NEW t \in TaskId, Lease(t) \/ Defer(t) PROVE Goal
  BY <1>1, <1>4 DEF Lease, Defer, logVars, maintVars, history
<1>5. CASE \/ \E k \in Key : SubmitDuplicate(k)
           \/ PurgeExpired \/ EnforceTaskCap \/ MaybeCompact \/ ResetUnstripped \/ Tick
           \/ UNCHANGED vars
  BY <1>1, <1>5 DEF SubmitDuplicate, PurgeExpired, EnforceTaskCap, MaybeCompact,
     ResetUnstripped, Tick, vars, logVars, maintVars, history
<1>6. CASE SyncLoop
  <2>1. issued' = issued /\ snap' = snap /\ (log' = log \/ Store!KeepPrefix(log))
    BY <1>6 DEF SyncLoop, Store!Flush, Store!FlushFails, Store!WriteError, maintVars, history
  <2>2. CASE log' = log
    BY <1>1, <2>1, <2>2
  <2>3. CASE Store!KeepPrefix(log)
    <3>1. PICK n \in synced..Len(log) : log' = SubSeq(log, 1, n)
      BY <2>3 DEF Store!KeepPrefix
    <3>2. synced \in 0..Len(log)
      BY DEF IndInv, TypeOK, Store!JournalTypeOK
    <3>3. Len(log') = n /\ \A i \in 1..n : i \in 1..Len(log) /\ log'[i] = log[i]
      BY <1>0, <3>1, <3>2
    <3>4. QED
      BY <2>1, <3>3 DEF Grows
  <2>4. QED
    BY <2>1, <2>2, <2>3
<1>7. CASE Crash
  <2>1. snap' = <<>>
    BY <1>7 DEF Crash
  <2>2. CASE Store!Crash(<<>>) /\ UNCHANGED issued
    <3>1. log \o <<>> = log
      BY <1>0
    <3>2. Store!KeepPrefix(log)
      BY <2>2, <3>1 DEF Store!Crash
    <3>3. PICK n \in synced..Len(log) : log' = SubSeq(log, 1, n)
      BY <3>2 DEF Store!KeepPrefix
    <3>4. synced \in 0..Len(log)
      BY DEF IndInv, TypeOK, Store!JournalTypeOK
    <3>5. Len(log') = n /\ \A i \in 1..n : i \in 1..Len(log) /\ log'[i] = log[i]
      BY <1>0, <3>3, <3>4
    <3>6. QED
      BY <2>1, <2>2, <3>5 DEF Grows
  <2>3. ASSUME NEW t \in TaskId \ issued, NEW k \in Key,
               Store!Crash(<<Enq(t, now, k, TRUE)>>), issued' = issued \cup {t}
        PROVE  Goal
    <3> DEFINE r == Enq(t, now, k, TRUE)
    <3>1. r \in Record /\ r.id = t /\ r.T = "enq"
      BY EnqIsRecord DEF Enq
    <3>2. Store!Crash(<<r>>)
      BY <2>3
    <3> HIDE DEF r
    <3>3. log \o <<r>> = Append(log, r)
      BY <1>0, <3>1
    <3>4. Store!KeepPrefix(Append(log, r))
      BY <3>2, <3>3 DEF Store!Crash
    <3>5. Grows
      BY <2>3, <3>1, <3>4, OneGrows
    <3>6. QED
      BY <2>1, <2>3, <3>5
  <2>4. QED
    BY <1>7, <2>2, <2>3 DEF Crash
<1>8. QED
  BY <1>2, <1>3, <1>4, <1>5, <1>6, <1>7 DEF Next

LEMMA NothingBegun == Known(<<>>) /\ EnqFirst(<<>>)
<1>1. Len(<<>>) = 0 /\ \A i : i \notin 1..0
  OBVIOUS
<1>2. QED
  BY <1>1 DEF Known, EnqFirst

LEMMA BegunStep == IndInv /\ BegunInv /\ [Next]_vars => BegunInv'
<1> SUFFICES ASSUME IndInv, BegunInv, [Next]_vars PROVE BegunInv'
  OBVIOUS
<1>1. log \in Seq(Record) /\ DOMAIN tasks \subseteq issued /\ snap \in Seq(Record)
  BY DEF IndInv, TypeOK, Store!JournalTypeOK, IssuedInv
<1>2. CASE ~TakeSnapshot /\ ~CompactStore
  <2>1. Grows /\ issued \subseteq issued' /\ snap' \in {snap, <<>>}
    BY <1>2, NextGrows
  <2>2. Begun(log)'
    BY <1>1, <2>1, GrowsKeeps DEF BegunInv
  <2>3. CASE snap' = snap
    BY <2>1, <2>2, <2>3 DEF BegunInv, Begun, Known, EnqFirst
  <2>4. CASE snap' = <<>>
    <3>1. Len(snap') = 0 /\ \A i : i \notin 1..0
      BY <2>4
    <3>2. QED
      BY <2>2, <3>1 DEF BegunInv, Begun, Known, EnqFirst
  <2>5. QED
    BY <2>1, <2>3, <2>4
<1>3. CASE TakeSnapshot
  <2> DEFINE S == {t \in DOMAIN tasks : HasStateRecord(t)}
  <2>1. PICK order \in Orders(DOMAIN tasks), rest \in Orders(S) :
          snap' = SnapshotIn(order, rest)
    BY <1>3 DEF TakeSnapshot
  <2>2. S \in SUBSET (DOMAIN tasks)
    OBVIOUS
  <2> HIDE DEF S
  <2>3. TellsTasks(snap', S)
    BY <2>1, <2>2, SnapshotTells
  <2>4. UNCHANGED <<log, issued>>
    BY <1>3 DEF TakeSnapshot, logVars
  <2>5. Known(snap)'
    BY <1>1, <2>2, <2>3, <2>4 DEF TellsTasks, Known
  <2>6. EnqFirst(snap')
    BY <2>3 DEF TellsTasks, EnqFirst
  <2>7. QED
    BY <2>4, <2>5, <2>6 DEF BegunInv, Begun, Known
<1>4. CASE CompactStore
  <2>1. snap' = <<>> /\ issued' = issued
    BY <1>4 DEF CompactStore
  <2>2. Len(snap') = 0 /\ \A i : i \notin 1..0
    BY <2>1
  <2>3. Begun(snap)'
    BY <2>2 DEF Begun, Known, EnqFirst
  <2>4. log' = snap \/ log' = log \/ Store!KeepPrefix(log)
    BY <1>4 DEF CompactStore, Store!Compact, Store!CompactFails, Store!journalVars
  <2>5. CASE log' = snap
    BY <2>1, <2>3, <2>5 DEF BegunInv, Begun, Known
  <2>6. CASE log' = log
    BY <2>1, <2>3, <2>6 DEF BegunInv, Begun, Known
  <2>7. CASE Store!KeepPrefix(log)
    <3>1. PICK n \in synced..Len(log) : log' = SubSeq(log, 1, n)
      BY <2>7 DEF Store!KeepPrefix
    <3>2. synced \in 0..Len(log)
      BY DEF IndInv, TypeOK, Store!JournalTypeOK
    <3>3. Len(log') = n /\ \A i \in 1..n : i \in 1..Len(log) /\ log'[i] = log[i]
      BY <1>1, <3>1, <3>2
    <3>4. Begun(log)'
      BY <2>1, <3>3, GrowsKeeps, <1>1 DEF Grows, BegunInv
    <3>5. QED
      BY <2>3, <3>4 DEF BegunInv
  <2>8. QED
    BY <2>4, <2>5, <2>6, <2>7
<1>5. QED
  BY <1>2, <1>3, <1>4

LEMMA InitBegun == Init => BegunInv
<1> SUFFICES ASSUME Init PROVE BegunInv
  OBVIOUS
<1>1. log = <<>> /\ snap = <<>>
  BY DEF Init, Store!Init
<1>2. QED
  BY <1>1, NothingBegun DEF BegunInv, Begun, Known

\* In whatever state a process ends, the loop by which the next one reads the journal
\* rebuilds just what the last records of each task say (queue.go: Restore).
THEOREM ReplayCorrect == Spec => []ReplayAgrees
<1>1. Init => IndInv /\ SuccInv /\ BegunInv
  BY InitEstablishes, InitDone, InitBegun
<1>2. IndInv /\ SuccInv /\ BegunInv /\ [Next]_vars => (IndInv /\ SuccInv /\ BegunInv)'
  BY NextPreserves, NextDone, BegunStep
<1>3. IndInv /\ SuccInv /\ BegunInv => ReplayAgrees
  <2> SUFFICES ASSUME IndInv, SuccInv, BegunInv PROVE ReplayAgrees
    OBVIOUS
  <2>1. log \in Seq(Record) /\ EnqFirst(log) /\ OkLast(log)
    BY DEF IndInv, TypeOK, Store!JournalTypeOK, SuccInv, BegunInv, Begun
  <2>2. QED
    BY <2>1, RestoreLoopCorrect DEF ReplayAgrees
<1>4. QED
  BY <1>1, <1>2, <1>3, PTL DEF Spec
=============================================================================
