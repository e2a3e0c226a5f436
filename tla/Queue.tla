------------------------------- MODULE Queue -------------------------------
(***************************************************************************)
(* The queue of notifyd (internal/queue): the tasks in memory, the         *)
(* idempotency index, the heap of scheduled tasks, and the journal they    *)
(* are rebuilt from, under every operation the API, the workers and the    *)
(* maintenance loop call.                                                  *)
(*                                                                         *)
(* Each operation holds q.mu from beginning to end, so it is one action;   *)
(* its append to the journal is part of it.  The exception is maintenance: *)
(* Maintain takes and releases the lock once per phase, and Compact hands  *)
(* the store a snapshot after it has released the lock.  "phase" says      *)
(* where the one maintenance goroutine stands.                             *)
(*                                                                         *)
(* The callers are the environment: any task that is out on lease may end  *)
(* in any way at any time, and a client may submit or retry at any time.   *)
(***************************************************************************)
EXTENDS Replay

CONSTANTS QueueMax,         \* Config.QueueMax
          TasksMax,         \* Config.TasksMax
          Retention,        \* Config.RetentionMS, in ticks of the model's clock
          DeadRetention,    \* Config.DeadRetentionMS
          StripThreshold,   \* Config.StripThreshold
          CompactMin,       \* Config.CompactMinBytes, counted in records
          LivePct,          \* Config.CompactLiveRatio, in percent
          MaxAttempts,      \* DefaultMaxAttempts of the dispatcher
          MaxDelay          \* longest backoff the dispatcher may choose

\* Bounds of the model, not of the code.
CONSTANTS MaxClock,         \* ticks of the clock
          MaxCrashes,       \* crashes (or shutdowns) followed by a restart
          MaxPasses,        \* passes of Maintain
          MaxRevives,       \* tasks an operator revives, each once
          MaxIOErrors       \* failures of the file system

\* What config.Load accepts (it does not check QueueMax by itself).
ASSUME ConfigAssumption ==
  /\ MaxAttempts \in Nat \ {0}
  /\ {QueueMax, TasksMax, Retention, DeadRetention, StripThreshold, CompactMin, LivePct,
      MaxDelay} \subseteq Nat
  /\ TasksMax = 0 \/ TasksMax >= QueueMax
  /\ DeadRetention >= Retention
ASSUME BoundAssumption ==
  {MaxClock, MaxCrashes, MaxPasses, MaxRevives, MaxIOErrors} \subseteq Nat

VARIABLES
  tasks,        \* Queue.tasks: identifier -> task, terminal ones included
  idem,         \* Queue.idem: idempotency key -> identifier
  due,          \* the tasks in Queue.due (HeapMatches: never one twice)
  active,       \* Queue.active
  unstripped,   \* Queue.unstripped
  log, synced, dirty, handle,   \* the journal
  phase,        \* where the maintenance goroutine stands
  snap,         \* the snapshot Compact holds between its two locks
  now           \* model.NowMS

\* History: no action of the queue depends on these.
VARIABLES
  issued,       \* identifiers NewID has handed out
  acked,        \* tasks whose own submission was answered 202
  answered,     \* <<key, id>> pairs a submission was answered with, 202 or 200
  revived,      \* tasks whose /retry was answered 202
  dropped,      \* tasks maintenance has removed
  touched,      \* tasks with a record appended since the snapshot was taken
  raced,        \* tasks whose records a compaction has overwritten
  exposed,      \* ... those among them the snapshot did not know at all
  late,         \* tasks that succeeded between the two locks of a compaction
  shuffled,     \* keys of two tasks each, whose order a compaction has left to chance
  crashes, passes, ioErrors

memVars   == <<tasks, idem, due, active, unstripped>>
logVars   == <<log, synced, dirty, handle>>
maintVars == <<phase, snap, passes>>
history   == <<issued, acked, answered, revived, dropped, touched, raced, exposed,
             late, shuffled>>
faults    == <<crashes, ioErrors>>
vars == <<memVars, logVars, maintVars, history, faults, now>>

Store == INSTANCE Journal WITH Snapshot <- Seq(Record)

-----------------------------------------------------------------------------
IsPartialFn(f, S, T) == DOMAIN f \subseteq S /\ f \in [DOMAIN f -> T]
ActiveIn(mem)   == {t \in DOMAIN mem : mem[t].st \in Active}
Sending         == {t \in DOMAIN tasks : tasks[t].st = "sending"}
Scheduled       == {t \in DOMAIN tasks : tasks[t].st \in {"pending", "waiting"}}
Least(S)        == {t \in S : \A u \in S : tasks[t].nextAt <= tasks[u].nextAt}

Init ==
  /\ tasks = <<>> /\ idem = <<>> /\ due = {} /\ active = 0 /\ unstripped = 0
  /\ Store!Init
  /\ phase = "idle" /\ snap = <<>>
  /\ now = 0
  /\ issued = {} /\ acked = {} /\ answered = {} /\ revived = {} /\ dropped = {}
  /\ touched = {} /\ raced = {} /\ exposed = {} /\ late = {}
  /\ shuffled = {}
  /\ crashes = 0 /\ passes = 0 /\ ioErrors = 0

\* Bookkeeping shared by the operations that append a record.
Touch(t) == touched' = IF phase = "replace" THEN touched \cup {t} ELSE touched
Fault == IF handle = "ok" THEN /\ ioErrors < MaxIOErrors
                               /\ ioErrors' = ioErrors + 1
                          ELSE UNCHANGED ioErrors


\* The backpressure of Submit and Revive (ErrQueueFull, the 429 answer).
HasRoomOffByOne == active <= QueueMax
HasRoom == active < QueueMax

-----------------------------------------------------------------------------
(* Calls of the API. *)

SubmitLazily(t, k) ==
  /\ t \notin issued /\ k \notin DOMAIN idem /\ HasRoom
  /\ Store!AppendLazy(Enq(t, now, k, TRUE))
  /\ tasks' = Put(tasks, t, Fresh(Enq(t, now, k, TRUE)))
  /\ idem' = Put(idem, k, t)
  /\ due' = due \cup {t} /\ active' = active + 1
  /\ issued' = issued \cup {t} /\ acked' = acked \cup {t}
  /\ answered' = answered \cup {<<k, t>>}
  /\ UNCHANGED <<unstripped, maintVars, revived, dropped, touched, raced, exposed,
                 late, shuffled, faults, now>>

\* The record is durable before the task is in memory, and in memory before
\* the client sees 202.
Submit(t, k) ==
  /\ t \notin issued
  /\ k \notin DOMAIN idem
  /\ HasRoom
  /\ Store!AppendSync(Enq(t, now, k, TRUE))
  /\ tasks' = Put(tasks, t, Fresh(Enq(t, now, k, TRUE)))
  /\ idem' = Put(idem, k, t)
  /\ due' = due \cup {t}
  /\ active' = active + 1
  /\ issued' = issued \cup {t}
  /\ acked' = acked \cup {t}
  /\ answered' = answered \cup {<<k, t>>}
  /\ Touch(t)
  /\ UNCHANGED <<unstripped, maintVars, revived, dropped, raced, exposed, late, shuffled,
                 faults, now>>

\* The same key again: the existing task is returned, and 200 is answered for it.
SubmitDuplicate(k) ==
  /\ k \in DOMAIN idem
  /\ answered' = answered \cup {<<k, idem[k]>>}
  /\ UNCHANGED <<memVars, logVars, maintVars, issued, acked, revived, dropped,
                 touched, raced, exposed, late, shuffled, faults, now>>

\* AppendEnqueue returns an error: the client gets 500, memory is untouched.
SubmitFails(t, k) ==
  /\ t \notin issued
  /\ k \notin DOMAIN idem
  /\ HasRoom
  /\ Store!AppendSyncFails(Enq(t, now, k, TRUE))
  /\ Fault
  /\ issued' = issued \cup {t}
  /\ UNCHANGED <<memVars, maintVars, acked, answered, revived, dropped, touched, raced,
                 exposed, late, shuffled, crashes, now>>

RevivedKeepingAttempts(m) == [m EXCEPT !.st = "pending", !.why = NoReason,
                                       !.nextAt = now, !.updatedAt = now, !.createdAt = now]
Revived(m) == [m EXCEPT !.st = "pending", !.attempts = 0, !.why = NoReason,
                        !.nextAt = now, !.updatedAt = now, !.createdAt = now]

ReviveAnything(t) ==
  /\ t \in DOMAIN tasks \ revived /\ HasRoom
  /\ tasks' = [tasks EXCEPT ![t] = Revived(@)]
  /\ active' = active + 1
  /\ Store!AppendLazy(Att(t, now, 0, now))
  /\ due' = due \cup {t}
  /\ revived' = revived \cup {t}
  /\ UNCHANGED <<idem, unstripped, maintVars, issued, acked, answered, dropped, touched,
                 raced, exposed, late, shuffled, faults, now>>

\* Everything is reset before the append; when the append fails the task stays
\* pending, but never enters the heap.
Revive(t) ==
  /\ t \in DOMAIN tasks \ revived
  /\ Cardinality(revived) < MaxRevives
  /\ tasks[t].st = "dead"
  /\ HasRoom
  /\ tasks' = [tasks EXCEPT ![t] = Revived(@)]
  /\ active' = active + 1
  /\ \/ /\ Store!AppendLazy(Att(t, now, 0, now))
        /\ due' = due \cup {t}
        /\ UNCHANGED ioErrors
     \/ /\ Store!AppendLazyFails
        /\ Fault
        /\ UNCHANGED due
  /\ revived' = revived \cup {t}
  /\ Touch(t)
  /\ UNCHANGED <<idem, unstripped, maintVars, issued, acked, answered, dropped, raced,
                 exposed, late, shuffled, crashes, now>>

-----------------------------------------------------------------------------
(* Calls of the dispatcher and its workers. *)

Lease(t) ==
  /\ t \in Least(due)
  /\ tasks[t].nextAt <= now
  /\ due' = due \ {t}
  /\ tasks' = [tasks EXCEPT ![t].st = "sending", ![t].updatedAt = now]
  /\ UNCHANGED <<idem, active, unstripped, logVars, maintVars, history, faults, now>>

\* The host or every worker is busy: back into the heap, nothing is journaled.
Defer(t) ==
  /\ t \in Sending
  /\ \E at \in {now, now + 1} :
       tasks' = [tasks EXCEPT ![t].st = "pending", ![t].nextAt = at]
  /\ due' = due \cup {t}
  /\ UNCHANGED <<idem, active, unstripped, logVars, maintVars, history, faults, now>>

Retried(m, at) == [m EXCEPT !.st = "waiting", !.attempts = @ + 1, !.nextAt = at,
                            !.updatedAt = now]
Succeeded(m)   == [m EXCEPT !.st = "succeeded", !.attempts = @ + 1, !.updatedAt = now,
                            !.full = FALSE]
Died(m, why)   == [m EXCEPT !.st = "dead", !.attempts = @ + 1, !.updatedAt = now,
                            !.why = why]

OnRetry(t) ==
  /\ t \in Sending
  /\ tasks[t].attempts + 1 < MaxAttempts
  /\ \E at \in now .. now + MaxDelay :
       /\ tasks' = [tasks EXCEPT ![t] = Retried(@, at)]
       /\ \/ /\ Store!AppendLazy(Att(t, now, tasks[t].attempts + 1, at))
             /\ due' = due \cup {t}
             /\ UNCHANGED ioErrors
          \/ /\ Store!AppendLazyFails
             /\ Fault
             /\ UNCHANGED due
  /\ Touch(t)
  /\ UNCHANGED <<idem, active, unstripped, maintVars, issued, acked, answered, revived,
                 dropped, raced, exposed, late, shuffled, crashes, now>>

OnSuccess(t) ==
  /\ t \in Sending
  /\ tasks' = [tasks EXCEPT ![t] = Succeeded(@)]
  /\ active' = active - 1
  /\ unstripped' = unstripped + 1
  /\ \/ Store!AppendLazy(Ok(t, now, tasks[t].attempts + 1)) /\ UNCHANGED ioErrors
     \/ Store!AppendLazyFails /\ Fault
  /\ Touch(t)
  /\ late' = IF phase \in {"replace", "reset"} THEN late \cup {t} ELSE late
  /\ UNCHANGED <<idem, due, maintVars, issued, acked, answered, revived, dropped, raced,
                 exposed, shuffled, crashes, now>>

OnDead(t) ==
  /\ t \in Sending
  /\ \E why \in Reason :
       /\ tasks' = [tasks EXCEPT ![t] = Died(@, why)]
       /\ \/ /\ Store!AppendLazy(Dead(t, now, tasks[t].attempts + 1, why))
             /\ UNCHANGED ioErrors
          \/ Store!AppendLazyFails /\ Fault
  /\ active' = active - 1
  /\ Touch(t)
  /\ UNCHANGED <<idem, due, unstripped, maintVars, issued, acked, answered, revived, dropped,
                 raced, exposed, late, shuffled, crashes, now>>

-----------------------------------------------------------------------------
(* Maintenance: purgeExpired, enforceTaskCap, maybeCompact, one lock each. *)

DropAllButKeys(V) ==
  tasks' = Restrict(tasks, DOMAIN tasks \ V) /\ dropped' = dropped \cup V /\ UNCHANGED idem
DropAllWithKeys(V) ==
  /\ tasks' = Restrict(tasks, DOMAIN tasks \ V)
  /\ idem' = Restrict(idem, DOMAIN idem \ {tasks[t].key : t \in V})
  /\ dropped' = dropped \cup V

\* dropLocked, for every task of V.
DropAll(V) ==
  /\ tasks' = Restrict(tasks, DOMAIN tasks \ V)
  /\ idem' = Restrict(idem, {k \in DOMAIN idem :
                               \A t \in V : ~(tasks[t].key = k /\ idem[k] = t)})
  /\ dropped' = dropped \cup V

ExpiredByAge == {t \in DOMAIN tasks : now - tasks[t].updatedAt > Retention}
Expired == {t \in DOMAIN tasks :
              \/ tasks[t].st = "succeeded" /\ now - tasks[t].updatedAt > Retention
              \/ tasks[t].st = "dead" /\ now - tasks[t].updatedAt > DeadRetention}

PurgeExpired ==
  /\ phase = "idle"
  /\ passes < MaxPasses
  /\ DropAll(Expired)
  /\ phase' = "cap"
  /\ passes' = passes + 1
  /\ UNCHANGED <<due, active, unstripped, logVars, snap, issued, acked, answered, revived,
                 touched, raced, exposed, late, shuffled, faults, now>>

\* The order of the sort: the successes before the dead, the older ones first.
SortedBefore(t, u) ==
  \/ tasks[t].st = "succeeded" /\ tasks[u].st = "dead"
  \/ tasks[t].st = tasks[u].st /\ tasks[t].updatedAt < tasks[u].updatedAt

Victims ==
  LET terminal == {t \in DOMAIN tasks : tasks[t].st \in Terminal}
      over     == Cardinality(DOMAIN tasks) - TasksMax
  IN  IF TasksMax = 0 \/ over <= 0 THEN {{}}
      ELSE {V \in SUBSET terminal :
              /\ Cardinality(V) = Min({over, Cardinality(terminal)})
              /\ \A t \in V, u \in terminal \ V : ~SortedBefore(u, t)}

EnforceTaskCap ==
  /\ phase = "cap"
  /\ \E V \in Victims : DropAll(V)
  /\ phase' = "check"
  /\ UNCHANGED <<due, active, unstripped, logVars, snap, passes, issued, acked, answered,
                 revived, touched, raced, exposed, late, shuffled, faults, now>>

SpaceWin   == /\ Len(log) >= CompactMin
              /\ 2 * Cardinality(DOMAIN tasks) * 100 < LivePct * Len(log)
CredsStale == StripThreshold > 0 /\ unstripped >= StripThreshold

WorthCompacting == Len(log) > 0 /\ (SpaceWin \/ CredsStale)

MaybeCompactOrReset ==
  /\ phase = "check"
  /\ phase' = IF WorthCompacting THEN "snapshot" ELSE "reset"
  /\ UNCHANGED <<memVars, logVars, snap, passes, history, faults, now>>

\* The store's counters include the records a broken writer has swallowed, so
\* they say nothing of the log once the handle is not "ok".
MaybeCompact ==
  /\ phase = "check"
  /\ \/ phase' = "snapshot" /\ (WorthCompacting \/ handle # "ok")
     \/ phase' = "idle" /\ ~(WorthCompacting /\ handle = "ok")
  /\ UNCHANGED <<memVars, logVars, snap, passes, history, faults, now>>

\* The records of the snapshot.  The file is replaced as a whole, so the model
\* may list the state records after the enq records; the order of the enq
\* records is the iteration order of a Go map, any order.
StateRecord(t) ==
  CASE tasks[t].st = "succeeded" -> Ok(t, tasks[t].updatedAt, tasks[t].attempts)
    [] tasks[t].st = "dead"      -> Dead(t, tasks[t].updatedAt, tasks[t].attempts,
                                         tasks[t].why)
    [] OTHER -> Att(t, tasks[t].updatedAt, tasks[t].attempts, tasks[t].nextAt)
HasStateRecordByTime(t) == \/ tasks[t].st \in Terminal
                           \/ tasks[t].nextAt # tasks[t].createdAt
HasStateRecord(t) == \/ tasks[t].st \in Terminal
                     \/ tasks[t].attempts > 0
                     \/ tasks[t].nextAt # tasks[t].createdAt

SnapshotStrippingDead(order, rest) ==
  [i \in 1..Len(order) |->
     Enq(order[i], tasks[order[i]].createdAt, tasks[order[i]].key,
         tasks[order[i]].full /\ tasks[order[i]].st \notin Terminal)]
  \o [i \in 1..Len(rest) |-> StateRecord(rest[i])]

SnapshotIn(order, rest) ==
  [i \in 1..Len(order) |->
     Enq(order[i], tasks[order[i]].createdAt, tasks[order[i]].key,
         tasks[order[i]].full /\ tasks[order[i]].st # "succeeded")]
  \o [i \in 1..Len(rest) |-> StateRecord(rest[i])]

Orders(S) == Bijection(1..Cardinality(S), S)

TakeSnapshot ==
  /\ phase = "snapshot"
  /\ \E order \in Orders(DOMAIN tasks),
        rest \in Orders({t \in DOMAIN tasks : HasStateRecord(t)}) :
       /\ \A i, j \in 1..Len(rest) :
            (i < j) => \E a, b \in 1..Len(order) :
                          order[a] = rest[i] /\ order[b] = rest[j] /\ a < b
       /\ snap' = SnapshotIn(order, rest)
  /\ phase' = "replace"
  /\ touched' = {}
  /\ UNCHANGED <<memVars, logVars, passes, issued, acked, answered, revived, dropped, raced,
                 exposed, late, shuffled, faults, now>>

\* Keys under which a journal introduces two tasks, one of which is then a dropped
\* task that a restart has brought back, or one whose submission has failed.
TwinKeys(l) ==
  {l[i].key : i \in {i \in DOMAIN l :
                      /\ l[i].T = "enq"
                      /\ \E j \in KeyPositions(l, l[i].key) : l[j].id # l[i].id}}

\* store.Compact holds the journal's lock throughout, and no lock of the queue.
\* Whatever was appended since the snapshot disappears with the old file, and of
\* two tasks with one key the next restart may index either.
Overwritten == /\ raced' = IF log' = log THEN raced ELSE raced \cup touched
               /\ exposed' = exposed \cup (touched \ EnqIds(log'))
               /\ shuffled' = shuffled \cup (IF log' = snap THEN TwinKeys(snap) ELSE {})

CompactStore ==
  /\ phase = "replace"
  /\ \/ Store!Compact(snap) /\ phase' = "reset" /\ Overwritten /\ UNCHANGED ioErrors
     \/ Store!CompactFails(snap) /\ phase' = "idle" /\ Overwritten /\ Fault
  /\ touched' = {}
  /\ snap' = <<>>
  /\ UNCHANGED <<memVars, passes, issued, acked, answered, revived, dropped, late, crashes,
                 now>>

ResetBySubtraction ==
  /\ phase = "reset" /\ phase' = "idle"
  /\ unstripped' = unstripped - StripThreshold
  /\ UNCHANGED <<tasks, idem, due, active, logVars, snap, passes, history, faults, now>>

ResetUnstripped ==
  /\ phase = "reset"
  /\ unstripped' = 0
  /\ phase' = "idle"
  /\ UNCHANGED <<tasks, idem, due, active, logVars, snap, passes, history, faults, now>>

-----------------------------------------------------------------------------
(* The journal's own loop, time, and crashes. *)

SyncLoop == /\ \/ Store!Flush /\ UNCHANGED ioErrors
               \/ Store!FlushFails /\ Fault
            /\ UNCHANGED <<memVars, maintVars, history, crashes, now>>

Tick == /\ now < MaxClock
        /\ now' = now + 1
        /\ UNCHANGED <<memVars, logVars, maintVars, history, faults>>

RestoreForgettingKeys ==
  /\ tasks' = Restored(log') /\ idem' = <<>>
  /\ active' = Cardinality(ActiveIn(tasks')) /\ due' = ActiveIn(tasks')
  /\ unstripped' = 0
RestoreEverythingDue ==
  /\ tasks' = Restored(log') /\ idem' = RestoredIdem(log')
  /\ active' = Cardinality(ActiveIn(tasks')) /\ due' = DOMAIN tasks'
  /\ unstripped' = 0

\* Restore, on the journal the crash has left.
Restore ==
  /\ tasks' = Restored(log')
  /\ idem' = RestoredIdem(log')
  /\ active' = Cardinality(ActiveIn(tasks'))
  /\ due' = ActiveIn(tasks')
  /\ unstripped' = 0

\* The process stops, possibly inside a Submit nobody gets an answer to, and
\* is started again.
Crash ==
  /\ crashes < MaxCrashes
  /\ crashes' = crashes + 1
  /\ \/ Store!Crash(<<>>) /\ UNCHANGED issued
     \/ \E t \in TaskId \ issued, k \in Key \ DOMAIN idem :
          /\ HasRoom /\ handle = "ok"
          /\ Store!Crash(<<Enq(t, now, k, TRUE)>>)
          /\ issued' = issued \cup {t}
  /\ Restore
  /\ phase' = "idle" /\ snap' = <<>> /\ touched' = {}
  /\ UNCHANGED <<passes, acked, answered, revived, dropped, raced, exposed, late, shuffled,
                 ioErrors, now>>

-----------------------------------------------------------------------------
Next ==
  \/ \E t \in TaskId, k \in Key : Submit(t, k) \/ SubmitFails(t, k)
  \/ \E k \in Key : SubmitDuplicate(k)
  \/ \E t \in TaskId : \/ Revive(t) \/ Lease(t) \/ Defer(t)
                       \/ OnRetry(t) \/ OnSuccess(t) \/ OnDead(t)
  \/ PurgeExpired \/ EnforceTaskCap \/ MaybeCompact
  \/ TakeSnapshot \/ CompactStore \/ ResetUnstripped
  \/ SyncLoop \/ Tick \/ Crash

Spec == Init /\ [][Next]_vars

-----------------------------------------------------------------------------
(* What the queue is for. *)

\* Every variable stays in its range.
TypeOK ==
  /\ IsPartialFn(tasks, TaskId, Task)
  /\ IsPartialFn(idem, Key, TaskId)
  /\ due \subseteq TaskId
  /\ active \in Int /\ unstripped \in Nat
  /\ Store!JournalTypeOK
  /\ phase \in {"idle", "cap", "check", "snapshot", "replace", "reset"}
  /\ snap \in Seq(Record)
  /\ now \in Nat
  /\ {issued, acked, revived, dropped, touched, raced, exposed, late} \subseteq SUBSET TaskId
  /\ answered \subseteq Key \X TaskId
  /\ shuffled \subseteq Key
  /\ {crashes, passes, ioErrors} \subseteq Nat

\* The heap never holds a task that is out on lease or over, so no task is
\* ever handed to two workers, and a task is never pushed a second time; as
\* long as the journal takes its records, every task that waits for delivery
\* is in the heap (Submit, Lease, Defer, OnRetry, Revive, Restore).
HeapMatches ==
  /\ due \subseteq Scheduled
  /\ ioErrors = 0 => due = Scheduled

\* The counter behind the 429 answer equals the number of unfinished tasks,
\* whatever was submitted, finished, revived, purged or replayed.
ActiveCount == active = Cardinality(ActiveIn(tasks))

\* A hit in the idempotency index always leads to a task in memory that was
\* submitted under that key: Submit dereferences it without a check, and
\* purge, cap and replay all rewrite the index.
IdemInv == \A k \in DOMAIN idem : idem[k] \in DOMAIN tasks /\ tasks[idem[k]].key = k

\* Promise C1 as far as the code keeps it: a task answered 202 is in memory,
\* and whatever prefix of the journal the next crash leaves still introduces
\* it, unless maintenance dropped it or a compaction ran over its submission.
AckedDurable ==
  LET kept == acked \ (dropped \cup exposed)
  IN  /\ kept \subseteq DOMAIN tasks
      /\ \A n \in synced..Len(log) : kept \subseteq EnqIds(Prefix(log, n))

\* If nothing were lost, a restart would reproduce what is in memory: the same
\* outcome, attempt count and key of every task no compaction raced with.
\* The creation time and the reason of death are not restored after a revival.
JournalMirrorsMemory ==
  ioErrors = 0 =>
    \A t \in DOMAIN tasks \ raced :
      LET m == tasks[t]
          r == Restored(log)[t]
      IN  /\ t \in EnqIds(log)
          /\ r.key = m.key /\ r.attempts = m.attempts /\ r.full = m.full
          /\ r.st = IF m.st \in Terminal THEN m.st ELSE "pending"
          /\ m.st \in {"waiting", "succeeded", "dead"} => r.updatedAt = m.updatedAt
          /\ m.st = "waiting" => r.nextAt = m.nextAt
          /\ t \notin revived => r.createdAt = m.createdAt /\ r.why = m.why

\* A task that has not succeeded keeps its whole request, in memory and at
\* every point a crash may cut the journal: stripping credentials never
\* reaches a task that will be delivered or revived again.
TargetKept ==
  /\ \A t \in DOMAIN tasks : tasks[t].st # "succeeded" => tasks[t].full
  /\ \A n \in synced..Len(log) :
       LET mem == Restored(Prefix(log, n))
       IN  \A t \in DOMAIN mem : mem[t].st # "succeeded" => mem[t].full

\* QueueMax bounds the unfinished tasks, also those a restart brings back to
\* life, as long as no compaction has overwritten a record.
ActiveBounded == raced = {} /\ ioErrors = 0 => active <= QueueMax

\* Entrance idempotency over time: no two tasks are ever accepted under one
\* key, whatever is retried, replayed, dropped, brought back or compacted in
\* between, unless one of them was dropped by maintenance or lost to a
\* compaction, or a compaction has written the key of two tasks in any order.
OneTaskPerKey ==
  \A a, b \in answered :
    /\ a[1] = b[1] /\ a[2] # b[2] /\ a[1] \notin shuffled
    /\ {a[2], b[2]} \subseteq acked
    => {a[2], b[2]} \cap (dropped \cup exposed) # {}

\* The index is exact: the key of every task in memory that maintenance has never
\* dropped leads to this very task, also when a restart has brought back a dropped
\* task that once had the key, and when that one is dropped again.  (Not so once a
\* submission has failed after its record reached the file.)
KeyIndexExact ==
  ioErrors = 0 =>
    \A t \in DOMAIN tasks \ dropped :
      tasks[t].key \notin shuffled =>
        tasks[t].key \in DOMAIN idem /\ idem[tasks[t].key] = t

\* The succeeded tasks whose credentials the journal still holds.
Unstripped ==
  {t \in DOMAIN tasks : /\ tasks[t].st = "succeeded"
                        /\ \E i \in DOMAIN log : /\ log[i].T = "enq"
                                                  /\ log[i].id = t /\ log[i].full}

\* The count that triggers a compaction never falls behind the credentials on
\* disk, until the first restart (Restore leaves it at 0) or failed append, not
\* counting the successes that came between the two locks of a compaction.
UnstrippedCounted ==
  crashes = 0 /\ ioErrors = 0 => Cardinality(Unstripped \ late) <= unstripped

\* The loop of Restore and the description of its result agree.
ReplayAgrees ==
  ReplayLoop(log) = [tasks |-> Restored(log), idem |-> RestoredIdem(log)]

\* A death the journal may be cut back to, for want of a durable record of the
\* revival that followed.
RevivalAtRisk(t) ==
  \E i \in DOMAIN log : /\ log[i].T = "dead" /\ log[i].id = t
                        /\ \A j \in i + 1 .. synced : ~(log[j].T = "att" /\ log[j].id = t)

\* A restart puts every unfinished task it still finds back in the queue, also one
\* that was dead before: it buries none, except one whose revival is not durable
\* yet.  (202 is answered to /retry before it is.)
RestartBuriesNone ==
  [][crashes' # crashes =>
       \A t \in ActiveIn(tasks) :
         t \in DOMAIN tasks' /\ ~RevivalAtRisk(t) => tasks'[t].st = "pending"]_vars

DurablySucceeded == {t \in TaskId : \E i \in 1..synced : log[i].T = "ok" /\ log[i].id = t}

\* There is nothing left to deliver of t, neither in memory nor in whatever a
\* crash may leave of the journal.
DeliveredForGood(t) == /\ t \in DOMAIN tasks => tasks[t].st = "succeeded"
                       /\ t \in EnqIds(log) => t \in DurablySucceeded

\* A success the journal holds durably is final: from that step on the task is
\* over and stays over, through calls, purges, compactions and crashes, for as
\* long as no compaction overwrites a record written since its snapshot (raced):
\* a success flushed between TakeSnapshot and CompactStore may be forgotten.
FlushedSuccessFinal ==
  [][\A t \in issued \ raced' : t \in DurablySucceeded \/ DeliveredForGood(t)
                                 => DeliveredForGood(t)']_vars
=============================================================================
