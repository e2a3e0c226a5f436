# A TLA+ model of notifyd

notifyd accepts HTTP notifications from internal services, keeps them in a journal
and delivers them to vendors until each one has succeeded or is dead. Its promises
(`docs/spec.md`, C1 and C2 in section 1.2, and what the later sections add to them) are
about what survives a crash, how often a notification may be sent, and what one bad
vendor may do to the others. This directory holds the
specifications of the parts these promises rest on, the TLC instances that check them,
and the proofs (TLAPS) of what holds for any number of tasks, keys, crashes and faults.

Paths below are relative to `src/`.

## The system

```
 client --POST /v1/notifications--> API --Submit--> Queue --AppendEnqueue--> WAL --> journal.log
 operator --POST .../retry--------> API --Revive-->   |                       ^
                                                      | Lease, Defer,         | flush every 200 ms
                        Dispatcher.Run <--wake chan-- | OnRetry/OnSuccess/    | (syncLoop)
                         | one goroutine per delivery | OnDead                |
                         +--> vendor                  |                       |
                        Maintenance loop --Maintain-->+---snapshot, Compact---+
```

| Part | State | Operations | What makes it correct |
|---|---|---|---|
| **Queue** `internal/queue/queue.go`, `heap.go` | `tasks`, `idem`, heap `due`, `active`, `unstripped`, under one mutex | Submit, Lease, Defer, OnRetry, OnSuccess, OnDead, Revive, Restore | a 202 is durable; one task per key; no task leased twice or stranded; the 429 counter is exact; a success is final |
| **Maintenance** `internal/queue/maintain.go` | `phase` and the snapshot held between two locks | purgeExpired, enforceTaskCap, maybeCompact, Compact, once a minute | never drops an unfinished task, the index keeps no dangling entry, credentials leave the disk, a compaction loses nothing |
| **Journal** `internal/store/store.go`, `wal.go` | buffer, file, `dirty`, the half-finished compaction | append with and without fsync, flush tick, Compact, Replay with truncation | what was fsynced survives everything but the loss of the file's name; losses come from the tail only |
| **Replay** `queue.go:95-175` | none (a fold) | Restore | a restart rebuilds what the records say |
| **Dispatcher** `internal/dispatch/dispatch.go` | loop position, worker slots, host semaphores, wake token, timer, goroutines | Run, idle, deliver, Wait | a task is in one place; limits never leak; no lost wake-up; slow hosts do not starve others; the exit ends |
| **Delivery** `dispatch.go` (`deliver`, `doRequest`), `main.go` | where each delivery stands, the exit | send, classify, record; SIGTERM, grace period, last flush | at-least-once, and never more than the code can help |
| **Backoff, classification** `dispatch/backoff.go` | none | exponential window, Retry-After, deadline, outcome classes | delays stay in range, no window wraps around, no draw panics |
| **API** `internal/api` | none | submit, retry, get, list, stats | answers 202/200/429/500 say what the queue did |
| **Config, client, auth, metrics, model, testutil, scripts** | none that matters | parsing, address filter, HMAC, counters | pure checks |

The parts interact by method calls under the queue's mutex (which is held across the
append), by the one-element wake channel, and by two locks that do **not** cover each
other: a compaction reads the queue under `q.mu`, releases it, and replaces the file
under `WAL.mu`.

The hard behaviours are: an append that loses its race with a compaction; a crash
between any two steps, and a second crash after a restart that served what was never
fsynced; failures of one of several writes; an index and counters that six operations,
three maintenance phases and the replay all rewrite; keys reused after a task was
dropped, and dropped tasks that come back with a replay; the scheduling loop going to
sleep while a task arrives; two nested limits with the loop blocked on the inner one;
an exit while deliveries hang, or without waiting for them; answers of vendors that get
lost between the network and the journal; integers that wrap around. `PROJECT.json` lists each at its line, with the property
that watches it.

## Modules

| Module | Models | Depends on |
|---|---|---|
| `Replay` | the four kinds of record, `Restore`'s fold, and a loop-free description of its result (`Restored`, `RestoredIdem`) | |
| `Journal` | the abstract contract of `store.Store`: a sequence of records, how many are fsynced, and what appends, flushes, compactions and crashes may do to it | |
| `Queue` | the queue, maintenance and crashes, on top of `Replay` and an instance of `Journal` | Replay, Journal |
| `Wal` | the write-ahead log in detail; implements `Journal` | Journal (refinement) |
| `Dispatch` | the scheduling loop, the two limits, and the exit of `main` | |
| `Delivery` | what a delivery does, what the vendor sees, and every end of the process, on top of `Queue` | Queue |
| `Backoff` | the choice of the next attempt, over integers of a fixed width | |
| `Service` | what the whole promises, with no queue, journal or process in it: who is open, delivered or dead, what the vendor has been asked and has answered, what is promised and what is settled | implemented by Delivery |
| `QueueClaims`, `BackoffClaims` | statements of docs and comments the code does not keep | MCQueue, MCBackoff |
| `Recursion` | that a recursive function satisfies its equation, by least elements of sets of naturals | |
| `ReplayProofs`, `QueueProofs`, `WalProofs`, `DispatchProofs`, `BackoffProofs` | the theorems | the module each is named after |
| `DeliveryProofs` | the theorems of `Delivery`, those about successes on record, of `Queue` too, and the refinement of `Service` | QueueProofs |
| `MirrorProofs` | the theorems about the journal and memory saying the same | DeliveryProofs |
| `MCQueue`, `MCWal`, `MCDispatch`, `MCDelivery`, `MCBackoff` | small instances | |

`Delivery` implements `Service` and contains `Queue`, which contains `Journal`, which
`Wal` implements: what is promised to clients and vendors holds down to the half-written
lines of the file, as long as no power failure takes back a name that no fsync of the
directory has covered (`Wal!NameLost`). `Dispatch`
and `Backoff` justify what `Delivery` leaves open: which leased task waits how long for
its turn, and which delay a retry gets.

Definitions that stand before an operation and resemble it (`SubmitLazily`,
`DropAllButKeys`, `AppendLazyClean`, ...) are plausible wrong versions of it. No
specification uses them; `PROJECT.json` ("mutants") names the property each one breaks,
which shows that the property depends on that piece of code.

### Queue

One action per method. Every method holds `q.mu` from its first line to its last,
append included, so it is atomic; what is *not* atomic in the code is not in the model:
`PurgeExpired`, `EnforceTaskCap`, `MaybeCompact`, `TakeSnapshot`, `CompactStore` and
`ResetUnstripped` are separate steps because `Maintain` and `Compact` release the lock
between them (`phase` is the position of the one maintenance goroutine), and anything
may happen in between.

* `Submit` / `SubmitDuplicate` / `SubmitFails`: the three ways through `Queue.Submit` and
  the answers `handleSubmit` gives (202, 200, 500); a full queue (429) is a disabled action.
* `Lease`, `Defer`, `OnRetry`, `OnSuccess`, `OnDead`: called for any leased task with
  any outcome, at any time. `OnRetry` and `Revive` have a branch in which the append
  fails *after* memory has changed and *before* the heap push, as in the code.
* `Crash`: the process stops, possibly in the middle of a `Submit` nobody gets an answer
  to; the journal keeps what `Journal!Crash` leaves; `Restore` follows at once.
* `acked`, `answered`, `dropped`, `touched`, `raced`, `exposed`, `late`, `shuffled` and the
  like are history: no guard of an operation of the code depends on them (`issued`,
  `revived`, `crashes`, `passes`, `ioErrors` also bound the model).
* `shuffled` are the keys a compaction has written for two tasks at once, in the order in
  which Go happened to iterate over the map. Which of the two the next restart indexes is
  chance; `claim_second_task` shows what follows, and the two properties about keys hold
  of all other keys.

A delivery target is a Boolean `full`: TRUE while the record still holds headers and
body. That is all the stripping of credentials can change.

### Journal and Wal

`Journal` has four variables: `log`, `synced`, `dirty`, `handle`. `Wal` has the buffer
and the file: a file is `[recs, filed, stable]`, counted in half-records so that a torn
line exists, and a compaction is eight steps (write, fsync, close the old file, rename,
fsync the directory, reopen, or give up or stop at any of them). `Close` is the last
flush of an orderly exit.

The directory is fsynced by a compaction only, after its rename (`SyncDir`). Until then the
disk may still name the file that was replaced: `previous`, while the process lives. A
process killed in between leaves it in `lingering`, beside the empty journal that a power
failure finds when the very first `journal.log` was created but its name never fsynced; the
next start works on the new file and confirms records in it. `NameLost` is the power
failure that then brings an old file back. A power failure that hits the compaction itself
is harmless, and part of the contract: `CompactStops` then leaves either file, and so does
an error of the directory's fsync followed by a power failure, because that process
makes nothing durable any more. The last disjunct of `Crash` (an older file although the
compaction came to its end) only matters to a compaction that skips `SyncDir`.

`ImplementsJournal` is the refinement: `log` is `recs` while the writer works, and the
complete lines in the file once it does not; `synced` is `stable`; `handle` follows the
writer. Every step of `Wal` is one of `Journal` or none, except `NameLost`, after which the
file found is the journal. Since the queue only uses `Journal`, what is shown of the queue
holds over the real log until that happens.

### Dispatch

`Run` is a program counter (`top`, `arming`, `idle`, `host`, `slot`, `stopped`): the
host's semaphore, then the worker's, then the goroutine; `idle` is split into the moment
the timer value is computed and the moment the select is entered, so that a submission
can fall between. A delivery ends in `Settle` (success, dead) or `Retry`; the two
deferred releases follow as steps of their own, after the task may already be leased
again. The queue is reduced to its heap, which `Queue!HeapMatches` justifies. Time is
relative: `wait[t]` ticks are left until `t` is due, so no clock bound is needed.

### Delivery

`Delivery` takes over the actions of `Queue` unchanged and says when they are called, and
with what. `stage[t]` is the position of the one delivery of `t`: "held" by `Run` or by a
goroutine that has sent nothing, "sent" while the vendor has the request, then the
verdict `Classify` gave on the result (a reason of death, "success" or "retryable"), which
`RecordSuccess`, `RecordPermanent`, `RecordExhausted`, `RecordTooLate` or `RecordRetry`
writes down as a step of its own: anything may happen between an answer and its record.
`Hear` with a network error stands for a lost answer; the vendor may have acted on the
request, which is why only 2xx answers that came back are counted (`wins`).

`main` is "serving", "stopping" (SIGTERM) or "draining" (`Run` has seen it). The process
ends in five ways, each followed by a start: `ExitDrained` (all deliveries over, last
flush done), `ExitTimeout` (the grace period is over first, or the journal has failed),
`ServeError` (the listener fails and `run` returns without waiting), `Kill`, and the
power failure inside `Crash`. `cuts` counts those that may have lost an answer or a record.

`wins`, `sent`, `overdue`, `final` and `cuts` are history.

Two exemptions occur in its properties, and in those of `Queue` about single tasks. `ioErrors = 0`: an append that fails is only
logged, so the failure of the file system may lose an outcome without any end of the
process. `raced`: the tasks of which a record was overwritten by a compaction
(`claim_compaction`). Nothing is exempted in `HeldByOne` and `SuccessMeansAnswered`.

### Service

The abstract specification: what a client and a vendor may rely on, whatever the service
is built from. A notification is `open`, `delivered` or `dead`; a vendor has a request
(`asked`) or has answered 2xx (`heard`); what was answered 202 is `promised`, what has
been delivered for good is `settled`. There is no journal in it: what a journal is good
for shows in two places. A `Restart` may put every notification that is not settled
anywhere, as long as nothing promised is missing and nothing is taken for delivered
without an answer; and any step may settle some of what is delivered (`MaySettle`),
which is what a flush does. A compaction is the one flaw that shows: it may forget
(`promised`) or unsettle what was recorded while it ran (`atRisk`), and nothing else.

`Delivery!AsService` is the refinement mapping: `open`, `delivered` and `dead` are the
states in memory, `asked` the deliveries in stage "sent", `promised` is `acked` without
`dropped` and `exposed`, `settled` is `final` without `raced`, `compacting` is the time
between the two locks of a compaction. `KeepsItsWord` is what `Service` comes to.

### Backoff

One behaviour is one decision: the loop of `Backoff` doubles the window (`Double`), the
draw is any value below `Bound` (`Draw`, or `DrawPanics` when `rand.Int64N` would), and
`Schedule` applies Retry-After and the deadline. All arithmetic goes through `Wrap`, and
the width of the integers is a parameter. Base and cap come from the environment
unchecked, `deadline_ms` and Retry-After from outside, so all values of the width occur.
`SaneConfig` (no negative base or cap, cap at most half of int64, about 146 years) is what
the properties need; `DrawPanics` shows what happens beyond it: `config.Load` lets a
negative base through, and the first failed attempt then ends the process. Within it no
doubling wraps around, because the loop stops at the cap; other products do wrap
(`Retry-After`, `deadline_ms`).

## What the runs check

| Run | Instance | Shows |
|---|---|---|
| `queue_crash` | 2 tasks, 2 keys, queue of 1, cap of 1, 2 attempts, 1 pass of maintenance in which a success expires after one tick, 2 crashes, clock 0..1 | `JournalMirrorsMemory`: replay reproduces memory. `ReplayAgrees`: the fold and its description are equal on every journal met. `TargetKept`: stripping never reaches a task still to be sent. `ActiveBounded`. `IdemInv`: the index survives purge, cap and replay. `FlushedSuccessFinal`: once a success is durable, and delivered in memory, no later step takes either back, unless a compaction overwrites a record of the task (`raced`) |
| `queue_service` | 2 tasks active at once, a revival, 1 pass, 2 crashes, 1 failure of the file system anywhere | `AckedDurable` (C1 at every cut a crash may make) and `ActiveCount` through every error path; `HeapMatches` until an append has failed; `JournalMirrorsMemory`, with a revival in play, until the file system has failed; `UnstrippedCounted`: within the first process life the trigger of the credential clean-up never falls behind, leaving aside successes that fall into a compaction; `RestartBuriesNone`: no restart makes an unfinished task dead |
| `queue_keys` | 3 tasks under one key, 2 of them active, immediate expiry, 2 passes, 1 revival, 2 crashes | `KeyIndexExact`, `OneTaskPerKey` while tasks are dropped, their key is taken over, a replay brings the old ones back, and they are revived and dropped again |
| `wal` | 2 records, files of 3, 1 snapshot (of both), 3 failures or kills inside a compaction, any number of crashes elsewhere | `ImplementsJournal` (but for `NameLost`), `CleanIsWritten`, `BufferGetsFlushed`; deadlock is checked |
| `dispatch` | 3 tasks, 2 hosts, one of which may hang, 2 workers, 1 per host, 2 attempts | `InOnePlace`, `LimitsBalance`, `NoLostWakeup`, `DrainedMeansQuiet`, `OtherHostsServed`, `ShutdownEnds` |
| `delivery` | 1 task with 2 attempts and a deadline of 1 tick, answers of every class, 1 end of the process, 1 pass, 1 revival | `HeldByOne`, `SuccessMeansAnswered`, `HeardOnce`: a vendor that said 2xx is asked again only after a cut. `RequestBudget`: `max_attempts` holds across orderly restarts. `OneLateRequest`: at most one request after the deadline, and one more for each revival or cut. `SilentAfterSuccess`: none after a durable success, unless a compaction overwrites a record of the task. `ImplementsService`: every step is one the abstract service allows |
| `delivery_settles` | the same task under fairness, deadline of 2 ticks, 1 end of the process, 1 failure of the file system | `AcceptedSettles`: what is accepted is delivered or dead in the end |
| `backoff` | 6-bit integers, inputs around every boundary | `WindowIsExponential`, `NoPanic`, `DelayInRange`, `DeadlineKept` |

Only `wal` checks deadlock: the other instances stop at the bounds of the model, when the
process exits (`dispatch`), or when the decision is made (`backoff`).

### Why these bounds

Every bound is a constant with a comment. The guarantees of the queue concern one task
against another under the same or another key, the journal's tail, and at most two
restarts: the worst trace met while building the model (a submission cut by a kill,
answered after the restart, lost in a power failure, submitted again) needs two tasks,
one key and two crashes, and the key hazards need a third task that takes over a key
from a dropped one while the first comes back. One queue slot and a cap of one task are
enough for `queue_crash` because its properties are per task (the second task is what the
cap drops the first one for); `queue_service` has two slots. One attempt per task is all
`queue_service` can afford (with two TLC does not come to an end in minutes), so `OnRetry` is
never enabled there: retries are in `queue_crash` and `delivery`, and a retry whose append
fails (`queue.go:237`) is in `delivery_settles` and in the proofs.
A second pass of maintenance is only needed where a first one changes what the next one
sees (`queue_keys`). `CompactMin` is chosen so that a compaction can start by space and by
credentials. `dispatch` needs two tasks for the slow host (one delivered, one turned
away) and one for the other. `wal` needs three records to have a synced, an unsynced
and a torn one at once. `delivery` needs one task only: its properties compare what the
vendor saw of a task with that task's own records, and what tasks do to each other is the
subject of the queue runs. Two attempts make the first, the last and the one in between
a restart distinct, and one tick separates "in time" from "too late". `delivery_settles`
gives the clock two ticks, so that a task waits, is retried and runs out of time.
`backoff` has integers of 6 bits: a loop that did not stop at the cap would wrap around
within 7 doublings, and `Second` is small enough for products beyond the width on either side of zero. All tasks and all keys are interchangeable in the queue, so
the permutations of both are a symmetry; the queue runs check no liveness.

### Fairness

None in `Queue`: what it promises "eventually" needs its callers, see `Delivery`. `Wal`: the ticker fires and a
compaction that began proceeds; both wait for `WAL.mu`, and Go's mutex hands itself to a
waiter that has waited for 1 ms, so weak fairness is what the code gets. `Dispatch`: the
loop, the clock, the deferred releases and the exit are goroutines the Go scheduler runs;
a delivery ends by its HTTP timeout, but that is only assumed for hosts outside
`SlowHosts`, so that `OtherHostsServed` holds even when a vendor never answers and
`ShutdownEnds` even when a delivery never ends (that is what `Wait(grace)` is for).
`Delivery` (`DFairSpec`): `Run`, the maintenance loop, the clock and a goroutine with a
verdict go on; a request ends by its HTTP timeout; the exit is bounded by the grace
period. Strong fairness is only assumed of the step from "held" to "sent": a task may be
turned away by a busy host again and again, but not for ever, which is
`Dispatch!OtherHostsServed`. Nothing is assumed of clients, operators, vendors' answers,
failures or ends of the process.

### Where the documents and the code disagree

Each of these is a run that must find a violation.

| Run | Statement | What happens |
|---|---|---|
| `claim_compaction` | C1 (`docs/spec.md:42`) | A task accepted between the snapshot and the replacement of the journal (`maintain.go:174`) is in memory but in no file; a crash loses it. `AckedDurable` is C1 without these tasks (`exposed`) |
| `claim_second_task` | one key, one task (`docs/spec.md:63`) | A task that maintenance dropped comes back with a restart, beside the task that has taken its key, and is revived and delivered. A compaction writes the two in the order of a Go map (`maintain.go:199`), the next restart gives the key to the one it meets last (`queue.go:119`), which may be the old one; when that is dropped again, the key is free although the newer task is still there, and a third task is accepted under it. `OneTaskPerKey` and `KeyIndexExact` hold of every key this has not happened to (`shuffled`) |
| `claim_revival_replay` | "replay can restore the revival" (`queue.go:342-345`) | The record carries neither the new creation time nor the cleared reason: after a restart the next failure exceeds the deadline at once |
| `claim_retry_after` | a Retry-After is capped, however large (`backoff.go:107-108`) | `secs * time.Second` wraps around beyond 9223372036 seconds (`backoff.go:119`); the product is negative or small, and the longest wait becomes `minDelay` |

Others met on the way, which no run is spent on:

* A start never fsyncs the directory: not after `OpenWAL` has created the first
  `journal.log` (`wal.go:62`), and not when it finds a file whose rename is not on disk
  because the process was killed before `wal.go:328`. What is confirmed from then on is
  fsynced under a name a power failure may take back, against C1 (`docs/spec.md:42`) and
  against what `wal.go:326-327` says the fsync is for. `NameLost` is that step, and the
  only one the refinement exempts.
* `config.Load` accepts a negative base of the backoff, with which the draw panics
  (`backoff.go:98`).
* `Replay` serves a tail it does not fsync (`wal.go:252`): a duplicate may be answered 200
  for a task that a power failure then removes, and a third submission makes another.
  `OneTaskPerKey` is therefore about tasks whose own submission was answered.
* `Revive` appends lazily (`queue.go:346`) though `/retry` answers 202: a crash within the
  flush interval makes the task dead again (`Queue!Revive` followed by `Crash`).
* `OnRetry` returns before `heap.Push` when its append fails (`queue.go:237`), against
  `heap.go:7-8`; only a restart frees the task. `HeapMatches` and `AcceptedSettles`
  exempt it by `handle` and `ioErrors`.
* `Restore` does not rebuild `unstripped` (`queue.go:103`), so that after a restart nothing
  bounds how long the credentials of earlier successes stay on disk, against
  `docs/decisions.md:651-652`.
* `docs/spec.md:678-680` and `docs/decisions.md:668` count one extra delivery per crash.
  It is one per *lost record*: a power failure may take back several unsynced `att`
  records of a task, each of which stood for a request. `RequestBudget` therefore
  counts from the last cut.
* `docs/spec.md:356` compares `now` with the deadline, the code (`dispatch.go:258`) the time
  of the *next* attempt; and it does so only after a failure, so a task that waits in the
  queue or behind a busy host is sent late. What holds is `OneLateRequest`: once after the
  submission, and once more after each revival and after each cut, since a cut in the
  middle of the late request brings the task back with that attempt uncounted.

## What is proved

Every invariant and action property that a run checks, and all three refinements (that of
`Wal` with its exception), are theorems; what is left to TLC alone is liveness.

`QueueProofs` proves, for every set of tasks and keys, every configuration
`config.Load` accepts (`ConfigAssumption`) and any number of crashes, passes, revivals
and I/O errors:

* `TypeCorrect`, `HeapCorrect`, `CountCorrect`, `IndexSound`: `Spec => []TypeOK`,
  `[]HeapMatches`, `[]ActiveCount`, `[]IdemInv`;
* `Durability`: `Spec => []AckedDurable`, promise C1 as far as the code keeps it;
* `OneTask` and `IndexExact`: `Spec => []OneTaskPerKey`, `[]KeyIndexExact`, what a key is
  worth over any number of drops, restarts and reuses;
* `UsesJournal`: `Spec => Store!Spec`, the queue does nothing to its journal that the
  contract does not provide for;
* `Invariance`: `Spec => []IndInv`, from which the others follow.

`ReplayProofs` proves that whatever well-typed journal a start finds, `Restored` yields
well-formed tasks (`RestoredType`) and `RestoredIdem` an index that leads to restored
tasks of the right key (`RestoredIdemSound`); and that on every journal in which a task's
submission comes first and its success last, `Restore`'s loop over the records computes
exactly these two (`RestoreLoopCorrect`).

`WalProofs` proves, for all records, snapshots and numbers of failures, `WalTypeCorrect`,
`CleanWritten` and `Implements`: `Spec => ImplementsJournal`, the refinement but for
`NameLost`.

`DeliveryProofs` proves, for all tasks, answers, policies and ends of the process:

* `ImplementsQueue`: `DSpec => Spec`, so that all of `QueueProofs` holds of the service;
* `ImplementsTheService`: `DSpec => ImplementsService`, and `NotifydKeepsItsWord`:
  `DSpec => []AsService!KeepsItsWord`, what follows from it;
* `OneHolder` and `DeliveredMeansAnswered`: `DSpec => []HeldByOne`, `[]SuccessMeansAnswered`;
* `DeliveryTypeCorrect`, and `DeliveryInvariance`, from which these follow;
* `SuccessFinal`: `Spec => FlushedSuccessFinal`, for the queue alone, and
* `SilenceKept`: `DSpec => SilentAfterSuccess`, for what the vendor sees; both of tasks no
  compaction has overwritten a record of;
* `NoneBuried`: `Spec => RestartBuriesNone`;
* `HeardOncePerCut`: `DSpec => []HeardOnce`, the price of at-least-once delivery;
* `SuccessInvariance` and `FinalInvariance`, what holds of successes on record.

`MirrorProofs` proves that the journal and memory say the same of a task:

* `JournalMirrors`: `Spec => []JournalMirrorsMemory`;
* `ReplayCorrect`: `Spec => []ReplayAgrees`, the loop and its description agree on every
  journal the queue can write;
* `TargetsKept`: `Spec => []TargetKept`, no credentials are missing where they are needed;
* `QueueBounded`: `Spec => []ActiveBounded`, the bound on unfinished tasks over restarts;
* `CredentialsCounted`: `Spec => []UnstrippedCounted`, the trigger of a compaction;
* `BudgetKept` and `LateOnce`: `DSpec => []RequestBudget`, `[]OneLateRequest`, what a vendor
  gets of one task between two cuts (and, the latter, revivals); both follow from `BudgetInvariance`.

`DispatchProofs` proves, for all finite sets of tasks and hosts, all limits and delays:

* `OnePlace` and `NeverSleepsOver`: `Spec => []InOnePlace`, `[]NoLostWakeup`;
* `LimitsNeverLeak`: `Spec => []LimitsBalance`, the slots taken are the deliveries under way,
  and each host's share is what `Run` and its deliveries hold;
* `DispatchTypeCorrect` and `DrainedIsQuiet`: `Spec => []DispatchTypeOK`, `[]DrainedMeansQuiet`.

`BackoffProofs` proves, for every width and all inputs, `TypeCorrect`, `NeverPanics`,
`DelayBounded`, `DeadlinePrecise` and `WindowCorrect`: `Spec => []WindowIsExponential`;
`NeverPanics`, `DelayBounded` and `WindowCorrect` say so of a `SaneConfig`, and
`DeadlinePrecise` of deadlines a Duration can hold.

**The argument for the queue.** `AckedDurable` quantifies over all cuts of the journal; it follows from
the one cut a step can be reasoned about, `Kept \subseteq EnqIds(Prefix(log, synced))`
(lemma `KeptIsDurable`). That is preserved by every journal operation except a
compaction (lemma group `Keeps`: no operation loses a durably introduced task or
introduces one it was not given). For a compaction the invariant must remember what the
snapshot does *not* know: `SnapInv` says that between the two locks every task in memory
is either in the snapshot or was touched since, and the touched ones become `exposed`.
`HeapMatches` needs `FaultInv` (a handle that is not "ok" has an error behind it), since
only a failed append leaves a task out of the heap. `IdemInv` across a restart needs
`KeysConsistent`: all enq records of one task carry one key, which holds because
identifiers are never reused (`IssuedInv`), also not by a record that reached the file
while its submission failed. The six operations on one task share one lemma,
`UpdatesPreserve`; each of them is shown to be such an update. `CountCorrect` carries the
finiteness of the task table in the invariant.

**The three refinements.** `Wal` implements `Journal` (but for `NameLost`), every step of `Queue` is one of
`Journal` or none (`JournalStep`), every step of `Delivery` is one of `Queue` or none
(`StepIsQueueStep`), and one of `Service` or none (`StepShows`). In the last, each action has
a lemma that names the step it looks like from outside (`SubmitShows`, `OutcomeShows`,
`MaintenanceShows`, `RestartShows`, ...; `NothingShows` for the rest), under `ServiceInv`: a
delivery that records a success has had an answer (`OkInv`), a restart finds all that is
promised (`KeptInv`) and nothing of what is settled (`FinalInv`), only what was issued is
dropped or overwritten (`GoneInv`), and what becomes durable is over in memory and was
answered (`Settling`).

**Keys.** `Rule(S, ...)` ties three things together for the tasks of a set `S`: those in the
journal are in memory, the index leads to each of them (`Indexed`), and nothing stands
after them in the journal under their key (`Newest`), so that a restart indexes them too.
It is kept for two sets. For the tasks answered 202 and neither dropped nor overwritten
(`Kept`) it holds whatever fails; for all tasks never dropped it needs a journal that
takes its records, because a submission that failed may be in the file. A submission
under a free key has no rival in memory, hence none in the journal; a drop removes an
entry only if it is the victim's own. A compaction may reverse the order of two tasks
under one key, and then the key is `shuffled`. `SameKeys` and `SnapKeys` say that journal
and snapshot know each task under the key it has in memory.

**The journal.** `WalInv` is `WalTypeOK`, `CleanIsWritten` and `CompactInv`: what `tmp`,
`previous` and the synced part are at each step of a compaction. Each step of `Wal` is
then matched with one of `Journal`, or with none: a compaction is `Journal!Compact` at
`Reopen`, and before that nothing, unless it stops; a start that finds the new file
although the old process never got to `Reopen` is the case that needs `CompactInv`. Of
`previous` it says that there is a replaced file only between the rename and the fsync of
the directory, or once the compaction has stopped there; of `lingering` nothing is needed
but that its members are files.

**Deliveries.** Each action of `Delivery` is an action of `Queue` or leaves it alone; that
the journal's part of `Close` is one of the outcomes of `Crash` is the only step with
content. `SuccessMeansAnswered` is not inductive: a compaction writes "ok" records from
memory, so `DInv` carries `OkInv`, which covers the records of a snapshot under way and
ties the "success" stage to an answer that was counted.

**Successes.** `OkLast`: in the journal, and in a snapshot, nothing follows the success of
a task, so that whatever restores it restores a success. `SnapKnows`: a snapshot on its
way to disk has every success of its tasks but those touched since. `StaysDone` says of
one step that a task that is over in memory (`MemDone`) and for every restart to come
(`LogDone`) stays so; the second half fails only where a compaction overwrites one of its
records. Compactions and crashes are treated on their own (`CompactStoreDone`,
`CrashDone`); every other step only adds records and moves tasks (`Recorded`,
`MovesKeep`). `HeardOnce` needs the converse as well, that a success in memory is in the
journal (`WonRecorded`), which is why it speaks of a journal without I/O errors. A task
whose success was heard since the last cut is `Closed`: nothing short of a cut sends it
again. `Spent` counts the successes up to then.

`RestartBuriesNone` needs `OkLast` and the lemma `CrashCuts`: a crash may only
remove a tail of the journal, or leave a new submission behind it. The record that decides
what the task becomes is then one that was there before; it is no success, since a
success on record is one in memory, and no death, unless the revival after it was lost.

**The mirror.** What `Restored` makes of a task depends on three positions only: its last
record, its last one that counts attempts, and its last death (`Rebuilt`); `MovedOn` says
what one more record does to it (`After`). Every step but a crash and the two ends of a
compaction either moves one task and appends the record that says so (`Becomes`), adds a
task with its submission (`Enters`) or leaves tasks and journal as they are, but for drops
(`Rests`): `ThreeWays`. `JournalMirrorsMemory` is preserved by each; `SnapshotAgrees` shows
that the two records a snapshot has for a task rebuild it, whatever its state. The clause
about the reason of death needs `DeadLast`: nothing follows the death of a task nobody has
revived. `TargetKept` follows from less: a request without its credentials is only ever
written for a task whose success stands beside it (`TargetInv`), and a success on record
is final.

**The loop.** `ReplayLoop` is a fold, and what a fold computes is an induction over the
records. `Recursion` makes it available: a set of naturals has a least element (from the
well-foundedness of strict inclusion on finite sets), so a statement about naturals can
be proved by its least counterexample (`AllNaturals`), and a recursive function satisfies
its equation because there is one that does (`RecursionExists`). `RestoreLoopCorrect`
compares loop and description after each record; it needs `EnqFirst` (a second
submission record would start a task afresh, which the description ignores) and `OkLast`.
That the journals of the queue are like that is `BegunInv`, every record of an issued task
comes after its submission, and `SuccInv`; the snapshot under way has both, too.

**What restarts must not disturb.** `GhostInv`: of a task maintenance has dropped, the
journal knows that it is over, so a restart that brings it back has nothing to deliver.
With the mirror this says that memory and the journal have the same unfinished tasks
(`SameActive`). `ActiveBounded` has to hold of every cut a crash may leave, so `BoundInv`
bounds what each prefix would rebuild: an appended record adds at most one unfinished task
(`OneMoreActive`), and only `Submit` and `Revive`, which look at the bound, add one at
all. `UnstrippedCounted` (`CredInv`) is about the records with a request that stand in the
journal (`FullIds`); the snapshot has none for a success, and what succeeds between its
two locks is `late`. For `RequestBudget`, `OnBudget` ties the requests of a task to the
attempts it has used: at most one more, and that one is under way; a request sent after
the deadline is still under way, since the failure that follows is the last. Memory loses
attempts only where a record is lost, that is at a cut, which starts the count again; at an
orderly exit none is under way and the mirror gives all attempts back. `AttBound` says that
no journal gives back a task without an attempt left.

**The dispatcher.** `InOnePlace` counts positions of a sequence. `OneMore` is the one fact
about it: a sequence with one task more has one more position of that task, and as many
as before of any other; it covers `heap.Push`, wherever the task goes, and `heap.Pop`.
`NoLostWakeup` holds because every action that adds to the heap leaves a signal, and the
timer and the waits are counted down together.

The limits are sums over tasks and hosts. `Sum` is a fold, a recursive function like the loop, and
`LimitsAreSums` restates `LimitsBalance` with it: one equation for the worker slots
(`SlotsBalance`), one per host (`HostBalance`), with what `Run` itself holds (`Claim`). Each
action moves one delivery between the summands. `LimitsInv` adds that both semaphores
stay within their limits and that an exit which has drained leaves nothing behind.

**Backoff.** `RangeInv` says that the window never becomes negative in a `SaneConfig`: only
a window below the cap is doubled, so twice its value still fits. `WindowInv`
is the loop invariant of the exponential window, `window = base * Pow2[i - 1]`, which turns
into `WindowIsExponential` where the loop ends.

Assumptions: `NoReasonAssumption`, `ConfigAssumption`, `BoundAssumption`, `WalAssumption`,
`DispatchAssumption`, `FiniteAssumption`, `DeliveryAssumption`, `ClockAssumption`, `InputAssumption`; TLC
evaluates them in the runs of the modules they stand in.

## What is only model-checked

Liveness, which is outside the prover: `BufferGetsFlushed`, `OtherHostsServed`,
`ShutdownEnds` and `AcceptedSettles`. They are checked on the instances above, under the
fairness stated there.

## Abstractions, and what is not modelled

* The clock never goes backwards, and does not move between the creation of a task
  and its append. In `Dispatch` the clock is read in the same step as `Lease`.
* The compaction threshold in bytes is counted in records; once the writer is broken,
  its counters say nothing and the decision is free. The three reads of `maybeCompact`
  are one step.
* A snapshot lists its state records after its enq records. The file is replaced as a
  whole and the fold only looks at the last records of each task, so the order between
  different tasks does not show.
* An fsync that follows a failed one is taken to cover everything before it (a kernel may
  have dropped the pages). A failed fsync of the directory is not: the rename stays unsettled.
  What a power failure leaves of a file is on disk for good once `Replay` has read it, and
  so is the name it was found under.
* After a kill without a power failure the replayed tail stays unsynced with `dirty`
  unset, as in the code: the 200 ms window of `wal.go:22-24` is longer there.
* A crash leaves a prefix of the journal: `Replay` cuts at the first line it cannot read,
  in whatever order the kernel wrote the blocks of the unsynced tail. Damage to what was
  fsynced is left out, as are errors of `Replay` itself, which end the process before it
  serves. What a request that outlives `WAL.Close` appends goes nowhere and is answered
  500; it is a `Kill` with that request under way.
* `Dispatch` gives every task the same number of attempts and any delay; policies
  (`model.Policy`), deadlines and the reasons of death are in `Delivery`, which leaves open
  how long a task waits for its turn.
* The HTTP exchange is a choice among its results (`Result`). The parsing of Retry-After is
  left out; `Backoff` starts from its two forms. The draw of `rand` is any value in range.
* In `Delivery` the time between an attempt's start and the decision after it is not
  counted; `Backoff!Heard` measures dates from the start, as the code does.
* The order in which `main` closes the HTTP server and stops the loop is left open:
  submissions are possible until the process ends.
* `OtherHostsServed` is about one slow host whose share leaves a worker. With the defaults
  (32 workers, 8 per host) four hanging hosts occupy all workers until their requests time
  out; the code does not prevent that.
* A task dropped by maintenance comes back with a restart until a compaction has
  rewritten the journal. This is modelled; the properties about keys say where it matters.
* The race of `handleSubmit` on the fields of its answer (`api.go:170`) reaches the client
  only.
* Not modelled at all: authentication and the outbound address filter (pure predicates on
  one request), metrics (nothing reads them back), parsing, listing, the test vendor and
  the scripts: they keep no state the others depend on. Of the HTTP API the queue calls
  and the answers are modelled, of the configuration what it accepts (`ConfigAssumption`,
  `DispatchAssumption`) and what it lets through (`Backoff`).

## Plan

Done, in this order: `Replay`, `Journal`, `Queue` with its proofs, `Wal` as an
implementation of `Journal`, `Dispatch`, `Backoff` with its proofs, `Delivery` (at-least-once
end to end) with its proofs, the proof that `Wal` implements `Journal`, the proofs of
`InOnePlace` and `NoLostWakeup`, the proofs about successes, the proof that the journal
mirrors memory, the proofs about keys, those about the bound on unfinished tasks, the credentials and the
requests of a task, those about `Restore`'s loop, the limits and the window, and `Service`
with the proof that `Delivery` implements it.

Next: a second task in `delivery`, as far as the state space allows, and an abstract
scheduler for `Dispatch` to implement, of which `Delivery`'s "held" tasks are the image.
