------------------------------ MODULE Dispatch ------------------------------
(***************************************************************************)
(* The dispatcher (internal/dispatch/dispatch.go): one scheduling loop,    *)
(* one goroutine per delivery, a limit on all deliveries and one per host, *)
(* and the orderly exit of main.                                           *)
(*                                                                         *)
(* The queue is reduced to its heap, as Queue.HeapMatches justifies: what  *)
(* Lease, Defer, OnRetry, OnSuccess and OnDead do to it, and the wake      *)
(* channel.  Time is relative: wait[t] ticks are left until t is due.      *)
(* Deliveries to a host in SlowHosts may last for ever.                    *)
(***************************************************************************)
EXTENDS Integers, Sequences, FiniteSets, FiniteSetsExt

CONSTANTS TaskId, Host, HostOf,  \* HostOf[t]: the host task t is sent to
          None,
          Workers,          \* Config.Workers
          HostConcurrency,  \* Config.HostConcurrency
          MaxAttempts,      \* DefaultMaxAttempts
          BusyDelay,        \* hostBusyDelay, in ticks
          MaxDelay,         \* the longest backoff, in ticks
          SlowHosts         \* hosts that may never answer

ASSUME DispatchAssumption ==
  /\ HostOf \in [TaskId -> Host] /\ SlowHosts \subseteq Host
  /\ None \notin TaskId \cup Nat
  /\ {Workers, HostConcurrency, MaxAttempts, BusyDelay, MaxDelay} \subseteq Nat \ {0}
  /\ BusyDelay <= MaxDelay

\* An id is a string of fixed length, and the host part of a request body, whose
\* size is bounded.
ASSUME FiniteAssumption == IsFiniteSet(TaskId) /\ IsFiniteSet(Host)

VARIABLES
  heap,       \* Queue.due, by due time
  wait,       \* task -> ticks until NextAt
  attempts,   \* task -> attempts made
  submitted,  \* the tasks in the queue
  settled,    \* ... and those that are succeeded or dead
  token,      \* there is a signal in Queue.wake (capacity 1)
  loop,       \* where Run stands
  leased,     \* Run's t, between Lease and the start of its goroutine
  timer,      \* ticks until idle's timer fires, None without one
  delivering, \* task -> goroutines inside deliver
  leaving,    \* host -> goroutines past deliver that still hold both limits
  lastHold,   \* goroutines that have given back the host, not the slot
  hostsHeld,  \* len(hs), for each host
  slotsHeld,  \* len(slots)
  main        \* "serving", "draining" or, when run returns, "drained", "timeout"

taskVars == <<heap, wait, attempts, submitted, settled>>
loopVars == <<loop, leased, timer>>
goVars   == <<delivering, leaving, lastHold>>
vars == <<taskVars, token, loopVars, goVars, hostsHeld, slotsHeld, main>>

Init == /\ heap = <<>> /\ wait = [t \in TaskId |-> 0] /\ attempts = [t \in TaskId |-> 0]
        /\ submitted = {} /\ settled = {} /\ token = FALSE
        /\ loop = "top" /\ leased = None /\ timer = None
        /\ delivering = [t \in TaskId |-> 0] /\ leaving = [h \in Host |-> 0] /\ lastHold = 0
        /\ hostsHeld = [h \in Host |-> 0] /\ slotsHeld = 0
        /\ main = "serving"

Running == main \in {"serving", "draining"}
Cancelled == main # "serving"        \* ctx.Done() is closed
Goroutines == MapThenSumSet(LAMBDA t : delivering[t], TaskId)
              + MapThenSumSet(LAMBDA h : leaving[h], Host) + lastHold

\* heap.Push: behind everything due earlier; among equals the order is open,
\* but a task that is due now was due later than one that is overdue.
Push(t, d) ==
  /\ wait' = [wait EXCEPT ![t] = d]
  /\ \E n \in 0..Len(heap) :
       /\ heap' = SubSeq(heap, 1, n) \o <<t>> \o SubSeq(heap, n + 1, Len(heap))
       /\ \A i \in 1..n : wait[heap[i]] <= d
       /\ \A i \in n + 1 .. Len(heap) : wait[heap[i]] >= d /\ wait[heap[i]] > 0

SignalUnbuffered == token' = (loop = "idle")
Signal == token' = TRUE

-----------------------------------------------------------------------------
(* The API and the clock. *)

Submit(t) == /\ Running /\ t \notin submitted
             /\ submitted' = submitted \cup {t}
             /\ Push(t, 0) /\ Signal
             /\ UNCHANGED <<attempts, settled, loopVars, goVars, hostsHeld, slotsHeld, main>>

Later(d) == IF d \in Nat /\ d > 0 THEN d - 1 ELSE d
Tick == /\ Running
        /\ wait' = [t \in TaskId |-> Later(wait[t])]
        /\ timer' = Later(timer)
        /\ UNCHANGED <<heap, attempts, submitted, settled, token, loop, leased, goVars,
                       hostsHeld, slotsHeld, main>>

-----------------------------------------------------------------------------
(* Run. *)

StopAtTop == /\ Running /\ loop = "top" /\ Cancelled
             /\ loop' = "stopped"
             /\ UNCHANGED <<taskVars, token, leased, timer, goVars, hostsHeld, slotsHeld, main>>

Due == heap # <<>> /\ wait[Head(heap)] = 0

\* The first task of the heap is due: it is taken out.
Lease == /\ Running /\ loop = "top" /\ ~Cancelled
         /\ Due
         /\ leased' = Head(heap) /\ heap' = Tail(heap)
         /\ loop' = "host"
         /\ UNCHANGED <<wait, attempts, submitted, settled, token, timer, goVars,
                        hostsHeld, slotsHeld, main>>

\* Nothing is due: idle will set its timer by what Lease has seen.
NothingDue == /\ Running /\ loop = "top" /\ ~Cancelled
              /\ ~Due
              /\ loop' = "arming"
              /\ timer' = IF heap = <<>> THEN None ELSE wait[Head(heap)]
              /\ UNCHANGED <<taskVars, token, leased, goVars, hostsHeld, slotsHeld, main>>

\* The lock is released; by the time the select is reached, tasks may have come.
EnterIdle == /\ Running /\ loop = "arming" /\ loop' = "idle"
             /\ UNCHANGED <<taskVars, token, leased, timer, goVars, hostsHeld, slotsHeld, main>>

\* The select of idle: any case that is ready may be taken.
IdleIgnoresStop == FALSE
IdleStop  == Cancelled /\ loop' = "stopped" /\ UNCHANGED token
IdleWake  == token /\ token' = FALSE /\ loop' = "top"
IdleTimer == timer = 0 /\ loop' = "top" /\ UNCHANGED token
WakeUp == /\ Running /\ loop = "idle"
          /\ IdleStop \/ IdleWake \/ IdleTimer
          /\ timer' = None
          /\ UNCHANGED <<taskVars, leased, goVars, hostsHeld, slotsHeld, main>>

AlwaysFree(h) == TRUE
HostIsFree(h) == hostsHeld[h] < HostConcurrency

TakeHost ==
  /\ Running /\ loop = "host" /\ HostIsFree(HostOf[leased])
  /\ hostsHeld' = [hostsHeld EXCEPT ![HostOf[leased]] = @ + 1]
  /\ loop' = "slot"
  /\ UNCHANGED <<taskVars, token, leased, timer, goVars, slotsHeld, main>>

HostBusyFallsThrough ==
  /\ Running /\ loop = "host" /\ ~HostIsFree(HostOf[leased])
  /\ Push(leased, BusyDelay) /\ Signal
  /\ loop' = "slot"
  /\ UNCHANGED <<attempts, submitted, settled, leased, timer, goVars, hostsHeld, slotsHeld,
                 main>>

\* The host has its share: the task comes back later, at no cost to it.
HostBusy ==
  /\ Running /\ loop = "host" /\ ~HostIsFree(HostOf[leased])
  /\ Push(leased, BusyDelay) /\ Signal
  /\ leased' = None /\ loop' = "top"
  /\ UNCHANGED <<attempts, submitted, settled, timer, goVars, hostsHeld, slotsHeld, main>>

\* Run blocks here while all workers are busy, with the host's share in hand.
TakeSlot ==
  /\ Running /\ loop = "slot" /\ slotsHeld < Workers
  /\ slotsHeld' = slotsHeld + 1
  /\ delivering' = [delivering EXCEPT ![leased] = @ + 1]
  /\ leased' = None /\ loop' = "top"
  /\ UNCHANGED <<taskVars, token, timer, leaving, lastHold, hostsHeld, main>>

StopAtSlotKeepingTask ==
  /\ Running /\ loop = "slot" /\ Cancelled
  /\ hostsHeld' = [hostsHeld EXCEPT ![HostOf[leased]] = @ - 1]
  /\ leased' = None /\ loop' = "stopped"
  /\ UNCHANGED <<taskVars, token, timer, goVars, slotsHeld, main>>

\* The process is to exit: the host's share is given back, then the task.
StopAtSlot ==
  /\ Running /\ loop = "slot" /\ Cancelled
  /\ hostsHeld' = [hostsHeld EXCEPT ![HostOf[leased]] = @ - 1]
  /\ Push(leased, 0) /\ Signal
  /\ leased' = None /\ loop' = "stopped"
  /\ UNCHANGED <<attempts, submitted, settled, timer, goVars, slotsHeld, main>>

-----------------------------------------------------------------------------
(* One delivery: deliver, then the deferred release of both limits. *)

Leave(t) == /\ delivering' = [delivering EXCEPT ![t] = @ - 1]
            /\ leaving' = [leaving EXCEPT ![HostOf[t]] = @ + 1]

\* Success, a permanent failure, or one of the two reasons to give up.
Settle(t) ==
  /\ Running /\ delivering[t] > 0
  /\ settled' = settled \cup {t}
  /\ attempts' = [attempts EXCEPT ![t] = @ + 1]
  /\ Leave(t)
  /\ UNCHANGED <<heap, wait, submitted, token, loopVars, lastHold, hostsHeld, slotsHeld, main>>

\* OnRetry schedules the task while this goroutine still holds both limits.
Retry(t) ==
  /\ Running /\ delivering[t] > 0 /\ attempts[t] + 1 < MaxAttempts
  /\ attempts' = [attempts EXCEPT ![t] = @ + 1]
  /\ \E d \in 1..MaxDelay : Push(t, d)
  /\ Signal
  /\ Leave(t)
  /\ UNCHANGED <<submitted, settled, loopVars, lastHold, hostsHeld, slotsHeld, main>>

ReleaseHost(h) ==
  /\ Running /\ leaving[h] > 0
  /\ leaving' = [leaving EXCEPT ![h] = @ - 1] /\ lastHold' = lastHold + 1
  /\ hostsHeld' = [hostsHeld EXCEPT ![h] = @ - 1]
  /\ UNCHANGED <<taskVars, token, loopVars, delivering, slotsHeld, main>>

ReleaseSlot ==
  /\ Running /\ lastHold > 0
  /\ lastHold' = lastHold - 1 /\ slotsHeld' = slotsHeld - 1
  /\ UNCHANGED <<taskVars, token, loopVars, delivering, leaving, hostsHeld, main>>

-----------------------------------------------------------------------------
(* The exit of main: SIGTERM, <-dispatchDone, Wait(grace). *)

Cancel == /\ main = "serving" /\ main' = "draining"
          /\ UNCHANGED <<taskVars, token, loopVars, goVars, hostsHeld, slotsHeld>>

ExitWithoutLoop == /\ main = "draining" /\ Goroutines = 0 /\ main' = "drained"
                   /\ UNCHANGED <<taskVars, token, loopVars, goVars, hostsHeld, slotsHeld>>
ExitDrained == /\ main = "draining" /\ loop = "stopped" /\ Goroutines = 0
               /\ main' = "drained"
               /\ UNCHANGED <<taskVars, token, loopVars, goVars, hostsHeld, slotsHeld>>
ExitTimeout == /\ main = "draining" /\ loop = "stopped"
               /\ main' = "timeout"
               /\ UNCHANGED <<taskVars, token, loopVars, goVars, hostsHeld, slotsHeld>>

Run == StopAtTop \/ Lease \/ NothingDue \/ EnterIdle \/ WakeUp \/ TakeHost \/ HostBusy
       \/ TakeSlot \/ StopAtSlot
Finish(t) == Settle(t) \/ Retry(t)
Exit == ExitDrained \/ ExitTimeout

Next == \/ \E t \in TaskId : Submit(t) \/ Settle(t) \/ Retry(t)
        \/ \E h \in Host : ReleaseHost(h)
        \/ ReleaseSlot \/ Tick
        \/ StopAtTop \/ Lease \/ NothingDue \/ EnterIdle \/ WakeUp \/ TakeHost
        \/ HostBusy \/ TakeSlot \/ StopAtSlot
        \/ Cancel \/ ExitDrained \/ ExitTimeout

Spec == Init /\ [][Next]_vars

\* Go runs every goroutine that can run, the clock advances, and each request
\* ends by its timeout, except, to be on the safe side, those to SlowHosts.
FairSpec == /\ Spec
            /\ WF_vars(Run) /\ WF_vars(Tick) /\ WF_vars(ReleaseSlot) /\ WF_vars(Exit)
            /\ \A h \in Host : WF_vars(ReleaseHost(h))
            /\ \A t \in TaskId : HostOf[t] \notin SlowHosts => WF_vars(Finish(t))

-----------------------------------------------------------------------------
DispatchTypeOK ==
  /\ heap \in Seq(TaskId) /\ wait \in [TaskId -> 0..MaxDelay]
  /\ attempts \in [TaskId -> 0..MaxAttempts]
  /\ settled \subseteq submitted /\ submitted \subseteq TaskId
  /\ token \in BOOLEAN /\ loop \in {"top", "arming", "idle", "host", "slot", "stopped"}
  /\ leased \in TaskId \cup {None} /\ (leased # None) = (loop \in {"host", "slot"})
  /\ timer \in {None} \cup 0..MaxDelay
  /\ delivering \in [TaskId -> Nat] /\ leaving \in [Host -> Nat] /\ lastHold \in Nat
  /\ hostsHeld \in [Host -> 0..HostConcurrency] /\ slotsHeld \in 0..Workers
  /\ main \in {"serving", "draining", "drained", "timeout"}

\* A task is in one place: in the heap once, in the hands of Run, in one
\* delivery, or over.  None is lost, and none is delivered by two goroutines.
InOnePlace ==
  \A t \in TaskId :
    Cardinality({i \in 1..Len(heap) : heap[i] = t}) + (IF leased = t THEN 1 ELSE 0)
      + delivering[t] + (IF t \in settled THEN 1 ELSE 0)
    = IF t \in submitted THEN 1 ELSE 0

\* Both limits count exactly what is under way, so neither ever leaks: not by a
\* host that is busy, not by an exit while Run waits for a worker.
LimitsBalance ==
  /\ slotsHeld = Goroutines
  /\ \A h \in Host :
       hostsHeld[h] = MapThenSumSet(LAMBDA t : delivering[t], {t \in TaskId : HostOf[t] = h})
                      + leaving[h] + (IF loop = "slot" /\ HostOf[leased] = h THEN 1 ELSE 0)

\* Run never sleeps through a task: from the moment Lease has found nothing, as
\* long as no signal waits for it, its timer is set for the first task of the
\* heap, or earlier.
NoLostWakeup ==
  loop \in {"arming", "idle"} /\ heap # <<>> => token \/ (timer # None /\ timer <= wait[Head(heap)])

\* When Wait reports that all deliveries have ended, no task is out any more:
\* each is settled or back in the queue, and nothing will touch the journal.
DrainedMeansQuiet ==
  main = "drained" => /\ submitted = settled \cup {heap[i] : i \in 1..Len(heap)}
                      /\ loop = "stopped" /\ slotsHeld = 0

\* docs/decisions.md D-013: hosts that never answer do not keep the tasks of the
\* other hosts from being delivered, as long as their shares leave a worker.
OtherHostsServed ==
  \A t \in TaskId : HostOf[t] \notin SlowHosts =>
    (t \in submitted ~> t \in settled \/ Cancelled)

\* Once the process is told to stop it does, whatever deliveries hang.
ShutdownEnds == main = "draining" ~> ~Running
=============================================================================
