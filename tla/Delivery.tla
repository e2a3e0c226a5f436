------------------------------ MODULE Delivery ------------------------------
(***************************************************************************)
(* At-least-once from end to end: the queue, the deliveries that run on    *)
(* top of it (dispatch.go, deliver and doRequest), what the vendor gets to *)
(* see, and the ways the process ends (main.go).                           *)
(*                                                                         *)
(* The actions of Queue are taken over as they are; this module says when  *)
(* they are called, and with what.  stage[t] is where the delivery of t    *)
(* stands: "held" by Run or by a goroutine that has not sent anything yet, *)
(* "sent" while the vendor has the request, or the verdict on the answer,  *)
(* which the goroutine is about to record.  The limits on concurrency are  *)
(* those of Dispatch; here they only show as Defer.                        *)
(***************************************************************************)
EXTENDS Queue

CONSTANTS Result,      \* what doRequest may return: [code, err], code 0 without answer
          AttemptsOf,  \* task -> Policy.MaxAttempts or the default (at most MaxAttempts)
          DeadlineOf,  \* task -> Policy.DeadlineMS or the default, in ticks
          MinDelay     \* shortest backoff, in ticks

ASSUME DeliveryAssumption ==
  /\ \A r \in Result : /\ r.code \in Nat /\ r.err \in {"nil", "blocked", "bad_spec", "network"}
                       /\ r.err # "nil" => r.code = 0
  /\ AttemptsOf \in [TaskId -> 1..MaxAttempts] /\ DeadlineOf \in [TaskId -> Nat]
  /\ MinDelay \in 0..MaxDelay
  /\ {"none", "held", "sent", "success", "retryable"} \cap Reason = {}
  /\ {"max_attempts", "deadline_exceeded", "permanent_response", "blocked_target",
      "bad_request_spec"} \subseteq Reason

VARIABLES
  stage,     \* task -> where its delivery stands
  main       \* "serving"; "stopping" once ctx is cancelled; "draining" when Run
             \* has seen it

\* History: no guard depends on these.
VARIABLES
  wins,      \* task -> 2xx answers that came back
  sent,      \* task -> requests sent since the last cut or its revival
  overdue,   \* ... those among them sent when the deadline had passed
  final,     \* tasks whose success has been durable at some time
  cuts       \* ends of the process that may have lost a record or an answer

dvars == <<vars, stage, main, wins, sent, overdue, final, cuts>>
seen  == <<wins, sent, overdue, cuts>>
Quiet == UNCHANGED <<stage, main, seen>>
To(t, s) == stage' = [stage EXCEPT ![t] = s]

-----------------------------------------------------------------------------
(* Classify and permanentReason. *)

ClassifyRedirectAsSuccess(r) ==
  CASE r.err \in {"blocked", "bad_spec"} -> "permanent"
    [] r.err = "network"                 -> "retryable"
    [] r.code \in 200..399               -> "success"
    [] r.code \in {408, 429} \/ r.code >= 500 \/ r.code < 200 -> "retryable"
    [] OTHER                             -> "permanent"
Classify(r) ==
  CASE r.err \in {"blocked", "bad_spec"} -> "permanent"
    [] r.err = "network"                 -> "retryable"
    [] r.err = "nil" /\ r.code \in 200..299 -> "success"
    [] r.err = "nil" /\ (r.code \in {408, 429} \/ r.code >= 500 \/ r.code < 200) -> "retryable"
    [] OTHER                             -> "permanent"

ReasonByErrorOnly(r) ==
  CASE r.err = "blocked" -> "blocked_target" [] r.err = "bad_spec" -> "bad_request_spec"
    [] OTHER -> "permanent_error"
PermanentReason(r) ==
  CASE r.err = "nil" -> "permanent_response" [] r.err = "blocked" -> "blocked_target"
    [] r.err = "bad_spec" -> "bad_request_spec" [] OTHER -> "permanent_error"

Verdict(r) == IF Classify(r) = "permanent" THEN PermanentReason(r) ELSE Classify(r)
Stage      == {"none", "held", "sent", "success", "retryable"} \cup Reason

DInit == /\ Init
         /\ stage = [t \in TaskId |-> "none"] /\ main = "serving"
         /\ wins = [t \in TaskId |-> 0] /\ sent = wins /\ overdue = wins
         /\ final = {} /\ cuts = 0

-----------------------------------------------------------------------------
(* The API.  A submission may still be under way while the server shuts down. *)

\* Bound of the model: the clock reaches the deadline of every task.
InTime(t) == now + DeadlineOf[t] <= MaxClock

Accept(t, k)   == InTime(t) /\ Submit(t, k) /\ Quiet
Refuse(t, k)   == SubmitFails(t, k) /\ Quiet
AcceptAgain(k) == SubmitDuplicate(k) /\ Quiet

Reopen(t) == /\ InTime(t) /\ Revive(t)
             /\ sent' = [sent EXCEPT ![t] = 0] /\ overdue' = [overdue EXCEPT ![t] = 0]
             /\ UNCHANGED <<stage, main, wins, cuts>>

-----------------------------------------------------------------------------
(* Run. *)

\* ctx is looked at before the lease, and not again until the task is placed.
TakeOut(t) == /\ \/ main = "serving" /\ UNCHANGED main
                 \/ main = "stopping" /\ main' = "draining"
              /\ Lease(t) /\ To(t, "held")
              /\ UNCHANGED seen

RunStops == /\ main = "stopping" /\ main' = "draining"
            /\ UNCHANGED <<vars, stage, seen>>

HostBusyForgets(t) == /\ stage[t] = "held" /\ To(t, "none")
                      /\ UNCHANGED <<vars, main, seen>>

\* The host has its share of deliveries.  (Within the clock's bound.)
HostBusy(t) == /\ stage[t] = "held" /\ Defer(t)
               /\ tasks'[t].nextAt \in now + 1 .. MaxClock
               /\ To(t, "none") /\ UNCHANGED <<main, seen>>

\* The process is to exit while Run waits for a worker.
GiveBack(t) == /\ stage[t] = "held" /\ main # "serving" /\ Defer(t)
               /\ tasks'[t].nextAt = now
               /\ To(t, "none") /\ UNCHANGED <<main, seen>>

-----------------------------------------------------------------------------
(* deliver. *)

StillQueue == UNCHANGED <<vars, main>>

\* The body cannot be decoded, no request can be built, the address is blocked,
\* or no connection comes about.
FailsBeforeSending(t) ==
  /\ stage[t] = "held"
  /\ \E r \in Result : r.err # "nil" /\ To(t, Verdict(r))
  /\ UNCHANGED seen /\ StillQueue

SendRequest(t) ==
  /\ stage[t] = "held"
  /\ To(t, "sent")
  /\ sent' = [sent EXCEPT ![t] = @ + 1]
  /\ overdue' = [overdue EXCEPT ![t] =
                   IF now >= tasks[t].createdAt + DeadlineOf[t] THEN @ + 1 ELSE @]
  /\ UNCHANGED <<wins, cuts>> /\ StillQueue

\* The answer, or the end of the wait for it; in that case the vendor may have
\* acted on the request all the same.
Hear(t) ==
  /\ stage[t] = "sent"
  /\ \E r \in Result :
       /\ r.err \in {"nil", "network"}
       /\ To(t, Verdict(r))
       /\ wins' = [wins EXCEPT ![t] = IF r.code \in 200..299 THEN @ + 1 ELSE @]
  /\ UNCHANGED <<sent, overdue, cuts>> /\ StillQueue

Over(t) == To(t, "none") /\ UNCHANGED <<main, seen>>

RecordSuccess(t) == stage[t] = "success" /\ OnSuccess(t) /\ Over(t)

RecordPermanent(t) == /\ stage[t] \in Reason
                      /\ OnDead(t) /\ tasks'[t].why = stage[t] /\ Over(t)

ExhaustedOffByOne(t) == tasks[t].attempts >= AttemptsOf[t]
Exhausted(t) == tasks[t].attempts + 1 >= AttemptsOf[t]

RecordExhausted(t) == /\ stage[t] = "retryable" /\ Exhausted(t)
                      /\ OnDead(t) /\ tasks'[t].why = "max_attempts" /\ Over(t)

\* Either way the next attempt has been placed first; see Backoff.
NeverTooLate(t, at) == FALSE
TooLate(t, at) == at >= tasks[t].createdAt + DeadlineOf[t]

RecordTooLate(t) ==
  /\ stage[t] = "retryable" /\ ~Exhausted(t)
  /\ \E d \in MinDelay..MaxDelay : TooLate(t, now + d)
  /\ OnDead(t) /\ tasks'[t].why = "deadline_exceeded" /\ Over(t)

RecordRetry(t) ==
  /\ stage[t] = "retryable" /\ ~Exhausted(t)
  /\ \E d \in MinDelay..MaxDelay :
       ~TooLate(t, now + d) /\ OnRetry(t) /\ tasks'[t].nextAt = now + d
  /\ Over(t)

Conclude(t) == RecordSuccess(t) \/ RecordPermanent(t) \/ RecordExhausted(t)
               \/ RecordTooLate(t) \/ RecordRetry(t)

-----------------------------------------------------------------------------
(* The process ends and is started again. *)

AllQuiet == \A t \in TaskId : stage[t] = "none"
Restarted == stage' = [t \in TaskId |-> "none"] /\ main' = "serving" /\ UNCHANGED wins

Cut == /\ cuts' = cuts + 1
       /\ sent' = [t \in TaskId |-> 0] /\ overdue' = sent'

\* WAL.Close, deferred by run, with a journal that takes it.
CloseWithoutFlush == UNCHANGED issued /\ Crash
Close == UNCHANGED <<log, issued>> /\ synced' = Len(log) /\ Crash

Terminate == /\ main = "serving" /\ crashes < MaxCrashes /\ main' = "stopping"
             /\ UNCHANGED <<vars, stage, seen>>

\* Wait has seen every delivery end, and the last flush succeeds.
ExitDrained == /\ main = "draining" /\ phase = "idle" /\ AllQuiet /\ handle = "ok"
               /\ Close /\ Restarted
               /\ UNCHANGED <<sent, overdue, cuts>>

\* Deliveries outlive the grace period, or the journal has failed before.
ExitTimeout == /\ main = "draining" /\ phase = "idle"
               /\ ~AllQuiet \/ handle # "ok"
               /\ IF handle = "ok" THEN Close ELSE UNCHANGED issued /\ Crash
               /\ Restarted /\ Cut

\* The listener fails: run returns without waiting for anything.
ServeError == /\ main = "serving" /\ handle = "ok"
              /\ Close /\ Restarted /\ Cut

Kill == Crash /\ Restarted /\ Cut

-----------------------------------------------------------------------------
\* The ticker may win over ctx.Done, so a pass may begin until the process exits.
Maintain == \/ PurgeExpired \/ EnforceTaskCap \/ MaybeCompact \/ TakeSnapshot
            \/ CompactStore \/ ResetUnstripped

Step ==
  \/ \E t \in TaskId, k \in Key : Accept(t, k) \/ Refuse(t, k)
  \/ \E k \in Key : AcceptAgain(k)
  \/ \E t \in TaskId :
       \/ Reopen(t) \/ TakeOut(t) \/ HostBusy(t) \/ GiveBack(t)
       \/ FailsBeforeSending(t) \/ SendRequest(t) \/ Hear(t)
       \/ RecordSuccess(t) \/ RecordPermanent(t) \/ RecordExhausted(t)
       \/ RecordTooLate(t) \/ RecordRetry(t)
  \/ Maintain /\ Quiet
  \/ SyncLoop /\ Quiet
  \/ Tick /\ Quiet
  \/ Terminate \/ RunStops \/ ExitDrained \/ ExitTimeout \/ ServeError \/ Kill

Observe == final' = final \cup DurablySucceeded'

DNext == Step /\ Observe

DSpec == DInit /\ [][DNext]_dvars

\* Run, the goroutines, the maintenance and the clock go on; an HTTP request ends
\* by its timeout; a task that finds its host busy gets its turn in the end
\* (Dispatch!OtherHostsServed); and the exit is bounded by the grace period.
DFairSpec ==
  /\ DSpec
  /\ WF_dvars(Tick /\ Quiet /\ Observe) /\ WF_dvars(Maintain /\ Quiet /\ Observe)
  /\ WF_dvars(RunStops /\ Observe) /\ WF_dvars((ExitDrained \/ ExitTimeout) /\ Observe)
  /\ \A t \in TaskId :
       /\ WF_dvars(TakeOut(t) /\ Observe) /\ WF_dvars(Hear(t) /\ Observe)
       /\ WF_dvars(Conclude(t) /\ Observe)
       /\ SF_dvars((FailsBeforeSending(t) \/ SendRequest(t)) /\ Observe)

-----------------------------------------------------------------------------
DeliveryTypeOK ==
  /\ stage \in [TaskId -> Stage] /\ main \in {"serving", "stopping", "draining"}
  /\ {wins, sent, overdue} \subseteq [TaskId -> Nat]
  /\ final \subseteq TaskId /\ cuts \in 0..crashes

\* A task is "sending" exactly while one delivery has it: no restart, revival,
\* purge or failed record leaves one behind or starts a second.
HeldByOne ==
  \A t \in TaskId :
    stage[t] # "none" <=> t \in DOMAIN tasks /\ tasks[t].st = "sending"

\* No task is ever taken for delivered, in memory or by any restart, unless the
\* vendor has answered 2xx to it.
SuccessMeansAnswered ==
  \A t \in TaskId :
    \/ t \in DOMAIN tasks /\ tasks[t].st = "succeeded"
    \/ \E i \in DOMAIN log : log[i].T = "ok" /\ log[i].id = t
    => wins[t] > 0

\* The price of at-least-once: a vendor that has answered 2xx, and was heard, is
\* only asked again after an end of the process that cut something off; an orderly
\* exit, a revival, a purge or a compaction (unless it overwrote a record) costs none.
\* (An append that fails is only logged, so an I/O error may cost a record too.)
HeardOnce ==
  ioErrors = 0 => \A t \in TaskId \ raced : wins[t] <= 1 + cuts

\* max_attempts bounds what a vendor gets of one task between two cuts, over any
\* number of orderly restarts in between.
RequestBudget ==
  ioErrors = 0 => \A t \in TaskId \ raced : sent[t] <= AttemptsOf[t]

\* The absolute deadline is only looked at after a failure (dispatch.go:258), so
\* a task may still be sent when it has passed; but only once after its submission,
\* each revival and each cut.  (A cut in the middle of a late request brings the
\* task back with that attempt uncounted, and it is sent late once more; orderly
\* exits do not.)
OneLateRequest ==
  ioErrors = 0 => \A t \in TaskId \ raced : overdue[t] <= 1

\* Once its success is durable nothing brings a request for the task about again,
\* unless a compaction overwrites a record of it (raced).
SilentAfterSuccess ==
  [][\A t \in TaskId : stage[t] = "held" /\ stage'[t] = "sent" => t \notin final \ raced]_dvars

\* The whole keeps the promises of Service: queue and journal, compactions, deliveries
\* and every end of the process together forget nothing that was promised, take nothing
\* for delivered that was not answered, and ask no vendor again for what is settled.
In(S)     == {t \in DOMAIN tasks : tasks[t].st \in S}
AsService == INSTANCE Service WITH
               Notification <- TaskId, submitted <- issued, open <- In(Active),
               delivered <- In({"succeeded"}), dead <- In({"dead"}),
               asked <- {t \in TaskId : stage[t] = "sent"},
               heard <- {t \in TaskId : wins[t] > 0},
               promised <- acked \ (dropped \cup exposed), settled <- final \ raced,
               compacting <- phase = "replace", atRisk <- touched,
               restarts <- crashes
ImplementsService == AsService!Spec

Settled(t) == t \in DOMAIN tasks /\ tasks[t].st \in Terminal

\* C1 and C2 together: whatever is accepted is delivered or dead in the end, over
\* any ends of the process, while the journal works and no compaction has run
\* over its submission.
AcceptedSettles ==
  \A t \in TaskId : t \in acked ~> Settled(t) \/ t \in dropped \cup exposed \/ ioErrors > 0
=============================================================================
