------------------------------- MODULE Replay -------------------------------
(***************************************************************************)
(* What a journal means.  The journal of notifyd is a sequence of records  *)
(* of four kinds (store.Record); Queue.Restore folds it, record by record, *)
(* into the tasks and the idempotency index a process starts from.         *)
(*                                                                         *)
(* ReplayLoop is that fold.  Restored and RestoredIdem say the same thing  *)
(* without the loop, from the last record of each task; ReplayAgrees       *)
(* relates the two, and the other modules use the declarative form.        *)
(*                                                                         *)
(* A delivery target is abstracted to the one fact the properties tell     *)
(* apart: "full" is TRUE while the record still carries the headers and    *)
(* the body (the vendor's credential), FALSE once only URL and method are  *)
(* left.  Status codes, error texts and response bodies are left out.      *)
(***************************************************************************)
EXTENDS Integers, Sequences, FiniteSets, SequencesExt

CONSTANTS TaskId,   \* identifiers model.NewID may return
          Key,      \* idempotency keys
          Reason    \* reasons OnDead may be given

CONSTANT NoReason   \* the empty DeadReason
ASSUME NoReasonAssumption == NoReason \notin Reason

Terminal == {"succeeded", "dead"}
Active   == {"pending", "waiting", "sending"}

Task == [st        : Active \cup Terminal,
         key       : Key,
         attempts  : Nat,
         nextAt    : Nat,
         createdAt : Nat,
         updatedAt : Nat,
         why       : Reason \cup {NoReason},
         full      : BOOLEAN]

\* AppendEnqueue stamps the record with the time of the append; the model's
\* clock does not move between the creation of a task and its append, so ts
\* is also the task's CreatedAt.
EnqRecord == [T : {"enq"}, id : TaskId, ts : Nat, key : Key, full : BOOLEAN]
AttRecord == [T : {"att"}, id : TaskId, ts : Nat, n : Nat, next : Nat]
OkRecord  == [T : {"ok"}, id : TaskId, ts : Nat, n : Nat]
DeadRecord == [T : {"dead"}, id : TaskId, ts : Nat, n : Nat,
               why : Reason \cup {NoReason}]
Record == EnqRecord \cup AttRecord \cup OkRecord \cup DeadRecord

Enq(t, ts, key, full) == [T |-> "enq", id |-> t, ts |-> ts, key |-> key, full |-> full]
Att(t, ts, n, next)   == [T |-> "att", id |-> t, ts |-> ts, n |-> n, next |-> next]
Ok(t, ts, n)          == [T |-> "ok", id |-> t, ts |-> ts, n |-> n]
Dead(t, ts, n, why)   == [T |-> "dead", id |-> t, ts |-> ts, n |-> n, why |-> why]

Prefix(l, n) == SubSeq(l, 1, n)

-----------------------------------------------------------------------------
(* Restore, record by record. *)

\* An assignment to a Go map.
Put(f, x, v) == [y \in DOMAIN f \cup {x} |-> IF y = x THEN v ELSE f[y]]

Fresh(r) == [st |-> "pending", key |-> r.key, attempts |-> 0, nextAt |-> r.ts,
             createdAt |-> r.ts, updatedAt |-> r.ts, why |-> NoReason, full |-> r.full]

ApplyKeepingTarget(mem, r) ==
  IF r.T = "enq"
  THEN [tasks |-> Put(mem.tasks, r.id, Fresh(r)), idem |-> Put(mem.idem, r.key, r.id)]
  ELSE IF r.id \notin DOMAIN mem.tasks THEN mem
  ELSE [mem EXCEPT !.tasks[r.id] =
         CASE r.T = "att"  -> [@ EXCEPT !.st = "waiting", !.attempts = r.n,
                                        !.nextAt = r.next, !.updatedAt = r.ts]
           [] r.T = "ok"   -> [@ EXCEPT !.st = "succeeded", !.attempts = r.n,
                                        !.updatedAt = r.ts]
           [] r.T = "dead" -> [@ EXCEPT !.st = "dead", !.attempts = r.n,
                                        !.updatedAt = r.ts, !.why = r.why]]

\* The callback Restore hands to Store.Replay.  A record of a task that no
\* earlier enq record introduced is skipped.
Apply(mem, r) ==
  IF r.T = "enq"
  THEN [tasks |-> Put(mem.tasks, r.id, Fresh(r)),
        idem  |-> Put(mem.idem, r.key, r.id)]
  ELSE IF r.id \notin DOMAIN mem.tasks THEN mem
  ELSE [mem EXCEPT !.tasks[r.id] =
         CASE r.T = "att"  -> [@ EXCEPT !.st = "waiting", !.attempts = r.n,
                                        !.nextAt = r.next, !.updatedAt = r.ts]
           [] r.T = "ok"   -> [@ EXCEPT !.st = "succeeded", !.attempts = r.n,
                                        !.updatedAt = r.ts, !.full = FALSE]
           [] r.T = "dead" -> [@ EXCEPT !.st = "dead", !.attempts = r.n,
                                        !.updatedAt = r.ts, !.why = r.why]]

Empty == [tasks |-> <<>>, idem |-> <<>>]

\* The whole of Restore: the fold, then every task that is not terminal goes
\* back to pending, because a crash may have cut its delivery off.
ReplayLoop(l) ==
  LET mem == FoldLeft(Apply, Empty, l)
      Requeue(t) == IF t.st \in Terminal THEN t ELSE [t EXCEPT !.st = "pending"]
  IN  [mem EXCEPT !.tasks = [i \in DOMAIN @ |-> Requeue(@[i])]]

-----------------------------------------------------------------------------
(* The same, from the last records of each task. *)

Positions(l, t, kinds) == {i \in DOMAIN l : l[i].id = t /\ l[i].T \in kinds}
EnqIds(l) == {t \in TaskId : Positions(l, t, {"enq"}) # {}}

StateAfterAsJournaled(T) ==
  CASE T = "ok" -> "succeeded" [] T = "dead" -> "dead" [] T = "att" -> "waiting"
    [] OTHER -> "pending"

StateAfterForgettingOk(T) == IF T = "dead" THEN "dead" ELSE "pending"
\* The state a restart gives a task whose last record is of kind T.
StateAfter(T) ==
  CASE T = "ok" -> "succeeded" [] T = "dead" -> "dead" [] OTHER -> "pending"

Restored(l) ==
  [t \in EnqIds(l) |->
    LET enq    == l[Max(Positions(l, t, {"enq"}))]
        last   == l[Max(Positions(l, t, {"enq", "att", "ok", "dead"}))]
        atts   == Positions(l, t, {"att"})
        deads  == Positions(l, t, {"dead"})
    IN  [st        |-> StateAfter(last.T),
         key       |-> enq.key,
         attempts  |-> IF last.T = "enq" THEN 0 ELSE last.n,
         nextAt    |-> IF atts = {} THEN enq.ts ELSE l[Max(atts)].next,
         createdAt |-> enq.ts,
         updatedAt |-> last.ts,
         why       |-> IF deads = {} THEN NoReason ELSE l[Max(deads)].why,
         full      |-> enq.full /\ last.T # "ok"]]

KeyPositions(l, k) == {i \in DOMAIN l : l[i].T = "enq" /\ l[i].key = k}

RestoredIdem(l) ==
  [k \in {k \in Key : KeyPositions(l, k) # {}} |-> l[Max(KeyPositions(l, k))].id]

\* Every enq record of a task carries the same key.
KeysConsistent(l) ==
  \A i, j \in 1..Len(l) :
    l[i].T = "enq" /\ l[j].T = "enq" /\ l[i].id = l[j].id => l[i].key = l[j].key
=============================================================================
