---------------------------- MODULE QueueClaims ----------------------------
(***************************************************************************)
(* What the documents and comments of notifyd say of the queue, in places  *)
(* where the code does something else.  Each statement is refuted by the   *)
(* run named in its comment; Queue states what holds instead.              *)
(***************************************************************************)
EXTENDS MCQueue

\* docs/spec.md:42, promise C1: once 202 is returned the task is fsynced and
\* still there after kill -9 or a power failure.  (claim_compaction)
AcceptedIsDurable ==
  \A n \in synced..Len(log) : acked \ dropped \subseteq EnqIds(Prefix(log, n))

\* docs/spec.md:63: submitting one idempotency_key again yields one task only; the
\* known limit (docs/spec.md:82) is that a key is free again once its task is gone.
\* (claim_second_task)
OneIdPerKey ==
  \A a, b \in answered :
    a[1] = b[1] /\ a[2] # b[2] /\ {a[2], b[2]} \subseteq acked
    => {a[2], b[2]} \cap (dropped \cup raced) # {}

\* queue.go:342-345: reviving extends the absolute deadline, and the att record
\* lets a replay reproduce the revival.  (claim_revival_replay)
RevivalIsReplayed ==
  \A t \in revived \cap EnqIds(log) :
    tasks[t].st = "pending" => Restored(log)[t].createdAt = tasks[t].createdAt

=============================================================================
