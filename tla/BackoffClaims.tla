--------------------------- MODULE BackoffClaims ---------------------------
(***************************************************************************)
(* What the comments of backoff.go say of the delay, where the code does   *)
(* something else.                                                         *)
(***************************************************************************)
EXTENDS MCBackoff

\* backoff.go:107-108: a Retry-After is capped, however many seconds it asks for.
\* (claim_retry_after)
HugeRetryAfterCapped ==
  /\ phase \in {"retry", "dead"} /\ SaneConfig /\ cap >= MinDelay
  /\ header.form = "seconds" /\ header.n * Second > cap
  => delay = cap
=============================================================================
