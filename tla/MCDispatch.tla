----------------------------- MODULE MCDispatch -----------------------------
(* Three tasks: two for a host that may hang, one for a host that answers. *)
EXTENDS Dispatch

CONSTANTS t1, t2, t3, slow, fast
Tasks == {t1, t2, t3}
Hosts == {slow, fast}
Targets == [t \in Tasks |-> IF t = t3 THEN fast ELSE slow]
Slow == {slow}
=============================================================================
