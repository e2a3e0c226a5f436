------------------------------ MODULE MCQueue ------------------------------
(* Small instances of Queue. *)
EXTENDS Queue

CONSTANTS t1, t2, t3, k1, k2

TwoTasks   == {t1, t2}
ThreeTasks == {t1, t2, t3}
OneKey     == {k1}
TwoKeys    == {k1, k2}
Reasons    == {"max_attempts"}
None       == ""

FullSymmetry == {p @@ q : p \in Permutations(TaskId), q \in Permutations(Key)}
=============================================================================
