----------------------------- MODULE MCDelivery -----------------------------
(* One task, and answers of every class. *)
EXTENDS Delivery

CONSTANTS t1, k1

OneTask == {t1}
OneKey  == {k1}
None    == ""
Reasons == {"max_attempts", "deadline_exceeded", "permanent_response", "blocked_target",
            "bad_request_spec"}
Results == {[code |-> 204, err |-> "nil"], [code |-> 302, err |-> "nil"],
            [code |-> 429, err |-> "nil"], [code |-> 0, err |-> "blocked"],
            [code |-> 0, err |-> "network"]}
TwoAttempts == [t \in OneTask |-> 2]
OneTick     == [t \in OneTask |-> 1]
TwoTicks    == [t \in OneTask |-> 2]
=============================================================================
