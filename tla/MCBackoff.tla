----------------------------- MODULE MCBackoff -----------------------------
(* 6-bit integers; the inputs lie around every boundary they have. *)
EXTENDS Backoff

SomeBases     == {-32, -1, 0, 1, 3, 8, 17, 31}
SomeCaps      == {-1, 0, 2, 4, 8, 16, 17, 31}
SomeAttempts  == 1..7
Seconds       == {-1, 0, 1, 3, 7, 8, 9, 15, 31}
SomeHeaders   == {[form |-> "none", n |-> 0]} \cup [form : {"seconds"}, n : Seconds]
                 \cup [form : {"date"}, n : {-3, 0, 1, 5, 31}]
SomeDeadlines == {0, 5, 15, 16}
=============================================================================
