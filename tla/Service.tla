------------------------------ MODULE Service ------------------------------
(***************************************************************************)
(* What notifyd promises, whatever it is built from: a notification that   *)
(* was accepted is not forgotten, nothing is taken for delivered without   *)
(* an answer, no vendor gets two requests for one notification at a time,  *)
(* and once a delivery is settled the vendor hears of it no more.          *)
(*                                                                         *)
(* A restart may undo everything that is not settled.  A compaction may    *)
(* forget what was recorded while it ran, and nothing else; there is no    *)
(* other way out of a promise but for maintenance to drop what is over.    *)
(***************************************************************************)
EXTENDS Naturals

CONSTANT Notification

VARIABLES
  submitted,   \* what clients have asked for, whether it was answered 202 or not
  open,        \* to be delivered
  delivered,   \* taken for delivered
  dead,        \* given up, until an operator revives it
  asked,       \* the vendor has a request and has not been heard yet
  heard,       \* a vendor has answered 2xx
  promised,    \* answered 202, and neither dropped nor lost to a compaction
  settled,     \* delivered for good
  compacting, atRisk,  \* what was recorded since the compaction under way began
  restarts

states == <<open, delivered, dead>>
vendor == <<asked, heard>>
serviceVars == <<submitted, states, vendor, promised, settled, compacting, atRisk,
                 restarts>>

Init == /\ submitted = {} /\ open = {} /\ delivered = {} /\ dead = {}
        /\ asked = {} /\ heard = {} /\ promised = {} /\ settled = {}
        /\ compacting = FALSE /\ atRisk = {} /\ restarts = 0

Known     == open \cup delivered \cup dead
Risk(V)   == atRisk' = IF compacting THEN atRisk \cup V ELSE atRisk
\* What a journal that has just become durable settles.
MaySettle == SUBSET {n \in heard' : n \notin open' \cup dead'}
Promises  == UNCHANGED promised /\ \E S \in MaySettle : settled' = settled \cup S

-----------------------------------------------------------------------------
Accept(n) == /\ n \notin submitted
             /\ submitted' = submitted \cup {n} /\ open' = open \cup {n}
             /\ promised' = promised \cup {n} /\ Risk({n})
             /\ \E S \in MaySettle : settled' = settled \cup S
             /\ UNCHANGED <<delivered, dead, vendor, compacting>>

\* A failed submission: a restart may find it all the same.
Refuse(n) == /\ n \notin submitted /\ submitted' = submitted \cup {n}
             /\ Promises /\ UNCHANGED <<states, vendor, compacting, atRisk>>

Ask(n) == /\ n \in open \ asked /\ asked' = asked \cup {n}
          /\ Promises /\ UNCHANGED <<submitted, states, heard, compacting, atRisk>>

Hear(n) == /\ n \in asked /\ asked' = asked \ {n} /\ heard' \in {heard, heard \cup {n}}
           /\ Promises /\ UNCHANGED <<submitted, states, compacting, atRisk>>

Deliver(n) == /\ n \in (open \cap heard) \ asked
              /\ open' = open \ {n} /\ delivered' = delivered \cup {n} /\ Risk({n})
              /\ Promises /\ UNCHANGED <<submitted, dead, vendor, compacting>>

GiveUp(n) == /\ n \in open \ asked
             /\ open' = open \ {n} /\ dead' = dead \cup {n} /\ Risk({n})
             /\ Promises /\ UNCHANGED <<submitted, delivered, vendor, compacting>>

Retry(n) == /\ n \in open \ asked /\ Risk({n})
            /\ Promises /\ UNCHANGED <<submitted, states, vendor, compacting>>

Revive(n) == /\ n \in dead
             /\ dead' = dead \ {n} /\ open' = open \cup {n} /\ Risk({n})
             /\ Promises /\ UNCHANGED <<submitted, delivered, vendor, compacting>>

Drop(V) == /\ V \subseteq delivered \cup dead
           /\ delivered' = delivered \ V /\ dead' = dead \ V /\ promised' = promised \ V
           /\ \E S \in MaySettle : settled' = settled \cup S
           /\ UNCHANGED <<submitted, open, vendor, compacting, atRisk>>

-----------------------------------------------------------------------------
BeginCompaction == /\ ~compacting /\ compacting' = TRUE /\ atRisk' = {}
                   /\ Promises /\ UNCHANGED <<submitted, states, vendor>>

EndCompaction == /\ compacting /\ compacting' = FALSE /\ atRisk' = {}
                 /\ \E V \in SUBSET atRisk : promised' = promised \ V
                 /\ \E V \in SUBSET atRisk, S \in MaySettle : settled' = (settled \ V) \cup S
                 /\ UNCHANGED <<submitted, states, vendor>>

\* Any end of the process, and the start that follows it; a submission may have been
\* under way.
Restart ==
  /\ restarts' = restarts + 1
  /\ \/ UNCHANGED submitted
     \/ \E n \in Notification \ submitted : submitted' = submitted \cup {n}
  /\ {open', delivered', dead'} \subseteq SUBSET submitted'
  /\ open' \cap delivered' = {} /\ open' \cap dead' = {} /\ delivered' \cap dead' = {}
  /\ promised \subseteq Known' /\ delivered' \subseteq heard
  /\ Promises /\ settled' \cap (open' \cup dead') = {}
  /\ asked' = {} /\ compacting' = FALSE /\ atRisk' = {} /\ UNCHANGED heard

\* Nothing that shows, except that time or the journal's own loop may settle something.
Wait == Promises /\ UNCHANGED <<submitted, states, vendor, compacting, atRisk>>

Serve == \/ \E n \in Notification : \/ Accept(n) \/ Refuse(n) \/ Ask(n) \/ Hear(n) \/ Deliver(n)
                                    \/ GiveUp(n) \/ Retry(n) \/ Revive(n)
         \/ \E V \in SUBSET (delivered \cup dead) : Drop(V)
         \/ BeginCompaction \/ EndCompaction \/ Wait

Next == (Serve /\ UNCHANGED restarts) \/ Restart

Spec == Init /\ [][Next]_serviceVars

-----------------------------------------------------------------------------
\* What this comes to: what is promised is not forgotten; nothing is delivered that no
\* vendor has answered, or that nobody asked for; and a vendor has no request, and will
\* get none, for what is settled.
KeepsItsWord ==
  /\ promised \subseteq Known /\ Known \subseteq submitted
  /\ delivered \cup settled \subseteq heard /\ heard \subseteq submitted
  /\ asked \subseteq open
  /\ settled \cap (open \cup dead \cup asked) = {}
=============================================================================
