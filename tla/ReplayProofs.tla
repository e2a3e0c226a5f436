---------------------------- MODULE ReplayProofs ----------------------------
(***************************************************************************)
(* Facts about what a journal means, for journals of any length: what an   *)
(* append and a cut make of the tasks and the index that are rebuilt from  *)
(* it, and that the loop of Restore rebuilds just these.                   *)
(***************************************************************************)
EXTENDS Replay, Recursion

\* A finite, non-empty set of integers contains its maximum.
LEMMA MaxProperty ==
  ASSUME NEW S \in SUBSET Int, IsFiniteSet(S), S # {}
  PROVE  Max(S) \in S /\ \A y \in S : Max(S) >= y
<1> DEFINE Above(x) == {y \in S : y > x}
           U == {Above(x) : x \in S}
<1>1. U \subseteq FiniteSubsetsOf(S) /\ U # {}
  <2>1. \A x \in S : Above(x) \in SUBSET S
    OBVIOUS
  <2>2. \A x \in S : IsFiniteSet(Above(x))
    BY <2>1, FS_Subset
  <2>3. \A x \in S : Above(x) \in FiniteSubsetsOf(S)
    BY <2>1, <2>2 DEF FiniteSubsetsOf
  <2> HIDE DEF Above
  <2>4. QED
    BY <2>3
<1>2. PICK A \in U : \A B \in U : <<B, A>> \notin StrictSubsetOrdering(S)
  <2> HIDE DEF U
  <2>1. QED
    BY <1>1, FS_StrictSubsetOrderingWellFounded, WFMin
<1>3. PICK x \in S : A = Above(x)
  OBVIOUS
<1>4. \A y \in S : x >= y
  <2> SUFFICES ASSUME NEW y \in S, y > x PROVE FALSE
    OBVIOUS
  <2>1. Above(y) \subseteq Above(x)
    <3>1. \A z \in S : z > y => z > x
      OBVIOUS
    <3>2. QED
      BY <3>1
  <2>3. y \in Above(x) /\ y \notin Above(y)
    OBVIOUS
  <2>2. <<Above(y), Above(x)>> \in StrictSubsetOrdering(S)
    BY <2>1, <2>3 DEF StrictSubsetOrdering
  <2>4. QED
    BY <1>2, <1>3, <2>2
<1>5. QED
  BY <1>4 DEF Max

-----------------------------------------------------------------------------
(* Positions of records. *)

\* The last position of a kind of record is one of them, and a position of
\* the journal.
LEMMA LastPosition ==
  ASSUME NEW l \in Seq(Record), NEW P \in SUBSET (DOMAIN l), P # {}
  PROVE  Max(P) \in P /\ Max(P) \in 1..Len(l) /\ \A i \in P : i <= Max(P)
<1>1. DOMAIN l = 1..Len(l) /\ Len(l) \in Nat
  OBVIOUS
<1>2. IsFiniteSet(P)
  <2>1. IsFiniteSet(1..Len(l)) /\ P \in SUBSET (1..Len(l))
    BY <1>1, FS_Interval
  <2>2. QED
    BY <2>1, FS_Subset
<1>3. Max(P) \in P /\ \A i \in P : Max(P) >= i
  BY <1>1, <1>2, MaxProperty
<1>4. QED
  BY <1>1, <1>3

\* The fields of a record, by its kind.
LEMMA RecordFields ==
  ASSUME NEW r \in Record
  PROVE  /\ r.T \in {"enq", "att", "ok", "dead"} /\ r.id \in TaskId /\ r.ts \in Nat
         /\ r.T = "enq" => r.key \in Key /\ r.full \in BOOLEAN
         /\ r.T # "enq" => r.n \in Nat
         /\ r.T = "att" => r.next \in Nat
         /\ r.T = "dead" => r.why \in Reason \cup {NoReason}
BY DEF Record, EnqRecord, AttRecord, OkRecord, DeadRecord

\* The tasks a journal introduces are those of its enq records.
LEMMA EnqIdsByPosition ==
  ASSUME NEW l \in Seq(Record), NEW t
  PROVE  t \in EnqIds(l) <=> \E i \in 1..Len(l) : l[i].T = "enq" /\ l[i].id = t
<1>1. DOMAIN l = 1..Len(l) /\ \A i \in 1..Len(l) : l[i] \in Record
  OBVIOUS
<1>2. \A i \in 1..Len(l) : l[i].id \in TaskId
  BY <1>1, RecordFields
<1>3. QED
  BY <1>1, <1>2 DEF EnqIds, Positions

\* What is rebuilt from a journal is a well-formed set of tasks: one for each
\* enq record's task, pending or terminal.
THEOREM RestoredType ==
  ASSUME NEW l \in Seq(Record)
  PROVE  /\ EnqIds(l) \subseteq TaskId
         /\ Restored(l) \in [EnqIds(l) -> Task]
         /\ \A t \in EnqIds(l) : Restored(l)[t].st \in {"pending", "succeeded", "dead"}
<1>1. EnqIds(l) \subseteq TaskId
  BY DEF EnqIds
<1> SUFFICES ASSUME NEW t \in EnqIds(l)
             PROVE  /\ Restored(l)[t] \in Task
                    /\ Restored(l)[t].st \in {"pending", "succeeded", "dead"}
  BY <1>1 DEF Restored
<1> DEFINE E == Positions(l, t, {"enq"})
           A == Positions(l, t, {"enq", "att", "ok", "dead"})
           atts == Positions(l, t, {"att"})
           deads == Positions(l, t, {"dead"})
           enq == l[Max(E)]
           last == l[Max(A)]
<1>2. E # {} /\ A # {} /\ E \subseteq DOMAIN l /\ A \subseteq DOMAIN l
      /\ atts \subseteq DOMAIN l /\ deads \subseteq DOMAIN l
  BY DEF EnqIds, Positions
<1>3. Max(E) \in E /\ Max(E) \in 1..Len(l) /\ Max(A) \in A /\ Max(A) \in 1..Len(l)
  <2> HIDE DEF E, A
  <2>1. QED
    BY <1>2, LastPosition
<1>4. enq \in Record /\ enq.T = "enq" /\ last \in Record
  BY <1>3 DEF Positions
<1>5. enq.key \in Key /\ enq.full \in BOOLEAN /\ enq.ts \in Nat
  BY <1>4, RecordFields
<1>6. last.ts \in Nat /\ (last.T # "enq" => last.n \in Nat)
  BY <1>4, RecordFields
<1>7. atts # {} => l[Max(atts)].next \in Nat
  <2> SUFFICES ASSUME atts # {} PROVE l[Max(atts)].next \in Nat
    OBVIOUS
  <2>1. Max(atts) \in atts /\ Max(atts) \in 1..Len(l)
    BY <1>2, LastPosition
  <2>2. l[Max(atts)] \in Record /\ l[Max(atts)].T = "att"
    BY <2>1 DEF Positions
  <2>3. QED
    BY <2>2, RecordFields
<1>8. deads # {} => l[Max(deads)].why \in Reason \cup {NoReason}
  <2> SUFFICES ASSUME deads # {} PROVE l[Max(deads)].why \in Reason \cup {NoReason}
    OBVIOUS
  <2>1. Max(deads) \in deads /\ Max(deads) \in 1..Len(l)
    BY <1>2, LastPosition
  <2>2. l[Max(deads)] \in Record /\ l[Max(deads)].T = "dead"
    BY <2>1 DEF Positions
  <2>3. QED
    BY <2>2, RecordFields
<1>9. StateAfter(last.T) \in {"pending", "succeeded", "dead"}
  BY DEF StateAfter
<1> DEFINE m == [st |-> StateAfter(last.T), key |-> enq.key,
                 attempts |-> IF last.T = "enq" THEN 0 ELSE last.n,
                 nextAt |-> IF atts = {} THEN enq.ts ELSE l[Max(atts)].next,
                 createdAt |-> enq.ts, updatedAt |-> last.ts,
                 why |-> IF deads = {} THEN NoReason ELSE l[Max(deads)].why,
                 full |-> enq.full /\ last.T # "ok"]
<1>10. Restored(l)[t] = m
  BY DEF Restored
<1> HIDE DEF E, A, atts, deads, enq, last
<1>11. m \in Task /\ m.st \in {"pending", "succeeded", "dead"}
  BY <1>5, <1>6, <1>7, <1>8, <1>9 DEF Task, Active, Terminal
<1>12. QED
  BY <1>10, <1>11

\* The rebuilt idempotency index maps keys to rebuilt tasks.
LEMMA RestoredIdemType ==
  ASSUME NEW l \in Seq(Record)
  PROVE  /\ DOMAIN RestoredIdem(l) \subseteq Key
         /\ \A k \in DOMAIN RestoredIdem(l) :
              \E i \in 1..Len(l) : /\ l[i].T = "enq" /\ l[i].key = k
                                  /\ RestoredIdem(l)[k] = l[i].id
<1>1. DOMAIN RestoredIdem(l) \subseteq Key
  BY DEF RestoredIdem
<1> SUFFICES ASSUME NEW k \in DOMAIN RestoredIdem(l)
             PROVE  \E i \in 1..Len(l) : /\ l[i].T = "enq" /\ l[i].key = k
                                         /\ RestoredIdem(l)[k] = l[i].id
  BY <1>1
<1>2. KeyPositions(l, k) # {} /\ RestoredIdem(l)[k] = l[Max(KeyPositions(l, k))].id
  BY DEF RestoredIdem
<1>3. KeyPositions(l, k) \in SUBSET (DOMAIN l)
  BY DEF KeyPositions
<1>4. /\ Max(KeyPositions(l, k)) \in KeyPositions(l, k)
      /\ Max(KeyPositions(l, k)) \in 1..Len(l)
  BY <1>2, <1>3, LastPosition
<1>5. QED
  BY <1>2, <1>4 DEF KeyPositions

\* The key of a rebuilt task is the key of its enq records.
LEMMA RestoredKey ==
  ASSUME NEW l \in Seq(Record), KeysConsistent(l),
         NEW i \in 1..Len(l), l[i].T = "enq"
  PROVE  l[i].id \in EnqIds(l) /\ Restored(l)[l[i].id].key = l[i].key
<1> DEFINE t == l[i].id
           E == Positions(l, t, {"enq"})
<1>1. t \in EnqIds(l)
  BY EnqIdsByPosition
<1>2. E \in SUBSET (DOMAIN l) /\ E # {}
  BY <1>1 DEF EnqIds, Positions
<1>3. Max(E) \in E /\ Max(E) \in 1..Len(l)
  <2> HIDE DEF E
  <2>1. QED
    BY <1>2, LastPosition
<1>4. l[Max(E)].key = l[i].key
  BY <1>3 DEF Positions, KeysConsistent
<1>5. Restored(l)[t].key = l[Max(E)].key
  BY <1>1 DEF Restored
<1>6. QED
  BY <1>1, <1>4, <1>5

\* A restart leaves no dangling entry in the index: each leads to a rebuilt task
\* submitted under that key.
THEOREM RestoredIdemSound ==
  ASSUME NEW l \in Seq(Record), KeysConsistent(l), NEW k \in DOMAIN RestoredIdem(l)
  PROVE  /\ RestoredIdem(l)[k] \in DOMAIN Restored(l)
         /\ Restored(l)[RestoredIdem(l)[k]].key = k
<1>1. PICK i \in 1..Len(l) : /\ l[i].T = "enq" /\ l[i].key = k
                             /\ RestoredIdem(l)[k] = l[i].id
  BY RestoredIdemType
<1>2. DOMAIN Restored(l) = EnqIds(l)
  BY RestoredType
<1>3. QED
  BY <1>1, <1>2, RestoredKey

-----------------------------------------------------------------------------
(* Appending to a journal and cutting it. *)

LEMMA AppendedIds ==
  ASSUME NEW l \in Seq(Record), NEW r \in Record
  PROVE  /\ Append(l, r) \in Seq(Record)
         /\ EnqIds(l) \subseteq EnqIds(Append(l, r))
         /\ EnqIds(Append(l, r)) \subseteq EnqIds(l) \cup {r.id}
         /\ r.T = "enq" => r.id \in EnqIds(Append(l, r))
         /\ r.T # "enq" => EnqIds(Append(l, r)) = EnqIds(l)
<1> DEFINE m == Append(l, r)
<1>1. m \in Seq(Record) /\ Len(m) = Len(l) + 1
      /\ \A i \in 1..Len(m) : m[i] = IF i <= Len(l) THEN l[i] ELSE r
  OBVIOUS
<1> HIDE DEF m
<1>2. \A t : t \in EnqIds(l) => t \in EnqIds(m)
  BY <1>1, EnqIdsByPosition
<1>3. \A t : t \in EnqIds(m) => t \in EnqIds(l) \/ (r.T = "enq" /\ t = r.id)
  BY <1>1, EnqIdsByPosition
<1>4. r.T = "enq" => r.id \in EnqIds(m)
  BY <1>1, EnqIdsByPosition
<1>5. QED
  BY <1>1, <1>2, <1>3, <1>4 DEF m

\* Cutting a journal twice is cutting it at the smaller of the two lengths.
LEMMA PrefixOfPrefix ==
  ASSUME NEW l \in Seq(Record), NEW n \in 0..Len(l), NEW m \in 0..n
  PROVE  Prefix(Prefix(l, n), m) = Prefix(l, m)
BY DEF Prefix

LEMMA PrefixOfAppend ==
  ASSUME NEW l \in Seq(Record), NEW r \in Record, NEW m \in 0..Len(l)
  PROVE  Prefix(Append(l, r), m) = Prefix(l, m)
BY DEF Prefix

LEMMA WholePrefix ==
  ASSUME NEW l \in Seq(Record)
  PROVE  Prefix(l, Len(l)) = l
BY DEF Prefix

LEMMA PrefixIds ==
  ASSUME NEW l \in Seq(Record), NEW n \in 0..Len(l)
  PROVE  /\ Prefix(l, n) \in Seq(Record) /\ Len(Prefix(l, n)) = n
         /\ \A i \in 1..n : Prefix(l, n)[i] = l[i]
         /\ EnqIds(Prefix(l, n)) \subseteq EnqIds(l)
         /\ \A m \in 0..n : EnqIds(Prefix(l, m)) \subseteq EnqIds(Prefix(l, n))
<1>1. \A m \in 0..Len(l) : /\ Prefix(l, m) \in Seq(Record) /\ Len(Prefix(l, m)) = m
                          /\ \A i \in 1..m : Prefix(l, m)[i] = l[i]
  BY DEF Prefix
<1>2. ASSUME NEW m \in 0..Len(l), NEW t
      PROVE  t \in EnqIds(Prefix(l, m)) <=> \E i \in 1..m : l[i].T = "enq" /\ l[i].id = t
  <2> DEFINE p == Prefix(l, m)
  <2>1. p \in Seq(Record) /\ Len(p) = m /\ \A i \in 1..m : p[i] = l[i]
    BY <1>1
  <2> HIDE DEF p
  <2>2. t \in EnqIds(p) <=> \E i \in 1..Len(p) : p[i].T = "enq" /\ p[i].id = t
    BY <2>1, EnqIdsByPosition
  <2>3. t \in EnqIds(p) <=> \E i \in 1..m : l[i].T = "enq" /\ l[i].id = t
    BY <2>1, <2>2
  <2>4. QED
    BY <2>3 DEF p
<1>3. \A t : t \in EnqIds(Prefix(l, n)) => t \in EnqIds(l)
  BY <1>2, EnqIdsByPosition
<1>4. QED
  BY <1>1, <1>2, <1>3

\* A journal introduces finitely many tasks.
LEMMA EnqIdsFinite ==
  ASSUME NEW l \in Seq(Record)
  PROVE  IsFiniteSet(EnqIds(l))
<1> DEFINE P == {i \in 1..Len(l) : l[i].T = "enq"}
           f == [i \in P |-> l[i].id]
<1>1. IsFiniteSet(P)
  <2>1. IsFiniteSet(1..Len(l)) /\ P \in SUBSET (1..Len(l))
    BY FS_Interval
  <2> HIDE DEF P
  <2>2. QED
    BY <2>1, FS_Subset
<1>2. f \in Surjection(P, EnqIds(l))
  BY EnqIdsByPosition DEF Surjection
<1>3. QED
  BY <1>1, <1>2, FS_Surjection

LEMMA KeysOfPrefix ==
  ASSUME NEW l \in Seq(Record), KeysConsistent(l), NEW n \in 0..Len(l)
  PROVE  KeysConsistent(Prefix(l, n))
<1> DEFINE p == Prefix(l, n)
<1>1. Len(p) = n /\ \A i \in 1..n : p[i] = l[i]
  BY PrefixIds
<1> HIDE DEF p
<1>2. KeysConsistent(p)
  BY <1>1 DEF KeysConsistent
<1>3. QED
  BY <1>2 DEF p

\* Only an enq record of a task the journal knows can contradict its keys.
LEMMA KeysOfAppend ==
  ASSUME NEW l \in Seq(Record), KeysConsistent(l), NEW r \in Record,
         r.T = "enq" => r.id \notin EnqIds(l)
  PROVE  KeysConsistent(Append(l, r))
<1> DEFINE m == Append(l, r)
<1>1. Len(m) = Len(l) + 1 /\ \A i \in 1..Len(m) : m[i] = IF i <= Len(l) THEN l[i] ELSE r
  OBVIOUS
<1>2. \A i \in 1..Len(l) : l[i].T = "enq" /\ r.T = "enq" => l[i].id # r.id
  BY EnqIdsByPosition
<1> HIDE DEF m
<1>3. KeysConsistent(m)
  BY <1>1, <1>2 DEF KeysConsistent
<1>4. QED
  BY <1>3 DEF m

-----------------------------------------------------------------------------
(* The last record of a task, and what an append makes of it.               *)

Latest(l, t, kinds) == l[Max(Positions(l, t, kinds))]
Kinds == {"enq", "att", "ok", "dead"}

LEMMA LastProperty ==
  ASSUME NEW l \in Seq(Record), NEW t, NEW K, Positions(l, t, K) # {}
  PROVE  \E p \in 1..Len(l) : /\ Latest(l, t, K) = l[p] /\ l[p].id = t /\ l[p].T \in K
                              /\ \A i \in 1..Len(l) : l[i].id = t /\ l[i].T \in K => i <= p
<1> DEFINE P == Positions(l, t, K)
<1>1. P \in SUBSET (DOMAIN l) /\ DOMAIN l = 1..Len(l)
  BY DEF Positions
<1>2. \A i \in 1..Len(l) : i \in P <=> l[i].id = t /\ l[i].T \in K
  BY DEF Positions
<1>3. Latest(l, t, K) = l[Max(P)]
  BY DEF Latest
<1> HIDE DEF P
<1>4. Max(P) \in P /\ Max(P) \in 1..Len(l) /\ \A i \in P : i <= Max(P)
  BY <1>1, LastPosition DEF P
<1>5. QED
  BY <1>2, <1>3, <1>4

\* A record that nothing of its kinds follows is the last.
LEMMA LastIs ==
  ASSUME NEW l \in Seq(Record), NEW K, NEW p \in 1..Len(l), l[p].T \in K,
         \A i \in 1..Len(l) : l[i].id = l[p].id /\ l[i].T \in K => i <= p
  PROVE  Positions(l, l[p].id, K) # {} /\ Latest(l, l[p].id, K) = l[p]
<1> DEFINE t == l[p].id
<1>1. Positions(l, t, K) # {}
  BY DEF Positions
<1>2. PICK q \in 1..Len(l) :
        /\ Latest(l, t, K) = l[q] /\ l[q].id = t /\ l[q].T \in K
        /\ \A i \in 1..Len(l) : l[i].id = t /\ l[i].T \in K => i <= q
  BY <1>1, LastProperty
<1>3. p = q
  BY <1>2
<1>4. QED
  BY <1>1, <1>2, <1>3

LEMMA NoPosition ==
  ASSUME NEW l \in Seq(Record), NEW t, NEW K
  PROVE  Positions(l, t, K) = {} <=> \A i \in 1..Len(l) : l[i].id = t => l[i].T \notin K
BY DEF Positions

LEMMA LastAppended ==
  ASSUME NEW l \in Seq(Record), NEW r \in Record, NEW K
  PROVE  /\ r.T \in K => /\ Positions(Append(l, r), r.id, K) # {}
                         /\ Latest(Append(l, r), r.id, K) = r
         /\ \A t : ~(r.id = t /\ r.T \in K) =>
              /\ Positions(Append(l, r), t, K) = Positions(l, t, K)
              /\ Positions(l, t, K) # {} => Latest(Append(l, r), t, K) = Latest(l, t, K)
<1> DEFINE m == Append(l, r)
<1>1. /\ m \in Seq(Record) /\ Len(l) \in Nat /\ Len(m) = Len(l) + 1
      /\ \A i \in 1..Len(l) : m[i] = l[i]
      /\ m[Len(m)] = r /\ Len(m) \in 1..Len(m)
  OBVIOUS
<1>1a. DOMAIN m = 1..Len(m) /\ DOMAIN l = 1..Len(l)
  OBVIOUS
<1> HIDE DEF m
<1>2. ASSUME r.T \in K
      PROVE  Positions(m, r.id, K) # {} /\ Latest(m, r.id, K) = r
  <2>1. \A i \in 1..Len(m) : i <= Len(m)
    BY <1>1
  <2>2. QED
    BY <1>1, <1>2, <2>1, LastIs
<1>3. ASSUME NEW t, ~(r.id = t /\ r.T \in K)
      PROVE  /\ Positions(m, t, K) = Positions(l, t, K)
             /\ Positions(l, t, K) # {} => Latest(m, t, K) = Latest(l, t, K)
  <2>1. \A i \in 1..Len(m) : i \in 1..Len(l) \/ i = Len(m)
    BY <1>1
  <2>2. 1..Len(l) \subseteq 1..Len(m)
    BY <1>1
  <2>3. \A i : i \in Positions(m, t, K) <=> i \in 1..Len(m) /\ m[i].id = t /\ m[i].T \in K
    BY <1>1a DEF Positions
  <2>4. \A i : i \in Positions(l, t, K) <=> i \in 1..Len(l) /\ l[i].id = t /\ l[i].T \in K
    BY <1>1a DEF Positions
  <2>5. Positions(m, t, K) = Positions(l, t, K)
    <3>1. \A i : i \in Positions(m, t, K) => i \in Positions(l, t, K)
      BY <1>1, <1>3, <2>1, <2>3, <2>4
    <3>2. \A i : i \in Positions(l, t, K) => i \in Positions(m, t, K)
      BY <1>1, <2>2, <2>3, <2>4
    <3>3. QED
      BY <3>1, <3>2
  <2>6. ASSUME Positions(l, t, K) # {} PROVE Latest(m, t, K) = Latest(l, t, K)
    <3>1. Max(Positions(l, t, K)) \in 1..Len(l)
      <4>1. Positions(l, t, K) \in SUBSET (DOMAIN l)
        BY DEF Positions
      <4>2. QED
        BY <2>6, <4>1, LastPosition
    <3>2. QED
      BY <1>1, <2>5, <3>1 DEF Latest
  <2>7. QED
    BY <2>5, <2>6
<1>4. QED
  BY <1>2, <1>3 DEF m

-----------------------------------------------------------------------------
(* What an append makes of the task that is rebuilt.                        *)

\* The definition of Restored, by the last records of t.
Rebuilt(l, t) ==
  [st        |-> StateAfter(Latest(l, t, Kinds).T),
   key       |-> Latest(l, t, {"enq"}).key,
   attempts  |-> IF Latest(l, t, Kinds).T = "enq" THEN 0 ELSE Latest(l, t, Kinds).n,
   nextAt    |-> IF Positions(l, t, {"att"}) = {} THEN Latest(l, t, {"enq"}).ts
                                                ELSE Latest(l, t, {"att"}).next,
   createdAt |-> Latest(l, t, {"enq"}).ts,
   updatedAt |-> Latest(l, t, Kinds).ts,
   why       |-> IF Positions(l, t, {"dead"}) = {} THEN NoReason
                                                 ELSE Latest(l, t, {"dead"}).why,
   full      |-> Latest(l, t, {"enq"}).full /\ Latest(l, t, Kinds).T # "ok"]

LEMMA RestoredIsRebuilt ==
  ASSUME NEW l, NEW t \in EnqIds(l)
  PROVE  Restored(l)[t] = Rebuilt(l, t)
BY DEF Restored, Rebuilt, Latest, Kinds

\* A task with an enq record has a last one, and a last record.
LEMMA HasLast ==
  ASSUME NEW l \in Seq(Record), NEW t \in EnqIds(l)
  PROVE  Positions(l, t, {"enq"}) # {} /\ Positions(l, t, Kinds) # {}
BY DEF EnqIds, Positions, Kinds

LEMMA OthersUnchanged ==
  ASSUME NEW l \in Seq(Record), NEW r \in Record, NEW t \in EnqIds(l), t # r.id
  PROVE  t \in EnqIds(Append(l, r)) /\ Restored(Append(l, r))[t] = Restored(l)[t]
<1>1. t \in EnqIds(Append(l, r))
  BY AppendedIds
<1>2. ASSUME NEW K
      PROVE  /\ Positions(Append(l, r), t, K) = Positions(l, t, K)
             /\ Positions(l, t, K) # {} => Latest(Append(l, r), t, K) = Latest(l, t, K)
  BY LastAppended
<1>3. Positions(l, t, {"enq"}) # {} /\ Positions(l, t, Kinds) # {}
  BY HasLast
<1>4. Rebuilt(Append(l, r), t) = Rebuilt(l, t)
  BY <1>2, <1>3 DEF Rebuilt
<1>5. QED
  BY <1>1, <1>4, RestoredIsRebuilt

\* The first record of a task makes a fresh one of it.
LEMMA Introduced ==
  ASSUME NEW l \in Seq(Record), NEW r \in Record, r.T = "enq",
         \A i \in 1..Len(l) : l[i].id # r.id
  PROVE  r.id \in EnqIds(Append(l, r)) /\ Restored(Append(l, r))[r.id] = Fresh(r)
<1> DEFINE m == Append(l, r)
           t == r.id
<1>1. t \in EnqIds(m)
  BY AppendedIds
<1>2. Latest(m, t, {"enq"}) = r /\ Latest(m, t, Kinds) = r
  <2>1. r.T \in {"enq"} /\ r.T \in Kinds
    BY DEF Kinds
  <2>2. QED
    BY <2>1, LastAppended
<1>3. Positions(m, t, {"att"}) = {} /\ Positions(m, t, {"dead"}) = {}
  <2>1. Positions(l, t, {"att"}) = {} /\ Positions(l, t, {"dead"}) = {}
    BY NoPosition
  <2>2. r.T \notin {"att"} /\ r.T \notin {"dead"}
    OBVIOUS
  <2>3. \A K : r.T \notin K => Positions(m, t, K) = Positions(l, t, K)
    BY LastAppended
  <2>4. QED
    BY <2>1, <2>2, <2>3
<1>4. r.full \in BOOLEAN
  BY RecordFields
<1>5. Rebuilt(m, t) = Fresh(r)
  <2>1. StateAfter(r.T) = "pending"
    BY DEF StateAfter
  <2> HIDE DEF m
  <2>2. (r.full /\ r.T # "ok") = r.full
    BY <1>4
  <2>3. QED
    BY <1>2, <1>3, <2>1, <2>2 DEF Rebuilt, Fresh
<1>6. QED
  BY <1>1, <1>5, RestoredIsRebuilt

\* What a record that does not introduce its task makes of it.
After(m, r) ==
  [st |-> StateAfter(r.T), key |-> m.key, attempts |-> r.n,
   nextAt |-> IF r.T = "att" THEN r.next ELSE m.nextAt,
   createdAt |-> m.createdAt, updatedAt |-> r.ts,
   why |-> IF r.T = "dead" THEN r.why ELSE m.why,
   full |-> m.full /\ r.T # "ok"]

LEMMA MovedOn ==
  ASSUME NEW l \in Seq(Record), NEW r \in Record, r.T # "enq", r.id \in EnqIds(l),
         Restored(l)[r.id].st # "succeeded"
  PROVE  /\ r.id \in EnqIds(Append(l, r))
         /\ Restored(Append(l, r))[r.id] = After(Restored(l)[r.id], r)
<1> DEFINE m == Append(l, r)
           t == r.id
           was == Restored(l)[t]
<1>1. t \in EnqIds(m) /\ was = Rebuilt(l, t) /\ Restored(m)[t] = Rebuilt(m, t)
  <2>1. t \in EnqIds(m)
    BY AppendedIds
  <2>2. QED
    BY <2>1, RestoredIsRebuilt
<1>2. r.T \in {"att", "ok", "dead"}
  BY RecordFields
<1>3. Latest(m, t, Kinds) = r
  <2>1. r.T \in Kinds
    BY <1>2 DEF Kinds
  <2>2. QED
    BY <2>1, LastAppended
<1>4. Latest(m, t, {"enq"}) = Latest(l, t, {"enq"})
  <2>1. r.T \notin {"enq"}
    OBVIOUS
  <2>2. \A u : Positions(l, u, {"enq"}) # {} => Latest(m, u, {"enq"}) = Latest(l, u, {"enq"})
    BY <2>1, LastAppended
  <2>3. QED
    BY <2>2, HasLast
<1>5. IF r.T = "att" THEN Positions(m, t, {"att"}) # {} /\ Latest(m, t, {"att"}) = r
      ELSE /\ Positions(m, t, {"att"}) = Positions(l, t, {"att"})
           /\ Positions(l, t, {"att"}) # {} => Latest(m, t, {"att"}) = Latest(l, t, {"att"})
  BY LastAppended
<1>6. IF r.T = "dead" THEN Positions(m, t, {"dead"}) # {} /\ Latest(m, t, {"dead"}) = r
      ELSE /\ Positions(m, t, {"dead"}) = Positions(l, t, {"dead"})
           /\ Positions(l, t, {"dead"}) # {} => Latest(m, t, {"dead"}) = Latest(l, t, {"dead"})
  BY LastAppended
<1>7. Latest(l, t, Kinds).T # "ok"
  BY <1>1 DEF Rebuilt, StateAfter
<1>8. Rebuilt(m, t) = After(was, r)
  <2> HIDE DEF m, t
  <2>1. /\ was.key = Latest(l, t, {"enq"}).key /\ was.createdAt = Latest(l, t, {"enq"}).ts
        /\ was.full = (Latest(l, t, {"enq"}).full /\ Latest(l, t, Kinds).T # "ok")
        /\ was.nextAt = IF Positions(l, t, {"att"}) = {} THEN Latest(l, t, {"enq"}).ts
                                                       ELSE Latest(l, t, {"att"}).next
        /\ was.why = IF Positions(l, t, {"dead"}) = {} THEN NoReason
                                                     ELSE Latest(l, t, {"dead"}).why
    BY <1>1 DEF Rebuilt
  <2> HIDE DEF was
  <2>2. (Latest(m, t, {"enq"}).full /\ Latest(m, t, Kinds).T # "ok") = (was.full /\ r.T # "ok")
    BY <1>3, <1>4, <1>7, <2>1
  <2>3. QED
    BY <1>2, <1>3, <1>4, <1>5, <1>6, <2>1, <2>2 DEF Rebuilt, After
<1>9. QED
  BY <1>1, <1>8

-----------------------------------------------------------------------------
(* The loop of Restore.                                                     *)

\* What a process may have rebuilt while it reads its journal.
Mem == [tasks : UNION {[S -> Task] : S \in SUBSET TaskId},
        idem  : UNION {[S -> TaskId] : S \in SUBSET Key}]

\* What Apply makes of a task that is there.
Moved(m, r) ==
  CASE r.T = "att"  -> [m EXCEPT !.st = "waiting", !.attempts = r.n,
                                 !.nextAt = r.next, !.updatedAt = r.ts]
    [] r.T = "ok"   -> [m EXCEPT !.st = "succeeded", !.attempts = r.n,
                                 !.updatedAt = r.ts, !.full = FALSE]
    [] r.T = "dead" -> [m EXCEPT !.st = "dead", !.attempts = r.n,
                                 !.updatedAt = r.ts, !.why = r.why]

LEMMA MemFields ==
  ASSUME NEW mem \in Mem
  PROVE  /\ DOMAIN mem.tasks \subseteq TaskId /\ mem.tasks \in [DOMAIN mem.tasks -> Task]
         /\ DOMAIN mem.idem \subseteq Key /\ mem.idem \in [DOMAIN mem.idem -> TaskId]
         /\ mem = [tasks |-> mem.tasks, idem |-> mem.idem]
BY DEF Mem

LEMMA MemOf ==
  ASSUME NEW S \in SUBSET TaskId, NEW ts \in [S -> Task],
         NEW R \in SUBSET Key, NEW ix \in [R -> TaskId]
  PROVE  [tasks |-> ts, idem |-> ix] \in Mem
<1>1. ts \in UNION {[U -> Task] : U \in SUBSET TaskId}
  OBVIOUS
<1>2. ix \in UNION {[U -> TaskId] : U \in SUBSET Key}
  OBVIOUS
<1>3. QED
  BY <1>1, <1>2 DEF Mem

LEMMA MovedType ==
  ASSUME NEW m \in Task, NEW r \in Record, r.T # "enq"
  PROVE  Moved(m, r) \in Task
<1>1. CASE r.T = "att"
  <2>1. r.n \in Nat /\ r.next \in Nat /\ r.ts \in Nat
    BY <1>1, RecordFields
  <2>2. QED
    BY <1>1, <2>1 DEF Moved, Task, Active
<1>2. CASE r.T = "ok"
  <2>1. r.n \in Nat /\ r.ts \in Nat
    BY <1>2, RecordFields
  <2>2. QED
    BY <1>2, <2>1 DEF Moved, Task, Terminal
<1>3. CASE r.T = "dead"
  <2>1. r.n \in Nat /\ r.ts \in Nat /\ r.why \in Reason \cup {NoReason}
    BY <1>3, RecordFields
  <2>2. QED
    BY <1>3, <2>1 DEF Moved, Task, Terminal
<1>4. QED
  BY <1>1, <1>2, <1>3, RecordFields

LEMMA FreshType ==
  ASSUME NEW r \in Record, r.T = "enq"
  PROVE  Fresh(r) \in Task
BY RecordFields DEF Fresh, Task, Active

\* The three things Apply may do.
LEMMA Applied ==
  ASSUME NEW mem \in Mem, NEW r \in Record
  PROVE  /\ Apply(mem, r) \in Mem
         /\ r.T = "enq" =>
              /\ Apply(mem, r).tasks = Put(mem.tasks, r.id, Fresh(r))
              /\ Apply(mem, r).idem = Put(mem.idem, r.key, r.id)
         /\ r.T # "enq" /\ r.id \notin DOMAIN mem.tasks => Apply(mem, r) = mem
         /\ r.T # "enq" /\ r.id \in DOMAIN mem.tasks =>
              /\ Apply(mem, r).tasks = [mem.tasks EXCEPT ![r.id] = Moved(mem.tasks[r.id], r)]
              /\ Apply(mem, r).idem = mem.idem
<1>1. CASE r.T = "enq"
  <2>1. r.id \in TaskId /\ r.key \in Key /\ Fresh(r) \in Task
    BY <1>1, RecordFields, FreshType
  <2> DEFINE ts == Put(mem.tasks, r.id, Fresh(r))
             ix == Put(mem.idem, r.key, r.id)
  <2>2. Apply(mem, r) = [tasks |-> ts, idem |-> ix]
    BY <1>1 DEF Apply
  <2>3. ts \in [DOMAIN mem.tasks \cup {r.id} -> Task]
    BY <2>1, MemFields DEF Put
  <2>4. ix \in [DOMAIN mem.idem \cup {r.key} -> TaskId]
    BY <2>1, MemFields DEF Put
  <2> HIDE DEF ts, ix
  <2>5. [tasks |-> ts, idem |-> ix] \in Mem
    BY <2>1, <2>3, <2>4, MemFields, MemOf
  <2>6. QED
    BY <1>1, <2>2, <2>5 DEF ts, ix
<1>2. CASE r.T # "enq" /\ r.id \notin DOMAIN mem.tasks
  BY <1>2 DEF Apply
<1>3. CASE r.T # "enq" /\ r.id \in DOMAIN mem.tasks
  <2> DEFINE ts == [mem.tasks EXCEPT ![r.id] = Moved(mem.tasks[r.id], r)]
  <2>1. Apply(mem, r) = [mem EXCEPT !.tasks = ts]
    BY <1>3 DEF Apply, Moved
  <2>2. mem.tasks[r.id] \in Task
    BY <1>3, MemFields
  <2>3. ts \in [DOMAIN mem.tasks -> Task]
    BY <1>3, <2>2, MovedType, MemFields
  <2> HIDE DEF ts
  <2>4. [mem EXCEPT !.tasks = ts] = [tasks |-> ts, idem |-> mem.idem]
    BY MemFields
  <2>5. [tasks |-> ts, idem |-> mem.idem] \in Mem
    BY <2>3, MemFields, MemOf
  <2>6. QED
    BY <1>3, <2>1, <2>4, <2>5 DEF ts
<1>4. QED
  BY <1>1, <1>2, <1>3

\* The function FoldLeft takes its result from: of a set of positions, the highest
\* is applied last.
Loaded(l) == CHOOSE f : f = [s \in SUBSET (DOMAIN l) |->
                               IF s = {} THEN Empty ELSE Apply(f[s \ {Max(s)}], l[Max(s)])]

LEMMA FoldIsLoaded == \A l : FoldLeft(Apply, Empty, l) = Loaded(l)[DOMAIN l]
BY DEF FoldLeft, MapThenFoldSet, Loaded

LEMMA LoadedSteps ==
  ASSUME NEW l \in Seq(Record)
  PROVE  \A s \in SUBSET (DOMAIN l) :
           Loaded(l)[s] = IF s = {} THEN Empty
                                    ELSE Apply(Loaded(l)[s \ {Max(s)}], l[Max(s)])
<1> DEFINE X == SUBSET (DOMAIN l)
           B == {{}}
           p == [s \in X |-> s \ {Max(s)}]
           m == [s \in X |-> Cardinality(s)]
           g == [s \in X |-> [mem \in Mem |-> Apply(mem, l[Max(s)])]]
<1>1. \A s \in X : IsFiniteSet(s) /\ Cardinality(s) \in Nat
  <2>1. IsFiniteSet(DOMAIN l)
    <3>1. DOMAIN l = 1..Len(l) /\ Len(l) \in Nat
      OBVIOUS
    <3>2. QED
      BY <3>1, FS_Interval
  <2>2. QED
    BY <2>1, FS_Subset, FS_CardinalityType
<1>2. ASSUME NEW s \in X \ B
      PROVE  /\ Max(s) \in s /\ Max(s) \in 1..Len(l)
             /\ p[s] \in X /\ m[p[s]] < m[s]
  <2>1. s \in SUBSET (DOMAIN l) /\ s # {}
    OBVIOUS
  <2>2. Max(s) \in s /\ Max(s) \in 1..Len(l)
    BY <2>1, LastPosition
  <2>3. p[s] = s \ {Max(s)} /\ p[s] \in X
    OBVIOUS
  <2>4. Cardinality(s \ {Max(s)}) = Cardinality(s) - 1
    BY <1>1, <2>2, FS_RemoveElement
  <2>5. m[p[s]] = Cardinality(s) - 1 /\ m[s] = Cardinality(s)
    BY <2>3, <2>4
  <2>6. QED
    BY <1>1, <2>2, <2>3, <2>5
<1>3. Descends(X, B, p, m)
  <2>1. m \in [X -> Nat]
    BY <1>1
  <2> HIDE DEF X, B, p, m
  <2>2. QED
    BY <1>2, <2>1 DEF Descends
<1>4. ASSUME NEW s \in X \ B, NEW mem \in Mem PROVE g[s][mem] \in Mem
  <2>1. l[Max(s)] \in Record
    <3>1. Max(s) \in 1..Len(l)
      BY <1>2
    <3>2. QED
      BY <3>1
  <2>2. g[s][mem] = Apply(mem, l[Max(s)])
    OBVIOUS
  <2>3. QED
    BY <2>1, <2>2, Applied
<1>5. Empty \in Mem
  <2>1. <<>> \in [{} -> Task] /\ <<>> \in [{} -> TaskId]
    OBVIOUS
  <2>2. QED
    BY <2>1, MemOf DEF Empty
<1>6. PICK f \in [X -> Mem] : Solution(X, f, B, Empty, p, g)
  <2> HIDE DEF X, B, p, m, g
  <2>1. QED
    BY <1>3, <1>4, <1>5, RecursionExists
<1>7. ASSUME NEW s \in X
      PROVE  f[s] = IF s = {} THEN Empty ELSE Apply(f[s \ {Max(s)}], l[Max(s)])
  <2>1. f[s] = IF s \in B THEN Empty ELSE g[s][f[p[s]]]
    BY <1>6 DEF Solution, Solves
  <2>2. CASE s = {}
    BY <2>1, <2>2
  <2>3. CASE s # {}
    <3>1. p[s] \in X /\ f[p[s]] \in Mem /\ p[s] = s \ {Max(s)}
      BY <1>2, <1>6, <2>3
    <3>2. QED
      BY <2>1, <2>3, <3>1
  <2>4. QED
    BY <2>2, <2>3
<1>8. f = [s \in X |-> IF s = {} THEN Empty ELSE Apply(f[s \ {Max(s)}], l[Max(s)])]
  BY <1>6, <1>7
<1>9. Loaded(l) = [s \in X |-> IF s = {} THEN Empty
                               ELSE Apply(Loaded(l)[s \ {Max(s)}], l[Max(s)])]
  BY <1>8 DEF Loaded
<1>10. QED
  BY <1>9

\* The last step of Restore, for one task.
Requeued(m) == IF m.st \in Terminal THEN m ELSE [m EXCEPT !.st = "pending"]

LEMMA ReplayIsRequeued ==
  ASSUME NEW l, Loaded(l)[DOMAIN l] \in Mem
  PROVE  ReplayLoop(l) =
           [tasks |-> [t \in DOMAIN Loaded(l)[DOMAIN l].tasks |->
                         Requeued(Loaded(l)[DOMAIN l].tasks[t])],
            idem |-> Loaded(l)[DOMAIN l].idem]
<1> DEFINE mem == FoldLeft(Apply, Empty, l)
<1>1. mem = Loaded(l)[DOMAIN l]
  BY FoldIsLoaded
<1>2. ReplayLoop(l) = [mem EXCEPT !.tasks = [t \in DOMAIN mem.tasks |-> Requeued(mem.tasks[t])]]
  BY DEF ReplayLoop, Requeued
<1> HIDE DEF mem
<1>3. mem = [tasks |-> mem.tasks, idem |-> mem.idem]
  BY <1>1, MemFields
<1>4. ReplayLoop(l) = [tasks |-> [t \in DOMAIN mem.tasks |-> Requeued(mem.tasks[t])],
                       idem |-> mem.idem]
  BY <1>2, <1>3
<1>5. QED
  BY <1>1, <1>4

\* What a journal of the queue is like: the submission of a task is its first record,
\* and its success the last.
EnqFirst(l) == \A i, j \in 1..Len(l) : i < j /\ l[i].id = l[j].id => l[j].T # "enq"
OkLast(l) == \A i, j \in 1..Len(l) : l[i].T = "ok" /\ i < j => l[j].id # l[i].id

LEMMA LatestKind ==
  ASSUME NEW l \in Seq(Record), NEW t \in EnqIds(l), Restored(l)[t].st = "succeeded"
  PROVE  \E i \in 1..Len(l) : l[i].T = "ok" /\ l[i].id = t
<1>1. StateAfter(Latest(l, t, Kinds).T) = "succeeded"
  <2>1. Restored(l)[t] = Rebuilt(l, t)
    BY RestoredIsRebuilt
  <2>2. Rebuilt(l, t).st = StateAfter(Latest(l, t, Kinds).T)
    BY DEF Rebuilt
  <2>3. QED
    BY <2>1, <2>2
<1>2. Latest(l, t, Kinds).T = "ok"
  BY <1>1 DEF StateAfter
<1>3. QED
  BY <1>2, HasLast, LastProperty

\* The index after one more record.
LEMMA IndexAppended ==
  ASSUME NEW l \in Seq(Record), NEW r \in Record
  PROVE  RestoredIdem(Append(l, r)) = IF r.T = "enq" THEN Put(RestoredIdem(l), r.key, r.id)
                                                     ELSE RestoredIdem(l)
<1> DEFINE m == Append(l, r)
<1>1. /\ m \in Seq(Record) /\ Len(l) \in Nat /\ Len(m) = Len(l) + 1
      /\ \A i \in 1..Len(l) : m[i] = l[i]
      /\ m[Len(m)] = r /\ Len(m) \in 1..Len(m)
      /\ DOMAIN m = 1..Len(m) /\ DOMAIN l = 1..Len(l)
  OBVIOUS
<1> HIDE DEF m
<1>2. \A i : i \in 1..Len(m) <=> i \in 1..Len(l) \/ i = Len(m)
  BY <1>1
<1>3. ASSUME NEW k, ~(r.T = "enq" /\ r.key = k)
      PROVE  /\ KeyPositions(m, k) = KeyPositions(l, k)
             /\ KeyPositions(l, k) # {} =>
                  m[Max(KeyPositions(m, k))].id = l[Max(KeyPositions(l, k))].id
  <2>1. \A i : i \in KeyPositions(m, k) <=> i \in KeyPositions(l, k)
    BY <1>1, <1>2, <1>3 DEF KeyPositions
  <2>2. KeyPositions(m, k) = KeyPositions(l, k)
    BY <2>1
  <2>3. KeyPositions(l, k) # {} => Max(KeyPositions(l, k)) \in 1..Len(l)
    <3>1. KeyPositions(l, k) \in SUBSET (DOMAIN l)
      BY DEF KeyPositions
    <3>2. QED
      BY <3>1, LastPosition
  <2>4. QED
    BY <1>1, <2>2, <2>3
<1>4. ASSUME r.T = "enq"
      PROVE  KeyPositions(m, r.key) # {} /\ m[Max(KeyPositions(m, r.key))].id = r.id
  <2> DEFINE P == KeyPositions(m, r.key)
  <2>1. P \in SUBSET (DOMAIN m) /\ Len(m) \in P
    BY <1>1, <1>4 DEF KeyPositions
  <2> HIDE DEF P
  <2>2. Max(P) \in 1..Len(m) /\ Len(m) <= Max(P)
    BY <1>1, <2>1, LastPosition
  <2>3. Max(P) = Len(m)
    BY <1>1, <2>2
  <2>4. QED
    BY <1>1, <2>1, <2>3 DEF P
<1>5. CASE r.T = "enq"
  <2>1. r.key \in Key
    BY <1>5, RecordFields
  <2> DEFINE D(j) == {k \in Key : KeyPositions(j, k) # {}}
  <2>2. D(m) = D(l) \cup {r.key}
    BY <1>3, <1>4, <1>5, <2>1
  <2>3. \A k \in D(l) \cup {r.key} :
          m[Max(KeyPositions(m, k))].id = IF k = r.key THEN r.id ELSE l[Max(KeyPositions(l, k))].id
    BY <1>3, <1>4, <1>5
  <2>4. /\ RestoredIdem(m) = [k \in D(m) |-> m[Max(KeyPositions(m, k))].id]
        /\ RestoredIdem(l) = [k \in D(l) |-> l[Max(KeyPositions(l, k))].id]
    BY DEF RestoredIdem
  <2> HIDE DEF D
  <2>5. RestoredIdem(m) = Put(RestoredIdem(l), r.key, r.id)
    BY <2>2, <2>3, <2>4 DEF Put
  <2>6. QED
    BY <1>5, <2>5 DEF m
<1>6. CASE r.T # "enq"
  <2>1. \A k \in Key : KeyPositions(m, k) = KeyPositions(l, k)
    BY <1>3, <1>6
  <2>2. \A k \in Key : KeyPositions(l, k) # {} =>
                         m[Max(KeyPositions(m, k))].id = l[Max(KeyPositions(l, k))].id
    BY <1>3, <1>6
  <2>3. RestoredIdem(m) = RestoredIdem(l)
    BY <2>1, <2>2 DEF RestoredIdem
  <2>4. QED
    BY <1>6, <2>3 DEF m
<1>7. QED
  BY <1>5, <1>6

\* Requeueing does not care whether it happens now or at the end.
LEMMA RequeueMoved ==
  ASSUME NEW m \in Task, m.st # "succeeded", NEW r \in Record, r.T # "enq"
  PROVE  Requeued(Moved(m, r)) = After(Requeued(m), r)
<1>1. m.full \in BOOLEAN /\ r.T \in {"att", "ok", "dead"}
  BY RecordFields DEF Task
<1>2. /\ Requeued(m).key = m.key /\ Requeued(m).nextAt = m.nextAt
      /\ Requeued(m).createdAt = m.createdAt /\ Requeued(m).why = m.why
      /\ Requeued(m).full = m.full
  BY DEF Requeued, Task
<1>3. After(Requeued(m), r) =
        [st |-> StateAfter(r.T), key |-> m.key, attempts |-> r.n,
         nextAt |-> IF r.T = "att" THEN r.next ELSE m.nextAt,
         createdAt |-> m.createdAt, updatedAt |-> r.ts,
         why |-> IF r.T = "dead" THEN r.why ELSE m.why,
         full |-> m.full /\ r.T # "ok"]
  BY <1>2 DEF After
<1>4. CASE r.T = "att"
  <2>1. Moved(m, r) = [st |-> "waiting", key |-> m.key, attempts |-> r.n, nextAt |-> r.next,
                       createdAt |-> m.createdAt, updatedAt |-> r.ts, why |-> m.why,
                       full |-> m.full]
    BY <1>4 DEF Moved, Task
  <2>2. Requeued(Moved(m, r)) =
          [st |-> "pending", key |-> m.key, attempts |-> r.n, nextAt |-> r.next,
           createdAt |-> m.createdAt, updatedAt |-> r.ts, why |-> m.why, full |-> m.full]
    BY <2>1 DEF Requeued, Terminal
  <2>3. (m.full /\ r.T # "ok") = m.full /\ StateAfter(r.T) = "pending"
    BY <1>1, <1>4 DEF StateAfter
  <2>4. QED
    BY <1>3, <1>4, <2>2, <2>3
<1>5. CASE r.T = "ok"
  BY <1>1, <1>3, <1>5 DEF Requeued, Moved, Terminal, StateAfter, Task
<1>6. CASE r.T = "dead"
  BY <1>1, <1>3, <1>6 DEF Requeued, Moved, Terminal, StateAfter, Task
<1>7. QED
  BY <1>1, <1>4, <1>5, <1>6

\* What has been rebuilt when l has been read, with its tasks requeued, is what the last
\* records of each task say.
Reads(mem, l) ==
  /\ mem \in Mem
  /\ DOMAIN mem.tasks = EnqIds(l)
  /\ \A t \in EnqIds(l) : Requeued(mem.tasks[t]) = Restored(l)[t]
  /\ mem.idem = RestoredIdem(l)

\* One more record of a journal of the queue.
LEMMA ReadsOn ==
  ASSUME NEW l \in Seq(Record), NEW r \in Record, NEW mem, Reads(mem, l),
         EnqFirst(Append(l, r)), OkLast(Append(l, r))
  PROVE  Reads(Apply(mem, r), Append(l, r))
<1> DEFINE m == Append(l, r)
           new == Apply(mem, r)
<1>0. mem \in Mem /\ DOMAIN mem.tasks = EnqIds(l) /\ mem.idem = RestoredIdem(l)
      /\ \A t \in EnqIds(l) : mem.tasks[t] \in Task /\ Requeued(mem.tasks[t]) = Restored(l)[t]
  BY MemFields DEF Reads
<1>1. new \in Mem
  BY <1>0, Applied
<1>2. /\ Len(l) \in Nat /\ Len(m) = Len(l) + 1
      /\ \A i \in 1..Len(l) : m[i] = l[i]
      /\ m[Len(m)] = r /\ Len(m) \in 1..Len(m)
  OBVIOUS
<1>3. \A i \in 1..Len(l) : i \in 1..Len(m) /\ i < Len(m)
  BY <1>2
<1>4. new.idem = RestoredIdem(m)
  <2>1. new.idem = IF r.T = "enq" THEN Put(mem.idem, r.key, r.id) ELSE mem.idem
    <3>1. r.T = "enq" => new.idem = Put(mem.idem, r.key, r.id)
      BY <1>0, Applied
    <3>2. r.T # "enq" /\ r.id \notin DOMAIN mem.tasks => new = mem
      BY <1>0, Applied
    <3>3. r.T # "enq" /\ r.id \in DOMAIN mem.tasks => new.idem = mem.idem
      BY <1>0, Applied
    <3> HIDE DEF new
    <3>4. QED
      BY <3>1, <3>2, <3>3
  <2>2. RestoredIdem(m) = IF r.T = "enq" THEN Put(RestoredIdem(l), r.key, r.id)
                                         ELSE RestoredIdem(l)
    BY IndexAppended
  <2> HIDE DEF m, new
  <2>3. QED
    BY <1>0, <2>1, <2>2
<1>5. CASE r.T = "enq"
  <2>1. \A i \in 1..Len(l) : l[i].id # r.id
    BY <1>2, <1>3, <1>5 DEF EnqFirst
  <2>2. r.id \in EnqIds(m) /\ Restored(m)[r.id] = Fresh(r)
    BY <1>5, <2>1, Introduced
  <2>3. r.id \notin EnqIds(l)
    BY <2>1, EnqIdsByPosition
  <2>4. EnqIds(m) = EnqIds(l) \cup {r.id}
    BY <1>5, AppendedIds
  <2>5. new.tasks = Put(mem.tasks, r.id, Fresh(r))
    BY <1>0, <1>5, Applied
  <2>6. \A t \in EnqIds(l) : Restored(m)[t] = Restored(l)[t]
    BY <2>3, OthersUnchanged
  <2>7. Requeued(Fresh(r)) = Fresh(r)
    BY DEF Requeued, Fresh, Terminal
  <2> HIDE DEF m, new
  <2>8. DOMAIN new.tasks = EnqIds(m)
    BY <1>0, <2>4, <2>5 DEF Put
  <2>9. ASSUME NEW t \in EnqIds(m) PROVE Requeued(new.tasks[t]) = Restored(m)[t]
    <3>1. CASE t = r.id
      BY <2>2, <2>5, <2>7, <3>1 DEF Put
    <3>2. CASE t # r.id
      <4>1. t \in EnqIds(l) /\ new.tasks[t] = mem.tasks[t]
        BY <1>0, <2>4, <2>5, <3>2 DEF Put
      <4>2. QED
        BY <1>0, <2>6, <4>1
    <3>3. QED
      BY <3>1, <3>2
  <2>10. Reads(new, m)
    BY <1>1, <1>4, <2>8, <2>9 DEF Reads
  <2>11. QED
    BY <2>10 DEF m, new
<1>6. CASE r.T # "enq"
  <2>1. EnqIds(m) = EnqIds(l)
    BY <1>6, AppendedIds
  <2>2. \A t \in EnqIds(l) : t # r.id => Restored(m)[t] = Restored(l)[t]
    BY OthersUnchanged
  <2>3. CASE r.id \notin EnqIds(l)
    <3>1. new = mem
      BY <1>0, <1>6, <2>3, Applied
    <3> HIDE DEF m, new
    <3>2. Reads(new, m)
      BY <1>0, <1>1, <1>4, <2>1, <2>2, <2>3, <3>1 DEF Reads
    <3>3. QED
      BY <3>2 DEF m, new
  <2>4. CASE r.id \in EnqIds(l)
    <3>1. Restored(l)[r.id].st # "succeeded"
      <4>1. \A i \in 1..Len(l) : l[i].T = "ok" => l[i].id # r.id
        BY <1>2, <1>3 DEF OkLast
      <4>2. QED
        BY <2>4, <4>1, LatestKind
    <3>2. Restored(m)[r.id] = After(Restored(l)[r.id], r)
      BY <1>6, <2>4, <3>1, MovedOn
    <3>3. new.tasks = [mem.tasks EXCEPT ![r.id] = Moved(mem.tasks[r.id], r)]
      BY <1>0, <1>6, <2>4, Applied
    <3>4. mem.tasks[r.id] \in Task /\ mem.tasks[r.id].st # "succeeded"
      <4>1. Requeued(mem.tasks[r.id]).st # "succeeded"
        BY <1>0, <2>4, <3>1
      <4>2. QED
        BY <1>0, <2>4, <4>1 DEF Requeued, Terminal
    <3>5. Requeued(Moved(mem.tasks[r.id], r)) = Restored(m)[r.id]
      BY <1>0, <1>6, <2>4, <3>2, <3>4, RequeueMoved
    <3> HIDE DEF m, new
    <3>6. DOMAIN new.tasks = EnqIds(m)
      BY <1>0, <2>1, <3>3
    <3>7. ASSUME NEW t \in EnqIds(m) PROVE Requeued(new.tasks[t]) = Restored(m)[t]
      <4>1. CASE t = r.id
        BY <1>0, <2>4, <3>3, <3>5, <4>1
      <4>2. CASE t # r.id
        BY <1>0, <2>1, <2>2, <3>3, <4>2
      <4>3. QED
        BY <4>1, <4>2
    <3>8. Reads(new, m)
      BY <1>1, <1>4, <3>6, <3>7 DEF Reads
    <3>9. QED
      BY <3>8 DEF m, new
  <2>5. QED
    BY <2>3, <2>4
<1>7. QED
  BY <1>5, <1>6

LEMMA ReadsNothing == Reads(Empty, <<>>)
<1>1. Empty \in Mem
  <2>1. <<>> \in [{} -> Task] /\ <<>> \in [{} -> TaskId]
    OBVIOUS
  <2>2. QED
    BY <2>1, MemOf DEF Empty
<1>2. EnqIds(<<>>) = {}
  BY DEF EnqIds, Positions
<1>3. \A k : KeyPositions(<<>>, k) = {}
  BY DEF KeyPositions
<1>4. RestoredIdem(<<>>) = <<>>
  BY <1>3 DEF RestoredIdem
<1>5. DOMAIN Empty.tasks = {} /\ Empty.idem = <<>>
  BY DEF Empty
<1>6. QED
  BY <1>1, <1>2, <1>4, <1>5 DEF Reads

\* The loop of Restore and the description of its result agree on every journal in
\* which the submission of a task is its first record and its success the last
\* (queue.go: Restore).
THEOREM RestoreLoopCorrect ==
  ASSUME NEW l \in Seq(Record), EnqFirst(l), OkLast(l)
  PROVE  ReplayLoop(l) = [tasks |-> Restored(l), idem |-> RestoredIdem(l)]
<1>1. DOMAIN l = 1..Len(l) /\ Len(l) \in Nat
  OBVIOUS
<1> DEFINE T == {n \in Nat : n <= Len(l) => Reads(Loaded(l)[1..n], Prefix(l, n))}
<1>2. 0 \in T
  <2>1. 1..0 = {} /\ Prefix(l, 0) = <<>>
    BY DEF Prefix
  <2>2. {} \in SUBSET (DOMAIN l)
    OBVIOUS
  <2>3. Loaded(l)[{}] = Empty
    BY <2>2, LoadedSteps
  <2>4. QED
    BY <2>1, <2>3, ReadsNothing
<1>3. ASSUME NEW n \in T, n + 1 <= Len(l)
      PROVE  Reads(Loaded(l)[1..(n + 1)], Prefix(l, n + 1))
  <2>1. n \in Nat /\ n <= Len(l) /\ Reads(Loaded(l)[1..n], Prefix(l, n))
    BY <1>1, <1>3
  <2> DEFINE q == n + 1
             s == 1..q
  <2>2. /\ q \in Nat /\ q \in 1..Len(l) /\ s \in SUBSET (DOMAIN l) /\ s # {}
        /\ q \in s /\ \A i \in s : i <= q
    <3>1. q \in Nat /\ q >= 1 /\ q <= Len(l)
      BY <1>1, <1>3, <2>1
    <3> HIDE DEF q
    <3>2. \A i \in 1..q : i \in 1..Len(l) /\ i <= q
      BY <1>1, <3>1
    <3>3. q \in 1..q
      BY <3>1
    <3>4. QED
      BY <1>1, <3>1, <3>2, <3>3
  <2>3. Max(s) = q
    <3> HIDE DEF s
    <3>1. Max(s) \in s /\ q <= Max(s) /\ Max(s) \in 1..Len(l)
      BY <2>2, LastPosition
    <3>2. QED
      BY <2>2, <3>1
  <2>4. s \ {q} = 1..n
    BY <2>1
  <2>5. Loaded(l)[s] = Apply(Loaded(l)[1..n], l[q])
    <3> HIDE DEF s
    <3>1. QED
      BY <2>2, <2>3, <2>4, LoadedSteps
  <2>6. /\ l[q] \in Record
        /\ Prefix(l, n) \in Seq(Record) /\ Prefix(l, q) = Append(Prefix(l, n), l[q])
    BY <2>1, <2>2 DEF Prefix
  <2>7. EnqFirst(Prefix(l, q)) /\ OkLast(Prefix(l, q))
    <3>1. Len(Prefix(l, q)) = q /\ \A i \in 1..q : Prefix(l, q)[i] = l[i] /\ i \in 1..Len(l)
      BY <2>2, PrefixIds
    <3>2. QED
      BY <3>1 DEF EnqFirst, OkLast
  <2> HIDE DEF q, s
  <2>8. Reads(Loaded(l)[s], Prefix(l, q))
    BY <2>1, <2>5, <2>6, <2>7, ReadsOn
  <2>9. QED
    BY <2>8 DEF q, s
<1>4. T = Nat
  <2>1. T \in SUBSET Nat /\ \A n \in T : n + 1 \in T
    BY <1>3
  <2> HIDE DEF T
  <2>2. QED
    BY <1>2, <2>1, AllNaturals
<1>5. Reads(Loaded(l)[DOMAIN l], l)
  <2>1. Len(l) \in T /\ Len(l) <= Len(l)
    BY <1>1, <1>4
  <2>2. Reads(Loaded(l)[1..Len(l)], Prefix(l, Len(l)))
    BY <2>1
  <2>3. QED
    BY <1>1, <2>2, WholePrefix
<1> DEFINE mem == Loaded(l)[DOMAIN l]
           ts == [t \in DOMAIN mem.tasks |-> Requeued(mem.tasks[t])]
<1>6. ReplayLoop(l) = [tasks |-> ts, idem |-> mem.idem]
  BY <1>5, ReplayIsRequeued DEF Reads
<1>7. ts = Restored(l)
  <2>1. Restored(l) \in [EnqIds(l) -> Task]
    BY RestoredType
  <2> HIDE DEF mem
  <2>2. DOMAIN mem.tasks = EnqIds(l)
        /\ \A t \in EnqIds(l) : Requeued(mem.tasks[t]) = Restored(l)[t]
    BY <1>5 DEF mem, Reads
  <2>3. QED
    BY <2>1, <2>2
<1>8. mem.idem = RestoredIdem(l)
  BY <1>5 DEF Reads
<1>9. QED
  BY <1>6, <1>7, <1>8
=============================================================================
