----------------------------- MODULE WalProofs -----------------------------
(***************************************************************************)
(* The write-ahead log implements the contract Journal, for any records,   *)
(* any snapshots, any length and any number of failures.                   *)
(***************************************************************************)
EXTENDS Wal, TLAPS

-----------------------------------------------------------------------------
(* Prefixes of a sequence. *)

LEMMA PrefixType ==
  ASSUME NEW l \in Seq(Record), NEW n \in 0..Len(l)
  PROVE  /\ Prefix(l, n) \in Seq(Record) /\ Len(Prefix(l, n)) = n
         /\ \A i \in 1..n : Prefix(l, n)[i] = l[i]
BY DEF Prefix

\* Sequences of one length that agree everywhere are one.
LEMMA SameSequence ==
  ASSUME NEW l \in Seq(Record), NEW m \in Seq(Record), Len(l) = Len(m),
         \A i \in 1..Len(l) : l[i] = m[i]
  PROVE  l = m
OBVIOUS

LEMMA WholePrefix ==
  ASSUME NEW l \in Seq(Record)
  PROVE  Prefix(l, Len(l)) = l
<1>1. Len(l) \in 0..Len(l)
  OBVIOUS
<1>2. QED
  BY <1>1, PrefixType, SameSequence

LEMMA PrefixOfPrefix ==
  ASSUME NEW l \in Seq(Record), NEW n \in 0..Len(l), NEW k \in 0..n
  PROVE  Prefix(Prefix(l, n), k) = Prefix(l, k)
<1>1. Prefix(l, n) \in Seq(Record) /\ Len(Prefix(l, n)) = n
      /\ \A i \in 1..n : Prefix(l, n)[i] = l[i]
  BY PrefixType
<1>2. Prefix(Prefix(l, n), k) \in Seq(Record) /\ Len(Prefix(Prefix(l, n), k)) = k
      /\ \A i \in 1..k : Prefix(Prefix(l, n), k)[i] = Prefix(l, n)[i]
  BY <1>1, PrefixType
<1>3. k \in 0..Len(l) /\ Prefix(l, k) \in Seq(Record) /\ Len(Prefix(l, k)) = k
      /\ \A i \in 1..k : Prefix(l, k)[i] = l[i]
  BY PrefixType
<1>4. \A i \in 1..k : Prefix(Prefix(l, n), k)[i] = Prefix(l, k)[i]
  BY <1>1, <1>2, <1>3
<1>5. QED
  BY <1>2, <1>3, <1>4, SameSequence

-----------------------------------------------------------------------------
(* The invariant.  A file under construction is complete, and durable before *)
(* anything is done to the old one; only a compaction that has not given up  *)
(* the old file's handle goes on beyond that; and the file this process has  *)
(* replaced can only be found while the rename is not durable, or after the  *)
(* compaction has stopped there.                                             *)

Replacement(f) == /\ f.recs \in Snapshot
                  /\ f.filed = 2 * Len(f.recs)
                  /\ step # "written" => f.stable = Len(f.recs)

CompactInv == /\ \A f \in tmp : Replacement(f)
              /\ step \in {"closed", "renamed", "durable"} => writer # "discard"
              /\ previous # {} => step = "renamed" \/ writer = "discard"

WalInv == WalTypeOK /\ CleanIsWritten /\ CompactInv

LEMMA NewFileType ==
  ASSUME NEW s \in Seq(Record)
  PROVE  /\ IsFile(NewFile(s)) /\ NewFile(s).recs = s
         /\ NewFile(s).filed = 2 * Len(s) /\ NewFile(s).stable = 0
BY DEF IsFile, NewFile

LEMMA InvInit == Init => WalInv
<1> SUFFICES ASSUME Init PROVE WalInv
  OBVIOUS
<1>1. <<>> \in Seq(Record) /\ Len(<<>>) = 0
  OBVIOUS
<1>2. IsFile(cur) /\ cur.recs = <<>> /\ cur.filed = 2 * Len(cur.recs)
  BY <1>1, NewFileType DEF Init
<1>3. cur.filed <= 2 * Len(cur.recs)
  BY <1>1, <1>2
<1>4. QED
  BY <1>2, <1>3 DEF Init, WalInv, WalTypeOK, CleanIsWritten, CompactInv

\* What a restart makes of a file of which n half-records are found.
LEMMA ReplayedFile ==
  ASSUME NEW f, IsFile(f), NEW n \in 0 .. 2 * Len(f.recs) + 1,
         NEW synced \in 0 .. n \div 2, Replay(f, n, synced)
  PROVE  /\ IsFile(cur') /\ cur'.filed = 2 * Len(cur'.recs)
         /\ cur'.recs = Prefix(f.recs, n \div 2) /\ Len(cur'.recs) = n \div 2
         /\ cur'.stable \in {synced, n \div 2}
<1>1. n \div 2 \in 0..Len(f.recs) /\ f.recs \in Seq(Record)
  BY DEF IsFile
<1>2. Prefix(f.recs, n \div 2) \in Seq(Record) /\ Len(Prefix(f.recs, n \div 2)) = n \div 2
  BY <1>1, PrefixType
<1> DEFINE p == Prefix(f.recs, n \div 2)
           m == n \div 2
           st == IF n % 2 = 1 THEN m ELSE synced
<1>3. st \in 0..m /\ m \in Nat /\ st \in {synced, m}
  OBVIOUS
<1>4. cur' = [recs |-> p, filed |-> 2 * m, stable |-> st]
  BY DEF Replay
<1>5. p \in Seq(Record) /\ Len(p) = m
  BY <1>2
<1>6. cur'.recs = p /\ cur'.filed = 2 * m /\ cur'.stable = st
  BY <1>4
<1> HIDE DEF p, m, st
<1>7. IsFile(cur')
  BY <1>3, <1>4, <1>5 DEF IsFile
<1>8. QED
  BY <1>3, <1>5, <1>6, <1>7 DEF p, m

\* The steps outside a compaction keep to the current file.
LEMMA IdleSteps ==
  ASSUME WalInv, Idle, IsFile(cur'), dirty' \in BOOLEAN,
         writer = "discard" => writer' = "discard",
         writer' \in {"ok", "failed", "discard"}, ioErrors' \in Nat,
         writer' = "ok" => cur'.filed <= 2 * Len(cur'.recs),
         writer' = "ok" /\ ~dirty' => cur'.filed = 2 * Len(cur'.recs)
  PROVE  WalInv'
<1>1. /\ tmp = {} /\ tmp' = {} /\ step = "no" /\ step' = "no"
      /\ previous' = previous /\ lingering' = lingering
      /\ previous # {} => writer = "discard"
  BY DEF WalInv, WalTypeOK, CompactInv, Idle, Between
<1>2. QED
  BY <1>1 DEF WalInv, WalTypeOK, CompactInv, CleanIsWritten

\* A start forgets what was replaced, or leaves it to a power failure.
LEMMA OpenedFile ==
  ASSUME WalInv, Opened, Killed \/ Settled, IsFile(cur'), cur'.filed = 2 * Len(cur'.recs)
  PROVE  WalInv'
<1>1. /\ tmp = {} /\ tmp' = {} /\ step' = "no" /\ previous' = {}
      /\ lingering' \subseteq lingering \cup previous
      /\ writer' = "ok" /\ dirty' = FALSE /\ ioErrors' = ioErrors
  BY DEF WalInv, WalTypeOK, Opened, Between, Killed, Settled
<1>2. cur'.filed <= 2 * Len(cur'.recs)
  BY DEF IsFile
<1>3. \A f \in {cur'} \cup tmp' \cup previous' \cup lingering' : IsFile(f)
  BY <1>1 DEF WalInv, WalTypeOK
<1>4. QED
  BY <1>1, <1>2, <1>3 DEF WalInv, WalTypeOK, CompactInv, CleanIsWritten

LEMMA AbandonedFile ==
  ASSUME NEW f, IsFile(f)
  PROVE  IsFile(Abandoned(f))
<1>1. /\ f.recs \in Seq(Record) /\ f.filed \in Nat /\ f.stable \in Nat
      /\ f.stable <= f.filed \div 2 /\ f.filed \div 2 \in 0..Len(f.recs)
  BY DEF IsFile
<1>2. Complete(f) \in Seq(Record) /\ Len(Complete(f)) = f.filed \div 2
  BY <1>1, PrefixType DEF Complete
<1> DEFINE m == f.filed \div 2
<1>3. Abandoned(f) = [recs |-> Complete(f), filed |-> 2 * m, stable |-> f.stable]
  BY DEF Abandoned
<1>4. m \in Nat /\ 2 * m \in Nat /\ (2 * m) \div 2 = m
  BY <1>1
<1> HIDE DEF m
<1>5. QED
  BY <1>1, <1>2, <1>3, <1>4 DEF IsFile, m

LEMMA AppendedFile ==
  ASSUME IsFile(cur), NEW r \in Record, NEW n \in cur.filed .. 2 * Len(cur.recs) + 2,
         NEW s \in {cur.stable, Len(cur.recs) + 1},
         s <= n \div 2
  PROVE  LET f == [recs |-> Append(cur.recs, r), filed |-> n, stable |-> s]
         IN  IsFile(f) /\ f.filed <= 2 * Len(f.recs) /\ Len(f.recs) = Len(cur.recs) + 1
             /\ f.recs = Append(cur.recs, r) /\ f.filed = n /\ f.stable = s
BY DEF IsFile

LEMMA WalAppends ==
  ASSUME WalInv, NEW r \in Record
  PROVE  AppendLazy(r) \/ AppendSync(r) \/ AppendSyncFails(r) \/ AppendToNowhere => WalInv'
<1>0. IsFile(cur) /\ dirty \in BOOLEAN /\ ioErrors \in Nat /\ MaxErrors \in Nat
      /\ writer \in {"ok", "failed", "discard"}
      /\ (writer = "ok" => cur.filed <= 2 * Len(cur.recs))
  BY WalAssumption DEF WalInv, WalTypeOK
<1>a. cur.recs \in Seq(Record) /\ cur.filed \in Nat /\ cur.stable \in Nat /\ Len(cur.recs) \in Nat
      /\ cur = [recs |-> cur.recs, filed |-> cur.filed, stable |-> cur.stable]
      /\ cur.stable <= cur.filed \div 2
  BY <1>0 DEF IsFile
<1>1. ASSUME AppendLazy(r) PROVE WalInv'
  <2>1. PICK n \in cur.filed .. 2 * Len(cur.recs) + 2 :
          cur' = [cur EXCEPT !.recs = Append(@, r), !.filed = n]
    BY <1>1 DEF AppendLazy
  <2>2. cur' = [recs |-> Append(cur.recs, r), filed |-> n, stable |-> cur.stable]
    BY <2>1, <1>a
  <2>3. cur.stable <= n \div 2
    BY <1>a
  <2>4. IsFile(cur') /\ cur'.filed <= 2 * Len(cur'.recs)
    BY <1>0, <2>2, <2>3, AppendedFile
  <2>5. QED
    BY <1>0, <1>1, <2>4, IdleSteps DEF AppendLazy
<1>2. ASSUME AppendSync(r) PROVE WalInv'
  <2>1. cur' = [recs |-> Append(cur.recs, r), filed |-> 2 * Len(cur.recs) + 2,
                stable |-> Len(cur.recs) + 1]
    BY <1>2 DEF AppendSync
  <2>2. 2 * Len(cur.recs) + 2 \in cur.filed .. 2 * Len(cur.recs) + 2
        /\ Len(cur.recs) + 1 <= (2 * Len(cur.recs) + 2) \div 2
    BY <1>0, <1>2, <1>a DEF AppendSync
  <2>3. IsFile(cur') /\ cur'.filed <= 2 * Len(cur'.recs) /\ cur'.filed = 2 * Len(cur'.recs)
    BY <1>a, <2>1 DEF IsFile
  <2>4. QED
    BY <1>0, <1>2, <2>3, IdleSteps DEF AppendSync
<1>3. ASSUME AppendSyncFails(r) PROVE WalInv'
  <2>1. cur' = [recs |-> Append(cur.recs, r), filed |-> 2 * Len(cur.recs) + 2,
                stable |-> cur.stable]
    BY <1>3, <1>a DEF AppendSyncFails
  <2>2. Append(cur.recs, r) \in Seq(Record) /\ Len(Append(cur.recs, r)) = Len(cur.recs) + 1
    BY <1>a
  <2>3. /\ 2 * Len(cur.recs) + 2 \in Nat /\ 2 * Len(cur.recs) + 2 = 2 * (Len(cur.recs) + 1)
        /\ cur.stable <= (2 * Len(cur.recs) + 2) \div 2
    BY <1>0, <1>3, <1>a DEF AppendSyncFails
  <2>5. IsFile(cur') /\ cur'.filed <= 2 * Len(cur'.recs)
    <3>1. /\ cur'.recs = Append(cur.recs, r) /\ cur'.filed = 2 * Len(cur.recs) + 2
          /\ cur'.stable = cur.stable
      BY <2>1
    <3>2. cur' \in [recs : Seq(Record), filed : Nat, stable : Nat]
      BY <1>a, <2>1, <2>2, <2>3
    <3>3. QED
      BY <1>a, <2>2, <2>3, <3>1, <3>2 DEF IsFile
  <2>4. QED
    BY <1>0, <1>3, <2>5, IdleSteps DEF AppendSyncFails, IOError
<1>4. ASSUME AppendToNowhere PROVE WalInv'
  BY <1>0, <1>4, IdleSteps DEF AppendToNowhere
<1>5. QED
  BY <1>1, <1>2, <1>3, <1>4

LEMMA WalFlushes == WalInv => (WriteFails \/ Flush \/ FlushFails => WalInv')
<1> SUFFICES ASSUME WalInv PROVE WriteFails \/ Flush \/ FlushFails => WalInv'
  OBVIOUS
<1>0. IsFile(cur) /\ dirty \in BOOLEAN /\ ioErrors \in Nat
      /\ (writer = "ok" => cur.filed <= 2 * Len(cur.recs))
  BY DEF WalInv, WalTypeOK
<1>a. cur \in [recs : Seq(Record), filed : Nat, stable : Nat] /\ cur.stable <= cur.filed \div 2
      /\ Len(cur.recs) \in Nat
  BY <1>0 DEF IsFile
<1>1. ASSUME NEW reach \in Int, reach <= 2 * Len(cur.recs) + 1, FileRefuses(reach)
      PROVE  /\ IsFile(cur') /\ writer = "ok" /\ writer' = "failed"
             /\ ioErrors' \in Nat /\ Idle
  <2>1. PICK n \in cur.filed .. reach : cur' = [cur EXCEPT !.filed = n]
    BY <1>1 DEF FileRefuses
  <2>2. n \in cur.filed .. 2 * Len(cur.recs) + 1 /\ cur.stable <= n \div 2
    BY <1>1, <1>a
  <2>3. IsFile(cur')
    BY <1>a, <2>1, <2>2 DEF IsFile
  <2>4. QED
    BY <1>0, <1>1, <2>3 DEF FileRefuses, IOError
<1>2. ASSUME WriteFails PROVE WalInv'
  <2>1. 2 * Len(cur.recs) + 1 \in Int /\ 2 * Len(cur.recs) + 1 <= 2 * Len(cur.recs) + 1
    BY <1>a
  <2>2. FileRefuses(2 * Len(cur.recs) + 1)
    BY <1>2 DEF WriteFails
  <2>3. IsFile(cur') /\ writer = "ok" /\ writer' = "failed" /\ ioErrors' \in Nat /\ Idle
    BY <1>1, <2>1, <2>2
  <2>4. QED
    BY <1>0, <1>2, <2>3, IdleSteps DEF WriteFails
<1>3. ASSUME Flush PROVE WalInv'
  <2>0. cur' = [recs |-> cur.recs, filed |-> 2 * Len(cur.recs), stable |-> Len(cur.recs)]
    BY <1>3, <1>a DEF Flush
  <2>1. IsFile(cur') /\ cur'.filed = 2 * Len(cur'.recs) /\ cur'.filed <= 2 * Len(cur'.recs)
    BY <1>a, <2>0 DEF IsFile
  <2>2. QED
    BY <1>0, <1>3, <2>1, IdleSteps DEF Flush
<1>4. ASSUME FlushFails PROVE WalInv'
  <2>1. CASE FileRefuses(2 * Len(cur.recs) - 1)
    <3>1. 2 * Len(cur.recs) - 1 \in Int /\ 2 * Len(cur.recs) - 1 <= 2 * Len(cur.recs) + 1
      BY <1>a
    <3>2. IsFile(cur') /\ writer = "ok" /\ writer' = "failed" /\ ioErrors' \in Nat /\ Idle
      BY <1>1, <2>1, <3>1
    <3>3. QED
      BY <1>0, <1>4, <3>2, IdleSteps DEF FlushFails
  <2>2. CASE ~FileRefuses(2 * Len(cur.recs) - 1)
    <3>1. /\ Idle /\ writer = "ok" /\ IOError /\ UNCHANGED <<writer, dirty>> /\ dirty
          /\ cur' = [cur EXCEPT !.filed = 2 * Len(cur.recs)]
      BY <1>4, <2>2 DEF FlushFails
    <3>2. IsFile(cur') /\ cur'.filed <= 2 * Len(cur'.recs)
      BY <1>0, <1>a, <3>1 DEF IsFile
    <3>3. QED
      BY <1>0, <3>1, <3>2, IdleSteps DEF IOError
  <2>3. QED
    BY <2>1, <2>2
<1>5. QED
  BY <1>2, <1>3, <1>4

\* A compaction touches the current file only when it ends.
LEMMA WalCompacts ==
  ASSUME WalInv
  PROVE  /\ \A s \in Snapshot : BeginCompact(s) => WalInv'
         /\ Compaction => WalInv'
<1>0. /\ \A f \in {cur} \cup tmp \cup previous \cup lingering : IsFile(f)
      /\ \A f, g \in tmp : f = g
      /\ \A f \in tmp : Replacement(f)
      /\ ioErrors \in Nat /\ (step = "no" <=> tmp = {})
  BY DEF WalInv, WalTypeOK, CompactInv
<1>1. ASSUME NEW s \in Snapshot, BeginCompact(s) PROVE WalInv'
  <2>1. s \in Seq(Record)
    BY WalAssumption
  <2>2. /\ tmp' = {NewFile(s)} /\ step = "no" /\ step' = "written"
        /\ UNCHANGED <<cur, previous, lingering, dirty, writer, ioErrors>>
    BY <1>1 DEF BeginCompact, Proceed
  <2>3. previous # {} => writer = "discard"
    BY <2>2 DEF WalInv, CompactInv
  <2>4. IsFile(NewFile(s)) /\ NewFile(s).recs = s /\ NewFile(s).filed = 2 * Len(s)
    BY <2>1, NewFileType
  <2>5. CompactInv'
    BY <2>2, <2>3, <2>4 DEF CompactInv, Replacement
  <2>6. WalTypeOK'
    BY <2>2, <2>3, <2>4 DEF WalInv, WalTypeOK
  <2>7. QED
    BY <2>2, <2>5, <2>6 DEF WalInv, CleanIsWritten
<1>2. ASSUME SyncTmp PROVE WalInv'
  <2>1. /\ step = "written" /\ step' = "synced"
        /\ UNCHANGED <<cur, previous, lingering, dirty, writer, ioErrors>>
        /\ tmp' = {[f EXCEPT !.stable = Len(f.recs)] : f \in tmp}
    BY <1>2 DEF SyncTmp, Proceed
  <2>2. previous # {} => writer = "discard"
    BY <2>1 DEF WalInv, CompactInv
  <2>3. ASSUME NEW f \in tmp
        PROVE  LET g == [f EXCEPT !.stable = Len(f.recs)]
               IN  /\ IsFile(g) /\ g.recs \in Snapshot /\ g.filed = 2 * Len(g.recs)
                   /\ g.stable = Len(g.recs)
    <3>1. /\ f \in [recs : Seq(Record), filed : Nat, stable : Nat]
          /\ f.recs \in Snapshot /\ f.filed = 2 * Len(f.recs)
      BY <1>0, <2>3 DEF IsFile, Replacement
    <3> DEFINE g == [recs |-> f.recs, filed |-> f.filed, stable |-> Len(f.recs)]
    <3>2. [f EXCEPT !.stable = Len(f.recs)] = g
      BY <3>1
    <3>3. IsFile(g) /\ g.recs = f.recs /\ g.filed = f.filed /\ g.stable = Len(f.recs)
      BY <3>1 DEF IsFile
    <3> HIDE DEF g
    <3>4. QED
      BY <3>1, <3>2, <3>3
  <2>4. CompactInv'
    BY <2>1, <2>2, <2>3 DEF CompactInv, Replacement
  <2>5. WalTypeOK'
    <3>1. (\A f, g \in tmp : f = g)' /\ tmp' # {}
      BY <1>0, <2>1
    <3>2. (\A f \in {cur} \cup tmp \cup previous \cup lingering : IsFile(f))'
      BY <1>0, <2>1, <2>2, <2>3
    <3>3. QED
      BY <2>1, <3>1, <3>2 DEF WalInv, WalTypeOK
  <2>6. QED
    BY <2>1, <2>4, <2>5 DEF WalInv, CleanIsWritten
<1>3. ASSUME CompactGivesUp PROVE WalInv'
  <2>1. /\ previous # {} => writer = "discard"
        /\ step' = "no" /\ tmp' = {} /\ ioErrors' \in Nat
        /\ UNCHANGED <<cur, previous, lingering, dirty, writer>>
    BY <1>0, <1>3 DEF CompactGivesUp, IOError, WalInv, CompactInv
  <2>2. QED
    BY <2>1 DEF WalInv, WalTypeOK, CleanIsWritten, CompactInv
<1>4. ASSUME CloseOld PROVE WalInv'
  <2>1. /\ step = "synced" /\ step' = "closed" /\ writer # "discard"
        /\ UNCHANGED <<cur, tmp, previous, lingering, dirty, writer, ioErrors>>
    BY <1>4 DEF CloseOld, Proceed
  <2>2. previous = {}
    BY <2>1 DEF WalInv, CompactInv
  <2>3. QED
    BY <2>1, <2>2 DEF WalInv, WalTypeOK, CleanIsWritten, CompactInv, Replacement
<1>5. ASSUME Rename PROVE WalInv'
  <2>1. /\ step = "closed" /\ step' = "renamed" /\ previous' = {Abandoned(cur)}
        /\ UNCHANGED <<cur, tmp, lingering, dirty, writer, ioErrors>>
    BY <1>5 DEF Rename, Proceed
  <2>2. IsFile(Abandoned(cur))
    BY <1>0, AbandonedFile
  <2>3. QED
    BY <2>1, <2>2 DEF WalInv, WalTypeOK, CleanIsWritten, CompactInv, Replacement
<1>6. ASSUME SyncDir PROVE WalInv'
  <2>1. /\ step = "renamed" /\ step' = "durable" /\ previous' = {} /\ lingering' = {}
        /\ UNCHANGED <<cur, tmp, dirty, writer, ioErrors>>
    BY <1>6 DEF SyncDir, Proceed
  <2>2. QED
    BY <2>1 DEF WalInv, WalTypeOK, CleanIsWritten, CompactInv, Replacement
<1>7. ASSUME Reopen PROVE WalInv'
  <2>1. /\ step = "durable" /\ step' = "no" /\ cur' \in tmp /\ tmp' = {}
        /\ writer' = "ok" /\ dirty' = FALSE /\ UNCHANGED <<previous, lingering, ioErrors>>
    BY <1>7 DEF Reopen, Proceed
  <2>2. previous = {}
    BY <2>1 DEF WalInv, CompactInv
  <2>3. IsFile(cur') /\ cur'.filed = 2 * Len(cur'.recs)
    BY <1>0, <2>1 DEF Replacement
  <2>4. cur'.filed <= 2 * Len(cur'.recs)
    BY <2>3 DEF IsFile
  <2>5. QED
    BY <1>0, <2>1, <2>2, <2>3, <2>4 DEF WalInv, WalTypeOK, CleanIsWritten, CompactInv
<1>8. ASSUME CompactStops PROVE WalInv'
  <2>1. /\ step' = "no" /\ tmp' = {} /\ writer' = "discard"
        /\ dirty' = dirty /\ ioErrors' \in Nat
        /\ cur' \in {cur} \cup tmp
        /\ previous' \in {previous, {}} /\ lingering' \in {lingering, {}}
    BY <1>0, <1>8 DEF CompactStops, IOError
  <2>2. \A f \in {cur'} \cup tmp' \cup previous' \cup lingering' : IsFile(f)
    BY <1>0, <2>1
  <2>3. QED
    BY <2>1, <2>2 DEF WalInv, WalTypeOK, CleanIsWritten, CompactInv
<1>9. QED
  BY <1>1, <1>2, <1>3, <1>4, <1>5, <1>6, <1>7, <1>8 DEF Compaction

\* What the queue sees of a file.
LEMMA AcceptedType ==
  ASSUME WalInv
  PROVE  /\ cur.recs \in Seq(Record) /\ Len(cur.recs) \in Nat
         /\ cur.filed \in Nat /\ cur.stable \in Nat /\ cur.stable <= cur.filed \div 2
         /\ cur.filed <= 2 * Len(cur.recs) + 1 /\ cur.filed \div 2 \in 0..Len(cur.recs)
         /\ Accepted \in Seq(Record) /\ Len(Accepted) \in Nat
         /\ cur.stable \in 0..Len(Accepted)
         /\ writer = "ok" => Accepted = cur.recs /\ cur.filed <= 2 * Len(cur.recs)
         /\ writer # "ok" => /\ Accepted = Prefix(cur.recs, cur.filed \div 2)
                             /\ Len(Accepted) = cur.filed \div 2
<1>1. /\ cur.recs \in Seq(Record) /\ Len(cur.recs) \in Nat
      /\ cur.filed \in Nat /\ cur.stable \in Nat /\ cur.stable <= cur.filed \div 2
      /\ cur.filed <= 2 * Len(cur.recs) + 1
      /\ writer = "ok" => cur.filed <= 2 * Len(cur.recs)
  BY DEF WalInv, WalTypeOK, IsFile
<1>2. cur.filed \div 2 \in 0..Len(cur.recs)
  BY <1>1
<1>3. /\ Prefix(cur.recs, cur.filed \div 2) \in Seq(Record)
      /\ Len(Prefix(cur.recs, cur.filed \div 2)) = cur.filed \div 2
  BY <1>1, <1>2, PrefixType
<1>4. CASE writer = "ok"
  BY <1>1, <1>2, <1>4 DEF Accepted
<1>5. CASE writer # "ok"
  BY <1>1, <1>2, <1>3, <1>5 DEF Accepted, Complete
<1>6. QED
  BY <1>4, <1>5

LEMMA ExtendedFile ==
  ASSUME NEW f \in [recs : Seq(Record), filed : Nat, stable : Nat], NEW l
  PROVE  [f EXCEPT !.recs = l] = [recs |-> l, filed |-> f.filed, stable |-> f.stable]
OBVIOUS

LEMMA CrashedFile ==
  ASSUME WalInv, NEW p \in {<<>>} \cup {<<r>> : r \in Record}, Crash(p)
  PROVE  \E k \in cur.stable .. Len(Accepted \o p) :
           /\ IsFile(cur') /\ cur'.filed = 2 * Len(cur'.recs)
           /\ cur'.recs = Prefix(Accepted \o p, k) /\ Len(cur'.recs) = k
           /\ cur'.stable \in {cur.stable, k}
           /\ Killed \/ Settled
<1> DEFINE f == [recs |-> cur.recs \o p, filed |-> cur.filed, stable |-> cur.stable]
<1>1. p \in Seq(Record) /\ Len(p) \in Nat
  <2>1. CASE p = <<>>
    BY <2>1
  <2>2. CASE p # <<>>
    <3>1. PICK r \in Record : p = <<r>>
      BY <2>2
    <3>2. QED
      BY <3>1
  <2>3. QED
    BY <2>1, <2>2
<1>2. /\ f.recs = cur.recs \o p /\ f.filed = cur.filed /\ f.stable = cur.stable
      /\ f.recs \in Seq(Record) /\ Len(f.recs) = Len(cur.recs) + Len(p)
  BY <1>1, AcceptedType
<1>3. IsFile(f)
  BY <1>1, <1>2, AcceptedType DEF IsFile
<1>4. [cur EXCEPT !.recs = @ \o p] = f
  <2>1. IsFile(cur)
    BY DEF WalInv, WalTypeOK
  <2>2. cur \in [recs : Seq(Record), filed : Nat, stable : Nat]
    BY <2>1 DEF IsFile
  <2>3. QED
    BY <2>2, ExtendedFile
<1>5. writer # "discard" => previous = {}
  BY DEF WalInv, CompactInv, Crash, Opened, Between
<1> HIDE DEF f
<1>6. /\ Killed \/ Settled
      /\ \E n \in Nat : \E synced \in {f.stable, n \div 2} :
           n <= Max(f.filed, Reaches(f)) /\ f.stable <= n \div 2 /\ Replay(f, n, synced)
  <2>1. CASE Killed /\ \E n \in f.filed .. Max(f.filed, Reaches(f)) : Replay(f, n, f.stable)
    <3>1. PICK n \in f.filed .. Max(f.filed, Reaches(f)) : Replay(f, n, f.stable)
      BY <2>1
    <3>2. n \in Nat /\ n <= Max(f.filed, Reaches(f)) /\ f.stable <= n \div 2
      BY <1>2, <3>1, AcceptedType
    <3>3. QED
      BY <2>1, <3>1, <3>2
  <2>2. CASE Settled /\ \E n \in 2 * f.stable .. Max(f.filed, Reaches(f)) :
                             Replay(f, n, n \div 2)
    <3>1. PICK n \in 2 * f.stable .. Max(f.filed, Reaches(f)) : Replay(f, n, n \div 2)
      BY <2>2
    <3>2. n \in Nat /\ n <= Max(f.filed, Reaches(f)) /\ f.stable <= n \div 2
      BY <1>2, <3>1, AcceptedType
    <3>3. QED
      BY <2>2, <3>1, <3>2
  <2>3. QED
    BY <1>4, <1>5, <2>1, <2>2 DEF Crash
<1>7. PICK n \in Nat : \E synced \in {f.stable, n \div 2} :
         n <= Max(f.filed, Reaches(f)) /\ f.stable <= n \div 2 /\ Replay(f, n, synced)
  BY <1>6
<1>8. PICK synced \in {f.stable, n \div 2} :
         n <= Max(f.filed, Reaches(f)) /\ f.stable <= n \div 2 /\ Replay(f, n, synced)
  BY <1>7
<1>9. /\ n \in 0 .. 2 * Len(f.recs) + 1 /\ synced \in 0 .. n \div 2
      /\ writer # "ok" => n <= cur.filed
  <2>1. Max(f.filed, Reaches(f)) <= 2 * Len(f.recs) + 1
    BY <1>1, <1>2, AcceptedType DEF Max, Reaches
  <2>2. writer # "ok" => Max(f.filed, Reaches(f)) = cur.filed
    BY <1>2, AcceptedType DEF Max, Reaches
  <2>3. Max(f.filed, Reaches(f)) \in Nat
    BY <1>1, <1>2, AcceptedType DEF Max, Reaches
  <2>4. n <= 2 * Len(f.recs) + 1
    BY <1>1, <1>2, <1>8, <2>1, <2>3, AcceptedType
  <2>5. synced \in 0 .. n \div 2
    BY <1>2, <1>8, AcceptedType
  <2>6. QED
    BY <1>1, <1>2, <1>8, <2>2, <2>4, <2>5, AcceptedType
<1> DEFINE k == n \div 2
<1>10. /\ IsFile(cur') /\ cur'.filed = 2 * Len(cur'.recs)
       /\ cur'.recs = Prefix(f.recs, k) /\ Len(cur'.recs) = k
       /\ cur'.stable \in {synced, k}
  BY <1>3, <1>8, <1>9, ReplayedFile
<1>11. cur'.stable \in {cur.stable, k}
  BY <1>2, <1>8, <1>10
<1>12. k \in Nat /\ cur.stable <= k /\ k \in 0..Len(f.recs)
  BY <1>1, <1>2, <1>8, <1>9, AcceptedType
<1>13. k <= Len(Accepted \o p) /\ Prefix(f.recs, k) = Prefix(Accepted \o p, k)
  <2>1. CASE writer = "ok"
    BY <1>2, <1>12, <2>1, AcceptedType
  <2>2. CASE writer # "ok"
    <3>1. p = <<>>
      BY <2>2 DEF Crash
    <3>2. Accepted \o p = Accepted /\ f.recs = cur.recs
      BY <1>2, <3>1, AcceptedType
    <3>3. k \in 0 .. cur.filed \div 2
      BY <1>9, <1>12, <2>2, AcceptedType
    <3>4. Prefix(Prefix(cur.recs, cur.filed \div 2), k) = Prefix(cur.recs, k)
      BY <3>3, AcceptedType, PrefixOfPrefix
    <3>5. QED
      BY <2>2, <3>2, <3>3, <3>4, AcceptedType
  <2>3. QED
    BY <2>1, <2>2
<1>14. k \in cur.stable .. Len(Accepted \o p)
  BY <1>1, <1>12, <1>13, AcceptedType
<1>15. QED
  BY <1>6, <1>10, <1>11, <1>13, <1>14

LEMMA HalfOfTwice ==
  ASSUME NEW n \in Nat
  PROVE  2 * n \in 0 .. 2 * n + 1 /\ n \in 0 .. (2 * n) \div 2 /\ (2 * n) \div 2 = n
OBVIOUS

LEMMA ClosedFile ==
  ASSUME WalInv, Close
  PROVE  /\ IsFile(cur') /\ cur'.filed = 2 * Len(cur'.recs)
         /\ cur'.recs = cur.recs /\ cur'.stable = Len(cur.recs)
<1>1. /\ 2 * Len(cur.recs) \in 0 .. 2 * Len(cur.recs) + 1
      /\ Len(cur.recs) \in 0 .. (2 * Len(cur.recs)) \div 2
      /\ (2 * Len(cur.recs)) \div 2 = Len(cur.recs)
  <2>1. Len(cur.recs) \in Nat
    BY AcceptedType
  <2>2. QED
    BY <2>1, HalfOfTwice
<1>2. IsFile(cur) /\ Replay(cur, 2 * Len(cur.recs), Len(cur.recs))
  BY DEF WalInv, WalTypeOK, Close
<1>3. /\ IsFile(cur') /\ cur'.filed = 2 * Len(cur'.recs)
      /\ cur'.recs = Prefix(cur.recs, Len(cur.recs))
      /\ cur'.stable \in {Len(cur.recs)}
  BY <1>1, <1>2, ReplayedFile
<1>4. QED
  BY <1>3, WholePrefix, AcceptedType

\* The file a power failure brings back is as good as any.
LEMMA OldFileFound ==
  ASSUME WalInv, NameLost
  PROVE  IsFile(cur') /\ cur'.filed = 2 * Len(cur'.recs)
<1>1. PICK old \in lingering : \E n \in 2 * old.stable .. old.filed : Replay(old, n, n \div 2)
  BY DEF NameLost
<1>2. PICK n \in 2 * old.stable .. old.filed : Replay(old, n, n \div 2)
  BY <1>1
<1>3. IsFile(old)
  BY DEF WalInv, WalTypeOK
<1>4. n \in 0 .. 2 * Len(old.recs) + 1 /\ n \div 2 \in 0 .. n \div 2
  <2>1. /\ old.stable \in Nat /\ old.filed \in Nat /\ Len(old.recs) \in Nat
        /\ old.filed <= 2 * Len(old.recs) + 1
    BY <1>3 DEF IsFile
  <2>2. QED
    BY <1>2, <2>1
<1>5. QED
  BY <1>2, <1>3, <1>4, ReplayedFile

LEMMA WalRestarts ==
  ASSUME WalInv
  PROVE  /\ Close => WalInv'
         /\ NameLost => WalInv'
         /\ \A p \in {<<>>} \cup {<<r>> : r \in Record} : Crash(p) => WalInv'
<1>1. ASSUME Close PROVE WalInv'
  BY <1>1, ClosedFile, OpenedFile DEF Close
<1>2. ASSUME NameLost PROVE WalInv'
  BY <1>2, OldFileFound, OpenedFile DEF NameLost
<1>3. ASSUME NEW p \in {<<>>} \cup {<<r>> : r \in Record}, Crash(p) PROVE WalInv'
  <2>1. IsFile(cur') /\ cur'.filed = 2 * Len(cur'.recs) /\ (Killed \/ Settled)
    BY <1>3, CrashedFile
  <2>2. QED
    BY <1>3, <2>1, OpenedFile DEF Crash
<1>4. QED
  BY <1>1, <1>2, <1>3

LEMMA InvStep == WalInv /\ [Next]_vars => WalInv'
<1> SUFFICES ASSUME WalInv, [Next]_vars PROVE WalInv'
  OBVIOUS
<1>1. CASE UNCHANGED vars
  BY <1>1 DEF vars, WalInv, WalTypeOK, CleanIsWritten, CompactInv, Replacement
<1>2. CASE Next
  BY <1>2, WalAppends, WalFlushes, WalCompacts, WalRestarts DEF Next, Compaction
<1>3. QED
  BY <1>1, <1>2

LEMMA WalInvariant == Spec => []WalInv
BY InvInit, InvStep, PTL DEF Spec

\* Files keep their shape, and a writer that works never appends behind a torn
\* line (wal.go: append, Compact, Replay).
THEOREM WalTypeCorrect == Spec => []WalTypeOK
<1>1. WalInv => WalTypeOK
  BY DEF WalInv
<1>2. QED
  BY <1>1, WalInvariant, PTL

\* The dirty flag never misses a buffered record, so that the tick that finds it
\* unset has nothing to flush (wal.go: syncLoop, append, Compact).
THEOREM CleanWritten == Spec => []CleanIsWritten
<1>1. WalInv => CleanIsWritten
  BY DEF WalInv
<1>2. QED
  BY <1>1, WalInvariant, PTL

-----------------------------------------------------------------------------
(* The refinement: each step of the log is a step of the contract, or none. *)

LEMMA RefinesInit == Init => Journal!Init
<1>1. ASSUME Init PROVE Journal!Init
  <2>1. cur.recs = <<>> /\ cur.stable = 0
    BY <1>1 DEF Init, NewFile
  <2>2. QED
    BY <1>1, <2>1 DEF Init, Journal!Init, Accepted, Handle
<1>2. QED
  BY <1>1

\* A step that neither the queue nor a crash can tell from none.
LEMMA Stutters ==
  ASSUME cur'.recs = cur.recs, cur'.stable = cur.stable,
         writer' = "ok" \/ cur'.filed = cur.filed, UNCHANGED <<dirty, writer>>
  PROVE  UNCHANGED Journal!journalVars
BY DEF Journal!journalVars, Accepted, Handle, Complete

LEMMA RefinesAppends ==
  ASSUME WalInv, NEW r \in Record
  PROVE  AppendLazy(r) \/ AppendSync(r) \/ AppendSyncFails(r) \/ AppendToNowhere
           => Journal!Next
<1>1. ASSUME AppendLazy(r) PROVE Journal!AppendLazy(r)
  <2>1. PICK n \in cur.filed .. 2 * Len(cur.recs) + 2 :
          cur' = [cur EXCEPT !.recs = Append(@, r), !.filed = n]
    BY <1>1 DEF AppendLazy
  <2>2. cur'.recs = Append(cur.recs, r) /\ cur'.stable = cur.stable
    <3>1. cur = [recs |-> cur.recs, filed |-> cur.filed, stable |-> cur.stable]
      BY DEF WalInv, WalTypeOK, IsFile
    <3>2. QED
      BY <2>1, <3>1
  <2>3. QED
    BY <1>1, <2>2 DEF AppendLazy, Journal!AppendLazy, Accepted, Handle
<1>2. ASSUME AppendSync(r) PROVE Journal!AppendSync(r)
  <2>1. cur'.recs = Append(cur.recs, r) /\ cur'.stable = Len(cur.recs) + 1
    BY <1>2 DEF AppendSync
  <2>2. QED
    BY <1>2, <2>1 DEF AppendSync, Journal!AppendSync, Accepted, Handle
<1>3. ASSUME AppendSyncFails(r) PROVE Journal!SyncError(r)
  <2>1. cur'.recs = Append(cur.recs, r) /\ cur'.stable = cur.stable
    <3>1. cur = [recs |-> cur.recs, filed |-> cur.filed, stable |-> cur.stable]
      BY DEF WalInv, WalTypeOK, IsFile
    <3>2. QED
      BY <1>3, <3>1 DEF AppendSyncFails
  <2>2. QED
    BY <1>3, <2>1 DEF AppendSyncFails, Journal!SyncError, Accepted, Handle
<1>4. ASSUME AppendToNowhere PROVE Journal!AppendLazy(r)
  BY <1>4 DEF AppendToNowhere, Journal!AppendLazy, Accepted, Handle, Complete
<1>5. QED
  BY <1>1, <1>2, <1>3, <1>4 DEF Journal!Next, Journal!AppendSyncFails

LEMMA RefinesFlushes ==
  ASSUME WalInv
  PROVE  WriteFails \/ Flush \/ FlushFails => [Journal!Next]_(Journal!journalVars)
<1>0. cur = [recs |-> cur.recs, filed |-> cur.filed, stable |-> cur.stable]
  BY DEF WalInv, WalTypeOK, IsFile
<1>1. ASSUME NEW reach \in Int, reach <= 2 * Len(cur.recs) + 1, FileRefuses(reach),
             dirty' \in {dirty, TRUE}
      PROVE  Journal!WriteError
  <2>1. PICK n \in cur.filed .. reach : cur' = [cur EXCEPT !.filed = n]
    BY <1>1 DEF FileRefuses
  <2>2. /\ cur' = [recs |-> cur.recs, filed |-> n, stable |-> cur.stable]
        /\ writer = "ok" /\ writer' = "failed"
    BY <1>0, <1>1, <2>1 DEF FileRefuses
  <2>3. n \div 2 \in cur.stable .. Len(cur.recs)
    BY <1>1, <2>1, AcceptedType
  <2>4. Accepted = cur.recs /\ Accepted' = SubSeq(cur.recs, 1, n \div 2)
    BY <2>2 DEF Accepted, Complete, Prefix
  <2>5. Handle = "ok" /\ Handle' = "failed" /\ cur'.stable = cur.stable
    BY <2>2 DEF Handle
  <2>6. QED
    BY <1>1, <2>3, <2>4, <2>5 DEF Journal!WriteError, Journal!KeepPrefix
<1>2. ASSUME WriteFails PROVE Journal!WriteError
  <2>1. 2 * Len(cur.recs) + 1 \in Int /\ 2 * Len(cur.recs) + 1 <= 2 * Len(cur.recs) + 1
    BY AcceptedType
  <2>2. FileRefuses(2 * Len(cur.recs) + 1) /\ dirty' \in {dirty, TRUE}
    BY <1>2 DEF WriteFails
  <2>3. QED
    BY <1>1, <2>1, <2>2
<1>3. ASSUME Flush PROVE Journal!Flush
  <2>1. cur' = [recs |-> cur.recs, filed |-> 2 * Len(cur.recs), stable |-> Len(cur.recs)]
    BY <1>0, <1>3 DEF Flush
  <2>2. QED
    BY <1>3, <2>1 DEF Flush, Journal!Flush, Accepted, Handle
<1>4. ASSUME FlushFails PROVE Journal!WriteError \/ UNCHANGED Journal!journalVars
  <2>1. CASE FileRefuses(2 * Len(cur.recs) - 1)
    <3>1. /\ 2 * Len(cur.recs) - 1 \in Int
          /\ 2 * Len(cur.recs) - 1 <= 2 * Len(cur.recs) + 1
      BY AcceptedType
    <3>2. dirty' \in {dirty, TRUE}
      BY <1>4 DEF FlushFails
    <3>3. QED
      BY <1>1, <2>1, <3>1, <3>2
  <2>2. CASE ~FileRefuses(2 * Len(cur.recs) - 1)
    <3>1. /\ writer = "ok" /\ UNCHANGED <<writer, dirty>>
          /\ cur' = [cur EXCEPT !.filed = 2 * Len(cur.recs)]
      BY <1>4, <2>2 DEF FlushFails
    <3>2. cur'.recs = cur.recs /\ cur'.stable = cur.stable
      BY <1>0, <3>1
    <3>3. QED
      BY <3>1, <3>2, Stutters
  <2>3. QED
    BY <2>1, <2>2
<1>5. QED
  BY <1>2, <1>3, <1>4 DEF Journal!Next, Journal!AppendLazyFails

LEMMA RefinesCompaction ==
  ASSUME WalInv
  PROVE  /\ \A s \in Snapshot : BeginCompact(s) => UNCHANGED Journal!journalVars
         /\ Compaction => [Journal!Next]_(Journal!journalVars)
<1>0. /\ \A f \in tmp : IsFile(f) /\ Replacement(f)
      /\ step = "no" <=> tmp = {}
      /\ step \in {"closed", "renamed", "durable"} => writer # "discard"
  BY DEF WalInv, WalTypeOK, CompactInv
<1>1. ASSUME NEW s \in Snapshot, BeginCompact(s) PROVE UNCHANGED Journal!journalVars
  BY <1>1, Stutters DEF BeginCompact
<1>2. SyncTmp \/ CompactGivesUp \/ CloseOld \/ Rename \/ SyncDir
        => UNCHANGED Journal!journalVars
  BY Stutters DEF SyncTmp, CompactGivesUp, CloseOld, Rename, SyncDir
<1>3. ASSUME Reopen PROVE \E s \in Snapshot : Journal!Compact(s)
  <2>1. /\ cur' \in tmp /\ step = "durable" /\ writer # "discard"
        /\ writer' = "ok" /\ dirty' = FALSE
    BY <1>0, <1>3 DEF Reopen, Proceed
  <2>2. cur'.recs \in Snapshot /\ cur'.stable = Len(cur'.recs)
    BY <1>0, <2>1 DEF Replacement
  <2>3. Accepted' = cur'.recs /\ Handle' = "ok" /\ Handle # "detached"
    BY <2>1, WalInv DEF Accepted, Handle, WalInv, WalTypeOK
  <2>4. Journal!Compact(cur'.recs)
    BY <2>1, <2>2, <2>3 DEF Journal!Compact
  <2>5. QED
    BY <2>2, <2>4
<1>4. ASSUME CompactStops PROVE \E s \in Snapshot : Journal!CompactFails(s)
  <2>1. /\ cur' = cur \/ (cur' \in tmp /\ step # "written")
        /\ writer # "discard" /\ writer' = "discard" /\ dirty' = dirty
        /\ step \in {"synced", "closed", "renamed", "durable"}
    BY <1>4 DEF CompactStops
  <2>2. PICK f \in tmp : TRUE
    BY <1>0, <2>1
  <2>3. f.recs \in Snapshot
    BY <1>0, <2>2 DEF Replacement
  <2>4. CASE cur' = cur
    <3>1. Handle # "detached" /\ Handle' = "detached" /\ cur'.stable = cur.stable
      BY <2>1, <2>4 DEF Handle, WalInv, WalTypeOK
    <3>2. Accepted' = Prefix(cur.recs, cur.filed \div 2)
      BY <2>1, <2>4 DEF Accepted, Complete
    <3>3. \E k \in cur.stable .. Len(Accepted) : Accepted' = SubSeq(Accepted, 1, k)
      <4>1. cur.filed \div 2 \in cur.stable .. Len(Accepted)
        BY AcceptedType
      <4>2. CASE writer = "ok"
        BY <3>2, <4>1, <4>2, AcceptedType DEF Prefix
      <4>3. CASE writer # "ok"
        <5>1. Prefix(Accepted, Len(Accepted)) = Accepted
          BY AcceptedType, WholePrefix
        <5>2. QED
          BY <3>2, <4>1, <4>3, <5>1, AcceptedType DEF Prefix
      <4>4. QED
        BY <4>2, <4>3
    <3>4. Journal!CompactFails(f.recs)
      BY <2>1, <3>1, <3>3 DEF Journal!CompactFails, Journal!KeepPrefix
    <3>5. QED
      BY <2>3, <3>4
  <2>6. CASE cur' # cur
    <3>1. cur' \in tmp /\ step # "written"
      BY <2>1, <2>6
    <3>2. /\ cur'.recs \in Snapshot /\ cur'.stable = Len(cur'.recs)
          /\ cur'.filed = 2 * Len(cur'.recs) /\ cur'.recs \in Seq(Record)
      BY <1>0, <3>1 DEF Replacement, IsFile
    <3>3. Complete(cur)' = cur'.recs
      <4>1. Len(cur'.recs) \in Nat
        BY <3>2
      <4>2. cur'.filed \div 2 = Len(cur'.recs)
        BY <3>2, <4>1, HalfOfTwice
      <4>3. QED
        BY <3>2, <4>2, WholePrefix DEF Complete
    <3>4. Accepted' = cur'.recs /\ Handle # "detached" /\ Handle' = "detached"
      BY <2>1, <2>6, <3>3 DEF Accepted, Handle, WalInv, WalTypeOK
    <3>5. Journal!CompactFails(cur'.recs)
      BY <2>1, <3>2, <3>4 DEF Journal!CompactFails
    <3>6. QED
      BY <3>2, <3>5
  <2>7. QED
    BY <2>4, <2>6
<1>5. QED
  BY <1>1, <1>2, <1>3, <1>4 DEF Compaction, Journal!Next

LEMMA RefinesRestarts ==
  ASSUME WalInv
  PROVE  /\ Close => Journal!Next
         /\ \A p \in {<<>>} \cup {<<r>> : r \in Record} : Crash(p) => Journal!Next
<1>1. ASSUME Close PROVE Journal!Crash(<<>>)
  <2>1. /\ cur'.recs = cur.recs /\ cur'.stable = Len(cur.recs)
        /\ writer = "ok" /\ writer' = "ok" /\ dirty' = FALSE
    BY <1>1, ClosedFile DEF Close, Opened
  <2>2. /\ Accepted = cur.recs /\ Accepted' = cur.recs /\ Accepted \o <<>> = cur.recs
        /\ Handle' = "ok" /\ cur'.stable = Len(Accepted')
    BY <2>1, AcceptedType DEF Accepted, Handle
  <2>3. SubSeq(cur.recs, 1, Len(cur.recs)) = cur.recs
    BY AcceptedType, WholePrefix DEF Prefix
  <2>4. Len(cur.recs) \in cur.stable .. Len(cur.recs)
    BY <2>2, AcceptedType
  <2>5. QED
    BY <2>1, <2>2, <2>3, <2>4 DEF Journal!Crash, Journal!KeepPrefix
<1>2. ASSUME NEW p \in {<<>>} \cup {<<r>> : r \in Record}, Crash(p)
      PROVE  Journal!Crash(p)
  <2>1. PICK k \in cur.stable .. Len(Accepted \o p) :
          /\ cur'.recs = Prefix(Accepted \o p, k) /\ Len(cur'.recs) = k
          /\ cur'.stable \in {cur.stable, k}
    BY <1>2, CrashedFile
  <2>2. Accepted' = cur'.recs /\ Handle' = "ok" /\ dirty' = FALSE
    BY <1>2 DEF Crash, Opened, Accepted, Handle
  <2>3. QED
    BY <2>1, <2>2 DEF Journal!Crash, Journal!KeepPrefix, Prefix
<1>3. QED
  BY <1>1, <1>2 DEF Journal!Next

LEMMA RefinesStep ==
  WalInv /\ [Next]_vars => [Journal!Next \/ NameLost]_(Journal!journalVars)
<1> SUFFICES ASSUME WalInv, [Next]_vars PROVE [Journal!Next \/ NameLost]_(Journal!journalVars)
  OBVIOUS
<1>1. CASE UNCHANGED vars
  BY <1>1, Stutters DEF vars
<1>2. CASE Next
  BY <1>2, RefinesAppends, RefinesFlushes, RefinesCompaction, RefinesRestarts
     DEF Next, Compaction
<1>3. QED
  BY <1>1, <1>2

\* The log keeps the contract the queue is built on, whatever fails and wherever
\* the process or the machine stops, in the middle of a compaction too (wal.go
\* against the interface of store.go).  What may break it is NameLost alone: a
\* power failure that takes back a creation or a rename of the file after which
\* the directory was never fsynced (wal.go:62; wal.go:322 when the compaction stops
\* before wal.go:328 has succeeded).
THEOREM Implements == Spec => ImplementsJournal
BY RefinesInit, RefinesStep, WalInvariant, PTL DEF Spec, ImplementsJournal
=============================================================================
