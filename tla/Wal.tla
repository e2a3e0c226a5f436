-------------------------------- MODULE Wal --------------------------------
(***************************************************************************)
(* The write-ahead log (internal/store/wal.go): a buffered writer over an  *)
(* append-only file, a ticker that flushes it, a compaction that replaces  *)
(* the file by a new one, and the repair Replay performs at start.  It     *)
(* implements the contract Journal that the queue relies on.               *)
(*                                                                         *)
(* A file is [recs, filed, stable]: recs are the records accepted for it,  *)
(* of which "filed" HALF-records have left the buffer for the file and     *)
(* "stable" records have been fsynced.  An odd "filed" is a torn line.     *)
(* Replay cuts the file at the first line it cannot read, so whatever      *)
(* order the kernel wrote the blocks in, a prefix is left.                 *)
(*                                                                         *)
(* WAL.mu is held by each append, by each tick of syncLoop and by a        *)
(* compaction from beginning to end: while step # "no" nothing else runs.  *)
(* The death of the process inside a compaction is CompactStops, followed  *)
(* by a restart.                                                           *)
(*                                                                         *)
(* Only a compaction fsyncs the directory.  Neither the creation of the    *)
(* first journal nor a rename whose compaction stopped is made durable by  *)
(* anything later but the end of another compaction: a power failure may   *)
(* take it back (NameLost).  Nothing else breaks the contract.             *)
(***************************************************************************)
EXTENDS Integers, Sequences

CONSTANTS Record,    \* what a line of the journal may be
          Snapshot,  \* the sequences of records a compaction may be given
          MaxLen,    \* bound of the model: records in a file
          MaxErrors  \* bound of the model: failures of the file system and deaths
                     \* inside a compaction; every other crash is free

ASSUME WalAssumption == /\ Snapshot \subseteq Seq(Record)
                        /\ {MaxLen, MaxErrors} \subseteq Nat

VARIABLES cur,       \* the file behind WAL.f, or the one the next start will find
          tmp,       \* journal.log.new, while a compaction runs
          previous,  \* the file this process has replaced, while the directory on
                     \* disk may still name it
          lingering, \* the files it may name instead, because the directory was not
                     \* fsynced after an earlier process had replaced (or created) one
          dirty,     \* WAL.dirty
          writer,    \* "ok", "failed" (bufio keeps its first error) or "discard"
          step,      \* how far the running compaction is, "no" if there is none
          ioErrors   \* how often the file system has failed, or a compaction died

vars == <<cur, tmp, previous, lingering, dirty, writer, step, ioErrors>>

Max(a, b) == IF a > b THEN a ELSE b
Prefix(l, n) == SubSeq(l, 1, n)
NewFile(s)  == [recs |-> s, filed |-> 2 * Len(s), stable |-> 0]
Complete(f) == Prefix(f.recs, f.filed \div 2)   \* the records the file holds

\* The first journal.log has been created; a file that is missing at the next
\* start is created again, empty.
Init == /\ cur = NewFile(<<>>) /\ tmp = {} /\ previous = {}
        /\ lingering = {NewFile(<<>>)}
        /\ dirty = FALSE /\ writer = "ok" /\ step = "no"
        /\ ioErrors = 0

IOError == ioErrors < MaxErrors /\ ioErrors' = ioErrors + 1
Between == step = "no" /\ UNCHANGED <<tmp, step>>
Idle    == Between /\ UNCHANGED <<previous, lingering>>
Roomy   == Len(cur.recs) < MaxLen

-----------------------------------------------------------------------------
(* append, with and without fsync. *)

\* The buffer takes the record and may write any part of itself to the file.
AppendLazyClean(r) ==
  /\ Idle /\ writer = "ok" /\ Roomy
  /\ cur' = [cur EXCEPT !.recs = Append(@, r)]
  /\ UNCHANGED <<dirty, writer, ioErrors>>

AppendLazy(r) ==
  /\ Idle /\ writer = "ok" /\ Roomy
  /\ \E n \in cur.filed .. 2 * Len(cur.recs) + 2 :
       cur' = [cur EXCEPT !.recs = Append(@, r), !.filed = n]
  /\ dirty' = TRUE
  /\ UNCHANGED <<writer, ioErrors>>

\* Flush, then Sync: the records buffered earlier go down with this one.
AppendSync(r) ==
  /\ Idle /\ writer = "ok" /\ Roomy
  /\ cur' = [recs |-> Append(cur.recs, r), filed |-> 2 * Len(cur.recs) + 2,
             stable |-> Len(cur.recs) + 1]
  /\ dirty' = FALSE
  /\ UNCHANGED <<writer, ioErrors>>

AppendSyncFails(r) ==
  /\ Idle /\ writer = "ok" /\ Roomy /\ IOError
  /\ cur' = [cur EXCEPT !.recs = Append(@, r), !.filed = 2 * Len(cur.recs) + 2]
  /\ dirty' = TRUE
  /\ UNCHANGED writer

\* The file takes only a part of the buffer, at most "reach" half-records.
FileRefuses(reach) ==
  /\ Idle /\ writer = "ok" /\ IOError
  /\ \E n \in cur.filed .. reach : cur' = [cur EXCEPT !.filed = n]
  /\ writer' = "failed"

\* The line that breaks off may be that of the append that reports the error.
\* Only an append that got its record into the buffer has set dirty.
WriteFails == FileRefuses(2 * Len(cur.recs) + 1) /\ dirty' \in {dirty, TRUE}

\* After a compaction that stopped half-way: io.Discard takes the record, and
\* an fsync of the closed file fails.
AppendToNowhere == /\ Idle /\ writer = "discard"
                   /\ dirty' = TRUE
                   /\ UNCHANGED <<cur, writer, ioErrors>>

-----------------------------------------------------------------------------
(* A tick of syncLoop.  With a writer that is not "ok" it changes nothing. *)

FlushStaysDirty == /\ Idle /\ dirty /\ writer = "ok"
                   /\ cur' = [cur EXCEPT !.filed = 2 * Len(cur.recs),
                                         !.stable = Len(cur.recs)]
                   /\ UNCHANGED <<dirty, writer, ioErrors>>

Flush == /\ Idle /\ dirty /\ writer = "ok"
         /\ cur' = [cur EXCEPT !.filed = 2 * Len(cur.recs), !.stable = Len(cur.recs)]
         /\ dirty' = FALSE
         /\ UNCHANGED <<writer, ioErrors>>

FlushFails == /\ dirty /\ UNCHANGED dirty
              /\ \/ FileRefuses(2 * Len(cur.recs) - 1)
                 \/ /\ Idle /\ writer = "ok" /\ IOError
                    /\ cur' = [cur EXCEPT !.filed = 2 * Len(cur.recs)]
                    /\ UNCHANGED writer

-----------------------------------------------------------------------------
(* Compact. *)

Proceed(from, to) == step = from /\ step' = to /\ UNCHANGED ioErrors

BeginCompact(s) == /\ Proceed("no", "written")
                   /\ tmp' = {NewFile(s)}
                   /\ UNCHANGED <<cur, previous, lingering, dirty, writer>>

SyncTmp == /\ Proceed("written", "synced")
           /\ tmp' = {[f EXCEPT !.stable = Len(f.recs)] : f \in tmp}
           /\ UNCHANGED <<cur, previous, lingering, dirty, writer>>

\* Creating, writing, fsyncing or closing the new file fails, and it is removed;
\* so it is when the old file is still closed from an earlier compaction.
CompactGivesUp == /\ \/ step \in {"no", "written", "synced"} /\ IOError
                     \/ step = "synced" /\ writer = "discard" /\ UNCHANGED ioErrors
                  /\ step' = "no" /\ tmp' = {}
                  /\ UNCHANGED <<cur, previous, lingering, dirty, writer>>

\* The buffer is dropped and the old file closed.
CloseOld == /\ Proceed("synced", "closed")
            /\ writer # "discard"
            /\ UNCHANGED <<cur, tmp, previous, lingering, dirty, writer>>

\* What is left of a file nobody writes any more.
Abandoned(f) == [recs |-> Complete(f), filed |-> 2 * (f.filed \div 2), stable |-> f.stable]

Rename == /\ Proceed("closed", "renamed")
          /\ previous' = {Abandoned(cur)}
          /\ UNCHANGED <<cur, tmp, lingering, dirty, writer>>

\* The directory now names the new file on disk too, whatever it named before.
SyncDirSkipped == /\ Proceed("renamed", "durable")
                  /\ UNCHANGED <<cur, tmp, previous, lingering, dirty, writer>>
SyncDir == /\ Proceed("renamed", "durable")
           /\ previous' = {} /\ lingering' = {}
           /\ UNCHANGED <<cur, tmp, dirty, writer>>

Reopen == /\ Proceed("durable", "no")
          /\ cur' \in tmp /\ tmp' = {}
          /\ writer' = "ok" /\ dirty' = FALSE
          /\ UNCHANGED <<previous, lingering>>

\* An error from CloseOld on, or the death of the process: the handle is not
\* replaced.  After the rename the next start finds the new file; but if it
\* follows a power failure that precedes SyncDir it may find the old one.
CompactStops ==
  /\ step \in {"synced", "closed", "renamed", "durable"} /\ IOError
  /\ writer # "discard"
  /\ \/ step \in {"synced", "closed"} /\ UNCHANGED <<cur, previous, lingering>>
     \/ step \in {"renamed", "durable"} /\ cur' \in tmp /\ UNCHANGED <<previous, lingering>>
     \/ step = "renamed" /\ UNCHANGED cur /\ previous' = {} /\ lingering' = {}
  /\ step' = "no" /\ tmp' = {} /\ writer' = "discard"
  /\ UNCHANGED dirty

-----------------------------------------------------------------------------
(* The process dies, possibly while "pending" is being appended, and the next *)
(* one opens the file and replays it.                                         *)

\* n half-records of f are in the file Replay reads: a torn last line is cut
\* off, and what remains is fsynced.
ReplayLeavingTail(f, n, synced) ==
  cur' = [recs |-> Prefix(f.recs, n \div 2), filed |-> n,
          stable |-> IF n % 2 = 1 THEN n \div 2 ELSE synced]
Replay(f, n, synced) ==
  cur' = [recs |-> Prefix(f.recs, n \div 2), filed |-> 2 * (n \div 2),
          stable |-> IF n % 2 = 1 THEN n \div 2 ELSE synced]

\* What the dying process may still have written of its buffer.
Reaches(f) == IF writer = "ok" THEN 2 * Len(f.recs) ELSE f.filed

\* A killed process leaves the page cache intact, and the directory on disk as
\* it was; a power failure leaves what is on disk, and what Replay finds is then
\* there to stay.
Killed  == lingering' = lingering \cup previous /\ previous' = {}
Settled == lingering' = {} /\ previous' = {}
Opened  == Between /\ writer' = "ok" /\ dirty' = FALSE /\ UNCHANGED ioErrors

\* The file found may be the one this process has replaced, unless its compaction
\* has stopped: CompactStops has then said which of the two it is.
Crash(pending) ==
  /\ Opened
  /\ pending # <<>> => writer = "ok" /\ Roomy
  /\ LET f == [cur EXCEPT !.recs = @ \o pending]
     IN  \/ Killed /\ \E n \in f.filed .. Max(f.filed, Reaches(f)) : Replay(f, n, f.stable)
         \/ Settled /\ \E n \in 2 * f.stable .. Max(f.filed, Reaches(f)) :
                          Replay(f, n, n \div 2)
         \/ Settled /\ writer # "discard" /\ \E old \in previous :
              \E n \in 2 * old.stable .. old.filed : Replay(old, n, n \div 2)

\* A power failure takes back a rename, or the creation of the journal, that no
\* fsync of the directory has covered although a process has started since: the
\* file it left behind is opened again.
NameLost == /\ Opened /\ Settled
            /\ \E old \in lingering : \E n \in 2 * old.stable .. old.filed :
                 Replay(old, n, n \div 2)

\* An orderly end: the last flush succeeds, and the next start finds everything.
\* When that flush fails, or the writer has failed before, it is a Crash(<<>>).
Close ==
  /\ Opened /\ Killed /\ writer = "ok"
  /\ Replay(cur, 2 * Len(cur.recs), Len(cur.recs))

-----------------------------------------------------------------------------
Tick == Flush \/ FlushFails
Compaction == \/ SyncTmp \/ CompactGivesUp \/ CloseOld \/ Rename \/ SyncDir \/ Reopen
              \/ CompactStops

Next == \/ \E r \in Record : \/ AppendLazy(r) \/ AppendSync(r) \/ AppendSyncFails(r)
                              \/ AppendToNowhere
        \/ WriteFails
        \/ Flush \/ FlushFails
        \/ \E s \in Snapshot : BeginCompact(s)
        \/ SyncTmp \/ CompactGivesUp \/ CloseOld \/ Rename \/ SyncDir \/ Reopen
        \/ CompactStops
        \/ Close \/ NameLost
        \/ \E p \in {<<>>} \cup {<<r>> : r \in Record} : Crash(p)

\* The ticker fires for ever and a compaction runs on to its end; Go's mutex
\* hands itself to a waiter that has waited for long.
Spec == Init /\ [][Next]_vars
FairSpec == Spec /\ WF_vars(Tick) /\ WF_vars(Compaction /\ step # "no")

-----------------------------------------------------------------------------
IsFile(f) == /\ f \in [recs : Seq(Record), filed : Nat, stable : Nat]
             /\ f.stable <= f.filed \div 2
             /\ f.filed <= 2 * Len(f.recs) + 1

\* Every variable stays in its range; in particular a working writer never
\* appends after a torn line, because Replay has truncated it.
WalTypeOK == /\ \A f \in {cur} \cup tmp \cup previous \cup lingering : IsFile(f)
             /\ \A f, g \in tmp : f = g
             /\ dirty \in BOOLEAN /\ writer \in {"ok", "failed", "discard"}
             /\ step \in {"no", "written", "synced", "closed", "renamed", "durable"}
             /\ step = "no" <=> tmp = {}
             /\ writer = "ok" => cur.filed <= 2 * Len(cur.recs)
             /\ ioErrors \in Nat

\* While dirty is unset nothing sits in the buffer alone: a tick that sees no
\* dirt has nothing to lose (append, flushLocked, Compact, Replay).
CleanIsWritten == writer = "ok" /\ ~dirty => cur.filed = 2 * Len(cur.recs)

\* Seen from the queue: the contract of Journal.
Accepted == IF writer = "ok" THEN cur.recs ELSE Complete(cur)
Handle   == IF writer = "discard" THEN "detached" ELSE writer

Journal == INSTANCE Journal WITH
  log <- Accepted, synced <- cur.stable, dirty <- dirty, handle <- Handle

\* The write-ahead log implements the contract (wal.go against the interface of
\* store.go): every step is one of the contract's, whatever fails and wherever a
\* compaction stops, with the one exception NameLost, a power failure that takes
\* back a change of the directory no fsync has covered.  The log starts afresh
\* after it: the old file is as good a journal as any.
ImplementsJournal == Journal!Init /\ [][Journal!Next \/ NameLost]_(Journal!journalVars)

\* The buffer never stays dirty for ever: the window in which a record exists
\* in memory only is closed by the ticker or by the end of a compaction.
BufferGetsFlushed == []<>(~dirty \/ writer # "ok")
=============================================================================
