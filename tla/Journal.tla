------------------------------ MODULE Journal ------------------------------
(***************************************************************************)
(* The contract of store.Store that the queue builds on, as an             *)
(* implementation over a write-ahead log can give it.  Of the four kinds   *)
(* of append only AppendEnqueue returns after an fsync; the others may     *)
(* still be lost by a crash, but only from the tail, because all of them   *)
(* go through one buffer in order.                                         *)
(*                                                                         *)
(* log is every record accepted so far, in order.  Its first "synced"      *)
(* records survive any crash; of the rest a crash keeps some prefix.       *)
(* The directory is taken to name the file on disk, too: Wal says when it  *)
(* does not (NameLost), and then nothing promised here is worth much.      *)
(***************************************************************************)
EXTENDS Integers, Sequences

CONSTANTS Record,    \* what a line of the journal may be
          Snapshot   \* the sequences of records a compaction may write

VARIABLES log,      \* the records, oldest first
          synced,   \* how many of them fsync has covered
          dirty,    \* WAL.dirty: something was appended since the last fsync
          handle    \* "ok", "failed" (the buffered writer keeps its first
                    \* write error) or "detached" (a compaction stopped
                    \* between closing the old file and opening the new one)

journalVars == <<log, synced, dirty, handle>>

JournalTypeOK == /\ log \in Seq(Record)
                 /\ synced \in 0..Len(log)
                 /\ dirty \in BOOLEAN
                 /\ handle \in {"ok", "failed", "detached"}

Init == /\ log = <<>>
        /\ synced = 0
        /\ dirty = FALSE
        /\ handle = "ok"

\* A crash, or a failing write, keeps some prefix that contains all synced records.
KeepPrefix(l) == \E n \in synced..Len(l) : log' = SubSeq(l, 1, n)

-----------------------------------------------------------------------------
AppendSync(r) == /\ handle = "ok"
                 /\ log' = Append(log, r)
                 /\ synced' = Len(log) + 1
                 /\ dirty' = FALSE
                 /\ UNCHANGED handle

AppendLazy(r) == /\ \/ handle = "ok" /\ log' = Append(log, r)
                    \/ handle = "detached" /\ UNCHANGED log  \* goes to io.Discard
                 /\ dirty' = TRUE
                 /\ UNCHANGED <<synced, handle>>

\* The file refuses a write: what did not reach it stays in the buffer for
\* ever, and every later append returns the same error.
WriteError == /\ handle = "ok"
              /\ KeepPrefix(log)
              /\ handle' = "failed"
              /\ dirty' \in {dirty, TRUE}
              /\ UNCHANGED synced

StillFailed == handle = "failed" /\ UNCHANGED journalVars

\* The record is in the file, its fsync was not confirmed.
SyncError(r) == /\ handle = "ok"
                /\ log' = Append(log, r)
                /\ dirty' = TRUE
                /\ UNCHANGED <<synced, handle>>

\* A detached handle is a closed file: the buffer accepts, the fsync fails.
DetachedSync == /\ handle = "detached"
                /\ dirty' = TRUE
                /\ UNCHANGED <<log, synced, handle>>

AppendSyncFails(r) == WriteError \/ SyncError(r) \/ StillFailed \/ DetachedSync
AppendLazyFails    == WriteError \/ StillFailed

\* One tick of syncLoop that finds something to do.
Flush == /\ dirty
         /\ handle = "ok"
         /\ synced' = Len(log)
         /\ dirty' = FALSE
         /\ UNCHANGED <<log, handle>>

\* The tick that finds out that the file refuses a write.
FlushFails == dirty /\ WriteError

\* The new journal is complete and durable before it takes the old one's name.
Compact(s) == /\ handle # "detached"
              /\ log' = s
              /\ synced' = Len(s)
              /\ dirty' = FALSE
              /\ handle' = "ok"

CompactFailsUnsynced(s) ==
  \/ UNCHANGED journalVars
  \/ /\ handle # "detached" /\ handle' = "detached"
     /\ \E n \in 0..Len(s) : log' = SubSeq(s, 1, n)
     /\ synced' = Len(log')
     /\ UNCHANGED dirty

\* An error before the old file is closed leaves everything as it was; a later
\* one detaches the handle.  The next start then finds the old records that had
\* reached the file, synced or not, or, if the rename took effect, the snapshot.
CompactFails(s) ==
  \/ UNCHANGED journalVars
  \/ /\ handle # "detached"
     /\ \/ log' = s /\ synced' = Len(s)
        \/ KeepPrefix(log) /\ UNCHANGED synced
     /\ handle' = "detached"
     /\ UNCHANGED dirty

CrashCutAnywhere(pending) ==
  /\ \E n \in 0 .. Len(log \o pending) : log' = SubSeq(log \o pending, 1, n)
  /\ synced' = Len(log')
  /\ dirty' = FALSE
  /\ handle' = "ok"

\* The process stops while "pending" (a record or nothing) is being written,
\* and Replay reads what is left back.  What a power failure leaves is on the
\* disk; after a mere kill the file is as little synced as before, unless Replay
\* had to cut off a torn last record.
Crash(pending) == /\ KeepPrefix(log \o pending)
                  /\ synced' \in {synced, Len(log')}
                  /\ dirty' = FALSE
                  /\ handle' = "ok"

Next == \/ \E r \in Record : AppendSync(r) \/ AppendLazy(r) \/ AppendSyncFails(r)
        \/ AppendLazyFails
        \/ Flush \/ FlushFails
        \/ \E s \in Snapshot : Compact(s) \/ CompactFails(s)
        \/ \E p \in {<<>>} \cup {<<r>> : r \in Record} : Crash(p)

Spec == Init /\ [][Next]_journalVars
=============================================================================
