------------------------------- MODULE MCWal -------------------------------
(* Two kinds of record, and one snapshot, of two.  The journal need not have  *)
(* held what it is replaced by.                                               *)
EXTENDS Wal

CONSTANTS r1, r2
TwoRecords == {r1, r2}
OneSnapshot == {<<r2, r1>>}
=============================================================================
