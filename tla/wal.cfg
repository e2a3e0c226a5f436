SPECIFICATION FairSpec
CONSTANTS
  r1 = r1
  r2 = r2
  Record <- TwoRecords
  Snapshot <- OneSnapshot
  MaxLen = 3
  MaxErrors = 3
INVARIANTS
  WalTypeOK
  CleanIsWritten
PROPERTIES
  ImplementsJournal
  BufferGetsFlushed
