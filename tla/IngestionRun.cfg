SPECIFICATION FairSpec
CONSTANTS
  Attempts = {a1, a2, a3}
  NoAttempt = NoAttempt
  NumRows = 3
  ChunkSize = 2
  BadRows <- OneBadRow
  EdgeTemplate = TRUE
INVARIANTS
  TypeOK
  OneWorker
  CountersExact
  CompletedIsCovered
PROPERTY LockIsFreed
CHECK_DEADLOCK FALSE
