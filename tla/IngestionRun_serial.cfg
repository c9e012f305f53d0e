SPECIFICATION SerialSpec
CONSTANTS
  Attempts = {a1, a2, a3, a4}
  NoAttempt = NoAttempt
  NumRows = 4
  ChunkSize = 2
  BadRows <- OneBadRow
  EdgeTemplate = TRUE
SYMMETRY AttemptSymmetry
INVARIANTS
  ExactlyOnce
  CheckpointIsPrefix
  CompletedHasEveryRow
  AuditIsTruthful
PROPERTY JobRefinement
CHECK_DEADLOCK FALSE
