SPECIFICATION Spec
CONSTANTS
  Attempts = {a1, a2, a3, a4}
  NoAttempt = NoAttempt
  NumRows = 3
  ChunkSize = 1
  BadRows <- NoBadRows
  EdgeTemplate = FALSE
SYMMETRY AttemptSymmetry
INVARIANT CompletedHasEveryRow
CHECK_DEADLOCK FALSE
