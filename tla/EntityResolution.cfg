SPECIFICATION FairSpec
CONSTANTS
  Chunks = {c1, c2}
  Reviews = {r1, r2, r3}
  MaxObjects = 3
  ChunkSize = 2
  Restricted = {2}
  Cleared = {c1, r1, r2}
INVARIANTS DecisionsAreTrue NoMergeCycle
PROPERTIES ReviewEnds
CHECK_DEADLOCK FALSE
