\* As many runs as connections: the pool can get stuck (CHECK_DEADLOCK).
SPECIFICATION FairSpec
CONSTANTS
  Runs = {run1, run2, run3}
  Requests = {client1, client2}
  PoolSize = 3
  Chunks = 1
INVARIANTS PoolExact StuckOnLocksOnly
PROPERTIES EveryoneServed
CHECK_DEADLOCK FALSE
