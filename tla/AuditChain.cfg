SPECIFICATION FairSpec
CONSTANTS
  Requests = {r1, r2, r3, u1}
  Unaudited = {u1}
  Nobody = Nobody
INVARIANTS VerifyPasses NothingUnaudited ChainHolderNeverWaits
PROPERTIES WriterServed LogRefinement
CHECK_DEADLOCK FALSE
