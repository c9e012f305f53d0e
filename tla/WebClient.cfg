SPECIFICATION Spec
CONSTANTS
  None = None
  Admins = {a1}
  Clerks = {u1}
  MaxPatches = 2
  Pairs = {1, 2, 3}
  Decisions = {merged, not_a_match}
  HastyPairs = {1, 2}
  PageSize = 2
  sanctions = sanctions
  ledger = ledger
  people = people
  payments = payments
  Sources = {sanctions, ledger}
  ObjectTemplates = {people}
  EdgeTemplates = {payments}
  SourceOf <- EachOfItsOwn
  MaxPicks = 2
  MaxRuns = 2
  Names = {name}
  UsedTogether <- FormSets
  MaxRows = 2
  MaxUnderWay = 2
  MaxPosts = 2
INVARIANTS AuditReplays OwnChangesShown DecidedPairsLeave RunMatchesItsSource OneRunPerPick OwnRowsListed
PROPERTIES QueueDrains PageCatchesUp
CHECK_DEADLOCK FALSE
