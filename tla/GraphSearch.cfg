SPECIFICATION Spec
CONSTANTS
  Nodes <- FiveNodes
  EdgePool <- SomeEdges
  Requests <- SomeRequests
  MaxHops = 4
  MaxEdges = 5
  Root = Root
  Unseen = Unseen
INVARIANTS PathIsShortest NotFoundIsDefinite
CHECK_DEADLOCK FALSE
