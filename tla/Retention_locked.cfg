SPECIFICATION MCSpec
CONSTANTS
  person = person
  company = company
  q1 = q1
  q2 = q2
  s1 = s1
  s2 = s2
  Requests = {q1, q2}
  Objects <- TwoObjects
  Edges <- OneEdge
  Classified <- OnlyThePerson
  Cleared = {q1, q2}
  Real = Real
  None = None
  Sweeps = {s1}
  Expired <- AllExpired
  BatchSize = 1
  MaxLoad = 7
PROPERTIES LockedIsFinal
CHECK_DEADLOCK FALSE
