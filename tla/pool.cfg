SPECIFICATION FairSpec
CONSTANTS
  p1 = p1 p2 = p2 x1 = x1 x2 = x2 x3 = x3
  Calls <- TwoClients
  Producers = {p1, p2}
  Consumers = {w1, w2}
  Owner = owner
  Stoppers = {owner}
  Items = {x1, x2, x3}
  Throwing = {x1}
  Size = 2
  None = None
INVARIANTS
  TypeOK
  SlotsExclusive
  TailIsStable
  AllOrNone
  ClientsReleased
PROPERTIES
  ImplementsFIFO
  AcceptedRuns
  DestructorReturns
  EnqueueEnds
