SPECIFICATION Spec
CONSTANTS
  Clients = {c1, c2}
  None = None
  MinInt <- MCMinInt
  MaxInt = 2
  Starts <- MCStarts
  Counts <- MCCounts
  Lists <- MCLists
INVARIANTS
  TypeOK
  Accounted
  NextIsFree
  BatchIntact
