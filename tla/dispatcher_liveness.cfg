SPECIFICATION FairSpec
CONSTANTS
  Clients = {c1, c2}
  Workers = {w1}
  None = None
  Starts = {"up"}
  Stops = {"down"}
  Exits = {}
  Throwing = {"a2"}
  Fetches <- BothGets
  MainTasks <- BothMains
  SubTasks <- BothSubs
  MainNames <- BothMains
  SubNames <- BothSubs
  MainName <- BothName
  SubName <- BothSubName
  SubtaskSize <- BothSize
  Priority <- BothPrio
  MainTaskName <- BothMainOf
  Dependencies <- BothDeps
  FetchName <- BothAsks
  After <- BothAfter
INVARIANTS
  NotAllBlocked
  NoneLost
  ResultsIntact
PROPERTIES
  EveryCallReturns
