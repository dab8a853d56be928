SPECIFICATION Spec
CONSTANTS
  Clients = {c1, c2}
  Workers = {w1, w2}
  None = None
  Starts = {"up", "up2", "again"}
  Stops = {"down", "down2"}
  Exits = {"exit"}
  Throwing = {}
  Fetches = {}
  MainTasks <- LifeMains
  SubTasks <- LifeSubs
  MainNames <- LifeMains
  SubNames <- LifeSubs
  MainName <- LifeName
  SubName <- LifeSubName
  SubtaskSize <- LifeSize
  Priority <- LifePrio
  MainTaskName <- LifeMainOf
  Dependencies <- LifeDeps
  FetchName <- LifeAsks
  After <- LifeAfter
SYMMETRY Symmetry
INVARIANTS
  DrainedWhenStopped
  RingEmptyWhenStopped
PROPERTIES
  PoolIsFIFO
