SPECIFICATION Spec
CONSTANTS
  Clients = {c1, c2}
  Workers = {w1, w2}
  None = None
  Starts = {"up"}
  Stops = {"down"}
  Exits = {}
  Throwing = {"a1"}
  Fetches <- PairGets
  MainTasks <- PairMains
  SubTasks <- PairSubs
  MainNames <- PairMains
  SubNames <- PairSubs
  MainName <- PairName
  SubName <- PairSubName
  SubtaskSize <- PairSize
  Priority <- PairPrio
  MainTaskName <- PairMainOf
  Dependencies <- PairDeps
  FetchName <- PairAsks
  After <- PairAfter
SYMMETRY Symmetry
INVARIANTS
  TypeOK
  DependenciesFirst
  NoneLost
  NothingMissing
  ResultsIntact
  NotAllBlocked
  DispatchedInOrder
  DrainedWhenStopped
  CleanWhenQuiet
PROPERTIES
  HigherFirst
  ImplementsTaskGraph
