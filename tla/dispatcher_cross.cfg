SPECIFICATION Spec
CONSTANTS
  Clients = {c1}
  Workers = {w1, w2}
  None = None
  Starts = {"up"}
  Stops = {}
  Exits = {}
  Throwing = {}
  Fetches = {}
  MainTasks <- CrossMains
  SubTasks <- CrossSubs
  MainNames <- CrossMains
  SubNames <- CrossSubs
  MainName <- CrossName
  SubName <- CrossSubName
  SubtaskSize <- CrossSize
  Priority <- CrossPrio
  MainTaskName <- CrossMainOf
  Dependencies <- CrossDeps
  FetchName <- CrossAsks
  After <- CrossAfter
SYMMETRY Symmetry
INVARIANTS
  WaitsForAllDependencies
