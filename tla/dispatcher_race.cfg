SPECIFICATION Spec
CONSTANTS
  Clients = {c1}
  Workers = {w1}
  None = None
  Starts = {"up"}
  Stops = {"down"}
  Exits = {}
  Throwing = {}
  Fetches <- BothGets
  MainTasks <- BothMains
  SubTasks <- BothSubs
  MainNames <- BothMains
  SubNames <- BothSubs
  MainName <- BothName
  SubName <- BothSubName
  SubtaskSize <- BothSize
  Priority <- BothPrio
  MainTaskName <- BothMainOf
  Dependencies <- BothDeps
  FetchName <- BothAsks
  After <- BothAfter
SYMMETRY Symmetry
INVARIANTS
  MembersProtected
