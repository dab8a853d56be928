SPECIFICATION Spec
CONSTANTS
  Clients = {c1}
  Workers = {w1, w2}
  None = None
  Starts = {"up"}
  Stops = {"down"}
  Exits = {"exit"}
  Throwing = {}
  Fetches <- ExitGets
  MainTasks <- ExitMains
  SubTasks <- ExitSubs
  MainNames <- ExitMains
  SubNames <- ExitSubs
  MainName <- ExitName
  SubName <- ExitSubName
  SubtaskSize <- ExitSize
  Priority <- ExitPrio
  MainTaskName <- ExitMainOf
  Dependencies <- ExitDeps
  FetchName <- ExitAsks
  After <- ExitAfter
SYMMETRY Symmetry
INVARIANTS
  ExitIsSafe
