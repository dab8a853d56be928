SPECIFICATION FairSpec
CONSTANTS
  Clients = {c1}
  Workers = {w1, w2}
  None = None
  Starts = {"up"}
  Stops = {}
  Exits = {}
  Throwing = {}
  Fetches = {}
  MainTasks <- FanMains
  SubTasks <- FanSubs
  MainNames <- FanMains
  SubNames <- FanSubs
  MainName <- FanName
  SubName <- FanSubName
  SubtaskSize <- FanSize
  Priority <- FanPrio
  MainTaskName <- FanMainOf
  Dependencies <- FanDeps
  FetchName <- FanAsks
  After <- FanAfter
CHECK_DEADLOCK FALSE
PROPERTIES
  DependentsDoNotStarve
