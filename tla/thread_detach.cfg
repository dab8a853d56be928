SPECIFICATION Spec
CONSTANTS
  Objects = {o1}
  Handles = {h1}
  Functions = {f1}
  Throwing = {}
  Null = Null
INVARIANTS
  TaskSaved
CHECK_DEADLOCK FALSE
