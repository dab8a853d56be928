SPECIFICATION Spec
CONSTANTS
  Objects = {o1, o2, o3}
  Handles = {h1, h2}
  Functions = {f1, f2, bad}
  Throwing = {bad}
  Null = Null
INVARIANTS
  TypeOK
  OneOwner
  HandlesValid
  FunctionKept
CHECK_DEADLOCK FALSE
