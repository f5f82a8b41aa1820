SPECIFICATION Spec
CONSTANTS
  Task = {1, 2, 3}
  Pip = 0
  Raises = TRUE
  ByWaiters = TRUE
  MaxDepth = 3
INVARIANTS
  MutualExclusion
  Counted
CHECK_DEADLOCK FALSE
