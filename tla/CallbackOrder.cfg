SPECIFICATION SafeSpec
CONSTANTS
  Worker = worker
  Foreign = {}
  CallerSets = {{worker}}
  Callouts = {c1, c2}
  Invocations = {v1, v2}
  CallsOverlap = TRUE
  NULL = NULL
INVARIANTS
  ReturnsInOrder
CHECK_DEADLOCK FALSE
