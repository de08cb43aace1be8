SPECIFICATION Spec
CONSTANTS
  Worker = worker
  Foreign = {f}
  CallerSets = {{worker}, {f}}
  Callouts = {c1, c2, c3}
  Invocations = {v1, v2}
  CallsOverlap = FALSE
  NULL = NULL
INVARIANTS
  ReturnsInOrder
  StackIsExact
  NobodyLeftBehind
PROPERTIES
  CallsEnd
CHECK_DEADLOCK FALSE
