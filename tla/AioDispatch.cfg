SPECIFICATION Spec
CONSTANTS
  f1 = f1
  f2 = f2
  f3 = f3
  Fds = {f1, f2, f3}
  Nodes = {d1, d2, d3}
  Kinds <- MCKinds
  Masks <- MCMasks
  EventsSize = 4
  NULL = NULL
INVARIANTS
  EventsNameLiveNodes
PROPERTIES
  RefusedAreReported
