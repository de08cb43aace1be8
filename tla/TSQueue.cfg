SPECIFICATION Spec
CONSTANTS
  Producers = {p1, p2}
  Consumers = {c1, c2}
  Nodes = {n1, n2, n3}
  NULL = NULL
  Elements = {e1, e2}
  MaxPuts = 3
INVARIANTS
  NodesHaveOneOwner
  CountExact
PROPERTIES
  ImplementsFifo
  Drained
