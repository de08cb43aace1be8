SPECIFICATION Spec
CONSTANTS
  idle = idle  a = a  b = b  w = w
  timer = timer  external = external  ts = ts  cs = cs  mutex = mutex
  NULL = NULL
  Procs <- MCProcs
  Idle = idle
  MaxLevel = 3
  Priority <- MCPriority
  Semaphores = {ts, cs}
  Sections = {mutex}
  EventOrder <- MCEventOrder
  SemaOf <- MCSemaOf
  Callback = external
  PreemptionYields = TRUE
  Mortal = {}
  Adjustable = {}
  Suspendable = {w}
  YieldsBesideDead = FALSE
  SuspendsEnterers = FALSE
  MaxExcess = 1
  MaxCallouts = 2
  MaxStarts = 1
PROPERTIES
  EventsWake
