SPECIFICATION Spec
CONSTANTS
  idle = idle  a = a  b = b  w = w
  timer = timer  external = external  ts = ts  cs = cs  mutex = mutex
  NULL = NULL
  Procs <- MCProcs
  Idle = idle
  MaxLevel = 3
  Priority <- MCPriority
  Semaphores = {ts, cs}
  Sections = {mutex}
  EventOrder <- MCEventOrder
  SemaOf <- MCSemaOf
  Callback = external
  PreemptionYields = FALSE
  Mortal = {a}
  Adjustable = {b}
  Suspendable = {a}
  YieldsBesideDead = FALSE
  SuspendsEnterers = FALSE
  MaxExcess = 1
  MaxCallouts = 2
  MaxStarts = 2
INVARIANTS
  NobodyPassedOver
  NobodyWaitsForWhatIsThere
  OnePlace
  HighestRuns
  PreemptedKeepTheirTurn
  MutualExclusion
  ReturnsToItsCallout
