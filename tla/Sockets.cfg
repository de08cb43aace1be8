SPECIFICATION Spec
CONSTANTS
  Socks = {a, b}
  Fds = {3, 4}
  Overlap = FALSE
  NULL = NULL
INVARIANTS
  WatchesAreOwn
  DescriptorsAreOwned
PROPERTIES
  WaitersAreTold
CHECK_DEADLOCK FALSE
