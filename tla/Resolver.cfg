SPECIFICATION ResolverSpec
CONSTANTS
  MaxLookupWorkers = 2
  Semas = {1, 2}
  MaxGeneration = 4
INVARIANTS
  ResultIsOfLastLookup
  NoCodeUnmapped
PROPERTIES
  SignalsFindTheirSession
  LookupsEnd
CHECK_DEADLOCK FALSE
