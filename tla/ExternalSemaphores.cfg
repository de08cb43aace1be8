SPECIFICATION Spec
CONSTANTS
    Threads = {vm, worker}
    VMThread = vm
    MaxNesting = 2
    Signals = {usr}
    NoDefer = {}
    NumSignalRequests = 2
    InitialTableSize = 1
    MaxTide = 2147483647
    MaxCalls = 3
INVARIANTS
    NoLostRequest
    CheckIsSeen
    NoSelfDeadlock
    NoReentry
PROPERTIES
    Implements
