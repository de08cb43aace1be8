SPECIFICATION PollSpec
CONSTANTS
    Signallers = {s1, s2}
    Waits = {500, 1000, 20000}
    PipeSize = 2
    MaxTokens = 2
INVARIANTS
    NoMissedWakeup
    HeartbeatNotStuck
PROPERTIES
    RequestsAnswered
    HeartbeatResumes
    WakeupsSpent
