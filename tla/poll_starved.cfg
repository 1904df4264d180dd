SPECIFICATION Spec
CONSTANTS
    Concurrency = 1
    PollMin = 1
    PollMax = 4
    ReapInterval = 3
    HeartbeatInterval = 3
    MaxIdle = 8
    MaxFailed = 1
    MaxMissed = 1
PROPERTIES
    KeepsPolling
