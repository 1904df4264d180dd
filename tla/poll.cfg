SPECIFICATION Spec
CONSTANTS
    Concurrency = 2
    PollMin = 1
    PollMax = 2
    ReapInterval = 10
    HeartbeatInterval = 15
    MaxIdle = 11
    MaxFailed = 2
    MaxMissed = 2
INVARIANTS
    PollGapBounded
PROPERTIES
    KeepsPolling
    WorkIsTaken
    CatalogHeals
