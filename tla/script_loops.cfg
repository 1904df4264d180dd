SPECIFICATION Spec
CONSTANTS
    Nil = Nil
    Jobs = {1, 2, 3}
    Workers = {w1, w2}
    Times = {1, 2}
    LeaseDuration = 1
    Capacities = {1, 2, 3}
    ReapLimits = {1, 2, 3}
CHECK_DEADLOCK FALSE
INVARIANTS
    GrantsTheEarliest
    NothingLost
    LeasesAsGranted
    ReapsTheEarliest
