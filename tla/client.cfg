SPECIFICATION ClientSpec
CONSTANTS
    Nil = Nil
    w1 = w1
    t1 = t1
    Jobs = {1, 2}
    Workers = {w1}
    Tokens = {t1}
    Times = {1, 2}
    LeaseDuration = 1
    Capacities = {1}
    ReapLimits = {1}
    Policies <- MCPolicies
    PolicyOf <- MCPolicyOf
    RetryDelay <- MCRetryDelay
    MaxFailures = 1
    Asked = {1}
    Limits = {1}
    Batches <- MCBatches
INVARIANTS
    LookupMissesOnlyBackwardMoves
    CountsCoverTheQueue
    ListingDisturbedOnlyByMoves
    OkMeansRun
PROPERTIES
    StatusIsWhatHappened
