SPECIFICATION FairWorkerSpec
CONSTANTS
    Nil = Nil
    w1 = w1
    w2 = w2
    Jobs = {1}
    Workers = {w2}
    Tokens = {t1, t2}
    Times = {1, 2}
    LeaseDuration = 1
    Capacities = {1, 2}
    ReapLimits = {1, 2}
    Policies <- MCPolicies
    PolicyOf <- MCPolicyOf
    RetryDelay <- MCRetryDelay
    MaxFailures = 3
    Concurrency <- OneAtATime
    Outcomes <- MCLiveOutcomes
    Faults = 2
PROPERTIES
    ResultsAreReported
    EveryLeaseEnds
