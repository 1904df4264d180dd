SPECIFICATION AdminSpec
CONSTANTS
    Nil = Nil
    w1 = w1
    w2 = w2
    t1 = t1
    t2 = t2
    Jobs = {1, 2}
    Workers = {w1}
    Tokens = {t1, t2}
    Times = {1, 2, 4}
    LeaseDuration = 1
    StaleAfter = 2
    Capacities = {1, 2}
    ReapLimits = {1}
    Policies <- MCPolicies
    PolicyOf <- MCPolicyOf
    RetryDelay <- MCRetryDelay
    MaxFailures = 2
SYMMETRY AdminSymmetry
PROPERTIES
    PrunesOnlyInactive
