SPECIFICATION Spec
CONSTANTS
    w1 = w1
    w2 = w2
    w3 = w3
    Nil = Nil
    Jobs = {1, 2}
    Workers = {w1, w2, w3}
    Tokens = {t1, t2}
    Times = {1, 2, 3}
    LeaseDuration = 1
    Capacities = {1, 2}
    ReapLimits = {1, 2}
    Policies <- MCPolicies
    PolicyOf <- MCPolicyOf
    RetryDelay <- MCRetryDelay
    MaxFailures = 3
SYMMETRY StoreSymmetry
INVARIANTS
    TypeOK
    SingleMembership
    LeaseHasHolder
    RerunOnlyWhileLeased
    LeaseCountsMatch
    OnePolicy
    FailuresWithinBudget
    FailedHasHistory
PROPERTIES
    FailureHistoryKept
    RerunNotLost
    ImplementsLifecycle
