SPECIFICATION Spec
CONSTANTS
    PolicyChoices <- SmallPolicies
    MaxCount = 5
    TicksPerMs = 1
    MaxScore = 0
CHECK_DEADLOCK FALSE
INVARIANTS
    DelayFollowsClosedForm
    BudgetExact
PROPERTIES
    DelaysNeverShrink
