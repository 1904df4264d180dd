SPECIFICATION Spec
CONSTANTS
    PolicyChoices <- WidePolicies
    MaxCount = 1
    TicksPerMs = 2
    MaxScore <- SignedWidth
CHECK_DEADLOCK FALSE
INVARIANTS
    ScoresFitTheirWidth
