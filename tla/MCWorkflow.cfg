SPECIFICATION Spec
CONSTANTS
    Plans <- MCPlans
    MaxSteps = 3
    MaxItems = 2
    Pool = 2
    Isolated <- MCIsolated
    MaxLives = 2
    MaxFaults = 1
    Origins <- MCOrigins
    LateRejections = FALSE
INVARIANTS AnswersRight TreesOnRecord
PROPERTIES WorkStands CancelEnds
CHECK_DEADLOCK FALSE
