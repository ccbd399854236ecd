SPECIFICATION Spec
CONSTANTS
    Plans <- MCSingle
    MaxSteps = 3
    MaxItems = 2
    Pool = 2
    Isolated <- MCIsolated
    MaxLives = 2
    MaxFaults = 1
    Origins <- MCSingleOrigins
    LateRejections = TRUE
INVARIANTS NoWorkForgotten

CHECK_DEADLOCK FALSE
