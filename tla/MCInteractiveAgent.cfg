SPECIFICATION FairSpec
CHECK_DEADLOCK FALSE
CONSTANTS
    act1 = act1
    act2 = act2
    Call <- Two
    Plans <- MCPlans
INVARIANTS EndpointSafe
PROPERTIES SettledByItsOwn CallsSettle
