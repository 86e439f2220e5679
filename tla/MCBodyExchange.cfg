SPECIFICATION ExchangeSpec
CONSTANTS
    Plans <- AllPlans
    MaxFrame = 3
    MaxBytes = 4
INVARIANTS
    SentAsDeclared
    RefusalIsJust
    HintsConsistent
    WholeResponse
CHECK_DEADLOCK FALSE
