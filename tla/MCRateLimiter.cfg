SPECIFICATION Spec
CONSTANTS
    c1 = c1
    c2 = c2
    c3 = c3
    c4 = c4
    Callers = {c1, c2, c3, c4}
    Scenarios <- MCScenarios
    Responses <- MCResponses
    MaxTime = 4
INVARIANTS
    QuotaRespected
    StoredCooldownHonoured
    TablesBounded
SYMMETRY Twins
CHECK_DEADLOCK FALSE
