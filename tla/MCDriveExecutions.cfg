SPECIFICATION DriveSpec
CONSTANTS
    r1 = r1
    r2 = r2
    session = session
    apiKey = apiKey
    DriveRequests = {r1, r2}
    Credentials = {session, apiKey}
    Refreshable = {session}
    Requirements <- SharedRequirements
    MaxGeneration = 2
INVARIANTS
    BoundedExecutions
    SettledStaysGone
    RemovalWasChallenged
    ResendIsFresh
CHECK_DEADLOCK FALSE
