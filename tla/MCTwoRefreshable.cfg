SPECIFICATION DriveSpec
CONSTANTS
    r1 = r1
    r2 = r2
    session = session
    apiKey = apiKey
    DriveRequests = {r1}
    Credentials = {session, apiKey}
    Refreshable = {session, apiKey}
    Requirements <- DefaultRequirements
    MaxGeneration = 4
PROPERTIES
    RejectionInvalidatesAll
CHECK_DEADLOCK FALSE
