------------------------- MODULE MCDriveExecutions -------------------------
(* Instances: requests that share a refreshable credential, `session`, and *)
(* a second one that is refreshable or manual.                             *)
EXTENDS DriveExecutions, TLC

CONSTANTS r1, r2, session, apiKey

Requirement(c, p) == [credential |-> c, challenge |-> p]

\* r1 carries both credentials, r2 only the session
SharedRequirements ==
    (r1 :> <<Requirement(session, "Unauthorized"),
             Requirement(apiKey, "UnauthorizedOrForbidden")>>)
    @@ (r2 :> <<Requirement(session, "UnauthorizedOrForbidden")>>)

\* One request with the default challenge policy for two refreshable credentials
DefaultRequirements ==
    r1 :> <<Requirement(session, "Unauthorized"), Requirement(apiKey, "Unauthorized")>>
=============================================================================
