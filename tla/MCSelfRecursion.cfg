SPECIFICATION Spec
CONSTANTS
    self = self
    token = token
    revoke = revoke
    NoTask = NoTask
    Tasks = {t1}
    Credentials = {self}
    Keys = {token, revoke}
    Sends <- SelfSends
    InvalidateSends <- RevokeSends
    Protected = {self}
    MaxCalls = 1
    MaxSends = 1
INVARIANTS
    NoRecursiveFlow
CHECK_DEADLOCK FALSE
