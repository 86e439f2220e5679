SPECIFICATION FairSpec
CONSTANTS
    leaf = leaf
    mid = mid
    self = self
    leafKey = leafKey
    midKey = midKey
    selfKey = selfKey
    NoTask = NoTask
    Tasks = {t1, t2, t3}
    Credentials = {leaf, mid, self}
    Keys = {leafKey, midKey, selfKey}
    Sends <- NestedSends
    InvalidateSends <- NestedInvalidates
    Protected = {leaf, mid}
    MaxCalls = 1
    MaxSends = 2
INVARIANTS
    NoRecursiveFlow
    OnlyRecursionRefused
    NoWaitCycle
PROPERTIES
    CallReturns
CHECK_DEADLOCK FALSE
