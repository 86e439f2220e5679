SPECIFICATION FairSpec
CONSTANTS
    Tasks = {t1, t2}
    MaxGeneration = 3
    MaxOwner = 4
INVARIANTS
    LeaseIdentity
    RefreshHasOneOwner
    NoLostWakeup
    NoResurrection
PROPERTIES
    RejectedNeverServed
    ImplementsLeaseRegister
    CallReturns
