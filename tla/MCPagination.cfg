SPECIFICATION FairSpec
CONSTANTS
    Calls <- AllCalls
    Total = 3
    MaxU64 = 7
    MaxU32 = 3
INVARIANTS
    CollectBounded
    NeverRepeated
    CollectedExactly
PROPERTIES
    CollectEnds
CHECK_DEADLOCK FALSE
