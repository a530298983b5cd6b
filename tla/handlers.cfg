SPECIFICATION FairHandlersSpec
CONSTANTS
    l1 = l1
    l2 = l2
    Lanes = {l1, l2}
    MaxRequests = 4
    MaxFaults = 2
CHECK_DEADLOCK FALSE
INVARIANTS
    FinalizedOnce
    ToldIsSaved
PROPERTIES
    FinalizationsEnd
