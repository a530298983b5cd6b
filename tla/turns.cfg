SPECIFICATION FairSpec
CONSTANTS
    p1 = p1
    p2 = p2
    o1 = o1
    o2 = o2
    NoOperation = NoOperation
    Pages <- TwoPages
    Operations <- TwoOperations
    Faults <- EveryFault
INVARIANTS
    OneRoundAtATime
    NoFalseSuccess
    ShownOutcomeIsLatest
PROPERTIES
    PageUnlocks
