SPECIFICATION Spec
CONSTANTS
    r1 = r1
    r2 = r2
    r3 = r3
    k1 = k1
    k2 = k2
    NoSession = NoSession
    NoRequest = NoRequest
    NoRound = NoRound
    Requests <- MCRequests
    Expected <- MCExpected
    Rounds <- TwoRounds
    Calls <- AllCalls
    Faults <- WholeFileFaults
    MaxIds = 3
    MaxHistory = 2
SYMMETRY RoundSymmetry
CHECK_DEADLOCK FALSE
INVARIANTS
    AnchoredOnce
    AgreedAnswers
    CommitsAreDurable
    Coupled
    DecisionsAreDurable
    RoundsFresh
PROPERTIES
    FailureRestores
    ImplementsLedger
