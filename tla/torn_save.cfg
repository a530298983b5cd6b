SPECIFICATION Spec
CONSTANTS
    r1 = r1
    r2 = r2
    r3 = r3
    k1 = k1
    k2 = k2
    NoSession = NoSession
    NoRequest = NoRequest
    NoRound = NoRound
    Requests <- MCRequests
    Expected <- MCExpected
    Rounds <- OneRound
    Calls <- CommitCalls
    Faults <- TornFaults
    MaxIds = 2
    MaxHistory = 2
INVARIANTS
    CommitsAreDurable
CHECK_DEADLOCK FALSE
