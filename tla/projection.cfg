SPECIFICATION FairSpec
CONSTANTS
    ann = ann
    heard = heard
    seen = seen
    rumour = rumour
    Characters = {ann}
    Events = {heard, seen}
    Strange = {rumour}
    Candidates = {1, 2, 3, 4}
    OfTheRound = {3, 4}
    Applies <- MCApplies
    Basis <- MCBasis
    MaxGenerated = 4
    MaxEvaluated = 2
    MaxProjected = 1
    Rewrites = {1}
    MaxRounds = 2
    MaxPhases = 2
    MaxChanges = 1
    MaxFaults = 1
CHECK_DEADLOCK FALSE
INVARIANTS
    AdviceWasJudged
    AllAccountedFor
PROPERTIES
    PhasesEnd
