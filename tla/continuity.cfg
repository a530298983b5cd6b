SPECIFICATION Spec
CONSTANTS
    alice = alice
    bob = bob
    carol = carol
    control = control
    access = access
    safety = safety
    NoPressure = NoPressure
    NoWords = NoWords
    here = here
    CastOrder <- MCCast
    PressureKinds = {control, access, safety}
    NoKind = NoPressure
    MaxActive = 2
    StallThreshold = 2
    Subjects = {here}
    NoSubject = NoWords
    Slots = {1, 2}
    SummaryInterval = 2
    RecentWindow = 1
    Setups <- MCSetups
    Moves <- MCMoves
CHECK_DEADLOCK FALSE
PROPERTIES
    ResolvedStays
    KnowledgeHasATeller
    WhispersAreKept
