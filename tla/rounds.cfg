SPECIFICATION RoundSpec
CONSTANTS
    ayame = ayame
    bob = bob
    EndRound = EndRound
    Nobody = Nobody
    Characters <- MCCharacters
    PlayerControlled = {}
    Commits = {1, 2}
    Scenes <- MCScenes
    Faults <- MCFaults
    MaxRounds = 1
    LiveMaxAttempts = 5
    SemanticQaEnabled = TRUE
    RecorderEnabled = TRUE
CHECK_DEADLOCK FALSE
INVARIANTS
    RoundAccounted
    LanesJoined
PROPERTIES
    EligibleAtCommit
    RoundEnds
