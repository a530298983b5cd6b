SPECIFICATION LanesSpec
CONSTANTS
    alice = alice
    bob = bob
    player = player
    hall = hall
    yard = yard
    a = a
    b = b
    Cast <- MCCast
    Player = player
    Zones = {hall, yard}
    Nowhere = Nowhere
    NoPortal = NoPortal
    NoVoice = NoVoice
    Letters = {a, b}
    Space = Space
    Mark = Mark
    Setups <- MCSetups
    Turns <- MCTurns
    Answers <- MCAnswers
    Moves <- MCMoves
    Tales <- MCTales
    MaxEntries <- MCMaxEntries
CHECK_DEADLOCK FALSE
INVARIANTS
    WhispersStayWithinEarshot
    PlayerHeardAsQuoted
PROPERTIES
    RememberedIsShown
