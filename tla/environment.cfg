SPECIFICATION Spec
CONSTANTS
    hall = hall
    yard = yard
    lamp = lamp
    door = door
    lit = lit
    dark = dark
    ada = ada
    bo = bo
    scene = scene
    left_out = left_out
    nobody = nobody
    Missing = left_out
    Nobody = nobody
    Sessions <- MCSessions
    Places <- MCPlaces
    Keys <- MCKeys
    Authored <- MCAuthored
    Cast <- MCCast
    Answers <- MCAnswers
    Access <- MCAccess
    Knowers <- MCKnowers
    Skips <- MCSkips
    Budget = 1
    MaxTurns = 2
    MaxCrashes = 1
    MaxFailures = 1
CHECK_DEADLOCK FALSE
INVARIANTS
    AcceptedStands
    UndeterminedInventsNothing
PROPERTIES
    PromotionCatchesUp
