SPECIFICATION FairSpec
CONSTANTS
    Worlds = {square, meadow}
    NoState = NoState
    MaxMoves = 3
    Budget = 3
INVARIANTS
    CurrentSavesFitWorld
PROPERTIES
    NeverStale
    ResetStands
    SaveSettles
CHECK_DEADLOCK FALSE
