SPECIFICATION Spec
CONSTANTS
    Players = {p1, p2, p3}
    Parties = {q1, q2}
    Calls = {a, b}
    NoPlayer = NoPlayer
    NoParty = NoParty
    NoCall = NoCall
    Capacity = 2
    Budget = 7
    MayGuess = TRUE
SYMMETRY Symmetry
INVARIANTS
    RosterSound
    ChecksAskMembers
PROPERTIES
    OnlyLeadersAct
    SuspendedNeverJoins
CHECK_DEADLOCK FALSE
