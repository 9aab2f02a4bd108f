SPECIFICATION Spec
CONSTANTS
    Conns = {c1, c2, c3}
    Players = {p1, p2}
    Channels = {ch1, ch2}
    Capacity = 1
    NoConn = NoConn
    NoPlayer = NoPlayer
    NoChannel = NoChannel
    Limit = 2
    Slots = {}
    Faults = {"unsent", "unanswered"}
    MayCrash = TRUE
    MayAge = FALSE
    MayRevalidate = FALSE
SYMMETRY Symmetry
INVARIANTS
    IndexSound
    IndexComplete
    PresenceOwned
CHECK_DEADLOCK FALSE
