SPECIFICATION Spec
CONSTANTS
    Conns = {c1, c2}
    Players = {p1, p2}
    Channels = {ch1, ch2}
    Capacity = 1
    NoConn = NoConn
    NoPlayer = NoPlayer
    NoChannel = NoChannel
    Limit = 2
    Slots = {s1}
    Faults = {}
    MayCrash = FALSE
    MayAge = TRUE
    MayRevalidate = FALSE
SYMMETRY Symmetry
INVARIANTS
    ShownWhereItIs
    SessionOwned
CHECK_DEADLOCK FALSE
