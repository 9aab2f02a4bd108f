SPECIFICATION FairSpec
CONSTANTS
    Conns = {c1, c2}
    Players = {p1, p2}
    Channels = {ch1}
    Capacity = 1
    NoConn = NoConn
    NoPlayer = NoPlayer
    NoChannel = NoChannel
    Limit = 2
    Slots = {}
    Faults = {}
    MayCrash = FALSE
    MayAge = FALSE
    MayRevalidate = TRUE
PROPERTIES
    RevocationDisconnects
    
    ClosedSocketFinalized
CHECK_DEADLOCK FALSE
