SPECIFICATION StoreSpec
CONSTANTS
    Conns = {c1, c2, c3}
    Tickets = {t1, t2, t3}
    Players = {p1, p2}
    Channels = {ch1, ch2}
    Capacity = 1
    NoPlayer = NoPlayer
    NoChannel = NoChannel
    NoTicket = NoTicket
    ConcurrentIssue = FALSE
    MayAge = FALSE
SYMMETRY Symmetry
INVARIANTS
    AtMostOneSession
    ClaimsWithinCapacity
PROPERTIES
    ImplementsLedger
CHECK_DEADLOCK FALSE
