SPECIFICATION FairStore
CONSTANTS
    Conns = {c1, c2}
    Tickets = {t1, t2}
    Players = {p1, p2}
    Channels = {ch1, ch2}
    Capacity = 1
    NoPlayer = NoPlayer
    NoChannel = NoChannel
    NoTicket = NoTicket
    ConcurrentIssue = TRUE
    MayAge = TRUE
INVARIANTS
    TicketConsumedOnce
PROPERTIES
    ClosedIsFinal
    TransactionsEnd
    ImplementsOverlapLedger
CHECK_DEADLOCK FALSE
