SPECIFICATION Spec
CONSTANTS
    Players = {p1, p2}
    Items = {i1}
    Gifts = {g1}
    Trades = {d1}
    MaxQty = 1
    Stock = 1
    MaxRev = 5
    MayConsume = FALSE
    MayLeave = TRUE
    MayBootstrap = FALSE
    MayAge = TRUE
    NoPlayer = NoPlayer
    NoDeal = NoDeal
SYMMETRY Symmetry
INVARIANTS
    ReservationsBacked
PROPERTIES
    ImplementsExchange
CHECK_DEADLOCK FALSE
