SPECIFICATION Spec
CONSTANTS
    Players = {p1, p2}
    Items = {i1}
    Gifts = {}
    Trades = {d1}
    MaxQty = 2
    Stock = 2
    MaxRev = 5
    MayConsume = TRUE
    MayLeave = FALSE
    MayBootstrap = TRUE
    MayAge = TRUE
    NoPlayer = NoPlayer
    NoDeal = NoDeal
SYMMETRY Symmetry
INVARIANTS
    SettledAsSeen
PROPERTIES
    OutcomeIsFinal
CHECK_DEADLOCK FALSE
