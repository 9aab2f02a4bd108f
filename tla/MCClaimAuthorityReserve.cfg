SPECIFICATION Spec
CONSTANTS
    Eligibilities <- MCEligibilities
    Core <- MCCore
    Wallets = {"w1", "w2"}
    NoOne = NoOne
    LastTime = 3
    Lifetime = 1
    Cap <- MCCap
    MinimumClaim = 1
    MaximumClaim = 2
    Fees = {0, 1}
    TokenRoom = 3
    FeeRoom = 1
    EpochRoom = 2
INVARIANTS
    HeldIsAccounted
    NeverOverCommitted
    AuthorizedIsEntitled
PROPERTIES
    AuthorizedOnce
CHECK_DEADLOCK FALSE
