SPECIFICATION FairSpec
CONSTANTS
    Challenges = {c1, c2}
    Requests = {r1, r2}
    NoRequest = NoRequest
    MaxAmount = 1
    MaxSlot = 2
    MaxVersion = 2
    MaxFaults = 1
INVARIANTS
    OneActive
    ActiveIsPaid
PROPERTIES
    SessionsOnlyMoveOn
    ClaimIsExclusive
    DueIsChecked
CHECK_DEADLOCK FALSE
