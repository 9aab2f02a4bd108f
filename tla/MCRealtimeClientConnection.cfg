SPECIFICATION FairLink
CONSTANTS
    Sockets = {s1, s2, s3}
    NoSocket = NoSocket
    MaxAttempts = 2
    MaxDisturbances = 4
INVARIANTS
    NeverStranded
PROPERTIES
    DisposedIsFinal
    Settles
CHECK_DEADLOCK FALSE
