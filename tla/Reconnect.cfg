SPECIFICATION Spec
CONSTANTS
    Sockets = {s1, s2, s3, s4}
    NoSocket = NoSocket
    MaxAttempts = 2
    MaxActs = 4
INVARIANTS
    TypeOK
    ConnectedIsWatched
    ReconnectingIsTrying
PROPERTIES
    ReconnectEnds
    SilenceIsNoticed
CHECK_DEADLOCK FALSE
