SPECIFICATION Spec
CONSTANTS
    Sockets = {s1, s2, s3}
    NoSocket = NoSocket
    MaxAttempts = 2
    MaxActs = 3
PROPERTIES
    ReplacedSocketsAreSilent
CHECK_DEADLOCK FALSE
