SPECIFICATION MCSpec
CONSTANTS
    a = a
    b = b
    Devices = {a, b}
    Skew <- MCSkew
    Earlier <- MCEarlier
    Writers = {a}
    BatchSize = 1
    CacheLimit = 2
    MaxMessages = 3
    MaxMishaps = 1
    MaxPending = 1
INVARIANTS
    TypeOK
    ShownOnceInOrder
    HistoryWithinReach
    StoredIsShown
    LoadingIsAnswered
CHECK_DEADLOCK FALSE
