SPECIFICATION Spec
CONSTANTS
    Peers = {p1, p2}
    Kinds = {"audio", "video"}
    None = None
    MaxObjects = 3
    Budgets <- OneCallOrMore
INVARIANTS
    TypeOK
    NobodyMissed
    RoomHasPeers
    SpeakerKnown
    CallbacksMatch
PROPERTIES
    LeaversForgotten
    OperationsEnd
CHECK_DEADLOCK FALSE
