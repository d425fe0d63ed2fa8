SPECIFICATION MCSpec
CONSTANTS
    Peers = {p1, p2, p3}
    RoomIds = {r1}
    NoRoom = NoRoom
    MaxParticipants = 3
    MaxCallParticipants = 2
    MaxQueue = 2
    Callers = {p1, p2, p3}
    Talkers = {p1, p2, p3}
    MaxClients = 3
    MaxLost = 2
    MaxSent = 1
SYMMETRY Symmetry
INVARIANTS
    PeersConverge
    CallConverges
    NoStrangerSignal
CHECK_DEADLOCK FALSE
