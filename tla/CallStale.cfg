SPECIFICATION SyncSpec
CONSTANTS
    Peers = {p1, p2, p3}
    RoomIds = {r1}
    NoRoom = NoRoom
    MaxParticipants = 3
    MaxCallParticipants = 2
    MaxQueue = 1
    Callers = {p1, p2, p3}
    Talkers = {}
    MaxClients = 2
    MaxLost = 1
    MaxSent = 1
INVARIANT NoPastCallShown
CHECK_DEADLOCK FALSE
