SPECIFICATION Spec
CONSTANTS
    Peers = {p1, p2, p3}
    RoomIds = {r1, r2}
    NoRoom = NoRoom
    MaxParticipants = 2
    MaxCallParticipants = 1
    MaxQueue = 1
INVARIANTS
    TypeOK
    MembershipConsistent
    CapacityRespected
PROPERTIES
    SilentMemberEvicted
    ImplementsMembership
CHECK_DEADLOCK FALSE
