SPECIFICATION Spec
CONSTANTS
    Peers = {p1, p2}
    Kinds = {"audio", "video"}
    None = None
    MaxObjects = 3
    Budgets <- TwoMishaps
INVARIANTS
    RoomCleanedUp
CHECK_DEADLOCK FALSE
