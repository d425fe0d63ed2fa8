SPECIFICATION Spec
CONSTANTS
    Peers = {p1, p2}
    Kinds = {"audio", "video"}
    None = None
    MaxObjects = 3
    Budgets <- Undisturbed
INVARIANTS
    NoDuplicateConsumers
CHECK_DEADLOCK FALSE
